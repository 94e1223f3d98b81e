------------------------- MODULE AuthSessions_proofs -------------------------
(***************************************************************************)
(* Proofs about AuthSessions. A step does one of few things to a refresh   *)
(* token and to the request a worker serves; the lemmas of the first part  *)
(* say which, and the invariants follow from them alone.                   *)
(***************************************************************************)
EXTENDS AuthSessions, FiniteSetTheorems, TLAPS

-----------------------------------------------------------------------------
(* Rows and requests: ids are handed out once.                              *)

\* A request that holds the id its session will be issued under.
Granting == {"issue", "revoke"}

TokenKnown(t) == /\ token[t].status = "free" => token[t] = NoToken
                 /\ token[t].status # "free" => /\ token[t].user \in Users
                                                /\ token[t].session \in Tokens

LinkKnown(l) == link[l].status = "sent" => link[l].user \in Users

RequestKnown(w) ==
  Busy(w) =>
    /\ job[w].at \in Granting => /\ job[w].token \in Tokens /\ job[w].session \in Tokens
                                 /\ token[job[w].token].status = "free"
    /\ job[w].at \notin Granting => /\ job[w].token = Nil /\ job[w].session = Nil
                                    /\ job[w].parent = Nil
    /\ job[w].at = "revoke" => /\ job[w].parent \in Tokens /\ job[w].via = Nil
                               /\ token[job[w].parent].status # "free"

\* Two requests never hold the same id.
Apart(w, x) == (Busy(w) /\ Busy(x) /\ w # x /\ job[w].token # Nil)
                 => job[w].token # job[x].token

KnownInv ==
  /\ TypeOK
  /\ \A t \in Tokens : TokenKnown(t)
  /\ \A l \in Links : LinkKnown(l)
  /\ \A w \in Workers : RequestKnown(w)
  /\ \A w, x \in Workers : Apart(w, x)

-----------------------------------------------------------------------------
(* The inductive invariants of the theorems.                                *)

\* The session a request serves is as young as the account's last revocation,
\* or was being served then.
Survives(w) == (Busy(w) /\ job[w].at \in Granting)
                 => \/ job[w].origin = epoch[job[w].user]
                    \/ job[w].session \in survivors

SurvivorInv == OnlySurvivors /\ \A w \in Workers : Survives(w)

\* Nothing of a sign-in exists before its callback; then one thing does.
OfSignIn(s) ==
  /\ appleTx[s] # "consumed" => /\ \A t \in Tokens : token[t].via # s
                                /\ \A w \in Workers : Busy(w) => job[w].via # s
  /\ \A t, n \in Tokens : (token[t].via = s /\ token[n].via = s) => t = n
  /\ \A t \in Tokens, w \in Workers : (token[t].via = s /\ Busy(w)) => job[w].via # s
  /\ \A w, x \in Workers : (Busy(w) /\ Busy(x) /\ job[w].via = s /\ job[x].via = s) => w = x

SignInInv == \A s \in States : OfSignIn(s)

\* What a token was, and is being, exchanged for: nothing before it is revoked.
Children(t) == {n \in Tokens : token[n].parent = t}
Exchanging(t) == {w \in Workers : Busy(w) /\ job[w].parent = t}

ExchangeInv ==
  \A t \in Tokens :
    /\ token[t].status \in {"free", "issued"} =>
         Children(t) = {} /\ \A w \in Exchanging(t) : job[w].at = "revoke"
    /\ Cardinality(Children(t)) + Cardinality(Exchanging(t)) <= Cardinality(Workers)

\* The usable links of an account, and the requests about to send it one.
UsableOf(u) == {l \in Links : Usable(l) /\ link[l].user = u}
SendingTo(u) == {w \in Workers : Busy(w) /\ job[w].at = "send" /\ job[w].user = u}

LinkInv ==
  \A u \in Users : Cardinality(UsableOf(u)) + Cardinality(SendingTo(u)) <= Cardinality(Workers)

-----------------------------------------------------------------------------
(* What a step does to a token and to a request.                            *)

\* A token that is handed out keeps what it says, and is never valid again.
Ages(t) ==
  /\ token'[t].user = token[t].user /\ token'[t].session = token[t].session
  /\ token'[t].parent = token[t].parent /\ token'[t].via = token[t].via
  /\ token'[t].origin = token[t].origin
  /\ token[t].status = "free" => token'[t] = token[t]
  /\ token[t].status # "free" => token'[t].status \in {token[t].status, "revoked", "deleted"}
  /\ token[t].expired => token'[t].expired

TokensAge == \A t \in Tokens : Ages(t)

Rests(w) == job'[w] = job[w] \/ job'[w] = Idle

ParentRevoked(w) == /\ Busy(w) /\ job[w].at = "revoke"
                    /\ job'[w] = [job[w] EXCEPT !.at = "issue"]
                    /\ token'[job[w].parent].status = "revoked"

\* The sign-in a request is of: the one it was of, or one just called back.
ViaKept(w) == \/ job'[w].via = Nil
              \/ Busy(w) /\ job'[w].via = job[w].via
              \/ appleTx[job'[w].via] = "open" /\ appleTx'[job'[w].via] = "consumed"

\* The request holds no session yet.
Waits(w) == /\ job'[w] \in Jobs /\ job'[w].at \notin Granting
            /\ job'[w].at = "send" => InvalidateLinks(w)
            /\ job'[w].token = Nil /\ job'[w].session = Nil /\ job'[w].parent = Nil
            /\ ViaKept(w)

NewSession(w) == /\ job'[w] \in Jobs /\ job'[w].at = "issue" /\ job'[w].parent = Nil
                 /\ job'[w].token \in FreshTokens /\ job'[w].session = job'[w].token
                 /\ job'[w].origin = epoch[job'[w].user]
                 /\ ViaKept(w)

Exchange(w) == /\ ~Busy(w)
               /\ job'[w] \in Jobs /\ job'[w].at = "revoke" /\ job'[w].token \in FreshTokens
               /\ job'[w].parent \in Tokens /\ Valid(job'[w].parent)
               /\ job'[w].session = token[job'[w].parent].session
               /\ job'[w].origin = token[job'[w].parent].origin
               /\ job'[w].user = token[job'[w].parent].user
               /\ job'[w].via = Nil

StepOf(w) == /\ \A x \in Workers \ {w} : job'[x] = job[x]
             /\ ParentRevoked(w) \/ Waits(w) \/ NewSession(w) \/ Exchange(w)

JobsStep == (\A w \in Workers : Rests(w)) \/ (\E w \in Workers : StepOf(w))

Consumed == \A s \in States : appleTx[s] = "consumed" => appleTx'[s] = "consumed"

\* What every step but the issue of a token does; Granting requests only start
\* while the revocations of their account are what they were.
Shape == /\ TypeOK' /\ TokensAge /\ JobsStep /\ Consumed

LEMMA UnchangedAges == ASSUME UNCHANGED token PROVE TokensAge
  BY DEF TokensAge, Ages

\* A worker that starts serving j, one that turns to it, and one that ends.
LEMMA JobTyped ==
  ASSUME TypeOK, NEW w \in Workers, NEW j \in Jobs \cup {Idle}, job' = [job EXCEPT ![w] = j]
  PROVE  /\ job' \in [Workers -> Jobs \cup {Idle}]
         /\ job'[w] = j
         /\ \A x \in Workers \ {w} : job'[x] = job[x]
  BY DEF TypeOK

LEMMA RequestTyped ==
  ASSUME NEW op \in HandlerKinds, NEW u \in Users,
         NEW at \in {"createUser", "issue", "revoke", "endSessions", "suspend", "invalidate",
                     "send", "apply", "link"}
  PROVE  Request(op, at, u) \in Jobs
  BY DEF Request, Jobs, OrNil

LEMMA FreshKnown ==
  ASSUME KnownInv, NEW t \in FreshTokens
  PROVE  /\ t \in Tokens /\ token[t] = NoToken
         /\ \A x \in Workers : Busy(x) => job[x].token # t
  BY DEF FreshTokens, KnownInv, TokenKnown

LEMMA NotIdle ==
  ASSUME TypeOK, NEW w \in Workers, Busy(w)
  PROVE  job[w] \in Jobs
  BY DEF TypeOK, Busy

\* A request that starts without a session.
LEMMA WaitShape ==
  ASSUME KnownInv, NEW w \in Workers, NEW j \in Jobs, Begin(w, j),
         UNCHANGED <<tables, memory, history>>,
         j.at \notin Granting \cup {"send"}, j.token = Nil, j.session = Nil, j.parent = Nil, j.via = Nil
  PROVE  Shape
<1>1. job' \in [Workers -> Jobs \cup {Idle}] /\ job'[w] = j
      /\ \A x \in Workers \ {w} : job'[x] = job[x]
  BY JobTyped DEF Begin, KnownInv
<1>2. requests' \in 0..MaxRequests
  BY AuthAssumption DEF Begin, KnownInv, TypeOK, AuthAssumption
<1>3. TypeOK'
  BY <1>1, <1>2 DEF KnownInv, TypeOK, tables, memory, history, Valid, Usable
<1>4. Waits(w)
  BY <1>1 DEF Waits, ViaKept
<1>5. TokensAge
  BY UnchangedAges DEF tables
<1>6. QED
  BY <1>1, <1>3, <1>4, <1>5 DEF Shape, JobsStep, StepOf, Consumed, memory

\* One that starts with a new session, signing in with an account it knows.
LEMMA GrantShape ==
  ASSUME KnownInv, NEW w \in Workers, NEW j \in Jobs, NEW t \in FreshTokens,
         Begin(w, Granted(j, t)), UNCHANGED <<tables, memory, history>>,
         j.at = "issue", j.parent = Nil, j.via = Nil
  PROVE  Shape
<1>1. t \in Tokens
  BY FreshKnown
<1>2. epoch[j.user] \in Nat
  BY DEF KnownInv, TypeOK, Jobs
<1>3. Granted(j, t) \in Jobs
  BY <1>1, <1>2 DEF Granted, Jobs, OrNil
<1>4. job' \in [Workers -> Jobs \cup {Idle}] /\ job'[w] = Granted(j, t)
      /\ \A x \in Workers \ {w} : job'[x] = job[x]
  BY <1>3, JobTyped DEF Begin, KnownInv
<1>5. requests' \in 0..MaxRequests
  BY AuthAssumption DEF Begin, KnownInv, TypeOK, AuthAssumption
<1>6. TypeOK'
  BY <1>4, <1>5 DEF KnownInv, TypeOK, tables, memory, history
<1>7. NewSession(w)
  BY <1>1, <1>3, <1>4 DEF NewSession, ViaKept, Granted, Jobs
<1>8. TokensAge
  BY UnchangedAges DEF tables
<1>9. QED
  BY <1>4, <1>6, <1>7, <1>8 DEF Shape, JobsStep, StepOf, Consumed, memory

\* Requests that wait: their rows are read, nothing is granted.
LEMMA RequestShape ==
  ASSUME KnownInv, NEW w \in Workers, NEW u \in Users,
         \/ Register(w, u) \/ ChangePassword(w, u) \/ RemoveUser(w, u) \/ ForgotPassword(w, u)
  PROVE  Shape
<1>1. PICK op \in HandlerKinds, at \in {"createUser", "endSessions", "invalidate"} :
        Begin(w, Request(op, at, u))
  BY Zenon DEF Register, ChangePassword, RemoveUser, ForgotPassword, HandlerKinds
<1>2. UNCHANGED <<tables, memory, history>>
  BY DEF Register, ChangePassword, RemoveUser, ForgotPassword
<1> DEFINE j == Request(op, at, u)
<1>3. j \in Jobs
  BY RequestTyped
<1>4. /\ j.at = at /\ j.token = Nil /\ j.session = Nil /\ j.parent = Nil /\ j.via = Nil
  BY DEF Request
<1>5. j.at \notin Granting \cup {"send"}
  BY <1>4 DEF Granting
<1> HIDE DEF j
<1>6. QED
  BY <1>1, <1>2, <1>3, <1>4, <1>5, WaitShape DEF j

LEMMA LoginShape ==
  ASSUME KnownInv, NEW w \in Workers, NEW u \in Users, Login(w, u)
  PROVE  Shape
<1> DEFINE j == Request("login", "issue", u)
<1>1. PICK t \in FreshTokens : Begin(w, Granted(j, t))
  BY DEF Login
<1>2. UNCHANGED <<tables, memory, history>>
  BY DEF Login
<1>3. j \in Jobs
  BY RequestTyped DEF HandlerKinds
<1>4. j.at = "issue" /\ j.parent = Nil /\ j.via = Nil
  BY DEF Request
<1> HIDE DEF j
<1>5. QED
  BY <1>1, <1>2, <1>3, <1>4, GrantShape

LEMMA ResetShape ==
  ASSUME KnownInv, NEW w \in Workers, NEW l \in Links, ResetPassword(w, l)
  PROVE  Shape
<1> DEFINE r == Request("reset", "apply", link[l].user)
           j == [r EXCEPT !.link = l]
<1>1. Begin(w, j) /\ UNCHANGED <<tables, memory, history>>
  BY DEF ResetPassword
<1>2. link[l].user \in Users
  BY DEF ResetPassword, Usable, KnownInv, LinkKnown
<1>3. r \in Jobs
  BY <1>2, RequestTyped DEF HandlerKinds
<1>4. j \in Jobs
  BY <1>3 DEF Jobs, OrNil
<1>5. j.at = "apply" /\ j.token = Nil /\ j.session = Nil /\ j.parent = Nil /\ j.via = Nil
  BY DEF Request
<1> HIDE DEF j
<1>6. QED
  BY <1>1, <1>4, <1>5, WaitShape DEF Granting

LEMMA RefreshShape ==
  ASSUME KnownInv, NEW w \in Workers, NEW t \in Tokens, Refresh(w, t)
  PROVE  Shape /\ Exchange(w) /\ job'[w].parent = t
<1> DEFINE r == Request("refresh", "revoke", token[t].user)
           J(n) == [r EXCEPT !.token = n, !.session = token[t].session, !.parent = t,
                             !.origin = token[t].origin]
<1>1. PICK n \in FreshTokens : Begin(w, J(n))
  BY DEF Refresh
<1>2. Valid(t) /\ UNCHANGED <<tables, memory, history>>
  BY DEF Refresh, Refreshable
<1>3. token[t].user \in Users /\ token[t].session \in Tokens /\ token[t].origin \in Nat
  BY <1>2 DEF Valid, KnownInv, TokenKnown, TypeOK, TokenRows
<1>4. r \in Jobs
  BY <1>3, RequestTyped DEF HandlerKinds
<1>5. n \in Tokens
  BY FreshKnown
<1>6. J(n) \in Jobs
  BY <1>3, <1>4, <1>5 DEF Jobs, OrNil
<1>7. /\ J(n).at = "revoke" /\ J(n).token = n /\ J(n).session = token[t].session
      /\ J(n).parent = t /\ J(n).origin = token[t].origin /\ J(n).user = token[t].user
      /\ J(n).via = Nil
  BY DEF Request
<1> HIDE DEF J
<1>8. job' \in [Workers -> Jobs \cup {Idle}] /\ job'[w] = J(n)
      /\ \A x \in Workers \ {w} : job'[x] = job[x]
  BY <1>1, <1>6, JobTyped DEF Begin, KnownInv
<1>9. requests' \in 0..MaxRequests
  BY <1>1, AuthAssumption DEF Begin, KnownInv, TypeOK, AuthAssumption
<1>10. TypeOK'
  BY <1>2, <1>8, <1>9 DEF KnownInv, TypeOK, tables, memory, history
<1>11. ~Busy(w)
  BY <1>1 DEF Begin
<1>12. Exchange(w) /\ job'[w].parent = t
  BY <1>2, <1>6, <1>7, <1>8, <1>11 DEF Exchange
<1>13. TokensAge
  BY <1>2, UnchangedAges DEF tables
<1>14. QED
  BY <1>2, <1>8, <1>10, <1>12, <1>13 DEF Shape, JobsStep, StepOf, Consumed, memory

\* What a sign-in with an identity finds: its account, or one to be linked.
LEMMA SocialFinds ==
  ASSUME KnownInv, NEW i \in Identities, NEW r \in Jobs,
         r.token = Nil, r.session = Nil, r.parent = Nil, r.at = "issue", r.user = EmailOf[i],
         NEW j \in SocialSteps(i, r)
  PROVE  /\ j \in Jobs /\ j.parent = Nil /\ j.via = r.via
         /\ \/ j.at \in {"createUser", "link"} /\ j.token = Nil /\ j.session = Nil
            \/ /\ j.at = "issue" /\ j.token \in FreshTokens /\ j.session = j.token
               /\ j.origin = epoch[j.user]
<1>1. CASE identity[i] # Nil
  <2>1. identity[i] \in Users
    BY <1>1 DEF KnownInv, TypeOK, OrNil
  <2> DEFINE k == [r EXCEPT !.at = "issue", !.user = identity[i]]
  <2>2. PICK t \in FreshTokens : j = Granted(k, t)
    BY <1>1 DEF SocialSteps
  <2>3. t \in Tokens
    BY FreshKnown
  <2>4. k \in Jobs /\ k.parent = Nil /\ k.via = r.via /\ k.at = "issue" /\ k.user = identity[i]
    BY <2>1 DEF Jobs
  <2> HIDE DEF k
  <2>5. epoch[k.user] \in Nat
    BY <2>1, <2>4 DEF KnownInv, TypeOK
  <2>6. j \in Jobs
    BY <2>2, <2>3, <2>4, <2>5 DEF Granted, Jobs, OrNil
  <2>7. /\ j.parent = Nil /\ j.via = r.via /\ j.at = "issue" /\ j.token = t /\ j.session = t
        /\ j.user = k.user /\ j.origin = epoch[k.user]
    BY <2>2, <2>4 DEF Granted, Jobs
  <2>8. QED
    BY <2>6, <2>7
<1>2. CASE identity[i] = Nil
  <2>1. PICK at \in {"createUser", "link"} : j = [r EXCEPT !.at = at]
    BY <1>2 DEF SocialSteps
  <2>2. QED
    BY <2>1 DEF Jobs
<1>3. QED
  BY <1>1, <1>2

LEMMA SocialRequestTyped ==
  ASSUME NEW i \in Identities, NEW op \in HandlerKinds
  PROVE  /\ SocialRequest(op, i) \in Jobs
         /\ SocialRequest(op, i).token = Nil /\ SocialRequest(op, i).session = Nil
         /\ SocialRequest(op, i).parent = Nil /\ SocialRequest(op, i).at = "issue"
         /\ SocialRequest(op, i).user = EmailOf[i] /\ SocialRequest(op, i).via = Nil
<1>1. EmailOf[i] \in Users
  BY AuthAssumption DEF AuthAssumption
<1>2. Request(op, "issue", EmailOf[i]) \in Jobs
  BY <1>1, RequestTyped
<1>3. QED
  BY <1>2 DEF SocialRequest, Request, Jobs, OrNil

\* Both ways a sign-in with an identity begins.
LEMMA SocialShape ==
  ASSUME KnownInv, NEW w \in Workers, NEW i \in Identities,
         \/ SocialLogin(w, i)
         \/ \E s \in States : AppleCallback(w, s, i)
  PROVE  Shape
<1>1. PICK r \in Jobs :
        /\ r.token = Nil /\ r.session = Nil /\ r.parent = Nil /\ r.at = "issue"
        /\ r.user = EmailOf[i] /\ UNCHANGED <<tables, appleCode, history>>
        /\ \E j \in SocialSteps(i, r) : Begin(w, j)
        /\ \/ r.via = Nil /\ appleTx' = appleTx
           \/ /\ r.via \in States /\ appleTx[r.via] = "open"
              /\ appleTx' = [appleTx EXCEPT ![r.via] = "consumed"]
  <2>1. CASE SocialLogin(w, i)
    BY <2>1, SocialRequestTyped DEF SocialLogin, HandlerKinds, memory
  <2>2. CASE \E s \in States : AppleCallback(w, s, i)
    <3>1. PICK s \in States : AppleCallback(w, s, i)
      BY <2>2
    <3> DEFINE q == SocialRequest("apple", i)
               r == [q EXCEPT !.via = s]
    <3>2. q \in Jobs /\ q.token = Nil /\ q.session = Nil /\ q.parent = Nil /\ q.at = "issue"
          /\ q.user = EmailOf[i]
      BY SocialRequestTyped DEF HandlerKinds
    <3>3. PICK j \in SocialSteps(i, r) : Begin(w, j)
      BY <3>1 DEF AppleCallback
    <3>4. appleTx[s] = "open" /\ appleTx' = [appleTx EXCEPT ![s] = "consumed"]
          /\ UNCHANGED <<tables, appleCode, history>>
      BY <3>1 DEF AppleCallback, ConsumeTx
    <3> HIDE DEF q
    <3>5. /\ r \in Jobs /\ r.token = Nil /\ r.session = Nil /\ r.parent = Nil /\ r.at = "issue"
          /\ r.user = EmailOf[i] /\ r.via = s
      BY <3>2 DEF Jobs, OrNil
    <3> HIDE DEF r
    <3>6. QED
      BY <3>3, <3>4, <3>5
  <2>3. QED
    BY <2>1, <2>2
<1> PICK j \in SocialSteps(i, r) : Begin(w, j)
  BY <1>1
<1>2. /\ j \in Jobs /\ j.parent = Nil /\ j.via = r.via
      /\ \/ j.at \in {"createUser", "link"} /\ j.token = Nil /\ j.session = Nil
         \/ /\ j.at = "issue" /\ j.token \in FreshTokens /\ j.session = j.token
            /\ j.origin = epoch[j.user]
  BY <1>1, SocialFinds
<1>3. job' \in [Workers -> Jobs \cup {Idle}] /\ job'[w] = j
      /\ \A x \in Workers \ {w} : job'[x] = job[x]
  BY <1>1, <1>2, JobTyped DEF Begin, KnownInv
<1>4. requests' \in 0..MaxRequests
  BY <1>1, AuthAssumption DEF Begin, KnownInv, TypeOK, AuthAssumption
<1>5. appleTx' \in [States -> {"none", "open", "late", "consumed"}]
      /\ \A s \in States : appleTx'[s] = appleTx[s] \/ (s = r.via /\ appleTx'[s] = "consumed")
  BY <1>1 DEF KnownInv, TypeOK
<1>6. TypeOK'
  BY <1>1, <1>3, <1>4, <1>5 DEF KnownInv, TypeOK, tables, history
<1>7. ViaKept(w)
  BY <1>1, <1>2, <1>3, <1>5 DEF ViaKept, KnownInv, TypeOK
<1>8. Waits(w) \/ NewSession(w)
  BY <1>2, <1>3, <1>7 DEF Waits, NewSession, Granting
<1>9. TokensAge
  BY <1>1, UnchangedAges DEF tables
<1>10. QED
  BY <1>1, <1>3, <1>5, <1>6, <1>8, <1>9 DEF Shape, JobsStep, StepOf, Consumed

LEMMA StartShape ==
  ASSUME KnownInv, NEW w \in Workers, Start(w)
  PROVE  Shape
BY RequestShape, LoginShape, ResetShape, RefreshShape, SocialShape DEF Start

-----------------------------------------------------------------------------
(* Requests that go on.                                                     *)

\* A request that ends, or goes on without touching sessions.
LEMMA EndShape ==
  ASSUME KnownInv, TypeOK', NEW w \in Workers, Finish(w), TokensAge, UNCHANGED appleTx
  PROVE  Shape
<1>1. job'[w] = Idle /\ \A x \in Workers \ {w} : job'[x] = job[x]
  BY DEF Finish, KnownInv, TypeOK
<1>2. \A x \in Workers : Rests(x)
  BY <1>1 DEF Rests
<1>3. QED
  BY <1>2 DEF Shape, JobsStep, Consumed

LEMMA GoOnShape ==
  ASSUME KnownInv, TypeOK', NEW w \in Workers, Busy(w), job[w].at \notin Granting,
         NEW at \in {"link", "suspend", "send"}, job' = [job EXCEPT ![w].at = at],
         at = "send" => InvalidateLinks(w), TokensAge, UNCHANGED appleTx
  PROVE  Shape
<1>1. job[w] \in Jobs
  BY NotIdle DEF KnownInv
<1>2. job'[w] = [job[w] EXCEPT !.at = at] /\ \A x \in Workers \ {w} : job'[x] = job[x]
  BY DEF KnownInv, TypeOK
<1>3. Waits(w)
  BY <1>1, <1>2 DEF KnownInv, RequestKnown, Waits, ViaKept, Granting, Jobs
<1>4. QED
  BY <1>2, <1>3 DEF Shape, JobsStep, StepOf, Consumed

\* One that is granted its session on the way.
LEMMA GrantedShape ==
  ASSUME KnownInv, NEW w \in Workers, Busy(w), job[w].at \notin Granting, NEW t \in FreshTokens,
         job' = [job EXCEPT ![w] = Granted([@ EXCEPT !.at = "issue"], t)],
         UNCHANGED <<token, appleTx, epoch>>
  PROVE  /\ job' \in [Workers -> Jobs \cup {Idle}]
         /\ TypeOK' => Shape
<1>1. job[w] \in Jobs
  BY NotIdle DEF KnownInv
<1> DEFINE k == [job[w] EXCEPT !.at = "issue"]
           j == Granted(k, t)
<1>2. k \in Jobs /\ k.at = "issue" /\ k.user = job[w].user /\ k.parent = Nil /\ k.via = job[w].via
  BY <1>1 DEF Jobs, KnownInv, RequestKnown
<1>3. job' = [job EXCEPT ![w] = j]
  OBVIOUS
<1> HIDE DEF k
<1>4. epoch[k.user] \in Nat
  BY <1>2 DEF KnownInv, TypeOK, Jobs
<1>5. j \in Jobs
  <2>1. t \in Tokens
    BY FreshKnown
  <2>2. QED
    BY <1>2, <1>4, <2>1 DEF Granted, Jobs, OrNil
<1>6. /\ j.at = "issue" /\ j.token = t /\ j.session = t /\ j.parent = Nil /\ j.via = job[w].via
      /\ j.user = k.user /\ j.origin = epoch[k.user]
  BY <1>2 DEF Granted, Jobs
<1> HIDE DEF j
<1>7. job' \in [Workers -> Jobs \cup {Idle}] /\ job'[w] = j
      /\ \A x \in Workers \ {w} : job'[x] = job[x]
  BY <1>3, <1>5, JobTyped DEF KnownInv
<1>8. NewSession(w)
  BY <1>5, <1>6, <1>7 DEF NewSession, ViaKept
<1>9. QED
  BY <1>7, <1>8, UnchangedAges DEF Shape, JobsStep, StepOf, Consumed

LEMMA CreateUserShape ==
  ASSUME KnownInv, NEW w \in Workers, CreateUser(w)
  PROVE  Shape
<1>1. /\ Busy(w) /\ job[w].at = "createUser"
      /\ UNCHANGED <<token, link, identity, memory, requests, history>>
  BY DEF CreateUser
<1>2. job[w] \in Jobs /\ job[w].user \in Users
  BY <1>1, NotIdle DEF KnownInv, Jobs
<1>3. user' \in [Users -> [status: {"none", "ACTIVE", "SUSPENDED"}, password: BOOLEAN]]
  <2>1. \/ user' = user
        \/ user' = [user EXCEPT ![job[w].user] = [status |-> "ACTIVE",
                                  password |-> HasPassword(job[w].op # "register")]]
    BY DEF CreateUser
  <2>2. HasPassword(job[w].op # "register") \in BOOLEAN
    BY DEF HasPassword
  <2>3. QED
    BY <2>1, <2>2, <1>2 DEF KnownInv, TypeOK
<1>4. job' \in [Workers -> Jobs \cup {Idle}] => TypeOK'
  BY <1>1, <1>3 DEF KnownInv, TypeOK, memory, history
<1>5. TokensAge
  BY <1>1, UnchangedAges
<1>6. CASE Finish(w)
  <2>1. TypeOK'
    BY <1>4, <1>6, JobTyped DEF Finish, KnownInv
  <2>2. QED
    BY <1>1, <1>5, <1>6, <2>1, EndShape DEF memory
<1>7. CASE job' = [job EXCEPT ![w].at = "link"]
  <2>1. TypeOK'
    BY <1>2, <1>4, <1>7 DEF KnownInv, TypeOK, Jobs
  <2>2. QED
    BY <1>1, <1>5, <1>7, <2>1, GoOnShape DEF memory, Granting
<1>8. CASE \E t \in FreshTokens :
             job' = [job EXCEPT ![w] = Granted([@ EXCEPT !.at = "issue"], t)]
  BY <1>1, <1>4, <1>8, GrantedShape DEF memory, history, Granting
<1>9. Finish(w) \/ job' = [job EXCEPT ![w].at = "link"]
      \/ \E t \in FreshTokens : job' = [job EXCEPT ![w] = Granted([@ EXCEPT !.at = "issue"], t)]
  BY Zenon DEF CreateUser
<1>10. QED
  BY <1>6, <1>7, <1>8, <1>9

LEMMA LinkIdentityShape ==
  ASSUME KnownInv, NEW w \in Workers, LinkIdentity(w)
  PROVE  Shape
<1>1. /\ Busy(w) /\ job[w].at = "link"
      /\ UNCHANGED <<user, token, link, memory, requests, history>>
  BY DEF LinkIdentity
<1>2. job[w] \in Jobs /\ job[w].user \in Users
  BY <1>1, NotIdle DEF KnownInv, Jobs
<1>3. identity' \in [Identities -> OrNil(Users)]
  <2>1. \/ identity' = identity
        \/ identity' = [identity EXCEPT ![job[w].identity] = job[w].user]
    BY DEF LinkIdentity
  <2>2. QED
    BY <2>1, <1>2 DEF OrNil, KnownInv, TypeOK
<1>4. job' \in [Workers -> Jobs \cup {Idle}] => TypeOK'
  BY <1>1, <1>3 DEF KnownInv, TypeOK, memory, history
<1>5. CASE Finish(w)
  <2>1. TypeOK'
    BY <1>4, <1>5, JobTyped DEF Finish, KnownInv
  <2>2. QED
    BY <1>1, <1>5, <2>1, EndShape, UnchangedAges DEF memory
<1>6. CASE \E t \in FreshTokens :
             job' = [job EXCEPT ![w] = Granted([@ EXCEPT !.at = "issue"], t)]
  BY <1>1, <1>4, <1>6, GrantedShape DEF memory, history, Granting
<1>7. QED
  BY <1>5, <1>6 DEF LinkIdentity

\* The fate of the token a refresh was given.
LEMMA RevokeParentShape ==
  ASSUME KnownInv, NEW w \in Workers, RevokeParent(w)
  PROVE  Shape
<1>1. /\ Busy(w) /\ job[w].at = "revoke"
      /\ UNCHANGED <<user, link, identity, memory, requests, history>>
  BY DEF RevokeParent
<1>2. PICK p \in Tokens : p = job[w].parent /\ token[p].status # "free"
  BY <1>1 DEF KnownInv, RequestKnown
<1>3. job[w] \in Jobs
  BY <1>1, NotIdle DEF KnownInv
<1>4. CASE Finish(w) /\ UNCHANGED token
  <2>1. TypeOK'
    BY <1>1, <1>4, JobTyped DEF Finish, KnownInv, TypeOK, memory, history
  <2>2. QED
    BY <1>1, <1>4, <2>1, EndShape, UnchangedAges DEF memory
<1>5. CASE /\ token' = [token EXCEPT ![p].status = "revoked"]
           /\ job' = [job EXCEPT ![w].at = "issue"]
  <2>1. job' \in [Workers -> Jobs \cup {Idle}] /\ job'[w] = [job[w] EXCEPT !.at = "issue"]
        /\ \A x \in Workers \ {w} : job'[x] = job[x]
    BY <1>3, <1>5 DEF KnownInv, TypeOK, Jobs
  <2>2. token' \in [Tokens -> TokenRows]
    BY <1>5 DEF KnownInv, TypeOK, TokenRows
  <2>3. TypeOK'
    BY <1>1, <2>1, <2>2 DEF KnownInv, TypeOK, memory, history
  <2>4. TokensAge
    BY <1>2, <1>5 DEF TokensAge, Ages, KnownInv, TypeOK, TokenRows
  <2>5. token'[p].status = "revoked"
    BY <1>5 DEF KnownInv, TypeOK, TokenRows
  <2>6. ParentRevoked(w)
    BY <1>1, <1>2, <2>1, <2>5 DEF ParentRevoked
  <2>7. QED
    BY <1>1, <2>1, <2>3, <2>4, <2>6 DEF Shape, JobsStep, StepOf, Consumed, memory
<1>6. QED
  BY <1>2, <1>4, <1>5 DEF RevokeParent

\* All the sessions of an account end.
LEMMA EndSessionsTyped ==
  ASSUME KnownInv, NEW u \in Users, EndSessions(u)
  PROVE  /\ token' \in [Tokens -> TokenRows] /\ TokensAge
         /\ epoch' \in [Users -> Nat] /\ survivors' \subseteq Tokens
<1>1. token' = [t \in Tokens |-> IF token[t].user = u /\ token[t].status = "issued"
                                 THEN [token[t] EXCEPT !.status = "revoked"] ELSE token[t]]
  BY DEF EndSessions, RevokeAll
<1>2. token' \in [Tokens -> TokenRows]
  BY <1>1 DEF KnownInv, TypeOK, TokenRows
<1>3. TokensAge
  BY <1>1 DEF TokensAge, Ages, KnownInv, TypeOK, TokenRows
<1>4. epoch' \in [Users -> Nat]
  BY DEF EndSessions, KnownInv, TypeOK
<1>5. InProgress(u) \subseteq Tokens
  BY NotIdle DEF InProgress, KnownInv, Jobs, OrNil
<1>6. QED
  BY <1>2, <1>3, <1>4, <1>5 DEF EndSessions, KnownInv, TypeOK

LEMMA RevokeSessionsShape ==
  ASSUME KnownInv, NEW w \in Workers, RevokeSessions(w)
  PROVE  Shape
<1>1. /\ Busy(w) /\ job[w].at = "endSessions" /\ EndSessions(job[w].user)
      /\ UNCHANGED <<user, link, identity, memory, requests>>
  BY DEF RevokeSessions
<1>2. job[w] \in Jobs /\ job[w].user \in Users
  BY <1>1, NotIdle DEF KnownInv, Jobs
<1>3. /\ token' \in [Tokens -> TokenRows] /\ TokensAge
      /\ epoch' \in [Users -> Nat] /\ survivors' \subseteq Tokens
  BY <1>1, <1>2, EndSessionsTyped
<1>4. job' \in [Workers -> Jobs \cup {Idle}] => TypeOK'
  BY <1>1, <1>3 DEF KnownInv, TypeOK, memory
<1>5. CASE Finish(w)
  <2>1. TypeOK'
    BY <1>4, <1>5, JobTyped DEF Finish, KnownInv
  <2>2. QED
    BY <1>1, <1>3, <1>5, <2>1, EndShape DEF memory
<1>6. CASE job' = [job EXCEPT ![w].at = "suspend"]
  <2>1. TypeOK'
    BY <1>2, <1>4, <1>6 DEF KnownInv, TypeOK, Jobs
  <2>2. QED
    BY <1>1, <1>3, <1>6, <2>1, GoOnShape DEF memory, Granting
<1>7. QED
  BY <1>5, <1>6 DEF RevokeSessions

LEMMA SuspendShape ==
  ASSUME KnownInv, NEW w \in Workers, Suspend(w)
  PROVE  Shape
<1>1. /\ Finish(w) /\ user' = [user EXCEPT ![job[w].user].status = "SUSPENDED"]
      /\ UNCHANGED <<token, link, identity, memory, requests, history>>
  BY DEF Suspend
<1>2. user' \in [Users -> [status: {"none", "ACTIVE", "SUSPENDED"}, password: BOOLEAN]]
  BY <1>1 DEF KnownInv, TypeOK
<1>3. TypeOK'
  BY <1>1, <1>2, JobTyped DEF Finish, KnownInv, TypeOK, memory, history
<1>4. QED
  BY <1>1, <1>3, EndShape, UnchangedAges DEF memory

LEMMA InvalidateShape ==
  ASSUME KnownInv, NEW w \in Workers, InvalidateLinks(w)
  PROVE  Shape
<1>1. /\ Busy(w) /\ job[w].at = "invalidate" /\ job' = [job EXCEPT ![w].at = "send"]
      /\ UNCHANGED <<user, token, identity, memory, requests, history>>
  BY DEF InvalidateLinks
<1>2. link' \in [Links -> LinkRows]
  BY DEF InvalidateLinks, KnownInv, TypeOK, LinkRows
<1>3. job' \in [Workers -> Jobs \cup {Idle}]
  BY <1>1, NotIdle DEF KnownInv, TypeOK, Jobs
<1>4. TypeOK'
  BY <1>1, <1>2, <1>3 DEF KnownInv, TypeOK, memory, history
<1>5. QED
  BY <1>1, <1>4, GoOnShape, UnchangedAges DEF memory, Granting

LEMMA SendShape ==
  ASSUME KnownInv, NEW w \in Workers, SendLink(w)
  PROVE  Shape
<1>1. Busy(w) /\ job[w].at = "send" /\ Finish(w)
      /\ UNCHANGED <<user, token, identity, memory, requests, history>>
  BY DEF SendLink
<1>2. job[w].user \in Users
  BY <1>1, NotIdle DEF KnownInv, Jobs
<1>3. link' \in [Links -> LinkRows]
  BY <1>2 DEF SendLink, KnownInv, TypeOK, LinkRows, OrNil
<1>4. TypeOK'
  BY <1>1, <1>3, JobTyped DEF Finish, KnownInv, TypeOK, memory, history
<1>5. QED
  BY <1>1, <1>4, EndShape, UnchangedAges DEF memory

LEMMA ApplyShape ==
  ASSUME KnownInv, NEW w \in Workers, ApplyReset(w)
  PROVE  Shape
<1>1. Busy(w) /\ job[w].at = "apply" /\ Finish(w) /\ UNCHANGED <<identity, memory, requests>>
  BY DEF ApplyReset
<1>2. job[w].user \in Users
  BY <1>1, NotIdle DEF KnownInv, Jobs
<1>3. /\ user' \in [Users -> [status: {"none", "ACTIVE", "SUSPENDED"}, password: BOOLEAN]]
      /\ link' \in [Links -> LinkRows] /\ token' \in [Tokens -> TokenRows] /\ TokensAge
      /\ epoch' \in [Users -> Nat] /\ survivors' \subseteq Tokens
  <2>1. CASE UNCHANGED <<user, token, link, history>>
    BY <2>1, UnchangedAges DEF KnownInv, TypeOK, history
  <2>2. CASE /\ user' = [user EXCEPT ![job[w].user].password = TRUE]
             /\ link' = [link EXCEPT ![job[w].link].status = "used"]
             /\ EndSessions(job[w].user)
    <3>1. user' \in [Users -> [status: {"none", "ACTIVE", "SUSPENDED"}, password: BOOLEAN]]
      BY <1>2, <2>2 DEF KnownInv, TypeOK
    <3>2. link' \in [Links -> LinkRows]
      BY <2>2 DEF KnownInv, TypeOK, LinkRows
    <3>3. QED
      BY <1>2, <2>2, <3>1, <3>2, EndSessionsTyped
  <2>3. QED
    BY <2>1, <2>2 DEF ApplyReset
<1>4. TypeOK'
  BY <1>1, <1>3, JobTyped DEF Finish, KnownInv, TypeOK, memory
<1>5. QED
  BY <1>1, <1>3, <1>4, EndShape DEF memory

\* The token a request holds is issued, and the request over.
Issued(w) == [status |-> "issued", expired |-> FALSE, user |-> job[w].user,
              session |-> job[w].session, parent |-> job[w].parent, via |-> job[w].via,
              origin |-> job[w].origin]

LEMMA IssueShape ==
  ASSUME KnownInv, NEW w \in Workers, IssueSession(w)
  PROVE  /\ TypeOK' /\ Consumed
         /\ job[w] \in Jobs /\ job[w].at = "issue" /\ job[w].token \in Tokens
         /\ job[w].session \in Tokens
         /\ token[job[w].token] = NoToken
         /\ token'[job[w].token] = Issued(w)
         /\ \A t \in Tokens \ {job[w].token} : token'[t] = token[t]
         /\ job'[w] = Idle /\ \A x \in Workers \ {w} : job'[x] = job[x]
<1>1. /\ Busy(w) /\ job[w].at = "issue" /\ Finish(w)
      /\ UNCHANGED <<user, link, identity, appleTx, requests, history>>
      /\ token' = [token EXCEPT ![job[w].token] = Issued(w)]
      /\ \/ appleCode' = appleCode
         \/ appleCode' = [appleCode EXCEPT ![job[w].via] = "ready"]
  BY DEF IssueSession, Issued
<1>2. job[w] \in Jobs
  BY <1>1, NotIdle DEF KnownInv
<1>3. /\ job[w].token \in Tokens /\ job[w].session \in Tokens
      /\ token[job[w].token] = NoToken
  BY <1>1 DEF KnownInv, RequestKnown, TokenKnown, Granting
<1>4. Issued(w) \in TokenRows
  BY <1>2 DEF Issued, TokenRows, Jobs, OrNil
<1>5. /\ token' \in [Tokens -> TokenRows] /\ token'[job[w].token] = Issued(w)
      /\ \A t \in Tokens \ {job[w].token} : token'[t] = token[t]
  BY <1>1, <1>3, <1>4 DEF KnownInv, TypeOK
<1>6. appleCode' \in [States -> {"none", "ready", "late", "taken"}]
  BY <1>1 DEF KnownInv, TypeOK
<1>7. /\ job' \in [Workers -> Jobs \cup {Idle}] /\ job'[w] = Idle
      /\ \A x \in Workers \ {w} : job'[x] = job[x]
  BY <1>1, JobTyped DEF Finish, KnownInv
<1>8. TypeOK'
  BY <1>1, <1>5, <1>6, <1>7 DEF KnownInv, TypeOK, history
<1>9. QED
  BY <1>1, <1>2, <1>3, <1>5, <1>7, <1>8 DEF Consumed

LEMMA ContinueShape ==
  ASSUME KnownInv, NEW w \in Workers, Continue(w), ~IssueSession(w)
  PROVE  Shape
BY CreateUserShape, LinkIdentityShape, RevokeParentShape, RevokeSessionsShape, SuspendShape,
   InvalidateShape, SendShape, ApplyShape DEF Continue

-----------------------------------------------------------------------------
(* Statements of their own, time, the cron and restarts.                    *)

LEMMA RestShape ==
  ASSUME TypeOK', TokensAge, Consumed, \A w \in Workers : Rests(w)
  PROVE  Shape
BY DEF Shape, JobsStep

LEMMA DirectShape ==
  ASSUME KnownInv, Direct
  PROVE  Shape
<1>1. ASSUME NEW t \in Tokens, Logout(t) \/ ExpireToken(t) PROVE Shape
  <2>1. \/ /\ token[t].status = "issued" /\ token' = [token EXCEPT ![t].status = "revoked"]
        \/ /\ token[t].status = "issued" /\ token' = [token EXCEPT ![t].expired = TRUE]
    BY <1>1 DEF Logout, ExpireToken, Valid
  <2>2. UNCHANGED <<user, link, identity, memory, job, history>>
    BY <1>1 DEF Logout, ExpireToken
  <2>3. requests' \in 0..MaxRequests
    <3>1. requests' = requests \/ (requests < MaxRequests /\ requests' = requests + 1)
      BY <1>1 DEF Logout, ExpireToken
    <3>2. requests \in 0..MaxRequests /\ MaxRequests \in Nat
      BY AuthAssumption DEF KnownInv, TypeOK, AuthAssumption
    <3>3. QED
      BY <3>1, <3>2
  <2>4. token' \in [Tokens -> TokenRows]
    <3>1. token \in [Tokens -> TokenRows]
      BY DEF KnownInv, TypeOK
    <3>2. CASE token' = [token EXCEPT ![t].status = "revoked"]
      BY <3>1, <3>2 DEF TokenRows
    <3>3. CASE token' = [token EXCEPT ![t].expired = TRUE]
      BY <3>1, <3>3 DEF TokenRows
    <3>4. QED
      BY <2>1, <3>2, <3>3
  <2>5. TokensAge
    BY <2>1 DEF TokensAge, Ages, KnownInv, TypeOK, TokenRows
  <2>6. TypeOK'
    BY <2>2, <2>3, <2>4 DEF KnownInv, TypeOK, memory, history
  <2>7. QED
    BY <2>2, <2>5, <2>6, RestShape DEF Rests, Consumed, memory
<1>2. ASSUME NEW l \in Links, ExpireLink(l) PROVE Shape
  <2>1. link' = [link EXCEPT ![l].expired = TRUE]
        /\ UNCHANGED <<user, token, identity, memory, job, requests, history>>
    BY <1>2 DEF ExpireLink
  <2>2. link' \in [Links -> LinkRows]
    BY <2>1 DEF KnownInv, TypeOK, LinkRows
  <2>3. TypeOK'
    BY <2>1, <2>2 DEF KnownInv, TypeOK, memory, history
  <2>4. QED
    BY <2>1, <2>3, RestShape, UnchangedAges DEF Rests, Consumed, memory
<1>3. ASSUME NEW u \in Users, NEW status \in {"ACTIVE", "SUSPENDED"}, UpdateStatus(u, status)
      PROVE  Shape
  <2>1. user' = [user EXCEPT ![u].status = status]
        /\ UNCHANGED <<token, link, identity, memory, job, history>>
    BY <1>3 DEF UpdateStatus
  <2>2. user' \in [Users -> [status: {"none", "ACTIVE", "SUSPENDED"}, password: BOOLEAN]]
    BY <2>1 DEF KnownInv, TypeOK
  <2>3. requests' \in 0..MaxRequests
    BY <1>3, AuthAssumption DEF UpdateStatus, KnownInv, TypeOK, AuthAssumption
  <2>4. TypeOK'
    BY <2>1, <2>2, <2>3 DEF KnownInv, TypeOK, memory, history
  <2>5. QED
    BY <2>1, <2>4, RestShape, UnchangedAges DEF Rests, Consumed, memory
<1>4. ASSUME NEW s \in States,
             \/ InitiateApple(s) \/ RefuseCallback(s) \/ ExchangeAppleCode(s) \/ ExpireApple(s)
      PROVE  Shape
  <2>1. UNCHANGED <<user, token, link, identity, job, requests, history>>
    BY <1>4 DEF InitiateApple, RefuseCallback, ExchangeAppleCode, ExpireApple, tables
  <2>2. /\ appleTx' \in [States -> {"none", "open", "late", "consumed"}]
        /\ appleCode' \in [States -> {"none", "ready", "late", "taken"}]
        /\ Consumed
    BY <1>4 DEF InitiateApple, RefuseCallback, ExchangeAppleCode, ExpireApple, ConsumeTx,
                KnownInv, TypeOK, Consumed
  <2>3. TypeOK'
    BY <2>1, <2>2 DEF KnownInv, TypeOK, history
  <2>4. QED
    BY <2>1, <2>2, <2>3, RestShape, UnchangedAges DEF Rests
<1>5. CASE CleanExpiredTokens
  <2>1. UNCHANGED <<user, identity, job, requests, history>>
    BY <1>5 DEF CleanExpiredTokens
  <2>2. /\ appleTx' \in [States -> {"none", "open", "late", "consumed"}]
        /\ appleCode' \in [States -> {"none", "ready", "late", "taken"}]
        /\ Consumed
    BY <1>5 DEF CleanExpiredTokens, KnownInv, TypeOK, Consumed
  <2>3. token' = [t \in Tokens |-> IF token[t].expired THEN [token[t] EXCEPT !.status = "deleted"]
                                   ELSE token[t]]
    BY <1>5 DEF CleanExpiredTokens
  <2>4. token' \in [Tokens -> TokenRows]
    BY <2>3 DEF KnownInv, TypeOK, TokenRows
  <2>5. TokensAge
    BY <2>3 DEF TokensAge, Ages, KnownInv, TokenKnown, NoToken, TypeOK, TokenRows
  <2>6. link' \in [Links -> LinkRows]
    BY <1>5 DEF CleanExpiredTokens, KnownInv, TypeOK, LinkRows
  <2>7. TypeOK'
    BY <2>1, <2>2, <2>4, <2>6 DEF KnownInv, TypeOK, history
  <2>8. QED
    BY <2>1, <2>2, <2>5, <2>7, RestShape DEF Rests
<1>6. CASE Restart
  <2>1. UNCHANGED <<tables, requests, history>> /\ job' = [w \in Workers |-> Idle]
    BY <1>6 DEF Restart
  <2>2. /\ appleTx' \in [States -> {"none", "open", "late", "consumed"}]
        /\ appleCode' \in [States -> {"none", "ready", "late", "taken"}]
        /\ Consumed
    BY <1>6 DEF Restart, KnownInv, TypeOK, Consumed
  <2>3. TypeOK'
    BY <2>1, <2>2 DEF KnownInv, TypeOK, tables, history
  <2>4. QED
    BY <2>1, <2>2, <2>3, RestShape, UnchangedAges DEF Rests, tables
<1>7. QED
  BY <1>1, <1>2, <1>3, <1>4, <1>5, <1>6 DEF Direct

LEMMA StutterShape == ASSUME KnownInv, UNCHANGED vars PROVE Shape
<1>1. TypeOK'
  BY DEF KnownInv, TypeOK, vars, tables, memory, history
<1>2. QED
  BY <1>1, RestShape, UnchangedAges DEF Rests, Consumed, vars, tables, memory

\* Every step issues one token, or has the shape.
LEMMA NextShape ==
  ASSUME KnownInv, [Next]_vars
  PROVE  Shape \/ \E w \in Workers : IssueSession(w)
BY DirectShape, StartShape, ContinueShape, StutterShape DEF Next

-----------------------------------------------------------------------------
(* Ids are handed out once.                                                 *)

LEMMA LinksKnown ==
  ASSUME KnownInv, [Next]_vars, NEW l \in Links
  PROVE  LinkKnown(l)'
<1>1. CASE link'[l].user = link[l].user /\ (link'[l].status = "sent" => link[l].status = "sent")
  BY <1>1 DEF KnownInv, LinkKnown
<1>2. CASE UNCHANGED link
  BY <1>1, <1>2
<1>3. ASSUME NEW w \in Workers, Start(w) PROVE UNCHANGED link
  BY <1>3 DEF Start, Register, Login, ChangePassword, RemoveUser, ForgotPassword, Refresh,
              ResetPassword, SocialLogin, AppleCallback, tables
<1>4. ASSUME NEW w \in Workers, Continue(w) PROVE LinkKnown(l)'
  <2>1. CASE SendLink(w)
    <3>1. job[w].user \in Users
      BY <2>1, NotIdle DEF SendLink, KnownInv, Jobs
    <3>2. PICK k \in Links : link' = [link EXCEPT ![k] = [status |-> "sent", expired |-> FALSE,
                                                         user |-> job[w].user]]
      BY <2>1 DEF SendLink
    <3>3. QED
      BY <3>1, <3>2 DEF KnownInv, LinkKnown, TypeOK
  <2>2. CASE InvalidateLinks(w)
    BY <1>1, <2>2 DEF InvalidateLinks, KnownInv, TypeOK, LinkRows
  <2>3. CASE ApplyReset(w)
    <3>1. \/ UNCHANGED link
          \/ link' = [link EXCEPT ![job[w].link].status = "used"]
      BY <2>3 DEF ApplyReset
    <3>2. QED
      BY <1>1, <3>1 DEF KnownInv, TypeOK, LinkRows
  <2>4. CASE \/ CreateUser(w) \/ IssueSession(w) \/ RevokeParent(w) \/ RevokeSessions(w)
             \/ Suspend(w) \/ LinkIdentity(w)
    BY <1>2, <2>4 DEF CreateUser, IssueSession, RevokeParent, RevokeSessions, Suspend, LinkIdentity
  <2>5. QED
    BY <1>4, <2>1, <2>2, <2>3, <2>4 DEF Continue
<1>5. CASE Direct
  <2>1. CASE \E k \in Links : ExpireLink(k)
    BY <1>1, <2>1 DEF ExpireLink, KnownInv, TypeOK, LinkRows
  <2>2. CASE CleanExpiredTokens
    BY <1>1, <2>2 DEF CleanExpiredTokens, KnownInv, TypeOK, LinkRows
  <2>3. CASE \/ \E t \in Tokens : Logout(t) \/ ExpireToken(t)
             \/ \E u \in Users, status \in {"ACTIVE", "SUSPENDED"} : UpdateStatus(u, status)
             \/ \E s \in States : \/ InitiateApple(s) \/ RefuseCallback(s) \/ ExchangeAppleCode(s)
                                  \/ ExpireApple(s)
             \/ Restart
    BY <1>2, <2>3 DEF Logout, ExpireToken, UpdateStatus, InitiateApple, RefuseCallback,
                      ExchangeAppleCode, ExpireApple, Restart, tables
  <2>4. QED
    BY <1>5, <2>1, <2>2, <2>3 DEF Direct
<1>6. CASE UNCHANGED vars
  BY <1>2, <1>6 DEF vars, tables
<1>7. QED
  BY <1>2, <1>3, <1>4, <1>5, <1>6 DEF Next

LEMMA KnownInit == Init => KnownInv
<1> SUFFICES ASSUME Init PROVE KnownInv
  OBVIOUS
<1>1. ASSUME NEW t \in Tokens
      PROVE  token[t] \in TokenRows /\ TokenKnown(t)
  <2>1. CASE \E u \in Registered : FirstToken[u] = t
    <3> DEFINE owner == CHOOSE u \in Registered : FirstToken[u] = t
    <3>1. owner \in Users
      BY <2>1, AuthAssumption DEF AuthAssumption
    <3> HIDE DEF owner
    <3>2. token[t] = [NoToken EXCEPT !.status = "issued", !.session = t, !.user = owner]
      BY <2>1 DEF Init, owner
    <3>3. token[t] = [status |-> "issued", expired |-> FALSE, user |-> owner, session |-> t,
                      parent |-> Nil, via |-> Nil, origin |-> 0]
      BY <3>2 DEF NoToken
    <3>4. QED
      BY <3>1, <3>3 DEF TokenRows, OrNil, TokenKnown
  <2>2. CASE ~ \E u \in Registered : FirstToken[u] = t
    BY <2>2 DEF Init, NoToken, TokenRows, OrNil, TokenKnown
  <2>3. QED
    BY <2>1, <2>2
<1>2. TypeOK
  <2>1. token \in [Tokens -> TokenRows]
    BY <1>1 DEF Init
  <2>2. user \in [Users -> [status: {"none", "ACTIVE", "SUSPENDED"}, password: BOOLEAN]]
    BY DEF Init
  <2>3. link \in [Links -> LinkRows] /\ identity \in [Identities -> OrNil(Users)]
    BY DEF Init, NoLink, LinkRows, OrNil
  <2>4. requests \in 0..MaxRequests
    <3>1. requests = 0
      BY DEF Init
    <3>2. QED
      BY <3>1, AuthAssumption DEF AuthAssumption
  <2>5. job \in [Workers -> Jobs \cup {Idle}] /\ survivors \subseteq Tokens
    BY DEF Init
  <2>6. epoch \in [Users -> Nat]
    BY DEF Init
  <2>7. /\ appleTx \in [States -> {"none", "open", "late", "consumed"}]
        /\ appleCode \in [States -> {"none", "ready", "late", "taken"}]
    BY DEF Init
  <2>8. QED
    BY <2>1, <2>2, <2>3, <2>4, <2>5, <2>6, <2>7 DEF TypeOK
<1>3. \A w \in Workers : ~Busy(w)
  BY DEF Init, Busy
<1>4. \A l \in Links : LinkKnown(l)
  BY DEF Init, NoLink, LinkKnown
<1>5. QED
  BY <1>1, <1>2, <1>3, <1>4 DEF KnownInv, RequestKnown, Apart

LEMMA TokensKnown ==
  ASSUME KnownInv, TokensAge, NEW t \in Tokens
  PROVE  TokenKnown(t)' /\ (token[t].status = "free" <=> token'[t].status = "free")
BY DEF KnownInv, TypeOK, TokenRows, TokenKnown, TokensAge, Ages

\* A request whose worker does not turn to something else stays known.
LEMMA RequestStaysKnown ==
  ASSUME KnownInv, TokensAge, NEW w \in Workers, Rests(w)
  PROVE  RequestKnown(w)'
<1>1. CASE job'[w] = Idle
  BY <1>1 DEF RequestKnown, Busy
<1>2. CASE job'[w] = job[w]
  BY <1>2, TokensKnown DEF KnownInv, RequestKnown, Busy
<1>3. QED
  BY <1>1, <1>2 DEF Rests

LEMMA KnownShape ==
  ASSUME KnownInv, [Next]_vars, Shape
  PROVE  KnownInv'
<1>1. TypeOK' /\ TokensAge
  BY DEF Shape
<1>2. \A t \in Tokens : TokenKnown(t)' /\ (token[t].status = "free" <=> token'[t].status = "free")
  BY <1>1, TokensKnown
<1>3. CASE \A w \in Workers : Rests(w)
  <2>1. \A w \in Workers : RequestKnown(w)'
    BY <1>1, <1>3, RequestStaysKnown
  <2>2. \A w, x \in Workers : Apart(w, x)'
    BY <1>3 DEF KnownInv, Rests, Apart, Busy
  <2>3. QED
    BY <1>1, <1>2, <2>1, <2>2, LinksKnown DEF KnownInv
<1>4. ASSUME NEW w \in Workers, StepOf(w) PROVE KnownInv'
  <2>1. \A x \in Workers \ {w} : job'[x] = job[x]
    BY <1>4 DEF StepOf
  <2>2. RequestKnown(w)'
    <3>1. CASE ParentRevoked(w)
      <4>1. job[w] \in Jobs
        BY <3>1, NotIdle DEF ParentRevoked, KnownInv
      <4>2. /\ job'[w].token = job[w].token /\ job'[w].session = job[w].session
            /\ job'[w].at = "issue"
        BY <3>1, <4>1 DEF ParentRevoked, Jobs
      <4>3. job[w].token \in Tokens /\ job[w].session \in Tokens /\ token[job[w].token].status = "free"
        BY <3>1 DEF ParentRevoked, KnownInv, RequestKnown, Granting
      <4>4. QED
        BY <1>2, <4>2, <4>3 DEF RequestKnown, Granting
    <3>2. CASE Waits(w)
      BY <3>2 DEF Waits, RequestKnown, Granting
    <3>3. CASE NewSession(w)
      <4>1. job'[w].token \in Tokens /\ token[job'[w].token] = NoToken
        BY <3>3, FreshKnown DEF NewSession
      <4>2. QED
        BY <1>2, <3>3, <4>1 DEF NewSession, RequestKnown, Granting, NoToken
    <3>4. CASE Exchange(w)
      <4>1. job'[w].token \in Tokens /\ token[job'[w].token] = NoToken
        BY <3>4, FreshKnown DEF Exchange
      <4>2. token[job'[w].parent].session \in Tokens /\ token[job'[w].parent].status # "free"
        BY <3>4 DEF Exchange, Valid, KnownInv, TokenKnown
      <4>3. QED
        BY <1>2, <3>4, <4>1, <4>2 DEF Exchange, RequestKnown, Granting, NoToken
    <3>5. QED
      BY <1>4, <3>1, <3>2, <3>3, <3>4 DEF StepOf
  <2>3. \A x \in Workers \ {w} : RequestKnown(x)'
    BY <1>1, <2>1, RequestStaysKnown DEF Rests
  <2>4. \A x \in Workers \ {w} : (Busy(x) /\ Busy(w)' /\ job'[w].token # Nil)
                                  => job'[w].token # job[x].token
    <3>1. CASE ParentRevoked(w)
      <4>1. job[w] \in Jobs /\ Busy(w)
        BY <3>1, NotIdle DEF ParentRevoked, KnownInv
      <4>2. job'[w].token = job[w].token
        BY <3>1, <4>1 DEF ParentRevoked, Jobs
      <4>3. QED
        BY <4>1, <4>2 DEF KnownInv, Apart
    <3>2. CASE Waits(w)
      BY <3>2 DEF Waits
    <3>3. CASE NewSession(w) \/ Exchange(w)
      BY <3>3, FreshKnown DEF NewSession, Exchange
    <3>4. QED
      BY <1>4, <3>1, <3>2, <3>3 DEF StepOf
  <2>5. \A x, y \in Workers : Apart(x, y)'
    BY <2>1, <2>4 DEF KnownInv, Apart, Busy
  <2>6. QED
    BY <1>1, <1>2, <2>2, <2>3, <2>5, LinksKnown DEF KnownInv
<1>5. QED
  BY <1>3, <1>4 DEF Shape, JobsStep

LEMMA KnownIssue ==
  ASSUME KnownInv, [Next]_vars, NEW w \in Workers, IssueSession(w)
  PROVE  KnownInv'
<1>1. /\ TypeOK'
      /\ job[w] \in Jobs /\ job[w].at = "issue" /\ job[w].token \in Tokens
      /\ job[w].session \in Tokens
      /\ token[job[w].token] = NoToken
      /\ token'[job[w].token] = Issued(w)
      /\ \A t \in Tokens \ {job[w].token} : token'[t] = token[t]
      /\ job'[w] = Idle /\ \A x \in Workers \ {w} : job'[x] = job[x]
  BY IssueShape
<1>2. \A t \in Tokens : TokenKnown(t)'
  BY <1>1 DEF KnownInv, TokenKnown, Issued, Jobs
<1>3. Busy(w)
  BY DEF IssueSession
<1>4. \A x \in Workers \ {w} : Busy(x) => job[x].token # job[w].token
  BY <1>1, <1>3, AuthAssumption DEF KnownInv, Apart, AuthAssumption
<1>5. ASSUME NEW x \in Workers PROVE RequestKnown(x)'
  <2>1. CASE x = w
    BY <1>1, <2>1 DEF RequestKnown, Busy
  <2>2. CASE x # w
    <3>1. job'[x] = job[x] /\ (Busy(x) => job[x].token # job[w].token)
      BY <1>1, <1>4, <2>2
    <3>2. \A t \in Tokens : token[t].status # "free" => token'[t].status # "free"
      BY <1>1 DEF Issued
    <3>3. QED
      BY <1>1, <3>1, <3>2 DEF KnownInv, RequestKnown, Busy
  <2>3. QED
    BY <2>1, <2>2
<1>6. \A x, y \in Workers : Apart(x, y)'
  BY <1>1 DEF KnownInv, Apart, Busy
<1>7. QED
  BY <1>1, <1>2, <1>5, <1>6, LinksKnown DEF KnownInv

LEMMA KnownNext == KnownInv /\ [Next]_vars => KnownInv'
  BY NextShape, KnownShape, KnownIssue

\* Every variable keeps its shape: an id stays free until its session is issued
\* under it, and a request names the rows it read.
THEOREM TypeCorrect == Spec => []TypeOK
<1>1. KnownInv => TypeOK
  BY DEF KnownInv
<1>2. QED
  BY KnownInit, KnownNext, <1>1, PTL DEF Spec

-----------------------------------------------------------------------------
(* The sessions a revocation leaves.                                        *)

LEMMA HistoryStep ==
  ASSUME [Next]_vars
  PROVE  \/ UNCHANGED history
         \/ \E w \in Workers : RevokeSessions(w) \/ (ApplyReset(w) /\ EndSessions(job[w].user))
<1>1. ASSUME NEW w \in Workers, Start(w) PROVE UNCHANGED history
  BY <1>1 DEF Start, Register, Login, ChangePassword, RemoveUser, ForgotPassword, Refresh,
              ResetPassword, SocialLogin, AppleCallback
<1>2. ASSUME NEW w \in Workers, Continue(w), ~RevokeSessions(w)
      PROVE  UNCHANGED history \/ (ApplyReset(w) /\ EndSessions(job[w].user))
  BY <1>2 DEF Continue, CreateUser, IssueSession, RevokeParent, Suspend, LinkIdentity,
              InvalidateLinks, SendLink, ApplyReset
<1>3. CASE Direct
  BY <1>3 DEF Direct, ExpireLink, CleanExpiredTokens, Logout, ExpireToken, UpdateStatus,
              InitiateApple, RefuseCallback, ExchangeAppleCode, ExpireApple, Restart
<1>4. QED
  BY <1>1, <1>2, <1>3 DEF Next, vars

LEMMA AgedValid ==
  ASSUME KnownInv, TokensAge, NEW t \in Tokens, Valid(t)'
  PROVE  /\ Valid(t) /\ token'[t].user = token[t].user /\ token'[t].origin = token[t].origin
         /\ token'[t].session = token[t].session
BY DEF KnownInv, TypeOK, TokenRows, TokensAge, Ages, Valid

LEMMA SurvivorShape ==
  ASSUME KnownInv, SurvivorInv, Shape, UNCHANGED history
  PROVE  SurvivorInv'
<1>1. OnlySurvivors'
  BY AgedValid DEF SurvivorInv, OnlySurvivors, Shape, history
<1>2. ASSUME NEW w \in Workers, Rests(w) PROVE Survives(w)'
  BY <1>2 DEF SurvivorInv, Survives, Rests, Busy, history
<1>3. ASSUME NEW w \in Workers, StepOf(w) PROVE Survives(w)'
  <2>1. CASE ParentRevoked(w)
    <3>1. job[w] \in Jobs /\ Busy(w) /\ job[w].at \in Granting
      BY <2>1, NotIdle DEF ParentRevoked, KnownInv, Granting
    <3>2. job'[w].origin = job[w].origin /\ job'[w].user = job[w].user
          /\ job'[w].session = job[w].session
      BY <2>1, <3>1 DEF ParentRevoked, Jobs
    <3>3. QED
      BY <3>1, <3>2 DEF SurvivorInv, Survives, history
  <2>2. CASE Waits(w)
    BY <2>2 DEF Waits, Survives
  <2>3. CASE NewSession(w)
    BY <2>3 DEF NewSession, Survives, history
  <2>4. CASE Exchange(w)
    BY <2>4 DEF Exchange, Survives, SurvivorInv, OnlySurvivors, history
  <2>5. QED
    BY <1>3, <2>1, <2>2, <2>3, <2>4 DEF StepOf
<1>4. \A w \in Workers : Survives(w)'
  BY <1>2, <1>3 DEF Shape, JobsStep, StepOf, Rests
<1>5. QED
  BY <1>1, <1>4 DEF SurvivorInv

LEMMA SurvivorEnd ==
  ASSUME KnownInv, SurvivorInv, TokensAge, NEW w \in Workers, Busy(w), job[w].at \notin Granting,
         EndSessions(job[w].user),
         \/ Finish(w)
         \/ job' = [job EXCEPT ![w].at = "suspend"]
  PROVE  SurvivorInv'
<1>1. PICK u \in Users : u = job[w].user
  BY NotIdle DEF KnownInv, Jobs
<1>2. /\ token' = [t \in Tokens |-> IF token[t].user = u /\ token[t].status = "issued"
                                    THEN [token[t] EXCEPT !.status = "revoked"] ELSE token[t]]
      /\ epoch' = [epoch EXCEPT ![u] = @ + 1] /\ survivors' = survivors \cup InProgress(u)
  BY <1>1 DEF EndSessions, RevokeAll
<1>3. \A v \in Users : v # u => epoch'[v] = epoch[v]
  BY <1>2 DEF KnownInv, TypeOK
<1>4. OnlySurvivors'
  <2> SUFFICES ASSUME NEW t \in Tokens, Valid(t)'
               PROVE  (token[t].origin = epoch[token[t].user] \/ token[t].session \in survivors)'
    BY DEF OnlySurvivors
  <2>1. /\ Valid(t) /\ token'[t].user = token[t].user /\ token'[t].origin = token[t].origin
        /\ token'[t].session = token[t].session
    BY AgedValid
  <2>2. token[t].user # u
    BY <1>2, <2>1 DEF Valid, KnownInv, TypeOK, TokenRows
  <2>3. token[t].user \in Users
    BY <2>1 DEF Valid, KnownInv, TokenKnown
  <2>4. QED
    BY <1>2, <1>3, <2>1, <2>2, <2>3 DEF SurvivorInv, OnlySurvivors
<1>5. ASSUME NEW x \in Workers PROVE Survives(x)'
  <2>1. CASE x = w
    BY <2>1 DEF Survives, Busy, Finish, Granting, KnownInv, TypeOK, Jobs
  <2>2. CASE x # w
    <3>1. job'[x] = job[x]
      BY <2>2 DEF Finish, KnownInv, TypeOK
    <3>2. SUFFICES ASSUME Busy(x), job[x].at \in Granting
                   PROVE  (\/ job[x].origin = epoch[job[x].user]
                           \/ job[x].session \in survivors)'
      BY <3>1 DEF Survives, Busy
    <3>3. job[x].session \in Tokens /\ job[x].session # Nil /\ job[x].user \in Users
      BY <3>2, NotIdle, AuthAssumption DEF KnownInv, RequestKnown, Jobs, AuthAssumption
    <3>4. CASE job[x].user = u
      <4>1. job[x].session \in InProgress(u)
        BY <3>2, <3>3, <3>4 DEF InProgress
      <4>2. QED
        BY <1>2, <3>1, <4>1
    <3>5. CASE job[x].user # u
      BY <1>2, <1>3, <3>1, <3>2, <3>3, <3>5 DEF SurvivorInv, Survives
    <3>6. QED
      BY <3>4, <3>5
  <2>3. QED
    BY <2>1, <2>2
<1>6. QED
  BY <1>4, <1>5 DEF SurvivorInv

LEMMA SurvivorNext == KnownInv /\ SurvivorInv /\ [Next]_vars => SurvivorInv'
<1> SUFFICES ASSUME KnownInv, SurvivorInv, [Next]_vars PROVE SurvivorInv'
  OBVIOUS
<1>1. ASSUME NEW w \in Workers, IssueSession(w) PROVE SurvivorInv'
  <2>1. /\ job[w] \in Jobs /\ job[w].at = "issue" /\ job[w].token \in Tokens
        /\ token'[job[w].token] = Issued(w)
        /\ \A t \in Tokens \ {job[w].token} : token'[t] = token[t]
        /\ job'[w] = Idle /\ \A x \in Workers \ {w} : job'[x] = job[x]
    BY <1>1, IssueShape
  <2>2. Busy(w) /\ UNCHANGED history
    BY <1>1 DEF IssueSession
  <2>3. job[w].origin = epoch[job[w].user] \/ job[w].session \in survivors
    BY <2>1, <2>2 DEF SurvivorInv, Survives, Granting
  <2>4. OnlySurvivors'
    BY <2>1, <2>2, <2>3 DEF SurvivorInv, OnlySurvivors, Valid, Issued, history
  <2>5. \A x \in Workers : Survives(x)'
    BY <2>1, <2>2 DEF SurvivorInv, Survives, Busy, history
  <2>6. QED
    BY <2>4, <2>5 DEF SurvivorInv
<1>2. ASSUME NEW w \in Workers, RevokeSessions(w) \/ (ApplyReset(w) /\ EndSessions(job[w].user))
      PROVE  SurvivorInv'
  <2>1. TokensAge
    BY <1>2, RevokeSessionsShape, ApplyShape DEF Shape
  <2>2. /\ Busy(w) /\ job[w].at \notin Granting /\ EndSessions(job[w].user)
        /\ Finish(w) \/ job' = [job EXCEPT ![w].at = "suspend"]
    BY <1>2 DEF RevokeSessions, ApplyReset, Granting
  <2>3. QED
    BY <2>1, <2>2, SurvivorEnd
<1>3. QED
  BY <1>1, <1>2, HistoryStep, NextShape, SurvivorShape

LEMMA SurvivorInit == Init => SurvivorInv
<1> SUFFICES ASSUME Init PROVE SurvivorInv
  OBVIOUS
<1>1. KnownInv
  BY KnownInit
<1>2. \A t \in Tokens : Valid(t) => token[t].origin = 0
  BY DEF Init, NoToken
<1>3. \A u \in Users : epoch[u] = 0
  BY DEF Init
<1>4. OnlySurvivors
  BY <1>1, <1>2, <1>3 DEF OnlySurvivors, KnownInv, TokenKnown, Valid
<1>5. \A w \in Workers : ~Busy(w)
  BY DEF Init, Busy
<1>6. QED
  BY <1>4, <1>5 DEF SurvivorInv, Survives

\* After a reset, a change of password or the removal of an account, a valid
\* token belongs to a session granted since or to one that was being served.
THEOREM SurvivorsOnly == Spec => []OnlySurvivors
<1>1. SurvivorInv => OnlySurvivors
  BY DEF SurvivorInv
<1>2. QED
  BY KnownInit, KnownNext, SurvivorInit, SurvivorNext, <1>1, PTL DEF Spec

-----------------------------------------------------------------------------
(* A session that is over.                                                  *)

LEMMA OverStep ==
  ASSUME KnownInv, [Next]_vars, NEW n \in Tokens, Over(n)
  PROVE  Over(n)'
<1>1. token[n].session = n /\ token[n] # NoToken
  BY AuthAssumption DEF Over, NoToken, AuthAssumption
<1>2. CASE Shape
  <2>1. token'[n].session = n
    BY <1>1, <1>2 DEF Shape, TokensAge, Ages
  <2>2. \A t \in Tokens : (token[t].session = n => ~Valid(t))'
    BY <1>2, AgedValid DEF Shape, Over
  <2>3. ASSUME NEW w \in Workers, Rests(w), Busy(w)' PROVE job'[w].session # n
    BY <2>3 DEF Over, Rests, Busy
  <2>4. ASSUME NEW w \in Workers, StepOf(w), Busy(w)' PROVE job'[w].session # n
    <3>1. CASE ParentRevoked(w)
      <4>1. job[w] \in Jobs /\ Busy(w)
        BY <3>1, NotIdle DEF ParentRevoked, KnownInv
      <4>2. QED
        BY <3>1, <4>1 DEF ParentRevoked, Jobs, Over
    <3>2. CASE Waits(w)
      BY <3>2, AuthAssumption DEF Waits, AuthAssumption
    <3>3. CASE NewSession(w)
      BY <1>1, <3>3, FreshKnown DEF NewSession
    <3>4. CASE Exchange(w)
      BY <3>4 DEF Exchange, Over
    <3>5. QED
      BY <2>4, <3>1, <3>2, <3>3, <3>4 DEF StepOf
  <2>5. \A w \in Workers : Busy(w)' => job'[w].session # n
    BY <1>2, <2>3, <2>4 DEF Shape, JobsStep, StepOf, Rests
  <2>6. QED
    BY <2>1, <2>2, <2>5 DEF Over
<1>3. ASSUME NEW w \in Workers, IssueSession(w) PROVE Over(n)'
  <2>1. /\ job[w].token \in Tokens
        /\ token[job[w].token] = NoToken
        /\ token'[job[w].token] = Issued(w)
        /\ \A t \in Tokens \ {job[w].token} : token'[t] = token[t]
        /\ job'[w] = Idle /\ \A x \in Workers \ {w} : job'[x] = job[x]
    BY <1>3, IssueShape
  <2>2. Busy(w)
    BY <1>3 DEF IssueSession
  <2>3. n # job[w].token /\ token'[n].session = n
    BY <1>1, <2>1
  <2>4. \A t \in Tokens : (token[t].session = n => ~Valid(t))'
    BY <2>1, <2>2 DEF Over, Issued, Valid
  <2>5. \A x \in Workers : Busy(x)' => job'[x].session # n
    BY <2>1 DEF Over, Busy
  <2>6. QED
    BY <2>3, <2>4, <2>5 DEF Over
<1>4. QED
  BY <1>2, <1>3, NextShape

\* No request and no restart brings back a session that is over.
THEOREM OverStays == Spec => OverForGood
<1>1. KnownInv /\ [Next]_vars => [\A n \in Tokens : Over(n) => Over(n)']_vars
  BY OverStep
<1>2. QED
  BY KnownInit, KnownNext, <1>1, PTL DEF Spec, OverForGood

-----------------------------------------------------------------------------
(* One session of an Apple sign-in.                                         *)

LEMMA SignInShape ==
  ASSUME KnownInv, SignInInv, Shape, NEW s \in States
  PROVE  OfSignIn(s)'
<1>1. s # Nil
  BY AuthAssumption DEF AuthAssumption
<1>2. OfSignIn(s)
  BY DEF SignInInv
<1>3. \A t \in Tokens : token'[t].via = token[t].via
  BY DEF Shape, TokensAge, Ages
<1>4. appleTx'[s] # "consumed" => appleTx[s] # "consumed"
  BY DEF Shape, Consumed
<1>5. CASE \A w \in Workers : Rests(w)
  <2>1. \A w \in Workers : Busy(w)' => Busy(w) /\ job'[w].via = job[w].via
    BY <1>5 DEF Rests, Busy
  <2>2. QED
    BY <1>2, <1>3, <1>4, <2>1 DEF OfSignIn
<1>6. ASSUME NEW w \in Workers, StepOf(w) PROVE OfSignIn(s)'
  <2>1. \A x \in Workers \ {w} : job'[x] = job[x] /\ (Busy(x)' <=> Busy(x))
    BY <1>6 DEF StepOf, Busy
  <2>2. \/ job'[w].via # s
        \/ Busy(w) /\ job[w].via = s
        \/ appleTx[s] = "open" /\ appleTx'[s] = "consumed"
    <3>1. CASE ParentRevoked(w)
      <4>1. job[w] \in Jobs /\ Busy(w)
        BY <3>1, NotIdle DEF ParentRevoked, KnownInv
      <4>2. QED
        BY <3>1, <4>1 DEF ParentRevoked, Jobs
    <3>2. CASE Waits(w) \/ NewSession(w)
      BY <1>1, <3>2 DEF Waits, NewSession, ViaKept
    <3>3. CASE Exchange(w)
      BY <1>1, <3>3 DEF Exchange
    <3>4. QED
      BY <1>6, <3>1, <3>2, <3>3 DEF StepOf
  <2>3. QED
    BY <1>2, <1>3, <1>4, <2>1, <2>2 DEF OfSignIn
<1>7. QED
  BY <1>5, <1>6 DEF Shape, JobsStep

LEMMA SignInNext == KnownInv /\ SignInInv /\ [Next]_vars => SignInInv'
<1> SUFFICES ASSUME KnownInv, SignInInv, [Next]_vars PROVE SignInInv'
  OBVIOUS
<1>1. ASSUME NEW w \in Workers, IssueSession(w), NEW s \in States PROVE OfSignIn(s)'
  <2>1. /\ job[w].token \in Tokens /\ token[job[w].token] = NoToken
        /\ token'[job[w].token] = Issued(w)
        /\ \A t \in Tokens \ {job[w].token} : token'[t] = token[t]
        /\ job'[w] = Idle /\ \A x \in Workers \ {w} : job'[x] = job[x]
        /\ Consumed
    BY <1>1, IssueShape
  <2>2. Busy(w) /\ ~Busy(w)'
    BY <1>1, <2>1 DEF IssueSession, Busy
  <2>3. \A x \in Workers \ {w} : job'[x] = job[x] /\ (Busy(x)' <=> Busy(x))
    BY <2>1 DEF Busy
  <2>4. \A t \in Tokens : \/ token'[t].via = token[t].via
                          \/ t = job[w].token /\ token'[t].via = job[w].via
    BY <2>1 DEF Issued
  <2>5. OfSignIn(s)
    BY DEF SignInInv
  <2>6. appleTx'[s] # "consumed" => appleTx[s] # "consumed"
    BY <2>1 DEF Consumed
  <2>7. QED
    BY <2>2, <2>3, <2>4, <2>5, <2>6 DEF OfSignIn
<1>2. QED
  BY <1>1, NextShape, SignInShape DEF SignInInv

LEMMA SignInInit == Init => SignInInv
<1> SUFFICES ASSUME Init PROVE SignInInv
  OBVIOUS
<1>1. \A t \in Tokens : token[t].via = Nil
  BY DEF Init, NoToken
<1>2. \A w \in Workers : ~Busy(w)
  BY DEF Init, Busy
<1>3. Nil \notin States
  BY AuthAssumption DEF AuthAssumption
<1>4. QED
  BY <1>1, <1>2, <1>3 DEF SignInInv, OfSignIn

\* A repeated callback of an Apple sign-in leads to no second session.
THEOREM OneSession == Spec => []OneSessionPerSignIn
<1>1. SignInInv => OneSessionPerSignIn
  <2> SUFFICES ASSUME SignInInv, NEW s \in States
               PROVE  Cardinality({t \in Tokens : token[t].via = s}) <= 1
    BY DEF OneSessionPerSignIn
  <2> DEFINE S == {t \in Tokens : token[t].via = s}
  <2>1. S = {} \/ \E t \in S : S = {t}
    BY DEF SignInInv, OfSignIn
  <2> HIDE DEF S
  <2>2. Cardinality(S) <= 1
    BY <2>1, FS_EmptySet, FS_Singleton
  <2>3. QED
    BY <2>2 DEF S
<1>2. QED
  BY KnownInit, KnownNext, SignInInit, SignInNext, <1>1, PTL DEF Spec

-----------------------------------------------------------------------------
(* Counting: S are those that got something, T the requests on their way.   *)

LEMMA Fewer ==
  ASSUME NEW S, NEW T, NEW N \in Nat, IsFiniteSet(S), IsFiniteSet(T),
         Cardinality(S) + Cardinality(T) <= N, NEW A \in SUBSET S, NEW B \in SUBSET T
  PROVE  Cardinality(A) + Cardinality(B) <= N
<1>1. /\ Cardinality(A) <= Cardinality(S) /\ Cardinality(B) <= Cardinality(T)
      /\ Cardinality(A) \in Nat /\ Cardinality(S) \in Nat
      /\ Cardinality(B) \in Nat /\ Cardinality(T) \in Nat
  BY FS_Subset, FS_CardinalityType
<1>2. QED
  BY <1>1

LEMMA Moved ==
  ASSUME NEW S, NEW T, NEW N \in Nat, IsFiniteSet(S), IsFiniteSet(T),
         Cardinality(S) + Cardinality(T) <= N, NEW x, NEW y \in T,
         NEW A \in SUBSET (S \cup {x}), NEW B \in SUBSET (T \ {y})
  PROVE  Cardinality(A) + Cardinality(B) <= N
<1>1. /\ IsFiniteSet(S \cup {x}) /\ Cardinality(S \cup {x}) <= Cardinality(S) + 1
      /\ Cardinality(S) \in Nat
  <2>1. Cardinality(S) \in Nat
    BY FS_CardinalityType
  <2>2. CASE x \in S
    <3>1. PICK U : U = S \cup {x}
      OBVIOUS
    <3>2. U = S
      BY <2>2, <3>1
    <3>3. IsFiniteSet(U) /\ Cardinality(U) <= Cardinality(S) + 1
      BY <2>1, <3>2
    <3>4. QED
      BY <2>1, <3>1, <3>3
  <2>3. CASE x \notin S
    <3>1. IsFiniteSet(S \cup {x}) /\ Cardinality(S \cup {x}) = Cardinality(S) + 1
      BY <2>3, FS_AddElement, Zenon
    <3>2. QED
      BY <2>1, <3>1
  <2>4. QED
    BY <2>2, <2>3
<1>2. /\ IsFiniteSet(T \ {y}) /\ Cardinality(T \ {y}) = Cardinality(T) - 1
      /\ Cardinality(T) \in Nat
  BY FS_RemoveElement, FS_CardinalityType
<1>3. /\ Cardinality(S \cup {x}) \in Nat /\ Cardinality(T \ {y}) \in Nat
  BY <1>1, <1>2, FS_CardinalityType
<1>4. Cardinality(S \cup {x}) + Cardinality(T \ {y}) <= N
  BY <1>1, <1>2, <1>3
<1>5. QED
  BY <1>1, <1>2, <1>4, Fewer

LEMMA OnlyRequests ==
  ASSUME NEW T \in SUBSET Workers
  PROVE  Cardinality({}) + Cardinality(T) <= Cardinality(Workers)
<1>1. Cardinality({}) = 0
  BY FS_EmptySet
<1>2. IsFiniteSet(Workers)
  BY AuthAssumption DEF AuthAssumption
<1>3. Cardinality(T) <= Cardinality(Workers) /\ Cardinality(T) \in Nat
  BY <1>2, FS_Subset, FS_CardinalityType
<1>4. QED
  BY <1>1, <1>3

LEMMA Bounds ==
  /\ Cardinality(Workers) \in Nat
  /\ \A S \in SUBSET Workers : IsFiniteSet(S)
  /\ \A S \in SUBSET Tokens : IsFiniteSet(S)
  /\ \A S \in SUBSET Links : IsFiniteSet(S)
BY AuthAssumption, FS_Subset, FS_CardinalityType DEF AuthAssumption

-----------------------------------------------------------------------------
(* How often a refresh token is exchanged.                                  *)

LEMMA ExchangeShape ==
  ASSUME KnownInv, ExchangeInv, Shape, NEW t \in Tokens
  PROVE  /\ token'[t].status \in {"free", "issued"} =>
              Children(t)' = {} /\ \A w \in Exchanging(t)' : job'[w].at = "revoke"
         /\ Cardinality(Children(t)') + Cardinality(Exchanging(t)') <= Cardinality(Workers)
<1>1. t # Nil
  BY AuthAssumption DEF AuthAssumption
<1>2. Children(t)' = Children(t)
  BY DEF Shape, TokensAge, Ages, Children
<1>3. token'[t].status \in {"free", "issued"} =>
        Children(t) = {} /\ \A w \in Exchanging(t) : job[w].at = "revoke"
  BY DEF Shape, TokensAge, Ages, ExchangeInv
<1>4. /\ IsFiniteSet(Children(t)) /\ IsFiniteSet(Exchanging(t)) /\ Cardinality(Workers) \in Nat
      /\ Cardinality(Children(t)) + Cardinality(Exchanging(t)) <= Cardinality(Workers)
  BY Bounds DEF ExchangeInv, Children, Exchanging
<1>5. ASSUME Exchanging(t)' \subseteq Exchanging(t)
      PROVE  Cardinality(Children(t)') + Cardinality(Exchanging(t)') <= Cardinality(Workers)
  BY <1>2, <1>4, <1>5, Fewer
<1>6. CASE \A w \in Workers : Rests(w)
  <2>1. Exchanging(t)' \subseteq Exchanging(t) /\ \A w \in Exchanging(t)' : job'[w] = job[w]
    BY <1>6 DEF Exchanging, Rests, Busy
  <2>2. QED
    BY <1>2, <1>3, <1>5, <2>1
<1>7. ASSUME NEW w \in Workers, StepOf(w)
      PROVE  /\ token'[t].status \in {"free", "issued"} =>
                  Children(t)' = {} /\ \A x \in Exchanging(t)' : job'[x].at = "revoke"
             /\ Cardinality(Children(t)') + Cardinality(Exchanging(t)') <= Cardinality(Workers)
  <2>1. \A x \in Workers \ {w} : job'[x] = job[x] /\ (x \in Exchanging(t)' <=> x \in Exchanging(t))
    BY <1>7 DEF StepOf, Busy, Exchanging
  <2>2. CASE ParentRevoked(w)
    <3>1. job[w] \in Jobs /\ Busy(w)
      BY <2>2, NotIdle DEF ParentRevoked, KnownInv
    <3>2. job'[w].parent = job[w].parent
      BY <2>2, <3>1 DEF ParentRevoked, Jobs
    <3>3. Exchanging(t)' \subseteq Exchanging(t)
      BY <2>1, <3>1, <3>2 DEF Exchanging
    <3>4. job[w].parent = t => token'[t].status = "revoked"
      BY <2>2 DEF ParentRevoked
    <3>5. w \in Exchanging(t)' => job[w].parent = t
      BY <3>2 DEF Exchanging
    <3>6. ASSUME token'[t].status \in {"free", "issued"}
          PROVE  \A x \in Exchanging(t)' : job'[x].at = "revoke"
      <4>1. w \notin Exchanging(t)'
        BY <3>4, <3>5, <3>6
      <4>2. \A x \in Exchanging(t)' : x \in Exchanging(t) /\ job'[x] = job[x]
        BY <2>1, <4>1 DEF Exchanging
      <4>3. QED
        BY <1>3, <3>6, <4>2
    <3>7. QED
      BY <1>2, <1>3, <1>5, <3>3, <3>6
  <2>3. CASE Waits(w) \/ NewSession(w)
    <3>1. w \notin Exchanging(t)'
      BY <1>1, <2>3 DEF Exchanging, Waits, NewSession
    <3>2. Exchanging(t)' \subseteq Exchanging(t) /\ \A x \in Exchanging(t)' : job'[x] = job[x]
      BY <2>1, <3>1 DEF Exchanging
    <3>3. QED
      BY <1>2, <1>3, <1>5, <3>2
  <2>4. CASE Exchange(w)
    <3>1. \A x \in Exchanging(t)' : x \in Workers /\ (x = w \/ (x \in Exchanging(t) /\ job'[x] = job[x]))
      BY <2>1 DEF Exchanging
    <3>2. token'[t].status \in {"free", "issued"} =>
            Children(t)' = {} /\ \A x \in Exchanging(t)' : job'[x].at = "revoke"
      BY <1>2, <1>3, <2>4, <3>1 DEF Exchange
    <3>3. CASE job'[w].parent = t
      <4>1. Children(t) = {}
        BY <2>4, <3>3 DEF Exchange, Valid, ExchangeInv
      <4>2. Exchanging(t)' \subseteq Workers
        BY <3>1
      <4>3. QED
        BY <1>2, <3>2, <4>1, <4>2, OnlyRequests
    <3>4. CASE job'[w].parent # t
      <4>1. w \notin Exchanging(t)'
        BY <3>4 DEF Exchanging
      <4>2. QED
        BY <1>5, <3>1, <3>2, <4>1
    <3>5. QED
      BY <3>3, <3>4
  <2>5. QED
    BY <1>7, <2>2, <2>3, <2>4 DEF StepOf
<1>8. QED
  BY <1>6, <1>7 DEF Shape, JobsStep

LEMMA ExchangeIssue ==
  ASSUME KnownInv, ExchangeInv, NEW w \in Workers, IssueSession(w), NEW t \in Tokens
  PROVE  /\ token'[t].status \in {"free", "issued"} =>
              Children(t)' = {} /\ \A x \in Exchanging(t)' : job'[x].at = "revoke"
         /\ Cardinality(Children(t)') + Cardinality(Exchanging(t)') <= Cardinality(Workers)
<1>1. /\ job[w].at = "issue" /\ job[w].token \in Tokens /\ token[job[w].token] = NoToken
      /\ token'[job[w].token] = Issued(w)
      /\ \A n \in Tokens \ {job[w].token} : token'[n] = token[n]
      /\ job'[w] = Idle /\ \A x \in Workers \ {w} : job'[x] = job[x]
  BY IssueShape
<1>2. Busy(w)
  BY DEF IssueSession
<1>3. /\ IsFiniteSet(Children(t)) /\ IsFiniteSet(Exchanging(t)) /\ Cardinality(Workers) \in Nat
      /\ Cardinality(Children(t)) + Cardinality(Exchanging(t)) <= Cardinality(Workers)
  BY Bounds DEF ExchangeInv, Children, Exchanging
<1>4. Exchanging(t)' \subseteq Exchanging(t) \ {w} /\ \A x \in Exchanging(t)' : job'[x] = job[x]
  BY <1>1 DEF Exchanging, Busy
<1>5. token'[t].status \in {"free", "issued"} => token[t].status \in {"free", "issued"}
  BY <1>1 DEF NoToken
<1>6. CASE job[w].parent = t
  <2>1. w \in Exchanging(t)
    BY <1>2, <1>6 DEF Exchanging
  <2>2. Children(t)' \subseteq Children(t) \cup {job[w].token}
    BY <1>1 DEF Children
  <2>3. token[t].status \notin {"free", "issued"}
    BY <1>1, <2>1 DEF ExchangeInv
  <2>4. Cardinality(Children(t)') + Cardinality(Exchanging(t)') <= Cardinality(Workers)
    <3>1. PICK A, B : A = Children(t)' /\ B = Exchanging(t)'
      OBVIOUS
    <3>2. A \in SUBSET (Children(t) \cup {job[w].token}) /\ B \in SUBSET (Exchanging(t) \ {w})
      BY <1>4, <2>2, <3>1
    <3>3. Cardinality(A) + Cardinality(B) <= Cardinality(Workers)
      BY <1>3, <2>1, <3>2, Moved
    <3>4. QED
      BY <3>1, <3>3
  <2>5. QED
    BY <1>5, <2>3, <2>4
<1>7. CASE job[w].parent # t
  <2>1. Children(t)' \subseteq Children(t)
    BY <1>1, <1>7 DEF Children, Issued
  <2>2. Cardinality(Children(t)') + Cardinality(Exchanging(t)') <= Cardinality(Workers)
    BY <1>3, <1>4, <2>1, Fewer
  <2>3. QED
    BY <1>4, <1>5, <2>1, <2>2 DEF ExchangeInv
<1>8. QED
  BY <1>6, <1>7

LEMMA ExchangeNext == KnownInv /\ ExchangeInv /\ [Next]_vars => ExchangeInv'
  BY NextShape, ExchangeShape, ExchangeIssue DEF ExchangeInv

LEMMA ExchangeInit == Init => ExchangeInv
<1> SUFFICES ASSUME Init, NEW t \in Tokens
             PROVE  Children(t) = {} /\ Exchanging(t) = {}
  BY OnlyRequests DEF ExchangeInv
<1>1. t # Nil
  BY AuthAssumption DEF AuthAssumption
<1>2. \A n \in Tokens : token[n].parent = Nil
  BY DEF Init, NoToken
<1>3. QED
  BY <1>1, <1>2 DEF Children, Exchanging, Init, Busy

\* A refresh token is exchanged at most once per request that overlaps the
\* first exchange.
THEOREM ExchangesHold == Spec => []ExchangesBounded
<1>1. ExchangeInv => ExchangesBounded
  <2> SUFFICES ASSUME ExchangeInv, NEW t \in Tokens
               PROVE  Cardinality(Children(t)) <= Cardinality(Workers)
    BY DEF ExchangesBounded, Children
  <2>1. IsFiniteSet(Children(t)) /\ IsFiniteSet(Exchanging(t)) /\ Cardinality(Workers) \in Nat
    BY Bounds DEF Children, Exchanging
  <2>2. Cardinality(Children(t)) + Cardinality(Exchanging(t)) <= Cardinality(Workers)
    BY DEF ExchangeInv
  <2>3. QED
    BY <2>1, <2>2, FS_CardinalityType
<1>2. QED
  BY KnownInit, KnownNext, ExchangeInit, ExchangeNext, <1>1, PTL DEF Spec

-----------------------------------------------------------------------------
(* How many reset links of an account are usable.                           *)

LEMMA LinksFade ==
  ASSUME KnownInv, [Next]_vars, NEW u \in Users, \A w \in Workers : ~SendLink(w)
  PROVE  UsableOf(u)' \subseteq UsableOf(u)
<1>1. CASE \A l \in Links : Usable(l)' => Usable(l) /\ link'[l].user = link[l].user
  BY <1>1 DEF UsableOf
<1>2. CASE UNCHANGED link
  BY <1>1, <1>2 DEF Usable
<1>3. ASSUME NEW w \in Workers, Start(w) PROVE UNCHANGED link
  BY <1>3 DEF Start, Register, Login, ChangePassword, RemoveUser, ForgotPassword, Refresh,
              ResetPassword, SocialLogin, AppleCallback, tables
<1>4. ASSUME NEW w \in Workers, Continue(w) PROVE UsableOf(u)' \subseteq UsableOf(u)
  <2>1. CASE InvalidateLinks(w)
    BY <1>1, <2>1 DEF InvalidateLinks, Usable, KnownInv, TypeOK, LinkRows
  <2>2. CASE ApplyReset(w)
    <3>1. \/ UNCHANGED link
          \/ link' = [link EXCEPT ![job[w].link].status = "used"]
      BY <2>2 DEF ApplyReset
    <3>2. QED
      BY <1>1, <3>1 DEF Usable, KnownInv, TypeOK, LinkRows
  <2>3. CASE \/ CreateUser(w) \/ IssueSession(w) \/ RevokeParent(w) \/ RevokeSessions(w)
             \/ Suspend(w) \/ LinkIdentity(w)
    BY <1>2, <2>3 DEF CreateUser, IssueSession, RevokeParent, RevokeSessions, Suspend, LinkIdentity
  <2>4. QED
    BY <1>4, <2>1, <2>2, <2>3 DEF Continue
<1>5. CASE Direct
  <2>1. CASE \E k \in Links : ExpireLink(k)
    BY <1>1, <2>1 DEF ExpireLink, Usable, KnownInv, TypeOK, LinkRows
  <2>2. CASE CleanExpiredTokens
    BY <1>1, <2>2 DEF CleanExpiredTokens, Usable, KnownInv, TypeOK, LinkRows
  <2>3. CASE \/ \E t \in Tokens : Logout(t) \/ ExpireToken(t)
             \/ \E v \in Users, status \in {"ACTIVE", "SUSPENDED"} : UpdateStatus(v, status)
             \/ \E s \in States : \/ InitiateApple(s) \/ RefuseCallback(s) \/ ExchangeAppleCode(s)
                                  \/ ExpireApple(s)
             \/ Restart
    BY <1>2, <2>3 DEF Logout, ExpireToken, UpdateStatus, InitiateApple, RefuseCallback,
                      ExchangeAppleCode, ExpireApple, Restart, tables
  <2>4. QED
    BY <1>5, <2>1, <2>2, <2>3 DEF Direct
<1>6. CASE UNCHANGED vars
  BY <1>2, <1>6 DEF vars, tables
<1>7. QED
  BY <1>2, <1>3, <1>4, <1>5, <1>6 DEF Next

LEMMA SendersFade ==
  ASSUME KnownInv, Shape, NEW u \in Users, \A w \in Workers : ~InvalidateLinks(w)
  PROVE  SendingTo(u)' \subseteq SendingTo(u)
<1>1. CASE \A w \in Workers : Rests(w)
  BY <1>1 DEF SendingTo, Rests, Busy
<1>2. ASSUME NEW w \in Workers, StepOf(w) PROVE SendingTo(u)' \subseteq SendingTo(u)
  <2>1. job'[w].at # "send"
    <3>1. CASE ParentRevoked(w)
      <4>1. job[w] \in Jobs
        BY <3>1, NotIdle DEF ParentRevoked, KnownInv
      <4>2. QED
        BY <3>1, <4>1 DEF ParentRevoked, Jobs
    <3>2. CASE Waits(w) \/ NewSession(w) \/ Exchange(w)
      BY <3>2 DEF Waits, NewSession, Exchange
    <3>3. QED
      BY <1>2, <3>1, <3>2 DEF StepOf
  <2>2. QED
    BY <1>2, <2>1 DEF StepOf, SendingTo, Busy
<1>3. QED
  BY <1>1, <1>2 DEF Shape, JobsStep

LEMMA LinkNext == KnownInv /\ LinkInv /\ [Next]_vars => LinkInv'
<1> SUFFICES ASSUME KnownInv, LinkInv, [Next]_vars, NEW u \in Users
             PROVE  Cardinality(UsableOf(u)') + Cardinality(SendingTo(u)') <= Cardinality(Workers)
  BY DEF LinkInv
<1>1. /\ IsFiniteSet(UsableOf(u)) /\ IsFiniteSet(SendingTo(u)) /\ Cardinality(Workers) \in Nat
      /\ Cardinality(UsableOf(u)) + Cardinality(SendingTo(u)) <= Cardinality(Workers)
  BY Bounds DEF LinkInv, UsableOf, SendingTo
<1>2. PICK A, B : A = UsableOf(u)' /\ B = SendingTo(u)'
  OBVIOUS
<1> SUFFICES Cardinality(A) + Cardinality(B) <= Cardinality(Workers)
  BY <1>2
<1>3. ASSUME NEW w \in Workers, SendLink(w)
      PROVE  Cardinality(A) + Cardinality(B) <= Cardinality(Workers)
  <2>1. PICK l \in Links : link' = [link EXCEPT ![l] = [status |-> "sent", expired |-> FALSE,
                                                       user |-> job[w].user]]
    BY <1>3 DEF SendLink
  <2>2. Busy(w) /\ job[w].at = "send" /\ job'[w] = Idle /\ \A x \in Workers \ {w} : job'[x] = job[x]
    BY <1>3 DEF SendLink, Finish, KnownInv, TypeOK
  <2>3. SendingTo(u)' \subseteq SendingTo(u) \ {w}
    BY <2>2 DEF SendingTo, Busy
  <2>4. CASE job[w].user = u
    <3>1. w \in SendingTo(u)
      BY <2>2, <2>4 DEF SendingTo
    <3>2. UsableOf(u)' \subseteq UsableOf(u) \cup {l}
      BY <2>1 DEF UsableOf, Usable, KnownInv, TypeOK
    <3>3. A \in SUBSET (UsableOf(u) \cup {l}) /\ B \in SUBSET (SendingTo(u) \ {w})
      BY <1>2, <2>3, <3>2
    <3>4. QED
      BY <1>1, <3>1, <3>3, Moved
  <2>5. CASE job[w].user # u
    <3>1. UsableOf(u)' \subseteq UsableOf(u)
      BY <2>1, <2>5 DEF UsableOf, Usable, KnownInv, TypeOK
    <3>2. A \in SUBSET UsableOf(u) /\ B \in SUBSET SendingTo(u)
      BY <1>2, <2>3, <3>1
    <3>3. QED
      BY <1>1, <3>2, Fewer
  <2>6. QED
    BY <2>4, <2>5
<1>4. ASSUME NEW w \in Workers, InvalidateLinks(w)
      PROVE  Cardinality(A) + Cardinality(B) <= Cardinality(Workers)
  <2>1. /\ Busy(w) /\ job[w].at = "invalidate" /\ job' = [job EXCEPT ![w].at = "send"]
        /\ link' = [l \in Links |-> IF link[l].user = job[w].user /\ link[l].status = "sent"
                                    THEN [link[l] EXCEPT !.status = "used"] ELSE link[l]]
    BY <1>4 DEF InvalidateLinks
  <2>2. job[w] \in Jobs
    BY <2>1, NotIdle DEF KnownInv
  <2>3. job'[w] = [job[w] EXCEPT !.at = "send"] /\ \A x \in Workers \ {w} : job'[x] = job[x]
    BY <2>1 DEF KnownInv, TypeOK
  <2>4. CASE job[w].user = u
    <3>1. UsableOf(u)' = {}
      BY <2>1, <2>4 DEF UsableOf, Usable, KnownInv, TypeOK, LinkRows
    <3>2. A = {} /\ B \in SUBSET Workers
      BY <1>2, <3>1 DEF SendingTo
    <3>3. QED
      BY <3>2, OnlyRequests
  <2>5. CASE job[w].user # u
    <3>1. UsableOf(u)' \subseteq UsableOf(u)
      BY <2>1 DEF UsableOf, Usable, KnownInv, TypeOK, LinkRows
    <3>2. SendingTo(u)' \subseteq SendingTo(u)
      BY <2>2, <2>3, <2>5 DEF SendingTo, Busy, Jobs
    <3>3. A \in SUBSET UsableOf(u) /\ B \in SUBSET SendingTo(u)
      BY <1>2, <3>1, <3>2
    <3>4. QED
      BY <1>1, <3>3, Fewer
  <2>6. QED
    BY <2>4, <2>5
<1>5. ASSUME NEW w \in Workers, IssueSession(w)
      PROVE  Cardinality(A) + Cardinality(B) <= Cardinality(Workers)
  <2>1. UNCHANGED link
    BY <1>5 DEF IssueSession
  <2>2. job'[w] = Idle /\ \A x \in Workers \ {w} : job'[x] = job[x]
    BY <1>5, IssueShape
  <2>3. A \in SUBSET UsableOf(u) /\ B \in SUBSET SendingTo(u)
    BY <1>2, <2>1, <2>2 DEF UsableOf, Usable, SendingTo, Busy
  <2>4. QED
    BY <1>1, <2>3, Fewer
<1>6. CASE Shape /\ \A w \in Workers : ~SendLink(w) /\ ~InvalidateLinks(w)
  <2>1. A \in SUBSET UsableOf(u) /\ B \in SUBSET SendingTo(u)
    BY <1>2, <1>6, LinksFade, SendersFade
  <2>2. QED
    BY <1>1, <2>1, Fewer
<1>7. QED
  BY <1>3, <1>4, <1>5, <1>6, NextShape

LEMMA LinkInit == Init => LinkInv
<1> SUFFICES ASSUME Init, NEW u \in Users
             PROVE  UsableOf(u) = {} /\ SendingTo(u) = {}
  BY OnlyRequests DEF LinkInv
<1>1. QED
  BY DEF Init, UsableOf, Usable, NoLink, SendingTo, Busy

\* More than one reset link of an account is usable only when the requests
\* that sent them overlapped: never more links than requests can overlap.
THEOREM LinksHold == Spec => []LinksBounded
<1>1. LinkInv => LinksBounded
  <2> SUFFICES ASSUME LinkInv, NEW u \in Users
               PROVE  Cardinality(UsableOf(u)) <= Cardinality(Workers)
    BY DEF LinksBounded, UsableOf
  <2>1. IsFiniteSet(UsableOf(u)) /\ IsFiniteSet(SendingTo(u)) /\ Cardinality(Workers) \in Nat
    BY Bounds DEF UsableOf, SendingTo
  <2>2. Cardinality(UsableOf(u)) + Cardinality(SendingTo(u)) <= Cardinality(Workers)
    BY DEF LinkInv
  <2>3. QED
    BY <2>1, <2>2, FS_CardinalityType
<1>2. QED
  BY KnownInit, KnownNext, LinkInit, LinkNext, <1>1, PTL DEF Spec
=============================================================================
