---------------------------- MODULE AuthSessions ----------------------------
(***************************************************************************)
(* Accounts and sessions: AuthService, and what UsersService does to them. *)
(*                                                                         *)
(* A session is a chain of refresh tokens: each refresh revokes the token  *)
(* it is given and issues the next one under the same session id. Requests *)
(* are sequences of statements; what they found is not checked again when  *)
(* they write. Hashing a password or asking a provider leaves time for     *)
(* others between a read and the writes it leads to.                       *)
(***************************************************************************)
EXTENDS Naturals, FiniteSets

CONSTANTS
  Users,       \* accounts, one per e-mail address
  Registered,  \* those that exist and are signed in at the start
  Identities,  \* accounts at Google or Apple, each with a verified address
  EmailOf,     \* EmailOf[i]: the account that address belongs to
  Tokens,      \* bound: ids of refresh tokens
  FirstToken,  \* FirstToken[u]: the token of a registered account's session
  Links,       \* bound: ids of password reset tokens
  States,      \* bound: Apple sign-ins that are begun
  Workers,
  MaxRequests, \* bound: requests of a behaviour
  Handlers,    \* the requests that are made
  Nil

HandlerKinds == {"register", "login", "refresh", "logout", "forgot", "reset", "change",
                 "remove", "status", "social", "apple"}

ASSUME AuthAssumption ==
  /\ Registered \subseteq Users
  /\ EmailOf \in [Identities -> Users]
  /\ FirstToken \in [Registered -> Tokens]
  /\ \A u, v \in Registered : u # v => FirstToken[u] # FirstToken[v]
  /\ Nil \notin Users \cup Tokens \cup Links \cup States \cup Identities
  /\ IsFiniteSet(Workers) /\ IsFiniteSet(Links) /\ IsFiniteSet(Tokens)
  /\ MaxRequests \in Nat
  /\ Handlers \subseteq HandlerKinds

VARIABLES
  user,       \* user[u]: status of the row, whether it has a password
  token,      \* token[t]: a refresh token
  link,       \* link[l]: a password reset token
  identity,   \* identity[i]: the account it signs in to, Nil before the first time
  appleTx,    \* appleTx[s]: Apple sign-in begun with that state, kept in memory
  appleCode,  \* appleCode[s]: the transfer code of its session, kept in memory
  job,        \* job[w]: the request worker w is serving
  requests,   \* requests made so far
  epoch,      \* history: epoch[u] counts the revocations of all sessions of u
  survivors   \* history: sessions a request was serving at such a revocation

tables == <<user, token, link, identity>>
memory == <<appleTx, appleCode>>
history == <<epoch, survivors>>
vars == <<tables, memory, job, requests, history>>

\* parent and via: the token it was exchanged for, the Apple sign-in it is of;
\* origin: the epoch at which the session was granted.
NoToken == [status |-> "free", expired |-> FALSE, user |-> Nil, session |-> Nil,
            parent |-> Nil, via |-> Nil, origin |-> 0]
NoLink == [status |-> "free", expired |-> FALSE, user |-> Nil]
Idle == [op |-> "idle"]

Init ==
  /\ user = [u \in Users |-> IF u \in Registered THEN [status |-> "ACTIVE", password |-> TRUE]
                             ELSE [status |-> "none", password |-> FALSE]]
  /\ token = [t \in Tokens |->
                IF \E u \in Registered : FirstToken[u] = t
                THEN [NoToken EXCEPT !.status = "issued", !.session = t,
                        !.user = CHOOSE u \in Registered : FirstToken[u] = t]
                ELSE NoToken]
  /\ link = [l \in Links |-> NoLink]
  /\ identity = [i \in Identities |-> Nil]
  /\ appleTx = [s \in States |-> "none"]
  /\ appleCode = [s \in States |-> "none"]
  /\ job = [w \in Workers |-> Idle]
  /\ requests = 0
  /\ epoch = [u \in Users |-> 0]
  /\ survivors = {}

-----------------------------------------------------------------------------
Busy(w) == job[w] # Idle
Finish(w) == job' = [job EXCEPT ![w] = Idle]

\* A request in progress; token is the id its session will be issued under.
Request(op, at, u) == [op |-> op, at |-> at, user |-> u, token |-> Nil, session |-> Nil,
                       parent |-> Nil, via |-> Nil, origin |-> 0, link |-> Nil,
                       identity |-> Nil]

Begin(w, j) == /\ ~Busy(w) /\ requests < MaxRequests
               /\ requests' = requests + 1
               /\ job' = [job EXCEPT ![w] = j]

FreshTokens == {t \in Tokens : /\ token[t].status = "free"
                               /\ \A x \in Workers : Busy(x) => job[x].token # t}

Valid(t) == token[t].status = "issued" /\ ~token[t].expired
Usable(l) == link[l].status = "sent" /\ ~link[l].expired

\* j, with a new session granted to the account as it is now.
Granted(j, t) == [j EXCEPT !.token = t, !.session = t, !.origin = epoch[j.user]]

-----------------------------------------------------------------------------
(* register, login, and issueSession, which ends every way of signing in.   *)

\* The address is looked up, then the password hashed, then the row created.
Register(w, u) ==
  /\ "register" \in Handlers
  /\ user[u].status = "none"
  /\ Begin(w, Request("register", "createUser", u))
  /\ UNCHANGED <<tables, memory, history>>

Login(w, u) ==
  /\ "login" \in Handlers
  /\ user[u].status = "ACTIVE" /\ user[u].password
  /\ \E t \in FreshTokens : Begin(w, Granted(Request("login", "issue", u), t))
  /\ UNCHANGED <<tables, memory, history>>

\* Mutant: a social account has a null password, not an empty one.
NullPassword(social) == IF social THEN Nil ELSE TRUE

\* login refuses the empty password of an account created by a social sign-in.
HasPassword(social) == ~social

\* register and the first social sign-in; an address taken meanwhile fails.
CreateUser(w) ==
  /\ Busy(w) /\ job[w].at = "createUser"
  /\ LET u == job[w].user
         social == job[w].op # "register"
     IN IF user[u].status # "none" THEN Finish(w) /\ UNCHANGED user
        ELSE /\ user' = [user EXCEPT ![u] = [status |-> "ACTIVE", password |-> HasPassword(social)]]
             /\ IF social THEN job' = [job EXCEPT ![w].at = "link"]
                ELSE \E t \in FreshTokens :
                       job' = [job EXCEPT ![w] = Granted([@ EXCEPT !.at = "issue"], t)]
  /\ UNCHANGED <<token, link, identity, memory, requests, history>>

IssueSession(w) ==
  /\ Busy(w) /\ job[w].at = "issue"
  /\ LET j == job[w]
     IN /\ token' = [token EXCEPT ![j.token] =
                       [status |-> "issued", expired |-> FALSE, user |-> j.user,
                        session |-> j.session, parent |-> j.parent, via |-> j.via,
                        origin |-> j.origin]]
        /\ appleCode' = IF j.via = Nil THEN appleCode
                        ELSE [appleCode EXCEPT ![j.via] = "ready"]
  /\ Finish(w)
  /\ UNCHANGED <<user, link, identity, appleTx, requests, history>>

-----------------------------------------------------------------------------
(* refresh and logout.                                                      *)

\* Mutant: the lookup does not ask for revokedAt: null.
Unexpired(t) == token[t].status \in {"issued", "revoked"} /\ ~token[t].expired

Refreshable(t) == Valid(t)

Refresh(w, t) ==
  /\ "refresh" \in Handlers
  /\ Refreshable(t) /\ user[token[t].user].status = "ACTIVE"
  /\ \E n \in FreshTokens :
       Begin(w, [Request("refresh", "revoke", token[t].user) EXCEPT
                   !.token = n, !.session = token[t].session, !.parent = t,
                   !.origin = token[t].origin])
  /\ UNCHANGED <<tables, memory, history>>

\* Mutant: the token given is left valid.
RevokeNothing(w) ==
  /\ Busy(w) /\ job[w].at = "revoke"
  /\ job' = [job EXCEPT ![w].at = "issue"]
  /\ UNCHANGED <<tables, memory, requests, history>>

\* By id, whether it was revoked meanwhile or not; a deleted row throws.
RevokeParent(w) ==
  /\ Busy(w) /\ job[w].at = "revoke"
  /\ IF token[job[w].parent].status = "deleted" THEN Finish(w) /\ UNCHANGED token
     ELSE /\ token' = [token EXCEPT ![job[w].parent].status = "revoked"]
          /\ job' = [job EXCEPT ![w].at = "issue"]
  /\ UNCHANGED <<user, link, identity, memory, requests, history>>

Logout(t) ==
  /\ "logout" \in Handlers
  /\ requests < MaxRequests /\ requests' = requests + 1
  /\ token[t].status = "issued"
  /\ token' = [token EXCEPT ![t].status = "revoked"]
  /\ UNCHANGED <<user, link, identity, memory, job, history>>

-----------------------------------------------------------------------------
(* Everything that ends all the sessions of an account.                     *)

\* Mutant: the password changes and the sessions go on.
KeepSessions(u) == UNCHANGED token

RevokeAll(u) ==
  token' = [t \in Tokens |-> IF token[t].user = u /\ token[t].status = "issued"
                             THEN [token[t] EXCEPT !.status = "revoked"] ELSE token[t]]

InProgress(u) == {job[x].session : x \in {y \in Workers : Busy(y) /\ job[y].user = u}} \ {Nil}

EndSessions(u) == /\ RevokeAll(u)
                  /\ epoch' = [epoch EXCEPT ![u] = @ + 1]
                  /\ survivors' = survivors \cup InProgress(u)

\* UsersService.changePassword: the row is written, then the sessions revoked.
ChangePassword(w, u) ==
  /\ "change" \in Handlers
  /\ user[u].status = "ACTIVE" /\ user[u].password
  /\ Begin(w, Request("change", "endSessions", u))
  /\ UNCHANGED <<tables, memory, history>>

\* UsersService.remove: the sessions are revoked, then the account suspended.
RemoveUser(w, u) ==
  /\ "remove" \in Handlers
  /\ user[u].status # "none"
  /\ Begin(w, Request("remove", "endSessions", u))
  /\ UNCHANGED <<tables, memory, history>>

RevokeSessions(w) ==
  /\ Busy(w) /\ job[w].at = "endSessions"
  /\ EndSessions(job[w].user)
  /\ IF job[w].op = "change" THEN Finish(w)
     ELSE job' = [job EXCEPT ![w].at = "suspend"]
  /\ UNCHANGED <<user, link, identity, memory, requests>>

Suspend(w) ==
  /\ Busy(w) /\ job[w].at = "suspend"
  /\ user' = [user EXCEPT ![job[w].user].status = "SUSPENDED"]
  /\ Finish(w)
  /\ UNCHANGED <<token, link, identity, memory, requests, history>>

\* UsersService.updateStatus leaves the tokens alone.
UpdateStatus(u, status) ==
  /\ "status" \in Handlers
  /\ requests < MaxRequests /\ requests' = requests + 1
  /\ user[u].status # "none"
  /\ user' = [user EXCEPT ![u].status = status]
  /\ UNCHANGED <<token, link, identity, memory, job, history>>

-----------------------------------------------------------------------------
(* forgotPassword and resetPassword.                                        *)

ForgotPassword(w, u) ==
  /\ "forgot" \in Handlers
  /\ user[u].status = "ACTIVE"
  /\ Begin(w, Request("forgot", "invalidate", u))
  /\ UNCHANGED <<tables, memory, history>>

\* Mutant: the links sent before stay usable.
InvalidateNone(w) ==
  /\ Busy(w) /\ job[w].at = "invalidate"
  /\ job' = [job EXCEPT ![w].at = "send"]
  /\ UNCHANGED <<tables, memory, requests, history>>

InvalidateLinks(w) ==
  /\ Busy(w) /\ job[w].at = "invalidate"
  /\ link' = [l \in Links |-> IF link[l].user = job[w].user /\ link[l].status = "sent"
                              THEN [link[l] EXCEPT !.status = "used"] ELSE link[l]]
  /\ job' = [job EXCEPT ![w].at = "send"]
  /\ UNCHANGED <<user, token, identity, memory, requests, history>>

SendLink(w) ==
  /\ Busy(w) /\ job[w].at = "send"
  /\ \E l \in Links : /\ link[l].status = "free"
                      /\ link' = [link EXCEPT ![l] = [status |-> "sent", expired |-> FALSE,
                                                      user |-> job[w].user]]
  /\ Finish(w)
  /\ UNCHANGED <<user, token, identity, memory, requests, history>>

ResetPassword(w, l) ==
  /\ "reset" \in Handlers
  /\ Usable(l)
  /\ Begin(w, [Request("reset", "apply", link[l].user) EXCEPT !.link = l])
  /\ UNCHANGED <<tables, memory, history>>

\* Once the password is hashed, one transaction, which checks nothing again;
\* it fails when the cron deleted the link.
ApplyReset(w) ==
  /\ Busy(w) /\ job[w].at = "apply"
  /\ IF link[job[w].link].status = "deleted" THEN UNCHANGED <<user, token, link, history>>
     ELSE /\ user' = [user EXCEPT ![job[w].user].password = TRUE]
          /\ link' = [link EXCEPT ![job[w].link].status = "used"]
          /\ EndSessions(job[w].user)
  /\ Finish(w)
  /\ UNCHANGED <<identity, memory, requests>>

-----------------------------------------------------------------------------
(* socialLogin, directly with Google, through a callback with Apple.        *)

\* What the identity leads to: its account, the account of its address, or a
\* new one.
SocialSteps(i, j) ==
  LET u == EmailOf[i]
      known == identity[i]
  IN IF known # Nil
     THEN {Granted([j EXCEPT !.at = "issue", !.user = known], t) :
             t \in {n \in FreshTokens : user[known].status = "ACTIVE"}}
     ELSE {[j EXCEPT !.at = IF user[u].status = "none" THEN "createUser" ELSE "link"]}

SocialRequest(op, i) == [Request(op, "issue", EmailOf[i]) EXCEPT !.identity = i]

SocialLogin(w, i) ==
  /\ "social" \in Handlers
  /\ \E j \in SocialSteps(i, SocialRequest("social", i)) : Begin(w, j)
  /\ UNCHANGED <<tables, memory, history>>

LinkIdentity(w) ==
  /\ Busy(w) /\ job[w].at = "link"
  /\ IF identity[job[w].identity] # Nil THEN Finish(w) /\ UNCHANGED identity
     ELSE /\ identity' = [identity EXCEPT ![job[w].identity] = job[w].user]
          /\ \E t \in FreshTokens :
               job' = [job EXCEPT ![w] = Granted([@ EXCEPT !.at = "issue"], t)]
  /\ UNCHANGED <<user, token, link, memory, requests, history>>

InitiateApple(s) ==
  /\ "apple" \in Handlers
  /\ appleTx[s] = "none"
  /\ appleTx' = [appleTx EXCEPT ![s] = "open"]
  /\ UNCHANGED <<tables, appleCode, job, requests, history>>

\* Mutant: the transaction is looked up and left in the map.
ReadTx(s) == UNCHANGED appleTx

\* A callback takes the transaction out of the map whatever becomes of it.
ConsumeTx(s) == appleTx' = [appleTx EXCEPT ![s] = "consumed"]

AppleCallback(w, s, i) ==
  /\ appleTx[s] = "open"
  /\ ConsumeTx(s)
  /\ \E j \in SocialSteps(i, [SocialRequest("apple", i) EXCEPT !.via = s]) : Begin(w, j)
  /\ UNCHANGED <<tables, appleCode, history>>

\* A late callback, or one whose cookie or identity token is refused.
RefuseCallback(s) ==
  /\ appleTx[s] \in {"open", "late"}
  /\ ConsumeTx(s)
  /\ UNCHANGED <<tables, appleCode, job, requests, history>>

ExchangeAppleCode(s) ==
  /\ appleCode[s] \in {"ready", "late"}
  /\ appleCode' = [appleCode EXCEPT ![s] = "taken"]
  /\ UNCHANGED <<tables, appleTx, job, requests, history>>

-----------------------------------------------------------------------------
(* Time, the nightly cron, and restarts.                                    *)

ExpireToken(t) == /\ Valid(t)
                  /\ token' = [token EXCEPT ![t].expired = TRUE]
                  /\ UNCHANGED <<user, link, identity, memory, job, requests, history>>

ExpireLink(l) == /\ Usable(l)
                 /\ link' = [link EXCEPT ![l].expired = TRUE]
                 /\ UNCHANGED <<user, token, identity, memory, job, requests, history>>

ExpireApple(s) ==
  /\ \/ appleTx[s] = "open" /\ appleTx' = [appleTx EXCEPT ![s] = "late"] /\ UNCHANGED appleCode
     \/ appleCode[s] = "ready" /\ appleCode' = [appleCode EXCEPT ![s] = "late"]
        /\ UNCHANGED appleTx
  /\ UNCHANGED <<tables, job, requests, history>>

CleanExpiredTokens ==
  /\ appleTx' = [s \in States |-> IF appleTx[s] = "late" THEN "consumed" ELSE appleTx[s]]
  /\ appleCode' = [s \in States |-> IF appleCode[s] = "late" THEN "taken" ELSE appleCode[s]]
  /\ token' = [t \in Tokens |-> IF token[t].expired THEN [token[t] EXCEPT !.status = "deleted"]
                                ELSE token[t]]
  /\ link' = [l \in Links |-> IF link[l].expired \/ link[l].status = "used"
                              THEN [link[l] EXCEPT !.status = "deleted"] ELSE link[l]]
  /\ UNCHANGED <<user, identity, job, requests, history>>

\* The process dies: its requests stop, the two maps are lost.
Restart ==
  /\ job' = [w \in Workers |-> Idle]
  /\ appleTx' = [s \in States |-> IF appleTx[s] = "none" THEN "none" ELSE "consumed"]
  /\ appleCode' = [s \in States |-> IF appleCode[s] = "none" THEN "none" ELSE "taken"]
  /\ UNCHANGED <<tables, requests, history>>

-----------------------------------------------------------------------------
Start(w) ==
  \/ \E u \in Users : \/ Register(w, u) \/ Login(w, u) \/ ChangePassword(w, u)
                      \/ RemoveUser(w, u) \/ ForgotPassword(w, u)
  \/ \E t \in Tokens : Refresh(w, t)
  \/ \E l \in Links : ResetPassword(w, l)
  \/ \E i \in Identities : SocialLogin(w, i)
  \/ \E s \in States, i \in Identities : AppleCallback(w, s, i)

Continue(w) == \/ CreateUser(w) \/ IssueSession(w) \/ RevokeParent(w) \/ RevokeSessions(w)
               \/ Suspend(w) \/ InvalidateLinks(w) \/ SendLink(w) \/ ApplyReset(w)
               \/ LinkIdentity(w)

Direct == \/ \E t \in Tokens : Logout(t) \/ ExpireToken(t)
          \/ \E l \in Links : ExpireLink(l)
          \/ \E u \in Users, status \in {"ACTIVE", "SUSPENDED"} : UpdateStatus(u, status)
          \/ \E s \in States : \/ InitiateApple(s) \/ RefuseCallback(s) \/ ExchangeAppleCode(s)
                               \/ ExpireApple(s)
          \/ CleanExpiredTokens \/ Restart

Next == Direct \/ \E w \in Workers : Start(w) \/ Continue(w)

Spec == Init /\ [][Next]_vars

-----------------------------------------------------------------------------
OrNil(S) == S \cup {Nil}
TokenRows == [status: {"free", "issued", "revoked", "deleted"}, expired: BOOLEAN,
              user: OrNil(Users), session: OrNil(Tokens), parent: OrNil(Tokens),
              via: OrNil(States), origin: Nat]
LinkRows == [status: {"free", "sent", "used", "deleted"}, expired: BOOLEAN, user: OrNil(Users)]
Jobs == [op: HandlerKinds,
         at: {"createUser", "issue", "revoke", "endSessions", "suspend", "invalidate", "send",
              "apply", "link"},
         user: Users, token: OrNil(Tokens), session: OrNil(Tokens), parent: OrNil(Tokens),
         via: OrNil(States), origin: Nat, link: OrNil(Links), identity: OrNil(Identities)]

\* Every variable has the shape the rest of the module relies on.
TypeOK ==
  /\ user \in [Users -> [status: {"none", "ACTIVE", "SUSPENDED"}, password: BOOLEAN]]
  /\ token \in [Tokens -> TokenRows]
  /\ link \in [Links -> LinkRows]
  /\ identity \in [Identities -> OrNil(Users)]
  /\ appleTx \in [States -> {"none", "open", "late", "consumed"}]
  /\ appleCode \in [States -> {"none", "ready", "late", "taken"}]
  /\ job \in [Workers -> Jobs \cup {Idle}]
  /\ requests \in 0..MaxRequests
  /\ epoch \in [Users -> Nat]
  /\ survivors \subseteq Tokens

\* A reset, a change of password or the removal of an account ends its
\* sessions for good: a token that is still valid belongs to a session granted
\* since, or to one that a request was serving at that very moment, however
\* many refreshes, expiries and restarts followed.
OnlySurvivors ==
  \A t \in Tokens : Valid(t) => \/ token[t].origin = epoch[token[t].user]
                                \/ token[t].session \in survivors

\* A refresh token is exchanged once, or once per request that reads it before
\* the first of them revokes it: a session never forks further than that.
ExchangesBounded ==
  \A t \in Tokens : Cardinality({n \in Tokens : token[n].parent = t}) <= Cardinality(Workers)

\* Asking for a new reset link invalidates the older ones: more than one link
\* of an account is usable only when requests overlapped, one for each.
LinksBounded ==
  \A u \in Users :
    Cardinality({l \in Links : Usable(l) /\ link[l].user = u}) <= Cardinality(Workers)

\* An Apple sign-in leads to one session at most, although its callback may be
\* repeated and waits for the provider and the database before it answers.
OneSessionPerSignIn ==
  \A s \in States : Cardinality({t \in Tokens : token[t].via = s}) <= 1

\* A session is over when none of its tokens is valid and no request serves it.
Over(n) == /\ token[n].session = n
           /\ \A t \in Tokens : token[t].session = n => ~Valid(t)
           /\ \A w \in Workers : Busy(w) => job[w].session # n

\* A session that is over, by logout, expiry or revocation, never comes back.
OverForGood == [][\A n \in Tokens : Over(n) => Over(n)']_vars
=============================================================================
