------------------------- MODULE ConversionDispatch -------------------------
(***************************************************************************)
(* Marketing events and their delivery to Meta and TikTok.                 *)
(*                                                                         *)
(* A request records its events, then dispatches them to both providers in *)
(* the background: one call per provider, then one ConversionLog row per   *)
(* event. A cron retries the rows that FAILED, up to MaxAttempts. Nothing  *)
(* keeps two of these tasks from serving the same event.                   *)
(***************************************************************************)
EXTENDS Naturals, FiniteSets

CONSTANTS
  Events,       \* event ids
  Purchases,    \* the ids purchase-<orderNumber>
  Meta, TikTok,
  Configurations, \* bound: sets of providers that an installation has credentials for
  Deliverable,  \* Deliverable[p]: events p has a name for and enough user data
  Sessions,     \* visitor sessions that share the visitor's key
  Batches,      \* bound: events a browser sends at once, under ids it chooses
  Repeats,      \* how often a batch may hold one id (50, MAX_EVENTS_PER_BATCH)
  Workers,      \* bound: tasks the process runs at once
  Take,         \* rows a run of the cron takes (10)
  MaxAttempts,  \* attempts after which the cron gives up (10)
  MaxRequests,  \* bound: requests of a behaviour; sessions move while one is left
  MaxFaults,    \* bound: database errors and restarts of a behaviour
  None

Providers == {Meta, TikTok}

\* The array of events a request works through, as the number of times it holds
\* each event: an id sent twice is pushed, dispatched and counted twice.
Nothing == [e \in Events |-> 0]
Single(e) == [n \in Events |-> IF n = e THEN 1 ELSE 0]
With(b, e) == [b EXCEPT ![e] = @ + 1]
Without(b, e) == [b EXCEPT ![e] = @ - 1]
Held(b) == {e \in Events : b[e] > 0}

ASSUME DispatchAssumption ==
  /\ Meta # TikTok /\ Configurations \subseteq SUBSET Providers
  /\ Purchases \subseteq Events /\ IsFiniteSet(Events) /\ IsFiniteSet(Workers)
  /\ Deliverable \in [Providers -> SUBSET Events]
  /\ Batches \subseteq [Events -> 0..Repeats] \ {Nothing} /\ Repeats \in Nat \ {0}
  /\ Take \in Nat \ {0} /\ MaxAttempts \in Nat \ {0}
  /\ MaxRequests \in Nat /\ MaxFaults \in Nat

VARIABLES
  configured, \* the providers with credentials in this installation
  session,    \* session[s]: none, active, stale (30 minutes unseen) or ended
  recorded,   \* the MarketingEvent rows
  log,        \* log[p][e]: the ConversionLog row, "none" before the first result
  accepted,   \* accepted[p]: events p has accepted, told to us or not
  job,        \* job[w]: the task of worker w
  requests, faults,
  lost        \* history: <<p, e>> without a row that a fault kept from having one

db == <<configured, session, recorded, log>>
vars == <<db, accepted, job, requests, faults, lost>>

NoLog == [status |-> "none", attempts |-> 0]
Idle == [at |-> "idle"]

Init == /\ configured \in Configurations
        /\ session = [s \in Sessions |-> "none"]
        /\ recorded = {}
        /\ log = [p \in Providers |-> [e \in Events |-> NoLog]]
        /\ accepted = [p \in Providers |-> {}]
        /\ job = [w \in Workers |-> Idle]
        /\ requests = 0 /\ faults = 0
        /\ lost = {}

-----------------------------------------------------------------------------
Finish(w) == job' = [job EXCEPT ![w] = Idle]

Recording(todo) == [at |-> "record", todo |-> todo, events |-> Nothing]

\* Events to call the provider about and, for the cron, the rows that wait.
Calling(kind, p, events, queue) ==
  [at |-> "call", kind |-> kind, provider |-> p, events |-> events, queue |-> queue,
   result |-> None]

\* Bound: a slot is left for the second dispatch of a request.
Request(w, j) == /\ job[w] = Idle /\ requests < MaxRequests
                 /\ Cardinality({x \in Workers : job[x].at = "record"}) + 1 < Cardinality(Workers)
                 /\ requests' = requests + 1
                 /\ job' = [job EXCEPT ![w] = j]

-----------------------------------------------------------------------------
(* Visitor sessions, and the requests that record events.                   *)

\* A new session under the visitor's key; its page view is not dispatched.
StartSession(s) ==
  /\ session[s] = "none" /\ requests < MaxRequests
  /\ session' = [session EXCEPT ![s] = "active"]
  /\ UNCHANGED <<configured, recorded, log, accepted, job, requests, faults, lost>>

SessionTimeout(s) ==
  /\ session[s] = "active" /\ requests < MaxRequests
  /\ session' = [session EXCEPT ![s] = "stale"]
  /\ UNCHANGED <<configured, recorded, log, accepted, job, requests, faults, lost>>

\* resolveSession on a session too old: it is ended and the events dropped.
\* findFirst may find any session of the key, an ended one too.
EndSession(s) ==
  /\ session[s] \in {"stale", "ended"} /\ requests < MaxRequests
  /\ session' = [session EXCEPT ![s] = "ended"]
  /\ UNCHANGED <<configured, recorded, log, accepted, job, requests, faults, lost>>

\* trackEvents and recordSearch: the session is resolved and touched.
TrackEvents(w, s, batch) ==
  /\ session[s] = "active"
  /\ Request(w, Recording(batch))
  /\ UNCHANGED <<db, accepted, faults, lost>>

\* trackPurchase, after a payment: nothing when the event exists already.
TrackPurchase(w, e) ==
  /\ e \notin recorded
  /\ Request(w, Recording(Single(e)))
  /\ UNCHANGED <<db, accepted, faults, lost>>

\* createEvent finds the row, or creates it, or finds the one that a racing
\* request created first (P2002): the event is dispatched in every case, also
\* when the same batch has it already.
RecordEvent(w) ==
  /\ job[w].at = "record"
  /\ \E e \in Held(job[w].todo) :
       /\ recorded' = recorded \cup {e}
       /\ job' = [job EXCEPT ![w].todo = Without(@, e), ![w].events = With(@, e)]
  /\ UNCHANGED <<configured, session, log, accepted, requests, faults, lost>>

\* The two dispatches are not awaited: they go on as tasks of their own.
Dispatch(w) ==
  /\ job[w].at = "record" /\ Held(job[w].todo) = {}
  /\ \E x \in Workers \ {w} :
       /\ job[x] = Idle
       /\ job' = [job EXCEPT ![w] = Calling("live", Meta, job[w].events, {}),
                             ![x] = Calling("live", TikTok, job[w].events, {})]
  /\ UNCHANGED <<db, accepted, requests, faults, lost>>

-----------------------------------------------------------------------------
(* The providers. Meta takes a batch or refuses it. TikTok is called once   *)
(* per event, up to the first refusal. An answer may be lost on the way.    *)

Payload(w) == Held(job[w].events) \cap Deliverable[job[w].provider]

\* Sets of events that may have been accepted when the call ends.
Outcomes(p, payload) == IF p = Meta THEN {{}, payload} ELSE SUBSET payload

\* Mutant: a TikTok refusal is logged and the loop goes on.
ResultsIgnoringRefusal(p, payload, S) ==
  IF S = payload \/ (p = TikTok /\ S # {}) THEN {"sent", "failed"} ELSE {"failed"}

Results(p, payload, S) == IF S = payload THEN {"sent", "failed"} ELSE {"failed"}

Skip(w) ==
  /\ job[w].at = "call"
  /\ job[w].provider \notin configured \/ Payload(w) = {}
  /\ job' = [job EXCEPT ![w].at = "log", ![w].result = "skipped"]
  /\ UNCHANGED <<db, accepted, requests, faults, lost>>

Call(w) ==
  /\ job[w].at = "call"
  /\ job[w].provider \in configured /\ Payload(w) # {}
  /\ LET p == job[w].provider
     IN \E S \in Outcomes(p, Payload(w)) :
          /\ accepted' = [accepted EXCEPT ![p] = @ \cup S]
          /\ \E result \in Results(p, Payload(w), S) :
               job' = [job EXCEPT ![w].at = "log", ![w].result = result]
  /\ UNCHANGED <<db, requests, faults, lost>>

-----------------------------------------------------------------------------
(* ConversionLog: one row per event and provider, written once for each     *)
(* element of the array.                                                    *)

\* Mutant: the dispatcher's word is stored as it is.
StatusUnmapped(result) == result

Status(result) == CASE result = "sent"    -> "SENT"
                    [] result = "skipped" -> "SKIPPED"
                    [] result = "failed"  -> "FAILED"

\* Mutant: only a result from the provider counts as an attempt.
CountedIfSent(row, result) ==
  [status |-> Status(result),
   attempts |-> IF result = "sent" THEN row.attempts + 1 ELSE row.attempts]

\* The row as upsert and update leave it, whatever it was.
Logged(row, result) == [status |-> Status(result), attempts |-> row.attempts + 1]

\* Mutant: the first event's row stands for the batch.
RestForgotten(w, e) == Nothing

Rest(w, e) == Without(job[w].events, e)

\* The cron goes on with the next row it had read.
NextJob(w, e) ==
  IF Held(Rest(w, e)) # {} THEN {[job[w] EXCEPT !.events = Rest(w, e)]}
  ELSE IF job[w].queue = {} THEN {Idle}
  ELSE {Calling("retry", job[w].provider, Single(n), job[w].queue \ {n}) : n \in job[w].queue}

LogResult(w) ==
  /\ job[w].at = "log"
  /\ \E e \in Held(job[w].events) :
       /\ log' = [log EXCEPT ![job[w].provider][e] = Logged(@, job[w].result)]
       /\ \E j \in NextJob(w, e) : job' = [job EXCEPT ![w] = j]
  /\ UNCHANGED <<configured, session, recorded, accepted, requests, faults, lost>>

\* Mutant: the cron does not look at the number of attempts.
AnyFailed(p) == {e \in Events : log[p][e].status = "FAILED"}

Pending(p) == {e \in Events : log[p][e].status = "FAILED" /\ log[p][e].attempts < MaxAttempts}

\* Every five minutes, finished before or not: some of the rows, those whose
\* nextRetryAt has come, at most Take and in no order; then one call and one
\* update after the other.
RetryFailed(w, p) ==
  /\ job[w] = Idle
  /\ \E Q \in (SUBSET Pending(p)) \ {{}} :
       /\ Cardinality(Q) <= Take
       /\ \E e \in Q : job' = [job EXCEPT ![w] = Calling("retry", p, Single(e), Q \ {e})]
  /\ UNCHANGED <<db, accepted, requests, faults, lost>>

-----------------------------------------------------------------------------
(* Faults.                                                                  *)

Fault == faults < MaxFaults /\ faults' = faults + 1

\* What worker w would still have logged, and the part of it without a row.
Owed(w) ==
  CASE job[w].at = "idle"   -> {}
    [] job[w].at = "record" -> Providers \X Held(job[w].events)
    [] OTHER                -> {job[w].provider} \X (Held(job[w].events) \cup job[w].queue)

Missed(S) == {o \in S : log[o[1]][o[2]].status = "none"}

\* The creation of an event throws (an unknown product): those recorded before
\* it in the request are not dispatched either. A purchase is updated and read
\* back after its creation, which may throw too.
RecordFails(w) ==
  /\ job[w].at = "record" /\ Fault
  /\ Held(job[w].todo) # {} \/ Held(job[w].events) \cap Purchases # {}
  /\ lost' = lost \cup Missed(Owed(w))
  /\ Finish(w)
  /\ UNCHANGED <<db, accepted, requests>>

\* An upsert that fails is caught, the loop goes on; an update of the cron that
\* fails ends its run.
LogFails(w) ==
  /\ job[w].at = "log" /\ Fault
  /\ \E e \in Held(job[w].events) :
       /\ lost' = lost \cup Missed({job[w].provider} \X ({e} \ Held(Rest(w, e))))
       /\ IF job[w].kind = "retry" THEN Finish(w)
          ELSE \E j \in NextJob(w, e) : job' = [job EXCEPT ![w] = j]
  /\ UNCHANGED <<db, accepted, requests>>

Restart ==
  /\ Fault
  /\ lost' = lost \cup Missed(UNION {Owed(w) : w \in Workers})
  /\ job' = [w \in Workers |-> Idle]
  /\ UNCHANGED <<db, accepted, requests>>

-----------------------------------------------------------------------------
Work(w) == RecordEvent(w) \/ Dispatch(w) \/ Skip(w) \/ Call(w) \/ LogResult(w)
Retry(p) == \E w \in Workers : RetryFailed(w, p)

Next ==
  \/ \E w \in Workers :
       \/ \E s \in Sessions, batch \in Batches : TrackEvents(w, s, batch)
       \/ \E e \in Purchases : TrackPurchase(w, e)
       \/ Work(w) \/ RecordFails(w) \/ LogFails(w)
  \/ \E p \in Providers : Retry(p)
  \/ \E s \in Sessions : StartSession(s) \/ SessionTimeout(s) \/ EndSession(s)
  \/ Restart

\* Tasks run; the cron is triggered and the time of a failed row comes.
Fairness == /\ \A w \in Workers : WF_vars(Work(w))
            /\ \A p \in Providers : WF_vars(Retry(p))

Spec == Init /\ [][Next]_vars /\ Fairness

-----------------------------------------------------------------------------
Rows == [status: {"none", "SENT", "SKIPPED", "FAILED"}, attempts: Nat]
Counts == [Events -> Nat]
Jobs == [at: {"record"}, todo: Counts, events: Counts]
        \cup [at: {"call", "log"}, kind: {"live", "retry"}, provider: Providers,
              events: Counts, queue: SUBSET Events,
              result: {None, "sent", "skipped", "failed"}]
        \cup {Idle}

\* Every variable has the shape the rest of the module relies on.
TypeOK == /\ configured \subseteq Providers
          /\ session \in [Sessions -> {"none", "active", "stale", "ended"}]
          /\ recorded \subseteq Events
          /\ log \in [Providers -> [Events -> Rows]]
          /\ accepted \in [Providers -> SUBSET Events]
          /\ job \in [Workers -> Jobs]
          /\ requests \in 0..MaxRequests /\ faults \in 0..MaxFaults
          /\ lost \subseteq Providers \X Events

\* A row SENT tells the truth about an event that could be delivered, whatever
\* other tasks wrote to the row before and after. (Events of a batch that
\* could not be delivered are marked SENT with the others.)
SentIsAccepted ==
  \A p \in Providers : \A e \in Deliverable[p] :
    log[p][e].status = "SENT" => e \in accepted[p]

\* No recorded event is forgotten: it has a row at each provider, or a task
\* that will write it, unless a fault struck between the two.
NothingForgotten ==
  \A p \in Providers, e \in recorded :
    \/ log[p][e].status # "none"
    \/ <<p, e>> \in lost
    \/ \E w \in Workers : <<p, e>> \in Owed(w)

\* The cron gives up: overlapping runs exceed MaxAttempts by one attempt each
\* at most, and a browser that sends an event again adds one for every time the
\* batch holds it.
AttemptsBounded ==
  \A p \in Providers, e \in Events :
    log[p][e].attempts <= (MaxAttempts - 1) + Cardinality(Workers) + Repeats * requests

\* A failed delivery is retried until it succeeds, becomes pointless or has
\* used up its attempts, although the cron reads its rows in no order, takes a
\* few of them, and other tasks may overwrite what it wrote.
FailuresSettle ==
  \A p \in Providers, e \in Events :
    log[p][e].status = "FAILED" ~> \/ log[p][e].status # "FAILED"
                                   \/ log[p][e].attempts >= MaxAttempts
=============================================================================
