---------------------- MODULE ConversionDispatch_proofs ----------------------
(***************************************************************************)
(* Proofs about ConversionDispatch. Rows are never removed and providers   *)
(* never forget, so what a task has read or been told stays true while     *)
(* others go on; the invariants say what each task still owes.             *)
(***************************************************************************)
EXTENDS ConversionDispatch, FiniteSetTheorems, TLAPS

-----------------------------------------------------------------------------
(* The inductive invariants.                                                *)

Recorders == [at: {"record"}, todo: Counts, events: Counts]
Callers == [at: {"call", "log"}, kind: {"live", "retry"}, provider: Providers,
            events: Counts, queue: SUBSET Events,
            result: {None, "sent", "skipped", "failed"}]

HasRow(p, e) == log[p][e].status # "none"

\* A request holds an event no more often than its batch did. What the cron serves
\* has a row already, and no event is served twice by one run.
TaskSound(w) ==
  /\ job[w].at = "record" =>
       \A e \in Events : job[w].todo[e] + job[w].events[e] <= Repeats
  /\ job[w].at \in {"call", "log"} =>
       /\ Held(job[w].events) \cap job[w].queue = {}
       /\ \A e \in job[w].queue : HasRow(job[w].provider, e)
       /\ job[w].kind = "live" =>
            job[w].queue = {} /\ \A e \in Events : job[w].events[e] <= Repeats
       /\ job[w].kind = "retry" =>
            \A e \in Held(job[w].events) :
              HasRow(job[w].provider, e) /\ job[w].events[e] = 1
  /\ job[w].at = "log" => job[w].result \in {"sent", "skipped", "failed"}

DispatchInv == TypeOK /\ \A w \in Workers : TaskSound(w)

\* A task that will write SENT was told so.
Told(w) ==
  (job[w].at = "log" /\ job[w].result = "sent") =>
    Held(job[w].events) \cap Deliverable[job[w].provider] \subseteq accepted[job[w].provider]

SentInv == SentIsAccepted /\ \A w \in Workers : Told(w)

\* The attempts of event e at provider p that requests may still count, one by one,
\* and the runs of the cron that may still count one.
Copies(w, p, e) ==
  IF job[w].at = "record" THEN job[w].todo[e] + job[w].events[e]
  ELSE IF job[w].at \in {"call", "log"} /\ job[w].kind = "live" /\ job[w].provider = p
  THEN job[w].events[e] ELSE 0
Live(p, e) == {c \in Workers \X (1..Repeats) : c[2] <= Copies(c[1], p, e)}

Retries(w, p, e) == /\ job[w].at \in {"call", "log"} /\ job[w].kind = "retry"
                    /\ job[w].provider = p
                    /\ e \in job[w].queue \/ job[w].events[e] > 0
Retrying(p, e) == {w \in Workers : Retries(w, p, e)}

AttemptsAt(p, e) ==
  /\ Cardinality(Live(p, e)) <= Repeats * requests
  /\ log[p][e].attempts + Cardinality(Retrying(p, e)) + Cardinality(Live(p, e))
       <= (MaxAttempts - 1) + Cardinality(Workers) + Repeats * requests
AttemptsInv == \A p \in Providers, e \in Events : AttemptsAt(p, e)

-----------------------------------------------------------------------------
(* Events held several times.                                               *)

LEMMA NothingHeld == Nothing \in Counts /\ Held(Nothing) = {} /\ \A e \in Events : Nothing[e] = 0
BY DEF Nothing, Counts, Held

LEMMA SingleHeld ==
  ASSUME NEW e \in Events
  PROVE  /\ Single(e) \in Counts /\ Held(Single(e)) = {e} /\ Single(e)[e] = 1
         /\ \A n \in Events : Single(e)[n] <= 1
BY DEF Single, Counts, Held

LEMMA WithHeld ==
  ASSUME NEW b \in Counts, NEW e \in Events
  PROVE  /\ With(b, e) \in Counts /\ With(b, e)[e] = b[e] + 1
         /\ Held(With(b, e)) = Held(b) \cup {e}
         /\ \A n \in Events \ {e} : With(b, e)[n] = b[n]
BY DEF With, Counts, Held

LEMMA WithoutHeld ==
  ASSUME NEW b \in Counts, NEW e \in Held(b)
  PROVE  /\ Without(b, e) \in Counts /\ Without(b, e)[e] = b[e] - 1
         /\ Held(Without(b, e)) \subseteq Held(b)
         /\ Held(b) \ {e} \subseteq Held(Without(b, e))
         /\ b[e] = 1 => Held(Without(b, e)) = Held(b) \ {e}
         /\ \A n \in Events \ {e} : Without(b, e)[n] = b[n]
BY DEF Without, Counts, Held

-----------------------------------------------------------------------------
(* Tasks and rows.                                                          *)

LEMMA Kinds ==
  ASSUME TypeOK, NEW w \in Workers
  PROVE  /\ job[w] \in Recorders \cup Callers \cup {Idle}
         /\ job[w].at = "record" => job[w] \in Recorders
         /\ job[w].at \in {"call", "log"} => job[w] \in Callers
         /\ job[w] # Idle => job[w].at \in {"record", "call", "log"}
         /\ job[w] = Idle => job[w].at = "idle"
         /\ job[w].at \in {"idle", "record", "call", "log"}
<1>1. job[w] \in Recorders \cup Callers \cup {Idle}
  BY DEF TypeOK, Jobs, Recorders, Callers
<1>2. QED
  BY <1>1 DEF Recorders, Callers, Idle

LEMMA JobSet ==
  ASSUME TypeOK, NEW w \in Workers, NEW j \in Jobs, job' = [job EXCEPT ![w] = j]
  PROVE  /\ job' \in [Workers -> Jobs] /\ job'[w] = j
         /\ \A x \in Workers \ {w} : job'[x] = job[x]
BY DEF TypeOK

LEMMA CallersJobs ==
  ASSUME NEW j, j \in Callers \/ j \in Recorders \/ j = Idle
  PROVE  j \in Jobs
BY DEF Jobs, Callers, Recorders

LEMMA Statuses ==
  /\ Status("sent") = "SENT" /\ Status("skipped") = "SKIPPED" /\ Status("failed") = "FAILED"
<1>1. Status("sent") = "SENT"
  BY Zenon DEF Status
<1>2. Status("skipped") = "SKIPPED"
  BY Zenon DEF Status
<1>3. Status("failed") = "FAILED"
  BY Zenon DEF Status
<1>4. QED
  BY <1>1, <1>2, <1>3

LEMMA LoggedRow ==
  ASSUME NEW row \in Rows, NEW result \in {"sent", "skipped", "failed"}
  PROVE  /\ Logged(row, result) \in Rows
         /\ Logged(row, result).status # "none"
         /\ Logged(row, result).status = "SENT" => result = "sent"
         /\ Logged(row, result).attempts = row.attempts + 1
<1>1. Status(result) \in {"SENT", "SKIPPED", "FAILED"} /\ (Status(result) = "SENT" => result = "sent")
  BY Statuses
<1>2. PICK s : s = Status(result)
  OBVIOUS
<1>3. Logged(row, result) = [status |-> s, attempts |-> row.attempts + 1]
  BY <1>2 DEF Logged
<1>4. QED
  BY <1>1, <1>2, <1>3 DEF Rows

\* What a task turns to once the row of e is written: it has e once less, and the
\* cron goes on with the next row once it has none.
LEMMA NextJobs ==
  ASSUME TypeOK, NEW w \in Workers, job[w].at = "log", TaskSound(w),
         NEW e \in Held(job[w].events), NEW j \in NextJob(w, e)
  PROVE  \/ j = Idle /\ Held(job[w].events) = {e} /\ job[w].events[e] = 1 /\ job[w].queue = {}
         \/ /\ j \in Callers /\ j.at = "log" /\ j.kind = job[w].kind
            /\ j.provider = job[w].provider /\ j.result = job[w].result
            /\ j.queue = job[w].queue /\ j.events = Rest(w, e)
         \/ /\ Held(job[w].events) = {e} /\ job[w].events[e] = 1
            /\ \E n \in job[w].queue :
                 /\ j \in Callers /\ j.at = "call" /\ j.kind = "retry"
                 /\ j.provider = job[w].provider
                 /\ j.queue = job[w].queue \ {n} /\ j.events = Single(n)
<1>1. job[w] \in Callers /\ Held(job[w].events) \cap job[w].queue = {}
  BY Kinds DEF TaskSound
<1>2. PICK b, rest : b = job[w].events /\ rest = Rest(w, e)
  OBVIOUS
<1>3. b \in Counts /\ e \in Held(b) /\ e \in Events /\ rest = Without(b, e)
  BY <1>1, <1>2 DEF Callers, Rest, Held
<1>4. /\ rest \in Counts /\ Held(b) \ {e} \subseteq Held(rest)
      /\ rest[e] = b[e] - 1
  BY <1>3, WithoutHeld
<1>5. CASE Held(Rest(w, e)) # {}
  <2>1. j = [job[w] EXCEPT !.events = rest]
    BY <1>2, <1>5 DEF NextJob
  <2>2. /\ j \in Callers /\ j.provider = job[w].provider /\ j.events = rest
        /\ j.queue = job[w].queue /\ j.at = "log" /\ j.kind = job[w].kind
        /\ j.result = job[w].result
    BY <1>1, <1>4, <2>1 DEF Callers
  <2>3. QED
    BY <1>2, <2>2
<1>6. CASE Held(Rest(w, e)) = {}
  <2>1. Held(b) = {e}
    BY <1>2, <1>3, <1>4, <1>6
  <2>2. b[e] = 1
    <3>1. b[e] \in Nat /\ b[e] > 0
      BY <1>3 DEF Held, Counts
    <3>2. ~(rest[e] > 0)
      BY <1>2, <1>3, <1>6 DEF Held
    <3>3. QED
      BY <1>4, <3>1, <3>2
  <2>3. CASE job[w].queue = {}
    BY <1>2, <1>6, <2>1, <2>2, <2>3 DEF NextJob
  <2>4. CASE job[w].queue # {}
    <3>1. PICK n \in job[w].queue :
            j = Calling("retry", job[w].provider, Single(n), job[w].queue \ {n})
      BY <1>6, <2>4 DEF NextJob
    <3>2. job[w].provider \in Providers /\ n \in Events /\ job[w].queue \ {n} \in SUBSET Events
      BY <1>1 DEF Callers
    <3>3. PICK p, one, q : p = job[w].provider /\ one = Single(n) /\ q = job[w].queue \ {n}
      OBVIOUS
    <3>4. one \in Counts
      BY <3>2, <3>3, SingleHeld
    <3>5. j = [at |-> "call", kind |-> "retry", provider |-> p, events |-> one, queue |-> q,
               result |-> None]
      BY <3>1, <3>3 DEF Calling
    <3>6. j \in Callers
      BY <3>2, <3>3, <3>4, <3>5 DEF Callers
    <3>7. /\ j.at = "call" /\ j.kind = "retry" /\ j.provider = p
          /\ j.queue = q /\ j.events = one
      BY <3>5
    <3>8. QED
      BY <1>2, <2>1, <2>2, <3>3, <3>6, <3>7
  <2>5. QED
    BY <2>3, <2>4
<1>7. QED
  BY <1>5, <1>6

\* No event the task serves is dropped but e.
LEMMA NextServed ==
  ASSUME TypeOK, NEW w \in Workers, job[w].at = "log", TaskSound(w),
         NEW e \in Held(job[w].events), NEW j \in NextJob(w, e), NEW n \in Events,
         n \in Held(job[w].events) \cup job[w].queue,
         n # e \/ e \in Held(Rest(w, e))
  PROVE  /\ j \in Callers /\ j.at \in {"call", "log"} /\ j.provider = job[w].provider
         /\ n \in Held(j.events) \cup j.queue
<1>1. job[w] \in Callers
  BY Kinds
<1>2. PICK b : b = job[w].events
  OBVIOUS
<1>3. /\ b \in Counts /\ e \in Held(b) /\ Rest(w, e) = Without(b, e) /\ job[w].queue \subseteq Events
  BY <1>1, <1>2 DEF Callers, Rest
<1>4. /\ Held(b) \ {e} \subseteq Held(Rest(w, e))
      /\ b[e] = 1 => Held(Rest(w, e)) = Held(b) \ {e}
  BY <1>3, WithoutHeld
<1>5. CASE j = Idle /\ Held(b) = {e} /\ b[e] = 1 /\ job[w].queue = {}
  BY <1>2, <1>4, <1>5
<1>6. CASE /\ j \in Callers /\ j.at = "log" /\ j.provider = job[w].provider
           /\ j.queue = job[w].queue /\ j.events = Rest(w, e)
  BY <1>2, <1>4, <1>6
<1>7. CASE /\ Held(b) = {e} /\ b[e] = 1
           /\ \E m \in job[w].queue :
                /\ j \in Callers /\ j.at = "call" /\ j.provider = job[w].provider
                /\ j.queue = job[w].queue \ {m} /\ j.events = Single(m)
  <2>1. PICK m \in job[w].queue :
          /\ j \in Callers /\ j.at = "call" /\ j.provider = job[w].provider
          /\ j.queue = job[w].queue \ {m} /\ j.events = Single(m)
    BY <1>7
  <2>2. Held(j.events) = {m}
    BY <1>3, <2>1, SingleHeld
  <2>3. QED
    BY <1>2, <1>4, <1>7, <2>1, <2>2
<1>8. QED
  BY <1>2, <1>5, <1>6, <1>7, NextJobs

-----------------------------------------------------------------------------
(* Every step keeps the shape, and nothing is taken back.                   *)

Grows == /\ \A p \in Providers, e \in Events : HasRow(p, e) => HasRow(p, e)'
         /\ \A p \in Providers : accepted[p] \subseteq accepted'[p]

RowsAndAnswersKept == UNCHANGED <<log, accepted>>

LEMMA KeptGrows == ASSUME RowsAndAnswersKept PROVE Grows
  BY DEF RowsAndAnswersKept, Grows, HasRow

\* A task that goes on as it was stays sound, whatever the others write.
LEMMA StaysSound ==
  ASSUME DispatchInv, Grows, NEW w \in Workers, job'[w] = job[w] \/ job'[w] = Idle
  PROVE  TaskSound(w)'
<1>1. CASE job'[w] = Idle
  BY <1>1 DEF TaskSound, Idle
<1>2. CASE job'[w] = job[w]
  <2>1. job[w].at \in {"call", "log"} => /\ job[w].provider \in Providers
                                         /\ Held(job[w].events) \subseteq Events
                                         /\ job[w].queue \subseteq Events
    BY Kinds DEF DispatchInv, Callers, Held
  <2>2. QED
    BY <1>2, <2>1 DEF DispatchInv, TaskSound, Grows, Held
<1>3. QED
  BY <1>1, <1>2

Others(w) == \A x \in Workers \ {w} : job'[x] = job[x]

LEMMA OneChanges ==
  ASSUME DispatchInv, TypeOK', Grows, NEW w \in Workers, Others(w), TaskSound(w)'
  PROVE  DispatchInv'
BY StaysSound DEF DispatchInv, Others

LEMMA Budget ==
  ASSUME TypeOK
  PROVE  /\ requests \in 0..MaxRequests /\ MaxRequests \in Nat
         /\ faults \in 0..MaxFaults /\ MaxFaults \in Nat
BY DispatchAssumption DEF TypeOK, DispatchAssumption

LEMMA SessionSound ==
  ASSUME DispatchInv, NEW s \in Sessions, StartSession(s) \/ SessionTimeout(s) \/ EndSession(s)
  PROVE  DispatchInv' /\ Grows
<1>1. UNCHANGED <<configured, recorded, log, accepted, job, requests, faults, lost>>
  BY DEF StartSession, SessionTimeout, EndSession
<1>2. session' \in [Sessions -> {"none", "active", "stale", "ended"}]
  BY DEF StartSession, SessionTimeout, EndSession, DispatchInv, TypeOK
<1>3. TypeOK'
  BY <1>1, <1>2 DEF DispatchInv, TypeOK
<1>4. Grows
  BY <1>1, KeptGrows DEF RowsAndAnswersKept
<1>5. QED
  BY <1>1, <1>3, <1>4, StaysSound DEF DispatchInv

LEMMA TrackSound ==
  ASSUME DispatchInv, NEW w \in Workers,
         \/ \E s \in Sessions, batch \in Batches : TrackEvents(w, s, batch)
         \/ \E e \in Purchases : TrackPurchase(w, e)
  PROVE  /\ DispatchInv' /\ Grows /\ Others(w) /\ UNCHANGED <<db, accepted, faults, lost>>
         /\ job[w] = Idle /\ requests' = requests + 1
         /\ \E todo \in Counts : /\ job'[w] = Recording(todo)
                                /\ \A e \in Events : todo[e] <= Repeats
<1>1. PICK todo \in Counts : /\ Request(w, Recording(todo))
                             /\ \A e \in Events : todo[e] <= Repeats
  <2>1. ASSUME NEW s \in Sessions, NEW batch \in Batches, TrackEvents(w, s, batch)
        PROVE  /\ batch \in Counts /\ Request(w, Recording(batch))
               /\ \A e \in Events : batch[e] <= Repeats
    <3>1. batch \in [Events -> 0..Repeats] /\ Repeats \in Nat
      BY DispatchAssumption DEF DispatchAssumption
    <3>2. batch \in Counts /\ \A e \in Events : batch[e] <= Repeats
      BY <3>1 DEF Counts
    <3>3. QED
      BY <2>1, <3>2 DEF TrackEvents
  <2>2. ASSUME NEW e \in Purchases, TrackPurchase(w, e)
        PROVE  /\ Single(e) \in Counts /\ Request(w, Recording(Single(e)))
               /\ \A n \in Events : Single(e)[n] <= Repeats
    <3>1. e \in Events /\ Repeats \in Nat \ {0}
      BY DispatchAssumption DEF DispatchAssumption
    <3>2. /\ Single(e) \in Counts /\ \A n \in Events : Single(e)[n] <= 1
          /\ \A n \in Events : Single(e)[n] \in Nat
      BY <3>1, SingleHeld DEF Counts
    <3>3. QED
      BY <2>2, <3>1, <3>2 DEF TrackPurchase
  <2>3. QED
    BY <2>1, <2>2
<1>2. UNCHANGED <<db, accepted, faults, lost>>
  BY DEF TrackEvents, TrackPurchase
<1>3. Recording(todo) \in Recorders
  BY NothingHeld DEF Recording, Recorders
<1>4. job' = [job EXCEPT ![w] = Recording(todo)] /\ job[w] = Idle /\ requests' = requests + 1
      /\ requests < MaxRequests
  BY <1>1 DEF Request
<1>5. job' \in [Workers -> Jobs] /\ job'[w] = Recording(todo) /\ Others(w)
  BY <1>3, <1>4, JobSet, CallersJobs DEF Others, DispatchInv
<1>6. requests' \in 0..MaxRequests
  BY <1>4, Budget DEF DispatchInv
<1>7. TypeOK'
  BY <1>2, <1>5, <1>6 DEF DispatchInv, TypeOK, db
<1>8. Grows
  BY <1>2, KeptGrows DEF RowsAndAnswersKept, db
<1>9. TaskSound(w)'
  <2>1. job'[w].at = "record" /\ job'[w].todo = todo /\ job'[w].events = Nothing
    BY <1>5 DEF Recording
  <2>2. \A e \in Events : todo[e] + Nothing[e] <= Repeats
    BY <1>1, NothingHeld DEF Counts
  <2>3. QED
    BY <2>1, <2>2 DEF TaskSound
<1>10. QED
  BY <1>1, <1>2, <1>4, <1>5, <1>7, <1>8, <1>9, OneChanges

LEMMA RecordSound ==
  ASSUME DispatchInv, NEW w \in Workers, RecordEvent(w)
  PROVE  /\ DispatchInv' /\ Grows /\ Others(w) /\ job[w].at = "record" /\ job[w] \in Recorders
         /\ UNCHANGED <<log, accepted, requests, lost>>
         /\ \E e \in Held(job[w].todo) :
              /\ job'[w] = [at |-> "record", todo |-> Without(job[w].todo, e),
                            events |-> With(job[w].events, e)]
              /\ recorded' = recorded \cup {e}
<1>1. job[w].at = "record" /\ job[w] \in Recorders
      /\ UNCHANGED <<configured, session, log, accepted, requests, faults, lost>>
  BY Kinds DEF RecordEvent, DispatchInv
<1>2. PICK e \in Held(job[w].todo) :
        /\ recorded' = recorded \cup {e}
        /\ job' = [job EXCEPT ![w].todo = Without(@, e), ![w].events = With(@, e)]
  BY DEF RecordEvent
<1>3. PICK old, had, left, done :
        /\ old = job[w].todo /\ had = job[w].events
        /\ left = Without(job[w].todo, e) /\ done = With(job[w].events, e)
  OBVIOUS
<1>4. /\ old \in Counts /\ had \in Counts /\ e \in Events /\ e \in Held(old)
      /\ left = Without(old, e) /\ done = With(had, e)
      /\ job[w] = [at |-> "record", todo |-> old, events |-> had]
  BY <1>1, <1>3 DEF Recorders, Held
<1>5. /\ left \in Counts /\ done \in Counts
      /\ left[e] = old[e] - 1 /\ done[e] = had[e] + 1
      /\ \A n \in Events \ {e} : left[n] = old[n] /\ done[n] = had[n]
  BY <1>4, WithHeld, WithoutHeld
<1>6. PICK j : j = [at |-> "record", todo |-> left, events |-> done]
  OBVIOUS
<1>7. j \in Recorders /\ j.at = "record" /\ j.todo = left /\ j.events = done
  BY <1>5, <1>6 DEF Recorders
<1>8. job' = [job EXCEPT ![w] = j]
  <2>1. job \in [Workers -> Jobs]
    BY DEF DispatchInv, TypeOK
  <2>2. job' = [job EXCEPT ![w] = [[job[w] EXCEPT !.todo = left] EXCEPT !.events = done]]
    BY <1>1, <1>2, <1>3, <2>1 DEF Recorders
  <2>3. [job[w] EXCEPT !.todo = left] = [at |-> "record", todo |-> left, events |-> had]
    BY <1>4
  <2>4. [[at |-> "record", todo |-> left, events |-> had] EXCEPT !.events = done]
          = [at |-> "record", todo |-> left, events |-> done]
    OBVIOUS
  <2>5. QED
    BY <1>6, <2>2, <2>3, <2>4
<1>9. job' \in [Workers -> Jobs] /\ job'[w] = j /\ Others(w)
  BY <1>7, <1>8, JobSet, CallersJobs DEF Others, DispatchInv
<1>10. TypeOK'
  BY <1>1, <1>2, <1>4, <1>9 DEF DispatchInv, TypeOK
<1>11. Grows
  BY <1>1, KeptGrows DEF RowsAndAnswersKept
<1>12. TaskSound(w)'
  <2>1. \A n \in Events : old[n] \in Nat /\ had[n] \in Nat /\ old[n] + had[n] <= Repeats
    BY <1>1, <1>3, <1>4 DEF DispatchInv, TaskSound, Counts
  <2>2. \A n \in Events : left[n] + done[n] <= Repeats
    BY <1>5, <2>1
  <2>3. QED
    BY <1>7, <1>9, <2>2 DEF TaskSound
<1>13. QED
  BY <1>1, <1>2, <1>3, <1>6, <1>9, <1>10, <1>11, <1>12, OneChanges

\* The two tasks a request ends in.
LEMMA DispatchSound ==
  ASSUME DispatchInv, NEW w \in Workers, Dispatch(w)
  PROVE  /\ DispatchInv' /\ Grows /\ UNCHANGED <<db, accepted, requests, faults, lost>>
         /\ job[w].at = "record" /\ Held(job[w].todo) = {} /\ job[w] \in Recorders
         /\ \E x \in Workers \ {w} :
              /\ job[x] = Idle
              /\ job'[w] = Calling("live", Meta, job[w].events, {})
              /\ job'[x] = Calling("live", TikTok, job[w].events, {})
              /\ \A y \in Workers \ {w, x} : job'[y] = job[y]
<1>1. job[w].at = "record" /\ Held(job[w].todo) = {} /\ job[w] \in Recorders
      /\ UNCHANGED <<db, accepted, requests, faults, lost>>
  BY Kinds DEF Dispatch, DispatchInv
<1>2. PICK x \in Workers \ {w} :
        /\ job[x] = Idle
        /\ job' = [job EXCEPT ![w] = Calling("live", Meta, job[w].events, {}),
                              ![x] = Calling("live", TikTok, job[w].events, {})]
  BY DEF Dispatch
<1>3. PICK b, m, k : /\ b = job[w].events
                     /\ m = Calling("live", Meta, job[w].events, {})
                     /\ k = Calling("live", TikTok, job[w].events, {})
  OBVIOUS
<1>4. b \in Counts /\ \A e \in Events : b[e] <= Repeats
  <2>1. job[w].todo \in Counts /\ b \in Counts
    BY <1>1, <1>3 DEF Recorders
  <2>2. \A e \in Events : job[w].todo[e] \in Nat /\ b[e] \in Nat /\ job[w].todo[e] + b[e] <= Repeats
    BY <1>1, <1>3, <2>1 DEF DispatchInv, TaskSound, Counts
  <2>3. Repeats \in Nat
    BY DispatchAssumption DEF DispatchAssumption
  <2>4. \A e \in Events : b[e] <= Repeats
    BY <2>2, <2>3
  <2>5. QED
    BY <2>1, <2>4
<1>5. /\ m \in Callers /\ m.at = "call" /\ m.kind = "live" /\ m.queue = {} /\ m.events = b
      /\ k \in Callers /\ k.at = "call" /\ k.kind = "live" /\ k.queue = {} /\ k.events = b
  BY <1>3, <1>4 DEF Calling, Callers, Providers
<1>6. m \in Jobs /\ k \in Jobs
  BY <1>5, CallersJobs
<1>7. /\ job' \in [Workers -> Jobs] /\ job'[w] = m /\ job'[x] = k
      /\ \A y \in Workers \ {w, x} : job'[y] = job[y]
  BY <1>2, <1>3, <1>6 DEF DispatchInv, TypeOK
<1>8. TypeOK'
  BY <1>1, <1>7 DEF DispatchInv, TypeOK, db
<1>9. Grows
  BY <1>1, KeptGrows DEF RowsAndAnswersKept, db
<1>10. TaskSound(w)' /\ TaskSound(x)'
  BY <1>4, <1>5, <1>7 DEF TaskSound
<1>11. \A y \in Workers \ {w, x} : TaskSound(y)'
  BY <1>7, <1>9, StaysSound
<1>12. QED
  BY <1>1, <1>2, <1>3, <1>7, <1>8, <1>9, <1>10, <1>11 DEF DispatchInv

\* A provider that is not called, or called: the answer decides what is logged.
LEMMA AnswerSound ==
  ASSUME DispatchInv, NEW w \in Workers, Skip(w) \/ Call(w)
  PROVE  /\ DispatchInv' /\ Grows /\ Others(w) /\ job[w].at = "call"
         /\ UNCHANGED <<db, requests, faults, lost>>
         /\ \E result \in {"sent", "skipped", "failed"} :
              /\ job'[w] = [at |-> "log", kind |-> job[w].kind, provider |-> job[w].provider,
                            events |-> job[w].events, queue |-> job[w].queue,
                            result |-> result]
              /\ result = "sent" => Held(job[w].events) \cap Deliverable[job[w].provider]
                                      \subseteq accepted'[job[w].provider]
<1>1. /\ job[w].at = "call" /\ job[w] \in Callers /\ job[w].provider \in Providers
      /\ UNCHANGED <<db, requests, faults, lost>>
  BY Kinds DEF Skip, Call, DispatchInv, Callers
<1>2. PICK p : p = job[w].provider
  OBVIOUS
<1>3. Payload(w) \subseteq Events
  BY DEF Payload, Held
<1>4. PICK S \in SUBSET Payload(w), result \in {"sent", "skipped", "failed"} :
        /\ job' = [job EXCEPT ![w].at = "log", ![w].result = result]
        /\ accepted' = [accepted EXCEPT ![p] = @ \cup S]
        /\ result = "sent" => S = Payload(w)
  <2>1. CASE Skip(w)
    <3>1. accepted' = [accepted EXCEPT ![p] = @ \cup {}]
      BY <2>1 DEF Skip, DispatchInv, TypeOK
    <3>2. job' = [job EXCEPT ![w].at = "log", ![w].result = "skipped"]
      BY <2>1 DEF Skip
    <3>3. {} \in SUBSET Payload(w)
      OBVIOUS
    <3>4. QED
      BY <3>1, <3>2, <3>3
  <2>2. CASE Call(w)
    <3>1. PICK S \in Outcomes(p, Payload(w)) :
            /\ accepted' = [accepted EXCEPT ![p] = @ \cup S]
            /\ \E result \in Results(p, Payload(w), S) :
                 job' = [job EXCEPT ![w].at = "log", ![w].result = result]
      BY <1>2, <2>2 DEF Call
    <3>2. S \in SUBSET Payload(w)
      BY DEF Outcomes
    <3>3. PICK result \in Results(p, Payload(w), S) :
            job' = [job EXCEPT ![w].at = "log", ![w].result = result]
      BY <3>1
    <3>4. result \in {"sent", "failed"} /\ (result = "sent" => S = Payload(w))
      BY DEF Results
    <3>5. QED
      BY <3>1, <3>2, <3>3, <3>4
  <2>3. QED
    BY <2>1, <2>2
<1>5. PICK j : j = [at |-> "log", kind |-> job[w].kind, provider |-> job[w].provider,
                    events |-> job[w].events, queue |-> job[w].queue, result |-> result]
  OBVIOUS
<1>6. j \in Callers
  BY <1>1, <1>5 DEF Callers
<1>7. job' = [job EXCEPT ![w] = j]
  <2>1. PICK k, q, es, qs, r :
          job[w] = [at |-> "call", kind |-> k, provider |-> q, events |-> es, queue |-> qs,
                    result |-> r]
    BY <1>1 DEF Callers
  <2>2. [job[w] EXCEPT !.at = "log"]
          = [at |-> "log", kind |-> k, provider |-> q, events |-> es, queue |-> qs, result |-> r]
    BY <2>1
  <2>3. [[at |-> "log", kind |-> k, provider |-> q, events |-> es, queue |-> qs, result |-> r]
           EXCEPT !.result = result] = j
    BY <1>5, <2>1
  <2>4. job \in [Workers -> Jobs]
    BY DEF DispatchInv, TypeOK
  <2>5. job' = [job EXCEPT ![w] = [[job[w] EXCEPT !.at = "log"] EXCEPT !.result = result]]
    BY <1>4, <2>4
  <2>6. QED
    BY <2>2, <2>3, <2>5
<1>8. job' \in [Workers -> Jobs] /\ job'[w] = j /\ Others(w)
  BY <1>6, <1>7, JobSet, CallersJobs DEF Others, DispatchInv
<1>9. /\ accepted' \in [Providers -> SUBSET Events]
      /\ \A q \in Providers : accepted[q] \subseteq accepted'[q]
      /\ S \subseteq accepted'[p]
  BY <1>1, <1>2, <1>3, <1>4 DEF DispatchInv, TypeOK
<1>10. TypeOK'
  BY <1>1, <1>8, <1>9 DEF DispatchInv, TypeOK, db
<1>11. Grows
  BY <1>1, <1>9 DEF Grows, HasRow, db
<1>12. TaskSound(w)'
  <2>1. /\ job'[w].at = "log" /\ job'[w].kind = job[w].kind
        /\ job'[w].provider = job[w].provider /\ job'[w].events = job[w].events
        /\ job'[w].queue = job[w].queue /\ log' = log
        /\ job'[w].result \in {"sent", "skipped", "failed"}
    BY <1>1, <1>5, <1>8 DEF db
  <2>2. QED
    BY <1>1, <2>1 DEF DispatchInv, TaskSound, HasRow, Held
<1>13. result = "sent" => Held(job[w].events) \cap Deliverable[job[w].provider]
                            \subseteq accepted'[job[w].provider]
  BY <1>2, <1>4, <1>9 DEF Payload
<1>14. QED
  BY <1>1, <1>5, <1>8, <1>10, <1>11, <1>12, <1>13, OneChanges

\* A task that goes on with the next event, whether this one's row was written.
LEMMA NextSound ==
  ASSUME DispatchInv, Grows, TypeOK', NEW w \in Workers, job[w].at = "log", Others(w),
         NEW e \in Held(job[w].events), NEW j \in NextJob(w, e), job'[w] = j
  PROVE  DispatchInv'
<1>1. job[w] \in Callers /\ TaskSound(w)
  BY Kinds DEF DispatchInv
<1>2. PICK b : b = job[w].events
  OBVIOUS
<1>3. /\ job[w].provider \in Providers /\ b \in Counts /\ e \in Held(b)
      /\ job[w].queue \subseteq Events /\ Rest(w, e) = Without(b, e)
  BY <1>1, <1>2 DEF Callers, Rest
<1>4. CASE j = Idle
  BY <1>4, StaysSound, OneChanges
<1>5. CASE /\ j \in Callers /\ j.at = "log" /\ j.kind = job[w].kind
           /\ j.provider = job[w].provider /\ j.result = job[w].result
           /\ j.queue = job[w].queue /\ j.events = Rest(w, e)
  <2>1. /\ Held(j.events) \subseteq Held(b)
        /\ b[e] = 1 => Held(j.events) = Held(b) \ {e}
        /\ \A n \in Events : j.events[n] <= b[n] /\ j.events[n] \in Nat /\ b[n] \in Nat
        /\ \A n \in Events \ {e} : j.events[n] = b[n]
    BY <1>3, <1>5, WithoutHeld DEF Counts
  <2>2. Held(j.events) \cap j.queue = {}
    BY <1>1, <1>2, <1>5, <2>1 DEF TaskSound
  <2>3. \A n \in j.queue : HasRow(j.provider, n)'
    BY <1>1, <1>3, <1>5 DEF TaskSound, Grows
  <2>4. j.kind = "live" => j.queue = {} /\ \A n \in Events : j.events[n] <= Repeats
    <3>1. Repeats \in Nat
      BY DispatchAssumption DEF DispatchAssumption
    <3>2. j.kind = "live" => job[w].queue = {} /\ \A n \in Events : b[n] <= Repeats
      BY <1>1, <1>2, <1>5 DEF TaskSound
    <3>3. QED
      BY <1>5, <2>1, <3>1, <3>2
  <2>5. j.kind = "retry" =>
          \A n \in Held(j.events) : HasRow(j.provider, n)' /\ j.events[n] = 1
    <3> SUFFICES ASSUME j.kind = "retry", NEW n \in Held(j.events)
                 PROVE  HasRow(j.provider, n)' /\ j.events[n] = 1
      OBVIOUS
    <3>1. \A m \in Held(b) : HasRow(job[w].provider, m) /\ b[m] = 1
      BY <1>1, <1>2, <1>5 DEF TaskSound
    <3>2. n \in Held(b) \ {e} /\ n \in Events
      BY <1>3, <2>1, <3>1 DEF Held
    <3>3. QED
      BY <1>3, <1>5, <2>1, <3>1, <3>2 DEF Grows
  <2>6. j.result \in {"sent", "skipped", "failed"}
    BY <1>1, <1>5 DEF TaskSound
  <2>7. TaskSound(w)'
    BY <1>5, <2>2, <2>3, <2>4, <2>5, <2>6 DEF TaskSound, HasRow, Held
  <2>8. QED
    BY <2>7, OneChanges
<1>6. CASE \E n \in job[w].queue :
             /\ j \in Callers /\ j.at = "call" /\ j.kind = "retry"
             /\ j.provider = job[w].provider
             /\ j.queue = job[w].queue \ {n} /\ j.events = Single(n)
  <2>1. PICK n \in job[w].queue :
          /\ j \in Callers /\ j.at = "call" /\ j.kind = "retry"
          /\ j.provider = job[w].provider
          /\ j.queue = job[w].queue \ {n} /\ j.events = Single(n)
    BY <1>6
  <2>2. Held(j.events) = {n} /\ j.events[n] = 1
    BY <1>3, <2>1, SingleHeld
  <2>3. HasRow(j.provider, n)' /\ \A m \in j.queue : HasRow(j.provider, m)'
    BY <1>1, <1>3, <2>1 DEF TaskSound, Grows
  <2>4. \A m \in Held(j.events) : HasRow(j.provider, m)' /\ j.events[m] = 1
    BY <2>2, <2>3
  <2>5. Held(j.events) \cap j.queue = {}
    BY <2>1, <2>2
  <2>6. TaskSound(w)'
    BY <2>1, <2>3, <2>4, <2>5 DEF TaskSound, HasRow, Held
  <2>7. QED
    BY <2>6, OneChanges
<1>7. QED
  BY <1>1, <1>4, <1>5, <1>6, NextJobs DEF DispatchInv

LEMMA NextJobTyped ==
  ASSUME DispatchInv, NEW w \in Workers, job[w].at = "log",
         NEW e \in Held(job[w].events), NEW j \in NextJob(w, e), job' = [job EXCEPT ![w] = j]
  PROVE  job' \in [Workers -> Jobs] /\ job'[w] = j /\ Others(w)
<1>1. j \in Jobs
  BY NextJobs, CallersJobs DEF DispatchInv
<1>2. QED
  BY <1>1, JobSet DEF DispatchInv, Others

LEMMA LogSound ==
  ASSUME DispatchInv, NEW w \in Workers, LogResult(w)
  PROVE  /\ DispatchInv' /\ Grows /\ Others(w) /\ job[w].at = "log"
         /\ UNCHANGED <<recorded, accepted, requests, faults, lost>>
         /\ \E e \in Held(job[w].events) :
              /\ job'[w] \in NextJob(w, e)
              /\ log'[job[w].provider][e] = Logged(log[job[w].provider][e], job[w].result)
              /\ \A p \in Providers, n \in Events :
                   log'[p][n] # log[p][n] => p = job[w].provider /\ n = e
<1>1. /\ job[w].at = "log" /\ job[w] \in Callers
      /\ job[w].result \in {"sent", "skipped", "failed"}
      /\ UNCHANGED <<configured, session, recorded, accepted, requests, faults, lost>>
  BY Kinds DEF LogResult, DispatchInv, TaskSound
<1>2. PICK e \in Held(job[w].events) :
        /\ log' = [log EXCEPT ![job[w].provider][e] = Logged(@, job[w].result)]
        /\ \E j \in NextJob(w, e) : job' = [job EXCEPT ![w] = j]
  BY DEF LogResult
<1>3. PICK p, row : p = job[w].provider /\ row = Logged(log[p][e], job[w].result)
  OBVIOUS
<1>4. p \in Providers /\ e \in Events
  BY <1>1, <1>3 DEF Callers, Held
<1>5. log \in [Providers -> [Events -> Rows]]
  BY DEF DispatchInv, TypeOK
<1>6. row \in Rows /\ row.status # "none"
  BY <1>1, <1>3, <1>4, <1>5, LoggedRow
<1>7. log' = [log EXCEPT ![p] = [log[p] EXCEPT ![e] = row]]
  BY <1>2, <1>3, <1>4, <1>5
<1>8. /\ log' \in [Providers -> [Events -> Rows]] /\ log'[p][e] = row
      /\ \A q \in Providers, n \in Events : log'[q][n] # log[q][n] => q = p /\ n = e
  BY <1>4, <1>5, <1>6, <1>7
<1>9. PICK j \in NextJob(w, e) : job' = [job EXCEPT ![w] = j]
  BY <1>2
<1>10. job' \in [Workers -> Jobs] /\ job'[w] = j /\ Others(w)
  BY <1>1, <1>9, NextJobTyped
<1>11. TypeOK'
  BY <1>1, <1>8, <1>10 DEF DispatchInv, TypeOK
<1>12. Grows
  BY <1>1, <1>6, <1>8 DEF Grows, HasRow
<1>13. DispatchInv'
  BY <1>1, <1>10, <1>11, <1>12, NextSound
<1>14. QED
  BY <1>1, <1>3, <1>8, <1>10, <1>12, <1>13

LEMMA RetrySound ==
  ASSUME DispatchInv, NEW w \in Workers, NEW p \in Providers, RetryFailed(w, p)
  PROVE  /\ DispatchInv' /\ Grows /\ Others(w) /\ job[w] = Idle
         /\ UNCHANGED <<db, accepted, requests, faults, lost>>
         /\ job'[w] \in Callers /\ job'[w].at = "call" /\ job'[w].kind = "retry"
         /\ job'[w].provider = p
         /\ \A e \in Events : (e \in job'[w].queue \/ job'[w].events[e] > 0) => e \in Pending(p)
<1>1. job[w] = Idle /\ UNCHANGED <<db, accepted, requests, faults, lost>>
  BY DEF RetryFailed
<1>2. PICK Q \in SUBSET Pending(p) :
        \E e \in Q : job' = [job EXCEPT ![w] = Calling("retry", p, Single(e), Q \ {e})]
  BY DEF RetryFailed
<1> PICK e \in Q : job' = [job EXCEPT ![w] = Calling("retry", p, Single(e), Q \ {e})]
  BY <1>2
<1>3. PICK one, rest : one = Single(e) /\ rest = Q \ {e}
  OBVIOUS
<1>4. Q \in SUBSET Events /\ \A n \in Q : n \in Pending(p) /\ HasRow(p, n)
  BY <1>2 DEF Pending, HasRow
<1>5. /\ one \in Counts /\ Held(one) = {e} /\ one[e] = 1
      /\ rest \in SUBSET Events
  BY <1>3, <1>4, SingleHeld
<1>6. PICK j : j = [at |-> "call", kind |-> "retry", provider |-> p, events |-> one,
                    queue |-> rest, result |-> None]
  OBVIOUS
<1>7. j \in Callers
  BY <1>5, <1>6 DEF Callers
<1>8. job' = [job EXCEPT ![w] = j]
  BY <1>2, <1>3, <1>6 DEF Calling
<1>9. job' \in [Workers -> Jobs] /\ job'[w] = j /\ Others(w)
  BY <1>7, <1>8, JobSet, CallersJobs DEF Others, DispatchInv
<1>10. TypeOK'
  BY <1>1, <1>9 DEF DispatchInv, TypeOK, db
<1>11. Grows
  BY <1>1, KeptGrows DEF RowsAndAnswersKept, db
<1>12. /\ job'[w].provider = p /\ job'[w].events = one /\ job'[w].queue = rest
       /\ job'[w].at = "call" /\ job'[w].kind = "retry"
  BY <1>6, <1>9
<1>13. TaskSound(w)'
  <2>1. Held(one) \cap rest = {}
    BY <1>3, <1>5
  <2>2. HasRow(p, e)' /\ \A n \in rest : HasRow(p, n)'
    BY <1>1, <1>3, <1>4 DEF HasRow, db
  <2>3. \A n \in Held(one) : HasRow(p, n)' /\ one[n] = 1
    BY <1>5, <2>2
  <2>4. QED
    BY <1>12, <2>1, <2>2, <2>3 DEF TaskSound, HasRow, Held
<1>14. \A n \in Events : (n \in rest \/ one[n] > 0) => n \in Pending(p)
  BY <1>3, <1>4, <1>5 DEF Held
<1>15. QED
  BY <1>1, <1>7, <1>9, <1>10, <1>11, <1>12, <1>13, <1>14, OneChanges

-----------------------------------------------------------------------------
(* Faults.                                                                  *)

LEMMA OwedIs ==
  ASSUME TypeOK, NEW w \in Workers
  PROVE  /\ job[w].at = "idle" => Owed(w) = {}
         /\ job[w].at = "record" => Owed(w) = Providers \X Held(job[w].events)
         /\ job[w].at \in {"call", "log"} =>
              Owed(w) = {job[w].provider} \X (Held(job[w].events) \cup job[w].queue)
         /\ Owed(w) \subseteq Providers \X Events
<1>1. job[w].at = "idle" => Owed(w) = {}
  BY Zenon DEF Owed
<1>2. job[w].at = "record" => Owed(w) = Providers \X Held(job[w].events)
  BY Zenon DEF Owed
<1>3. job[w].at \in {"call", "log"} =>
        Owed(w) = {job[w].provider} \X (Held(job[w].events) \cup job[w].queue)
  <2>1. job[w].at \in {"call", "log"} => job[w].at # "idle" /\ job[w].at # "record"
    OBVIOUS
  <2>2. (job[w].at # "idle" /\ job[w].at # "record") =>
          Owed(w) = {job[w].provider} \X (Held(job[w].events) \cup job[w].queue)
    BY Zenon DEF Owed
  <2>3. QED
    BY <2>1, <2>2
<1>4. Held(job[w].events) \subseteq Events
  BY DEF Held
<1>5. job[w].at \in {"call", "log"} => /\ job[w].provider \in Providers
                                       /\ job[w].queue \subseteq Events
  BY Kinds DEF Callers
<1>6. QED
  BY <1>1, <1>2, <1>3, <1>4, <1>5, Kinds

LEMMA FaultBudget ==
  ASSUME TypeOK, Fault
  PROVE  faults' \in 0..MaxFaults
<1>1. faults < MaxFaults /\ faults' = faults + 1
  BY DEF Fault
<1>2. QED
  BY <1>1, Budget

LEMMA FailSound ==
  ASSUME DispatchInv, NEW w \in Workers, RecordFails(w) \/ LogFails(w)
  PROVE  /\ DispatchInv' /\ Grows /\ Others(w) /\ UNCHANGED <<db, accepted, requests>>
         /\ lost \subseteq lost'
         /\ \/ job'[w] = Idle /\ Missed(Owed(w)) \subseteq lost'
            \/ /\ job[w].at = "log"
               /\ \E e \in Held(job[w].events) :
                    /\ job'[w] \in NextJob(w, e)
                    /\ e \notin Held(Rest(w, e)) =>
                         Missed({<<job[w].provider, e>>}) \subseteq lost'
<1>1. Fault /\ UNCHANGED <<db, accepted, requests>>
  BY DEF RecordFails, LogFails
<1>2. faults' \in 0..MaxFaults
  BY <1>1, FaultBudget DEF DispatchInv
<1>3. Grows
  BY <1>1, KeptGrows DEF RowsAndAnswersKept, db
<1>4. ASSUME job' \in [Workers -> Jobs], lost' \subseteq Providers \X Events PROVE TypeOK'
  BY <1>1, <1>2, <1>4 DEF DispatchInv, TypeOK, db
<1>5. lost \subseteq Providers \X Events /\ Owed(w) \subseteq Providers \X Events
  BY OwedIs DEF DispatchInv, TypeOK
<1>6. ASSUME Finish(w), lost' = lost \cup Missed(Owed(w))
      PROVE  /\ DispatchInv' /\ Others(w) /\ lost \subseteq lost' /\ job'[w] = Idle
             /\ Missed(Owed(w)) \subseteq lost'
  <2>1. job' \in [Workers -> Jobs] /\ job'[w] = Idle /\ Others(w)
    BY <1>6, JobSet, CallersJobs DEF Finish, Others, DispatchInv
  <2>2. lost' \subseteq Providers \X Events
    BY <1>5, <1>6 DEF Missed
  <2>3. TaskSound(w)'
    BY <2>1, <1>3, StaysSound
  <2>4. QED
    BY <1>3, <1>4, <1>6, <2>1, <2>2, <2>3, OneChanges
<1>7. CASE RecordFails(w)
  BY <1>1, <1>3, <1>6, <1>7 DEF RecordFails
<1>8. CASE LogFails(w)
  <2>1. job[w].at = "log" /\ job[w] \in Callers /\ TaskSound(w)
    BY <1>8, Kinds DEF LogFails, DispatchInv
  <2>2. PICK e \in Held(job[w].events) :
          /\ lost' = lost \cup Missed({job[w].provider} \X ({e} \ Held(Rest(w, e))))
          /\ IF job[w].kind = "retry" THEN Finish(w)
             ELSE \E j \in NextJob(w, e) : job' = [job EXCEPT ![w] = j]
    BY <1>8 DEF LogFails
  <2>3. {job[w].provider} \X ({e} \ Held(Rest(w, e))) \subseteq Providers \X Events
    BY <2>1 DEF Callers, Held
  <2>4. /\ lost' \subseteq Providers \X Events /\ lost \subseteq lost'
        /\ e \notin Held(Rest(w, e)) => Missed({<<job[w].provider, e>>}) \subseteq lost'
    <3>1. e \notin Held(Rest(w, e)) =>
            <<job[w].provider, e>> \in {job[w].provider} \X ({e} \ Held(Rest(w, e)))
      OBVIOUS
    <3>2. QED
      BY <1>5, <2>2, <2>3, <3>1 DEF Missed
  <2>5. CASE job[w].kind = "retry"
    <3>1. job' \in [Workers -> Jobs] /\ job'[w] = Idle /\ Others(w)
      BY <2>2, <2>5, JobSet, CallersJobs DEF Finish, Others, DispatchInv
    <3>2. TaskSound(w)'
      BY <3>1, <1>3, StaysSound
    <3>3. DispatchInv'
      BY <1>3, <1>4, <2>4, <3>1, <3>2, OneChanges
    <3>4. \A o \in Owed(w) : log[o[1]][o[2]].status # "none"
      <4>1. Owed(w) = {job[w].provider} \X (Held(job[w].events) \cup job[w].queue)
        BY <2>1, OwedIs DEF DispatchInv
      <4>2. \A n \in Held(job[w].events) \cup job[w].queue : log[job[w].provider][n].status # "none"
        BY <2>1, <2>5 DEF TaskSound, HasRow
      <4>3. QED
        BY <4>1, <4>2
    <3>5. Missed(Owed(w)) = {}
      BY <3>4 DEF Missed
    <3>6. QED
      BY <1>1, <1>3, <2>4, <3>1, <3>3, <3>5
  <2>6. CASE job[w].kind # "retry"
    <3>1. PICK j \in NextJob(w, e) : job' = [job EXCEPT ![w] = j]
      BY <2>2, <2>6
    <3>2. job' \in [Workers -> Jobs] /\ job'[w] = j /\ Others(w)
      BY <2>1, <3>1, NextJobTyped
    <3>3. DispatchInv'
      BY <1>3, <1>4, <2>1, <2>4, <3>2, NextSound
    <3>4. QED
      BY <1>1, <1>3, <2>1, <2>4, <3>2, <3>3
  <2>7. QED
    BY <2>5, <2>6
<1>9. QED
  BY <1>7, <1>8

LEMMA RestartSound ==
  ASSUME DispatchInv, Restart
  PROVE  /\ DispatchInv' /\ Grows /\ UNCHANGED <<db, accepted, requests>>
         /\ \A w \in Workers : job'[w] = Idle /\ Missed(Owed(w)) \subseteq lost'
         /\ lost \subseteq lost'
<1>1. /\ Fault /\ UNCHANGED <<db, accepted, requests>> /\ job' = [w \in Workers |-> Idle]
      /\ lost' = lost \cup Missed(UNION {Owed(w) : w \in Workers})
  BY DEF Restart
<1>2. faults' \in 0..MaxFaults
  BY <1>1, FaultBudget DEF DispatchInv
<1>3. Grows
  BY <1>1, KeptGrows DEF RowsAndAnswersKept, db
<1>4. \A w \in Workers : Owed(w) \subseteq Providers \X Events
  BY OwedIs DEF DispatchInv
<1>5. lost' \subseteq Providers \X Events
  BY <1>1, <1>4 DEF DispatchInv, TypeOK, Missed
<1>6. TypeOK'
  BY <1>1, <1>2, <1>5 DEF DispatchInv, TypeOK, Jobs, db
<1>7. \A w \in Workers : job'[w] = Idle
  BY <1>1
<1>8. \A w \in Workers : TaskSound(w)'
  BY <1>3, <1>7, StaysSound
<1>9. \A w \in Workers : Missed(Owed(w)) \subseteq lost'
  BY <1>1 DEF Missed
<1>10. QED
  BY <1>1, <1>3, <1>6, <1>7, <1>8, <1>9 DEF DispatchInv

-----------------------------------------------------------------------------
(* The shape of the variables.                                              *)

LEMMA StutterSound ==
  ASSUME DispatchInv, UNCHANGED vars
  PROVE  DispatchInv' /\ Grows /\ UNCHANGED <<db, accepted, job, requests, lost>>
<1>1. TypeOK' /\ Grows
  BY KeptGrows DEF DispatchInv, TypeOK, vars, db, RowsAndAnswersKept
<1>2. QED
  BY <1>1, StaysSound DEF DispatchInv, vars

LEMMA DispatchNext ==
  ASSUME DispatchInv, [Next]_vars
  PROVE  DispatchInv' /\ Grows
BY SessionSound, TrackSound, RecordSound, DispatchSound, AnswerSound, LogSound, RetrySound,
   FailSound, RestartSound, StutterSound DEF Next, Work, Retry

LEMMA DispatchInit == Init => DispatchInv
<1> SUFFICES ASSUME Init PROVE DispatchInv
  OBVIOUS
<1>1. NoLog \in Rows
  BY DEF NoLog, Rows
<1>2. log \in [Providers -> [Events -> Rows]] /\ accepted \in [Providers -> SUBSET Events]
  BY <1>1 DEF Init
<1>3. job \in [Workers -> Jobs]
  BY DEF Init, Jobs
<1>4. requests = 0 /\ faults = 0 /\ recorded = {} /\ lost = {} /\ configured \in Configurations
      /\ session \in [Sessions -> {"none", "active", "stale", "ended"}]
  BY DEF Init
<1>5. requests \in 0..MaxRequests /\ faults \in 0..MaxFaults /\ configured \subseteq Providers
  BY <1>4, DispatchAssumption DEF DispatchAssumption
<1>6. TypeOK
  BY <1>2, <1>3, <1>4, <1>5 DEF TypeOK
<1>7. \A w \in Workers : job[w].at = "idle"
  BY DEF Init, Idle
<1>8. QED
  BY <1>6, <1>7 DEF DispatchInv, TaskSound

\* Every variable keeps its shape, and a task that ends has told its result.
THEOREM TypeCorrect == Spec => []TypeOK
<1>1. DispatchInv => TypeOK
  BY DEF DispatchInv
<1>2. QED
  BY DispatchInit, DispatchNext, <1>1, PTL DEF Spec

-----------------------------------------------------------------------------
(* A row SENT tells the truth.                                              *)

LEMMA RowsTrue ==
  ASSUME TypeOK, SentInv, Grows, UNCHANGED log
  PROVE  SentIsAccepted'
BY DEF SentInv, SentIsAccepted, Grows

LEMMA ToldStays ==
  ASSUME TypeOK, SentInv, Grows, NEW w \in Workers, job'[w] = job[w] \/ job'[w].at # "log"
  PROVE  Told(w)'
<1>1. job[w].at = "log" => job[w].provider \in Providers
  BY Kinds DEF Callers
<1>2. QED
  BY <1>1 DEF SentInv, Told, Grows, Held

LEMMA ToldNext ==
  ASSUME DispatchInv, SentInv, Grows, NEW w \in Workers, job[w].at = "log",
         NEW e \in Held(job[w].events), job'[w] \in NextJob(w, e)
  PROVE  Told(w)'
<1>1. job[w] \in Callers /\ job[w].provider \in Providers /\ TaskSound(w)
  BY Kinds DEF Callers, DispatchInv
<1>2. PICK j \in NextJob(w, e) : job'[w] = j
  OBVIOUS
<1>3. CASE j = Idle
  BY <1>2, <1>3 DEF Idle, Told
<1>4. CASE j.at = "call"
  BY <1>2, <1>4 DEF Told
<1>5. CASE /\ j.at = "log" /\ j.result = job[w].result /\ j.provider = job[w].provider
           /\ j.events = Rest(w, e)
  <2>1. PICK b : b = job[w].events
    OBVIOUS
  <2>2. Held(j.events) \subseteq Held(job[w].events)
    <3>1. b \in Counts /\ e \in Held(b) /\ j.events = Without(b, e)
      BY <1>1, <1>5, <2>1 DEF Callers, Rest
    <3>2. QED
      BY <2>1, <3>1, WithoutHeld
  <2>3. j.result = "sent" =>
          Held(j.events) \cap Deliverable[j.provider] \subseteq accepted'[j.provider]
    BY <1>1, <1>5, <2>2 DEF SentInv, Told, Grows
  <2>4. QED
    BY <1>2, <2>3 DEF Told, Held
<1>6. QED
  BY <1>1, <1>3, <1>4, <1>5, NextJobs DEF DispatchInv

LEMMA SentOne ==
  ASSUME DispatchInv, SentInv, Grows, NEW w \in Workers, Others(w), Told(w)', SentIsAccepted'
  PROVE  SentInv'
BY ToldStays DEF DispatchInv, SentInv, Others

LEMMA SentNext ==
  ASSUME DispatchInv, SentInv, [Next]_vars
  PROVE  SentInv'
<1>1. Grows /\ TypeOK
  BY DispatchNext DEF DispatchInv
<1>2. ASSUME UNCHANGED log, \A w \in Workers : job'[w] = job[w] \/ job'[w].at # "log"
      PROVE  SentInv'
  BY <1>1, <1>2, RowsTrue, ToldStays DEF SentInv
<1>3. ASSUME NEW w \in Workers,
             \/ \E s \in Sessions, batch \in Batches : TrackEvents(w, s, batch)
             \/ \E e \in Purchases : TrackPurchase(w, e)
      PROVE  SentInv'
  <2>1. /\ Others(w) /\ UNCHANGED <<db, accepted, faults, lost>>
        /\ \E todo \in Counts : job'[w] = Recording(todo)
    BY <1>3, TrackSound
  <2>2. job'[w].at # "log"
    BY <2>1 DEF Recording
  <2>3. QED
    BY <1>2, <2>1, <2>2 DEF Others, db
<1>4. ASSUME NEW w \in Workers, RecordEvent(w) PROVE SentInv'
  <2>1. Others(w) /\ UNCHANGED log
    BY <1>4, RecordSound
  <2>2. PICK e \in Held(job[w].todo) :
          job'[w] = [at |-> "record", todo |-> Without(job[w].todo, e),
                     events |-> With(job[w].events, e)]
    BY <1>4, RecordSound
  <2>3. job'[w].at # "log"
    BY <2>2
  <2>4. QED
    BY <1>2, <2>1, <2>3 DEF Others
<1>5. ASSUME NEW w \in Workers, Dispatch(w) PROVE SentInv'
  <2>1. PICK x \in Workers \ {w} :
          /\ job'[w] = Calling("live", Meta, job[w].events, {})
          /\ job'[x] = Calling("live", TikTok, job[w].events, {})
          /\ \A y \in Workers \ {w, x} : job'[y] = job[y]
    BY <1>5, DispatchSound
  <2>2. job'[w].at # "log" /\ job'[x].at # "log"
    BY <2>1 DEF Calling
  <2>3. UNCHANGED log
    BY <1>5, DispatchSound DEF db
  <2>4. QED
    BY <1>2, <2>1, <2>2, <2>3
<1>6. ASSUME NEW w \in Workers, Skip(w) \/ Call(w) PROVE SentInv'
  <2>1. PICK result \in {"sent", "skipped", "failed"} :
          /\ job'[w] = [at |-> "log", kind |-> job[w].kind, provider |-> job[w].provider,
                        events |-> job[w].events, queue |-> job[w].queue, result |-> result]
          /\ result = "sent" => Held(job[w].events) \cap Deliverable[job[w].provider]
                                  \subseteq accepted'[job[w].provider]
    BY <1>6, AnswerSound
  <2>2. Told(w)'
    BY <2>1 DEF Told, Held
  <2>3. Others(w) /\ UNCHANGED log
    BY <1>6, AnswerSound DEF db
  <2>4. QED
    BY <1>1, <2>2, <2>3, RowsTrue, SentOne
<1>7. ASSUME NEW w \in Workers, LogResult(w) PROVE SentInv'
  <2>1. PICK e \in Held(job[w].events) :
          /\ job'[w] \in NextJob(w, e)
          /\ log'[job[w].provider][e] = Logged(log[job[w].provider][e], job[w].result)
          /\ \A p \in Providers, n \in Events :
               log'[p][n] # log[p][n] => p = job[w].provider /\ n = e
    BY <1>7, LogSound
  <2>2. Others(w) /\ job[w].at = "log" /\ UNCHANGED accepted
    BY <1>7, LogSound
  <2>3. /\ job[w].provider \in Providers /\ e \in Events
        /\ job[w].result \in {"sent", "skipped", "failed"}
    BY <2>2, Kinds DEF DispatchInv, TaskSound, Callers, Held
  <2>4. log[job[w].provider][e] \in Rows
    BY <2>3 DEF DispatchInv, TypeOK
  <2>5. log'[job[w].provider][e].status = "SENT" => job[w].result = "sent"
    BY <2>1, <2>3, <2>4, LoggedRow
  <2>6. \A p \in Providers : Deliverable[p] \subseteq Events
    BY DispatchAssumption DEF DispatchAssumption
  <2>7. SentIsAccepted'
    <3> SUFFICES ASSUME NEW p \in Providers, NEW n \in Deliverable[p], log'[p][n].status = "SENT"
                 PROVE  n \in accepted'[p]
      BY DEF SentIsAccepted
    <3>1. CASE log'[p][n] = log[p][n]
      BY <2>2, <3>1 DEF SentInv, SentIsAccepted
    <3>2. CASE log'[p][n] # log[p][n]
      BY <2>1, <2>2, <2>5, <2>6, <3>2 DEF SentInv, Told
    <3>3. QED
      BY <3>1, <3>2
  <2>8. Told(w)'
    BY <1>1, <2>1, <2>2, ToldNext
  <2>9. QED
    BY <1>1, <2>2, <2>7, <2>8, SentOne
<1>8. ASSUME NEW w \in Workers, NEW p \in Providers, RetryFailed(w, p) PROVE SentInv'
  BY <1>2, <1>8, RetrySound DEF Others, db
<1>9. ASSUME NEW w \in Workers, RecordFails(w) \/ LogFails(w) PROVE SentInv'
  <2>1. Others(w) /\ UNCHANGED log
    BY <1>9, FailSound DEF db
  <2>2. CASE job'[w] = Idle
    BY <1>2, <2>1, <2>2 DEF Others, Idle
  <2>3. CASE job'[w] # Idle
    <3>1. Told(w)'
      BY <1>1, <1>9, <2>3, FailSound, ToldNext
    <3>2. QED
      BY <1>1, <2>1, <3>1, RowsTrue, SentOne
  <2>4. QED
    BY <2>2, <2>3
<1>10. CASE Restart
  BY <1>2, <1>10, RestartSound DEF Idle, db
<1>11. ASSUME NEW s \in Sessions, StartSession(s) \/ SessionTimeout(s) \/ EndSession(s)
       PROVE  SentInv'
  BY <1>2, <1>11 DEF StartSession, SessionTimeout, EndSession
<1>12. CASE UNCHANGED vars
  BY <1>2, <1>12 DEF vars, db
<1>13. QED
  BY <1>3, <1>4, <1>5, <1>6, <1>7, <1>8, <1>9, <1>10, <1>11, <1>12 DEF Next, Work, Retry

LEMMA SentInit == Init => SentInv
<1> SUFFICES ASSUME Init PROVE SentInv
  OBVIOUS
<1>1. \A p \in Providers, e \in Events : log[p][e].status = "none"
  BY DEF Init, NoLog
<1>2. \A w \in Workers : job[w].at = "idle"
  BY DEF Init, Idle
<1>3. \A p \in Providers : Deliverable[p] \subseteq Events
  BY DispatchAssumption DEF DispatchAssumption
<1>4. QED
  BY <1>1, <1>2, <1>3 DEF SentInv, SentIsAccepted, Told

\* An event that could be delivered and whose row says SENT was accepted by the
\* provider, whatever lost answers, retries and other tasks did to the row.
THEOREM SentHolds == Spec => []SentIsAccepted
<1>1. SentInv => SentIsAccepted
  BY DEF SentInv
<1>2. QED
  BY DispatchInit, DispatchNext, SentInit, SentNext, <1>1, PTL DEF Spec

-----------------------------------------------------------------------------
(* No recorded event is forgotten.                                          *)

\* What a task owes, in this state and in the next.
Owes(w, p, e) == \/ job[w].at = "record" /\ job[w].events[e] > 0
                 \/ /\ job[w].at \in {"call", "log"} /\ job[w].provider = p
                    /\ job[w].events[e] > 0 \/ e \in job[w].queue

LEMMA OwesIs ==
  ASSUME TypeOK, NEW w \in Workers, NEW p \in Providers, NEW e \in Events
  PROVE  <<p, e>> \in Owed(w) <=> Owes(w, p, e)
BY OwedIs, Kinds DEF Owes, Held

LEMMA OwesNext ==
  ASSUME NEW w \in Workers, NEW p \in Providers, NEW e \in Events, Owes(w, p, e)'
  PROVE  <<p, e>> \in Owed(w)'
<1>1. job'[w].at = "record" => Owed(w)' = Providers \X {n \in Events : job'[w].events[n] > 0}
  BY Zenon DEF Owed, Held
<1>2. (job'[w].at # "idle" /\ job'[w].at # "record") =>
        Owed(w)' = {job'[w].provider}
                     \X ({n \in Events : job'[w].events[n] > 0} \cup job'[w].queue)
  BY Zenon DEF Owed, Held
<1>3. QED
  BY <1>1, <1>2 DEF Owes

Remembered(p, e) == \/ log[p][e].status # "none"
                    \/ <<p, e>> \in lost
                    \/ \E w \in Workers : <<p, e>> \in Owed(w)

\* Rows and losses stay; it is enough that the tasks that change still owe what
\* they owed, or have seen to it.
LEMMA RememberedStays ==
  ASSUME DispatchInv, Grows, lost \subseteq lost', NEW p \in Providers, NEW e \in Events,
         Remembered(p, e),
         \A w \in Workers : (Owes(w, p, e) /\ job'[w] # job[w]) => Remembered(p, e)'
  PROVE  Remembered(p, e)'
<1>1. CASE log[p][e].status # "none"
  BY <1>1 DEF Remembered, Grows, HasRow
<1>2. CASE <<p, e>> \in lost
  BY <1>2 DEF Remembered
<1>3. ASSUME NEW w \in Workers, <<p, e>> \in Owed(w) PROVE Remembered(p, e)'
  <2>1. Owes(w, p, e)
    BY <1>3, OwesIs DEF DispatchInv
  <2>2. CASE job'[w] = job[w]
    <3>1. Owes(w, p, e)'
      BY <2>1, <2>2 DEF Owes
    <3>2. QED
      BY <3>1, OwesNext DEF Remembered
  <2>3. QED
    BY <2>1, <2>2
<1>4. QED
  BY <1>1, <1>2, <1>3 DEF Remembered

LEMMA StillOwed ==
  ASSUME NEW w \in Workers, NEW p \in Providers, NEW e \in Events, Owes(w, p, e)'
  PROVE  Remembered(p, e)'
BY OwesNext DEF Remembered

LEMMA NowLost ==
  ASSUME DispatchInv, UNCHANGED log, NEW w \in Workers, NEW p \in Providers, NEW e \in Events,
         Owes(w, p, e), Missed(Owed(w)) \subseteq lost'
  PROVE  Remembered(p, e)'
<1>1. <<p, e>> \in Owed(w)
  BY OwesIs DEF DispatchInv
<1>2. log[p][e].status = "none" => <<p, e>> \in Missed(Owed(w))
  BY <1>1 DEF Missed
<1>3. QED
  BY <1>2 DEF Remembered

\* A task that goes on with the next event has seen to e, or still has it.
LEMMA NextOwed ==
  ASSUME DispatchInv, NEW w \in Workers, job[w].at = "log", NEW e \in Held(job[w].events),
         job'[w] \in NextJob(w, e), NEW p \in Providers, NEW n \in Events, Owes(w, p, n),
         (n = e /\ e \notin Held(Rest(w, e))) => Remembered(p, n)'
  PROVE  Remembered(p, n)'
<1>1. /\ job[w].provider = p /\ n \in Held(job[w].events) \cup job[w].queue
      /\ TypeOK /\ TaskSound(w)
  BY DEF Owes, Held, DispatchInv
<1>2. PICK j \in NextJob(w, e) : job'[w] = j
  OBVIOUS
<1>3. CASE n # e \/ e \in Held(Rest(w, e))
  <2>1. /\ j.at \in {"call", "log"} /\ j.provider = p
        /\ n \in Held(j.events) \cup j.queue
    BY <1>1, <1>3, NextServed
  <2>2. Owes(w, p, n)'
    BY <1>2, <2>1 DEF Owes, Held
  <2>3. QED
    BY <2>2, StillOwed
<1>4. QED
  BY <1>3

LEMMA ForgottenNext ==
  ASSUME DispatchInv, NothingForgotten, [Next]_vars
  PROVE  NothingForgotten'
<1>1. Grows /\ DispatchInv' /\ TypeOK /\ recorded \subseteq Events
  BY DispatchNext DEF DispatchInv, TypeOK
<1>2. \A p \in Providers, e \in recorded : Remembered(p, e)
  BY DEF NothingForgotten, Remembered
<1>3. ASSUME lost \subseteq lost', recorded' = recorded,
             \A p \in Providers, e \in Events, w \in Workers :
               (Owes(w, p, e) /\ job'[w] # job[w]) => Remembered(p, e)'
      PROVE  NothingForgotten'
  <2>1. \A p \in Providers, e \in recorded : Remembered(p, e)'
    BY <1>1, <1>2, <1>3, RememberedStays
  <2>2. QED
    BY <1>3, <2>1 DEF NothingForgotten, Remembered
<1>4. ASSUME NEW w \in Workers,
             \/ \E s \in Sessions, batch \in Batches : TrackEvents(w, s, batch)
             \/ \E e \in Purchases : TrackPurchase(w, e)
      PROVE  NothingForgotten'
  <2>1. Others(w) /\ job[w] = Idle /\ UNCHANGED <<db, accepted, faults, lost>>
    BY <1>4, TrackSound
  <2>2. QED
    BY <1>3, <2>1 DEF Others, Owes, Idle, db
<1>5. ASSUME NEW w \in Workers, RecordEvent(w) PROVE NothingForgotten'
  <2>1. /\ Others(w) /\ job[w].at = "record" /\ job[w] \in Recorders
        /\ UNCHANGED <<log, accepted, requests, lost>>
    BY <1>5, RecordSound
  <2>2. PICK e \in Held(job[w].todo) :
          /\ job'[w] = [at |-> "record", todo |-> Without(job[w].todo, e),
                        events |-> With(job[w].events, e)]
          /\ recorded' = recorded \cup {e}
    BY <1>5, RecordSound
  <2>3. e \in Events
    BY DEF Held
  <2>4. \A p \in Providers, n \in Events : (Owes(w, p, n) \/ n = e) => Owes(w, p, n)'
    <3>1. PICK b, done : b = job[w].events /\ done = With(job[w].events, e)
      OBVIOUS
    <3>2. b \in Counts /\ done = With(b, e)
      BY <2>1, <3>1 DEF Recorders
    <3>3. \A n \in Events : (b[n] > 0 \/ n = e) => done[n] > 0
      BY <2>3, <3>2, WithHeld DEF Counts
    <3>4. job'[w].at = "record" /\ job'[w].events = done
      BY <2>2, <3>1
    <3>5. QED
      BY <2>1, <3>1, <3>3, <3>4 DEF Owes
  <2>5. \A p \in Providers : Remembered(p, e)'
    BY <2>3, <2>4, StillOwed
  <2>6. \A p \in Providers, n \in Events, x \in Workers :
          (Owes(x, p, n) /\ job'[x] # job[x]) => Remembered(p, n)'
    BY <2>1, <2>4, StillOwed DEF Others
  <2>7. \A p \in Providers, n \in recorded : Remembered(p, n)'
    BY <1>1, <1>2, <2>1, <2>6, RememberedStays
  <2>8. QED
    BY <2>2, <2>5, <2>7 DEF NothingForgotten, Remembered
<1>6. ASSUME NEW w \in Workers, Dispatch(w) PROVE NothingForgotten'
  <2>1. job[w].at = "record" /\ UNCHANGED <<db, accepted, requests, faults, lost>>
    BY <1>6, DispatchSound
  <2>2. PICK x \in Workers \ {w} :
          /\ job[x] = Idle
          /\ job'[w] = Calling("live", Meta, job[w].events, {})
          /\ job'[x] = Calling("live", TikTok, job[w].events, {})
          /\ \A y \in Workers \ {w, x} : job'[y] = job[y]
    BY <1>6, DispatchSound
  <2>3. \A p \in Providers, n \in Events :
          Owes(w, p, n) => Owes(w, p, n)' \/ Owes(x, p, n)'
    BY <2>1, <2>2 DEF Owes, Calling, Providers
  <2>4. \A p \in Providers, n \in Events : ~Owes(x, p, n)
    BY <2>2 DEF Owes, Idle
  <2>5. \A p \in Providers, n \in Events, y \in Workers :
          (Owes(y, p, n) /\ job'[y] # job[y]) => Remembered(p, n)'
    BY <2>2, <2>3, <2>4, StillOwed
  <2>6. QED
    BY <1>3, <2>1, <2>5 DEF db
<1>7. ASSUME NEW w \in Workers, Skip(w) \/ Call(w) PROVE NothingForgotten'
  <2>1. Others(w) /\ job[w].at = "call" /\ UNCHANGED <<db, requests, faults, lost>>
    BY <1>7, AnswerSound
  <2>2. PICK result : job'[w] = [at |-> "log", kind |-> job[w].kind,
                                 provider |-> job[w].provider, events |-> job[w].events,
                                 queue |-> job[w].queue, result |-> result]
    BY <1>7, AnswerSound
  <2>3. \A p \in Providers, n \in Events : Owes(w, p, n) => Owes(w, p, n)'
    BY <2>1, <2>2 DEF Owes
  <2>4. QED
    BY <1>3, <2>1, <2>3, StillOwed DEF Others, db
<1>8. ASSUME NEW w \in Workers, LogResult(w) PROVE NothingForgotten'
  <2>1. /\ Others(w) /\ job[w].at = "log"
        /\ UNCHANGED <<recorded, accepted, requests, faults, lost>>
    BY <1>8, LogSound
  <2>2. PICK e \in Held(job[w].events) :
          /\ job'[w] \in NextJob(w, e)
          /\ log'[job[w].provider][e] = Logged(log[job[w].provider][e], job[w].result)
    BY <1>8, LogSound
  <2>3. /\ job[w].provider \in Providers /\ e \in Events
        /\ job[w].result \in {"sent", "skipped", "failed"}
    BY <2>1, Kinds DEF DispatchInv, TaskSound, Callers, Held
  <2>4. log[job[w].provider][e] \in Rows
    BY <2>3 DEF DispatchInv, TypeOK
  <2>5. log'[job[w].provider][e].status # "none"
    BY <2>2, <2>3, <2>4, LoggedRow
  <2>6. \A p \in Providers, n \in Events : Owes(w, p, n) => Remembered(p, n)'
    <3> SUFFICES ASSUME NEW p \in Providers, NEW n \in Events, Owes(w, p, n)
                 PROVE  Remembered(p, n)'
      OBVIOUS
    <3>1. p = job[w].provider
      BY <2>1 DEF Owes
    <3>2. n = e => Remembered(p, n)'
      BY <2>5, <3>1 DEF Remembered
    <3>3. QED
      BY <2>1, <2>2, <3>2, NextOwed
  <2>7. QED
    BY <1>3, <2>1, <2>6 DEF Others
<1>9. ASSUME NEW w \in Workers, NEW p \in Providers, RetryFailed(w, p) PROVE NothingForgotten'
  <2>1. Others(w) /\ job[w] = Idle /\ UNCHANGED <<db, accepted, requests, faults, lost>>
    BY <1>9, RetrySound
  <2>2. QED
    BY <1>3, <2>1 DEF Others, Owes, Idle, db
<1>10. ASSUME NEW w \in Workers, RecordFails(w) \/ LogFails(w) PROVE NothingForgotten'
  <2>1. Others(w) /\ UNCHANGED <<db, accepted, requests>> /\ lost \subseteq lost'
    BY <1>10, FailSound
  <2>2. ASSUME NEW p \in Providers, NEW n \in Events, Owes(w, p, n) PROVE Remembered(p, n)'
    <3>1. CASE job'[w] = Idle /\ Missed(Owed(w)) \subseteq lost'
      BY <2>1, <2>2, <3>1, NowLost DEF db
    <3>2. CASE job[w].at = "log" /\ \E e \in Held(job[w].events) :
                 /\ job'[w] \in NextJob(w, e)
                 /\ e \notin Held(Rest(w, e)) =>
                      Missed({<<job[w].provider, e>>}) \subseteq lost'
      <4>1. PICK e \in Held(job[w].events) :
              /\ job'[w] \in NextJob(w, e)
              /\ e \notin Held(Rest(w, e)) =>
                   Missed({<<job[w].provider, e>>}) \subseteq lost'
        BY <3>2
      <4>2. p = job[w].provider
        BY <2>2, <3>2 DEF Owes
      <4>3. (e \notin Held(Rest(w, e)) /\ log[p][e].status = "none") => <<p, e>> \in lost'
        BY <4>1, <4>2 DEF Missed
      <4>4. (n = e /\ e \notin Held(Rest(w, e))) => Remembered(p, n)'
        BY <2>1, <4>3 DEF Remembered, db
      <4>5. QED
        BY <2>2, <3>2, <4>1, <4>4, NextOwed
    <3>3. QED
      BY <1>10, <3>1, <3>2, FailSound
  <2>3. QED
    BY <1>3, <2>1, <2>2 DEF Others, db
<1>11. CASE Restart
  BY <1>3, <1>11, RestartSound, NowLost DEF db
<1>12. ASSUME NEW s \in Sessions, StartSession(s) \/ SessionTimeout(s) \/ EndSession(s)
       PROVE  NothingForgotten'
  BY <1>3, <1>12 DEF StartSession, SessionTimeout, EndSession
<1>13. CASE UNCHANGED vars
  BY <1>3, <1>13 DEF vars, db
<1>14. QED
  BY <1>4, <1>5, <1>6, <1>7, <1>8, <1>9, <1>10, <1>11, <1>12, <1>13 DEF Next, Work, Retry

\* A recorded event has a row at each provider, or a task that will write it,
\* unless a fault struck between the two.
THEOREM NoneForgotten == Spec => []NothingForgotten
<1>1. Init => NothingForgotten
  BY DEF Init, NothingForgotten
<1>2. QED
  BY DispatchInit, DispatchNext, ForgottenNext, <1>1, PTL DEF Spec


-----------------------------------------------------------------------------
(* Attempts: what may still be counted was either let in by the cron while    *)
(* the row had attempts left, or is one of the copies a request holds.        *)

LEMMA WorkersCount ==
  /\ Cardinality(Workers) \in Nat /\ MaxAttempts \in Nat /\ MaxAttempts - 1 \in Nat
  /\ Repeats \in Nat
  /\ \A S \in SUBSET Workers : /\ IsFiniteSet(S) /\ Cardinality(S) \in Nat
                               /\ Cardinality(S) <= Cardinality(Workers)
  /\ \A S \in SUBSET (Workers \X (1..Repeats)) : IsFiniteSet(S) /\ Cardinality(S) \in Nat
<1>1. IsFiniteSet(Workers) /\ MaxAttempts \in Nat \ {0} /\ Repeats \in Nat
  BY DispatchAssumption DEF DispatchAssumption
<1>2. IsFiniteSet(1..Repeats)
  BY <1>1, FS_Interval
<1>3. IsFiniteSet(Workers \X (1..Repeats))
  BY <1>1, <1>2, FS_Product
<1>4. \A S \in SUBSET (Workers \X (1..Repeats)) : IsFiniteSet(S) /\ Cardinality(S) \in Nat
  BY <1>3, FS_Subset, FS_CardinalityType
<1>5. QED
  BY <1>1, <1>4, FS_Subset, FS_CardinalityType

\* Counting down: a smaller set, and one that lost an element.
LEMMA Fewer ==
  ASSUME NEW S, IsFiniteSet(S), NEW T \in SUBSET S
  PROVE  /\ Cardinality(T) <= Cardinality(S)
         /\ \A x \in S : x \notin T => Cardinality(T) + 1 <= Cardinality(S)
<1>1. Cardinality(T) <= Cardinality(S)
  BY FS_Subset
<1>2. ASSUME NEW x \in S, x \notin T PROVE Cardinality(T) + 1 <= Cardinality(S)
  <2>1. Cardinality(S \ {x}) = Cardinality(S) - 1 /\ IsFiniteSet(S \ {x})
    BY FS_RemoveElement
  <2>2. Cardinality(T) <= Cardinality(S \ {x})
    BY <1>2, <2>1, FS_Subset
  <2>3. Cardinality(S) \in Nat /\ Cardinality(T) \in Nat
    BY FS_CardinalityType, FS_Subset
  <2>4. QED
    BY <2>1, <2>2, <2>3
<1>3. QED
  BY <1>1, <1>2

\* The copies one task may hold, as many as they are.
LEMMA Block ==
  ASSUME NEW w \in Workers, NEW m \in 0..Repeats
  PROVE  /\ {w} \X (1..m) \in SUBSET (Workers \X (1..Repeats))
         /\ IsFiniteSet({w} \X (1..m)) /\ Cardinality({w} \X (1..m)) = m
<1>1. m \in Nat /\ Repeats \in Nat
  BY WorkersCount
<1>2. 1..m \subseteq 1..Repeats
  BY <1>1
<1>3. IsFiniteSet(1..m) /\ Cardinality(1..m) = m
  <2>1. IsFiniteSet(1..m) /\ Cardinality(1..m) = IF 1 > m THEN 0 ELSE m - 1 + 1
    BY <1>1, FS_Interval
  <2>2. QED
    BY <1>1, <2>1
<1>4. IsFiniteSet({w}) /\ Cardinality({w}) = 1
  BY FS_Singleton
<1>5. IsFiniteSet({w} \X (1..m)) /\ Cardinality({w} \X (1..m)) = Cardinality({w}) * Cardinality(1..m)
  BY <1>3, <1>4, FS_Product
<1>6. Cardinality({w} \X (1..m)) = m
  BY <1>1, <1>3, <1>4, <1>5
<1>7. QED
  BY <1>2, <1>5, <1>6

LEMMA BlockAdded ==
  ASSUME NEW S \in SUBSET (Workers \X (1..Repeats)), NEW T \in SUBSET (Workers \X (1..Repeats)),
         NEW w \in Workers, NEW m \in 0..Repeats, T \subseteq S \cup ({w} \X (1..m))
  PROVE  Cardinality(T) <= Cardinality(S) + m
<1>1. PICK B : B = {w} \X (1..m)
  OBVIOUS
<1>2. /\ IsFiniteSet(B) /\ Cardinality(B) = m /\ m \in Nat
      /\ IsFiniteSet(S) /\ Cardinality(S) \in Nat /\ Cardinality(T) \in Nat
  BY <1>1, Block, WorkersCount
<1>3. /\ IsFiniteSet(S \cup B)
      /\ Cardinality(S \cup B) = Cardinality(S) + Cardinality(B) - Cardinality(S \cap B)
  BY <1>2, FS_Union
<1>4. Cardinality(S \cap B) \in Nat
  BY <1>2, FS_Intersection, FS_CardinalityType
<1>5. Cardinality(T) <= Cardinality(S \cup B)
  BY <1>1, <1>3, FS_Subset
<1>6. Cardinality(S \cup B) \in Nat
  BY <1>3, FS_CardinalityType
<1>7. QED
  BY <1>2, <1>3, <1>4, <1>5, <1>6

\* Copies that pass from one task to another are as many as before.
LEMMA BlockMoved ==
  ASSUME NEW S \in SUBSET (Workers \X (1..Repeats)), NEW T \in SUBSET (Workers \X (1..Repeats)),
         NEW w \in Workers, NEW x \in Workers, NEW m \in 0..Repeats,
         {w} \X (1..m) \subseteq S, T \subseteq (S \ ({w} \X (1..m))) \cup ({x} \X (1..m))
  PROVE  Cardinality(T) <= Cardinality(S)
<1>1. PICK B, U : B = {w} \X (1..m) /\ U = S \ B
  OBVIOUS
<1>2. IsFiniteSet(S) /\ Cardinality(S) \in Nat /\ Cardinality(B) = m /\ m \in Nat
  BY <1>1, Block, WorkersCount
<1>3. S \cap B = B /\ U \in SUBSET (Workers \X (1..Repeats))
  BY <1>1
<1>4. Cardinality(U) = Cardinality(S) - m
  <2>1. Cardinality(S \ B) = Cardinality(S) - Cardinality(S \cap B)
    BY <1>2, FS_Difference
  <2>2. QED
    BY <1>1, <1>2, <1>3, <2>1
<1>5. Cardinality(T) <= Cardinality(U) + m
  BY <1>1, <1>3, BlockAdded
<1>6. Cardinality(U) \in Nat /\ Cardinality(T) \in Nat
  BY <1>3, WorkersCount
<1>7. QED
  BY <1>2, <1>3, <1>4, <1>5, <1>6

LEMMA AttemptsCount ==
  ASSUME TypeOK, NEW p \in Providers, NEW e \in Events
  PROVE  /\ Live(p, e) \in SUBSET (Workers \X (1..Repeats))
         /\ Live(p, e)' \in SUBSET (Workers \X (1..Repeats))
         /\ Retrying(p, e) \in SUBSET Workers /\ Retrying(p, e)' \in SUBSET Workers
         /\ Cardinality(Live(p, e)) \in Nat /\ Cardinality(Live(p, e)') \in Nat
         /\ Cardinality(Retrying(p, e)) \in Nat /\ Cardinality(Retrying(p, e)') \in Nat
         /\ log[p][e].attempts \in Nat /\ requests \in Nat /\ Repeats * requests \in Nat
<1>1. /\ Live(p, e) \in SUBSET (Workers \X (1..Repeats))
      /\ Live(p, e)' \in SUBSET (Workers \X (1..Repeats))
      /\ Retrying(p, e) \in SUBSET Workers /\ Retrying(p, e)' \in SUBSET Workers
  BY DEF Live, Retrying
<1>2. log[p][e].attempts \in Nat /\ requests \in Nat
  BY Budget DEF TypeOK, Rows
<1>3. Repeats * requests \in Nat
  BY <1>2, WorkersCount
<1>4. QED
  BY <1>1, <1>2, <1>3, WorkersCount

\* A request holds Repeats copies at most.
LEMMA CopiesCount ==
  ASSUME DispatchInv, NEW w \in Workers, NEW p \in Providers, NEW e \in Events
  PROVE  Copies(w, p, e) \in 0..Repeats
<1>1. CASE job[w].at = "record"
  <2>1. job[w].todo \in Counts /\ job[w].events \in Counts
    BY <1>1, Kinds DEF DispatchInv, Recorders
  <2>2. /\ job[w].todo[e] \in Nat /\ job[w].events[e] \in Nat
        /\ job[w].todo[e] + job[w].events[e] <= Repeats
    BY <1>1, <2>1 DEF DispatchInv, TaskSound, Counts
  <2>3. QED
    BY <1>1, <2>2, WorkersCount DEF Copies
<1>2. CASE job[w].at \in {"call", "log"} /\ job[w].kind = "live" /\ job[w].provider = p
  <2>1. job[w].events \in Counts
    BY <1>2, Kinds DEF DispatchInv, Callers
  <2>2. job[w].events[e] \in Nat /\ job[w].events[e] <= Repeats
    BY <1>2, <2>1 DEF DispatchInv, TaskSound, Counts
  <2>3. QED
    BY <1>2, <2>2, WorkersCount DEF Copies
<1>3. QED
  BY <1>1, <1>2, WorkersCount DEF Copies

\* What a task that goes on as it was, or ends, may still count.
LEMMA CopiesStay ==
  ASSUME DispatchInv, NEW w \in Workers, NEW p \in Providers, NEW e \in Events,
         job'[w] = job[w] \/ job'[w] = Idle
  PROVE  Copies(w, p, e)' \in 0..Copies(w, p, e) /\ (Retries(w, p, e)' => Retries(w, p, e))
<1>1. PICK m : m = Copies(w, p, e)
  OBVIOUS
<1>2. m \in Nat
  BY <1>1, CopiesCount, WorkersCount
<1>3. CASE job'[w] = Idle
  <2>1. Copies(w, p, e)' = 0 /\ ~Retries(w, p, e)'
    BY <1>3 DEF Copies, Retries, Idle
  <2>2. QED
    BY <1>1, <1>2, <2>1
<1>4. CASE job'[w] = job[w]
  <2>1. Copies(w, p, e)' = Copies(w, p, e) /\ (Retries(w, p, e)' => Retries(w, p, e))
    BY <1>4 DEF Copies, Retries
  <2>2. QED
    BY <1>1, <1>2, <2>1
<1>5. QED
  BY <1>3, <1>4

LEMMA AttemptsKept ==
  ASSUME DispatchInv, NEW p \in Providers, NEW e \in Events, AttemptsAt(p, e),
         log'[p][e] = log[p][e], requests' = requests,
         \A w \in Workers : /\ Copies(w, p, e)' \in 0..Copies(w, p, e)
                            /\ Retries(w, p, e)' => Retries(w, p, e)
  PROVE  AttemptsAt(p, e)'
<1>1. PICK L, M, S, T : /\ L = Live(p, e) /\ M = Live(p, e)'
                        /\ S = Retrying(p, e) /\ T = Retrying(p, e)'
  OBVIOUS
<1>2. TypeOK
  BY DEF DispatchInv
<1>3. M \subseteq L
  <2>1. ASSUME NEW c \in M PROVE c \in L
    <3>1. c \in Workers \X (1..Repeats) /\ c[2] <= Copies(c[1], p, e)'
      BY <1>1, <2>1 DEF Live
    <3>2. PICK k : k = Copies(c[1], p, e)
      OBVIOUS
    <3>3. PICK i : i = Copies(c[1], p, e)'
      OBVIOUS
    <3>4. i \in 0..k /\ k \in 0..Repeats /\ c[2] \in 1..Repeats /\ Repeats \in Nat
      BY <3>1, <3>2, <3>3, CopiesCount, WorkersCount
    <3>5. c[2] <= k
      BY <3>1, <3>3, <3>4
    <3>6. QED
      BY <1>1, <3>1, <3>2, <3>5 DEF Live
  <2>2. QED
    BY <2>1
<1>4. T \subseteq S
  BY <1>1 DEF Retrying
<1>5. Cardinality(M) <= Cardinality(L) /\ Cardinality(T) <= Cardinality(S)
  BY <1>1, <1>2, <1>3, <1>4, AttemptsCount, WorkersCount, Fewer
<1>6. PICK all : all = Repeats * requests
  OBVIOUS
<1>7. /\ Cardinality(L) \in Nat /\ Cardinality(M) \in Nat /\ Cardinality(S) \in Nat
      /\ Cardinality(T) \in Nat /\ all \in Nat /\ log[p][e].attempts \in Nat
  BY <1>1, <1>2, <1>6, AttemptsCount
<1>8. /\ Cardinality(L) <= all
      /\ log[p][e].attempts + Cardinality(S) + Cardinality(L)
           <= (MaxAttempts - 1) + Cardinality(Workers) + all
  BY <1>1, <1>6 DEF AttemptsAt
<1>9. /\ Cardinality(M) <= all
      /\ log[p][e].attempts + Cardinality(T) + Cardinality(M)
           <= (MaxAttempts - 1) + Cardinality(Workers) + all
  BY <1>5, <1>7, <1>8, WorkersCount
<1>10. QED
  BY <1>1, <1>6, <1>9 DEF AttemptsAt

\* Only task w changes, and it has no more to count than before.
LEMMA AttemptsOne ==
  ASSUME DispatchInv, NEW w \in Workers, NEW p \in Providers, NEW e \in Events,
         AttemptsAt(p, e), log'[p][e] = log[p][e], requests' = requests, Others(w),
         Copies(w, p, e)' \in 0..Copies(w, p, e), Retries(w, p, e)' => Retries(w, p, e)
  PROVE  AttemptsAt(p, e)'
<1>1. \A x \in Workers \ {w} : /\ Copies(x, p, e)' \in 0..Copies(x, p, e)
                               /\ Retries(x, p, e)' => Retries(x, p, e)
  BY CopiesStay DEF Others
<1>2. QED
  BY <1>1, AttemptsKept

LEMMA AttemptsTrack ==
  ASSUME DispatchInv, NEW w \in Workers, NEW p \in Providers, NEW e \in Events,
         AttemptsAt(p, e), Others(w), requests' = requests + 1, UNCHANGED log,
         job[w] = Idle, NEW todo \in Counts, job'[w] = Recording(todo), todo[e] <= Repeats
  PROVE  AttemptsAt(p, e)'
<1>1. PICK L, M, S, T : /\ L = Live(p, e) /\ M = Live(p, e)'
                        /\ S = Retrying(p, e) /\ T = Retrying(p, e)'
  OBVIOUS
<1>2. TypeOK
  BY DEF DispatchInv
<1>3. PICK m : m = todo[e]
  OBVIOUS
<1>4. m \in 0..Repeats /\ m \in Nat
  BY <1>3, WorkersCount DEF Counts
<1>5. Copies(w, p, e)' = m /\ ~Retries(w, p, e)'
  <2>1. Nothing[e] = 0
    BY NothingHeld
  <2>2. job'[w] = [at |-> "record", todo |-> todo, events |-> Nothing]
    BY DEF Recording
  <2>3. Copies(w, p, e)' = todo[e] + Nothing[e] /\ ~Retries(w, p, e)'
    BY <2>2 DEF Copies, Retries
  <2>4. QED
    BY <1>3, <1>4, <2>1, <2>3
<1>6. M \subseteq L \cup ({w} \X (1..m))
  <2>1. ASSUME NEW c \in M PROVE c \in L \cup ({w} \X (1..m))
    <3>1. c \in Workers \X (1..Repeats) /\ c[2] <= Copies(c[1], p, e)'
      BY <1>1, <2>1 DEF Live
    <3>2. CASE c[1] = w
      <4>1. c[2] \in 1..m
        BY <1>4, <1>5, <3>1, <3>2, WorkersCount
      <4>2. QED
        BY <3>1, <3>2, <4>1
    <3>3. CASE c[1] # w
      <4>1. Copies(c[1], p, e)' = Copies(c[1], p, e)
        BY <3>1, <3>3 DEF Others, Copies
      <4>2. QED
        BY <1>1, <3>1, <4>1 DEF Live
    <3>4. QED
      BY <3>2, <3>3
  <2>2. QED
    BY <2>1
<1>7. T \subseteq S
  BY <1>1, <1>5 DEF Retrying, Retries, Others
<1>8. Cardinality(M) <= Cardinality(L) + m
  BY <1>1, <1>2, <1>4, <1>6, AttemptsCount, BlockAdded
<1>9. Cardinality(T) <= Cardinality(S)
  BY <1>1, <1>2, <1>7, AttemptsCount, WorkersCount, Fewer
<1>10. PICK all : all = Repeats * requests
  OBVIOUS
<1>11. PICK more : more = Repeats * requests'
  OBVIOUS
<1>12. more = all + Repeats
  <2>1. requests \in Nat /\ Repeats \in Nat
    BY <1>2, AttemptsCount, WorkersCount
  <2>2. Repeats * (requests + 1) = Repeats * requests + Repeats
    BY <2>1
  <2>3. QED
    BY <1>10, <1>11, <2>2
<1>13. /\ Cardinality(L) \in Nat /\ Cardinality(M) \in Nat /\ Cardinality(S) \in Nat
       /\ Cardinality(T) \in Nat /\ all \in Nat /\ log[p][e].attempts \in Nat
  BY <1>1, <1>2, <1>10, AttemptsCount
<1>14. /\ Cardinality(L) <= all
       /\ log[p][e].attempts + Cardinality(S) + Cardinality(L)
            <= (MaxAttempts - 1) + Cardinality(Workers) + all
  BY <1>1, <1>10 DEF AttemptsAt
<1>15. /\ Cardinality(M) <= more
       /\ log[p][e].attempts + Cardinality(T) + Cardinality(M)
            <= (MaxAttempts - 1) + Cardinality(Workers) + more
  BY <1>4, <1>8, <1>9, <1>12, <1>13, <1>14, WorkersCount
<1>16. QED
  BY <1>1, <1>11, <1>15 DEF AttemptsAt

\* One task of the request goes on as two, for one provider each.
LEMMA AttemptsDispatch ==
  ASSUME DispatchInv, NEW w \in Workers, Dispatch(w), NEW p \in Providers, NEW e \in Events,
         AttemptsAt(p, e)
  PROVE  AttemptsAt(p, e)'
<1>1. /\ job[w].at = "record" /\ Held(job[w].todo) = {} /\ job[w] \in Recorders
      /\ log' = log /\ requests' = requests
  BY DispatchSound DEF db
<1>2. PICK x \in Workers \ {w} :
        /\ job[x] = Idle
        /\ job'[w] = Calling("live", Meta, job[w].events, {})
        /\ job'[x] = Calling("live", TikTok, job[w].events, {})
        /\ \A y \in Workers \ {w, x} : job'[y] = job[y]
  BY DispatchSound
<1>3. PICK b : b = job[w].events
  OBVIOUS
<1>4. b \in Counts /\ b[e] \in Nat
  BY <1>1, <1>3 DEF Recorders, Counts
<1>5. Copies(w, p, e) = b[e]
  <2>1. job[w].todo[e] = 0
    BY <1>1 DEF Recorders, Counts, Held
  <2>2. QED
    BY <1>1, <1>3, <1>4, <2>1 DEF Copies
<1>6. Copies(x, p, e) = 0
  BY <1>2 DEF Copies, Idle
<1>7. /\ Copies(w, p, e)' = (IF p = Meta THEN b[e] ELSE 0) /\ ~Retries(w, p, e)'
      /\ Copies(x, p, e)' = (IF p = TikTok THEN b[e] ELSE 0) /\ ~Retries(x, p, e)'
  BY <1>2, <1>3 DEF Copies, Retries, Calling
<1>8. \A y \in Workers \ {w, x} :
        Copies(y, p, e)' = Copies(y, p, e) /\ (Retries(y, p, e)' => Retries(y, p, e))
  BY <1>2 DEF Copies, Retries
<1>9. CASE p = Meta
  <2>1. Copies(w, p, e)' = b[e] /\ Copies(x, p, e)' = 0
    BY <1>7, <1>9, DispatchAssumption DEF DispatchAssumption
  <2>2. \A y \in Workers : Copies(y, p, e) \in Nat
    BY CopiesCount, WorkersCount
  <2>3. \A y \in Workers : Copies(y, p, e)' = Copies(y, p, e)
    BY <1>5, <1>6, <1>8, <2>1
  <2>4. \A y \in Workers : /\ Copies(y, p, e)' \in 0..Copies(y, p, e)
                           /\ Retries(y, p, e)' => Retries(y, p, e)
    BY <1>7, <1>8, <2>2, <2>3
  <2>5. QED
    BY <1>1, <2>4, AttemptsKept
<1>10. CASE p = TikTok
  <2>1. Copies(w, p, e)' = 0 /\ Copies(x, p, e)' = b[e]
    BY <1>7, <1>10, DispatchAssumption DEF DispatchAssumption
  <2>2. PICK m : m = b[e]
    OBVIOUS
  <2>3. m \in 0..Repeats /\ m \in Nat
    BY <1>4, <1>5, <2>2, CopiesCount
  <2>4. PICK L, M, S, T : /\ L = Live(p, e) /\ M = Live(p, e)'
                          /\ S = Retrying(p, e) /\ T = Retrying(p, e)'
    OBVIOUS
  <2>5. TypeOK
    BY DEF DispatchInv
  <2>6. {w} \X (1..m) \subseteq L
    <3>1. ASSUME NEW i \in 1..m PROVE <<w, i>> \in L
      <4>1. i \in 1..Repeats /\ i <= Copies(w, p, e)
        BY <1>5, <2>2, <2>3, WorkersCount
      <4>2. QED
        BY <2>4, <4>1 DEF Live
    <3>2. QED
      BY <3>1
  <2>7. M \subseteq (L \ ({w} \X (1..m))) \cup ({x} \X (1..m))
    <3>1. ASSUME NEW c \in M PROVE c \in (L \ ({w} \X (1..m))) \cup ({x} \X (1..m))
      <4>1. c \in Workers \X (1..Repeats) /\ c[2] <= Copies(c[1], p, e)'
        BY <2>4, <3>1 DEF Live
      <4>2. c[1] # w
        BY <2>1, <4>1, WorkersCount
      <4>3. CASE c[1] = x
        <5>1. c[2] \in 1..m
          BY <2>1, <2>2, <2>3, <4>1, <4>3, WorkersCount
        <5>2. QED
          BY <4>1, <4>3, <5>1
      <4>4. CASE c[1] # x
        <5>1. Copies(c[1], p, e)' = Copies(c[1], p, e)
          BY <1>8, <4>1, <4>2, <4>4
        <5>2. c \in L
          BY <2>4, <4>1, <5>1 DEF Live
        <5>3. QED
          BY <4>2, <5>2
      <4>5. QED
        BY <4>3, <4>4
    <3>2. QED
      BY <3>1
  <2>8. T \subseteq S
    BY <1>7, <1>8, <2>4 DEF Retrying
  <2>9. Cardinality(M) <= Cardinality(L)
    BY <2>3, <2>4, <2>5, <2>6, <2>7, AttemptsCount, BlockMoved
  <2>10. Cardinality(T) <= Cardinality(S)
    BY <2>4, <2>5, <2>8, AttemptsCount, WorkersCount, Fewer
  <2>11. PICK all : all = Repeats * requests
    OBVIOUS
  <2>12. /\ Cardinality(L) \in Nat /\ Cardinality(M) \in Nat /\ Cardinality(S) \in Nat
         /\ Cardinality(T) \in Nat /\ all \in Nat /\ log[p][e].attempts \in Nat
    BY <2>4, <2>5, <2>11, AttemptsCount
  <2>13. /\ Cardinality(L) <= all
         /\ log[p][e].attempts + Cardinality(S) + Cardinality(L)
              <= (MaxAttempts - 1) + Cardinality(Workers) + all
    BY <2>4, <2>11 DEF AttemptsAt
  <2>14. /\ Cardinality(M) <= all
         /\ log[p][e].attempts + Cardinality(T) + Cardinality(M)
              <= (MaxAttempts - 1) + Cardinality(Workers) + all
    BY <2>9, <2>10, <2>12, <2>13, WorkersCount
  <2>15. QED
    BY <1>1, <2>4, <2>11, <2>14 DEF AttemptsAt
<1>11. QED
  BY <1>9, <1>10 DEF Providers

\* The task that writes the row of e has one attempt less to count for e, and no
\* more than before for any other.
LEMMA NextCounts ==
  ASSUME DispatchInv, NEW w \in Workers, job[w].at = "log", NEW e \in Held(job[w].events),
         job'[w] \in NextJob(w, e), NEW p \in Providers, NEW n \in Events
  PROVE  /\ Copies(w, p, n)' \in 0..Copies(w, p, n)
         /\ Retries(w, p, n)' => Retries(w, p, n)
         /\ (p = job[w].provider /\ n = e) =>
              \/ Copies(w, p, n)' = Copies(w, p, n) - 1
              \/ Retries(w, p, n) /\ ~Retries(w, p, n)'
<1>1. PICK j \in NextJob(w, e) : job'[w] = j
  OBVIOUS
<1>2. TypeOK /\ TaskSound(w) /\ job[w] \in Callers
  BY Kinds DEF DispatchInv
<1>3. PICK b : b = job[w].events
  OBVIOUS
<1>4. PICK rest : rest = Rest(w, e)
  OBVIOUS
<1>5. /\ b \in Counts /\ e \in Held(b) /\ e \in Events /\ rest = Without(b, e)
      /\ job[w].kind \in {"live", "retry"} /\ job[w].queue \subseteq Events
  BY <1>2, <1>3, <1>4 DEF Callers, Rest, Held
<1>6. /\ rest \in Counts /\ rest[e] = b[e] - 1
      /\ \A i \in Events \ {e} : rest[i] = b[i]
  BY <1>5, WithoutHeld
<1>7. b[n] \in Nat /\ rest[n] \in Nat /\ b[e] \in Nat /\ b[e] > 0
  BY <1>5, <1>6 DEF Counts, Held
<1>8. Copies(w, p, n) = (IF job[w].kind = "live" /\ job[w].provider = p THEN b[n] ELSE 0)
  BY <1>3 DEF Copies
<1>9. Retries(w, p, n) <=> /\ job[w].kind = "retry" /\ job[w].provider = p
                           /\ n \in job[w].queue \/ b[n] > 0
  BY <1>3 DEF Retries
<1>10. /\ job[w].kind = "live" => job[w].queue = {}
       /\ job[w].kind = "retry" => e \notin job[w].queue /\ b[e] = 1
  BY <1>2, <1>3, <1>5 DEF TaskSound
<1>11. CASE j = Idle /\ b[e] = 1 /\ Held(b) = {e}
  <2>1. Copies(w, p, n)' = 0 /\ ~Retries(w, p, n)'
    BY <1>1, <1>11 DEF Copies, Retries, Idle
  <2>2. Copies(w, p, n) \in Nat
    BY <1>7, <1>8
  <2>3. CASE p = job[w].provider /\ n = e
    BY <1>5, <1>7, <1>8, <1>9, <1>11, <2>1, <2>2, <2>3
  <2>4. QED
    BY <2>1, <2>2, <2>3
<1>12. CASE /\ j \in Callers /\ j.at = "log" /\ j.kind = job[w].kind
            /\ j.provider = job[w].provider /\ j.queue = job[w].queue /\ j.events = rest
  <2>1. Copies(w, p, n)' = (IF job[w].kind = "live" /\ job[w].provider = p THEN rest[n] ELSE 0)
    BY <1>1, <1>12 DEF Copies
  <2>2. Retries(w, p, n)' <=> /\ job[w].kind = "retry" /\ job[w].provider = p
                              /\ n \in job[w].queue \/ rest[n] > 0
    BY <1>1, <1>12 DEF Retries
  <2>3. rest[n] <= b[n] /\ rest[n] \in Nat /\ b[n] \in Nat
    BY <1>6, <1>7
  <2>4. Copies(w, p, n)' \in 0..Copies(w, p, n)
    BY <1>8, <2>1, <2>3
  <2>5. Retries(w, p, n)' => Retries(w, p, n)
    BY <1>9, <2>2, <2>3
  <2>6. ASSUME p = job[w].provider, n = e
        PROVE  \/ Copies(w, p, n)' = Copies(w, p, n) - 1
               \/ Retries(w, p, n) /\ ~Retries(w, p, n)'
    <3>1. CASE job[w].kind = "live"
      BY <1>6, <1>8, <2>1, <2>6, <3>1
    <3>2. CASE job[w].kind = "retry"
      <4>1. rest[n] = 0 /\ n \notin job[w].queue /\ b[n] > 0
        BY <1>6, <1>10, <2>6, <3>2
      <4>2. QED
        BY <1>9, <2>2, <2>6, <3>2, <4>1
    <3>3. QED
      BY <1>5, <3>1, <3>2
  <2>7. QED
    BY <2>4, <2>5, <2>6
<1>13. CASE /\ b[e] = 1 /\ Held(b) = {e}
            /\ \E i \in job[w].queue :
                 /\ j \in Callers /\ j.at = "call" /\ j.kind = "retry"
                 /\ j.provider = job[w].provider
                 /\ j.queue = job[w].queue \ {i} /\ j.events = Single(i)
  <2>1. PICK i \in job[w].queue :
          /\ j \in Callers /\ j.at = "call" /\ j.kind = "retry"
          /\ j.provider = job[w].provider
          /\ j.queue = job[w].queue \ {i} /\ j.events = Single(i)
    BY <1>13
  <2>2. job[w].kind = "retry" /\ i \in Events /\ i # e
    BY <1>5, <1>10, <2>1
  <2>3. Copies(w, p, n) = 0 /\ Copies(w, p, n)' = 0
    BY <1>1, <1>8, <2>1, <2>2 DEF Copies
  <2>4. Retries(w, p, n)' <=> /\ job[w].provider = p
                              /\ n \in job[w].queue \ {i} \/ Single(i)[n] > 0
    BY <1>1, <2>1 DEF Retries
  <2>5. Single(i)[n] > 0 => n = i
    BY <2>2 DEF Single
  <2>6. Retries(w, p, n)' => n \in job[w].queue /\ job[w].provider = p
    BY <2>1, <2>4, <2>5
  <2>7. (p = job[w].provider /\ n = e) => Retries(w, p, n) /\ ~Retries(w, p, n)'
    BY <1>7, <1>9, <1>10, <2>2, <2>6
  <2>8. QED
    BY <1>9, <2>2, <2>3, <2>6, <2>7
<1>14. QED
  BY <1>1, <1>2, <1>3, <1>4, <1>11, <1>12, <1>13, NextJobs

LEMMA AttemptsLog ==
  ASSUME DispatchInv, NEW w \in Workers, LogResult(w), NEW p \in Providers, NEW e \in Events,
         AttemptsAt(p, e)
  PROVE  AttemptsAt(p, e)'
<1>1. Others(w) /\ job[w].at = "log" /\ requests' = requests
  BY LogSound
<1>2. PICK n \in Held(job[w].events) :
        /\ job'[w] \in NextJob(w, n)
        /\ log'[job[w].provider][n] = Logged(log[job[w].provider][n], job[w].result)
        /\ \A q \in Providers, m \in Events :
             log'[q][m] # log[q][m] => q = job[w].provider /\ m = n
  BY LogSound
<1>3. /\ Copies(w, p, e)' \in 0..Copies(w, p, e)
      /\ Retries(w, p, e)' => Retries(w, p, e)
      /\ (p = job[w].provider /\ e = n) =>
           \/ Copies(w, p, e)' = Copies(w, p, e) - 1
           \/ Retries(w, p, e) /\ ~Retries(w, p, e)'
  BY <1>1, <1>2, NextCounts
<1>4. CASE p = job[w].provider /\ e = n
  <2>1. PICK L, M, S, T : /\ L = Live(p, e) /\ M = Live(p, e)'
                          /\ S = Retrying(p, e) /\ T = Retrying(p, e)'
    OBVIOUS
  <2>2. TypeOK
    BY DEF DispatchInv
  <2>3. \A y \in Workers : /\ Copies(y, p, e)' \in 0..Copies(y, p, e)
                           /\ Copies(y, p, e) \in 0..Repeats
                           /\ Retries(y, p, e)' => Retries(y, p, e)
    BY <1>1, <1>3, CopiesStay, CopiesCount DEF Others
  <2>4. M \subseteq L
    <3>1. ASSUME NEW c \in M PROVE c \in L
      <4>1. c \in Workers \X (1..Repeats) /\ c[2] <= Copies(c[1], p, e)' /\ c[1] \in Workers
        BY <2>1, <3>1 DEF Live
      <4>2. PICK k : k = Copies(c[1], p, e)
        OBVIOUS
      <4>3. PICK i : i = Copies(c[1], p, e)'
        OBVIOUS
      <4>4. i \in 0..k /\ k \in 0..Repeats /\ c[2] \in 1..Repeats /\ c[2] <= i
        BY <2>3, <4>1, <4>2, <4>3
      <4>5. c[2] <= k
        BY <4>4, WorkersCount
      <4>6. QED
        BY <2>1, <4>1, <4>2, <4>5 DEF Live
    <3>2. QED
      BY <3>1
  <2>5. T \subseteq S
    BY <2>1, <2>3 DEF Retrying
  <2>6. Cardinality(M) <= Cardinality(L) /\ Cardinality(T) <= Cardinality(S)
    BY <2>1, <2>2, <2>4, <2>5, AttemptsCount, WorkersCount, Fewer
  <2>7. \/ Cardinality(M) + 1 <= Cardinality(L)
        \/ Cardinality(T) + 1 <= Cardinality(S)
    <3>1. CASE Copies(w, p, e)' = Copies(w, p, e) - 1
      <4>1. PICK k : k = Copies(w, p, e)
        OBVIOUS
      <4>2. PICK i : i = Copies(w, p, e)'
        OBVIOUS
      <4>3. k \in 0..Repeats /\ i \in 0..k /\ i = k - 1
        BY <2>3, <3>1, <4>1, <4>2
      <4>4. k \in 1..Repeats /\ ~(k <= i)
        BY <4>3, WorkersCount
      <4>5. <<w, k>> \in L
        BY <2>1, <4>1, <4>4 DEF Live
      <4>6. <<w, k>> \notin M
        BY <2>1, <4>2, <4>4 DEF Live
      <4>7. QED
        BY <2>1, <2>2, <2>4, <4>5, <4>6, AttemptsCount, WorkersCount, Fewer
    <3>2. CASE Retries(w, p, e) /\ ~Retries(w, p, e)'
      <4>1. w \in S /\ w \notin T
        BY <2>1, <3>2 DEF Retrying
      <4>2. QED
        BY <2>1, <2>2, <2>5, <4>1, AttemptsCount, WorkersCount, Fewer
    <3>3. QED
      BY <1>3, <1>4, <3>1, <3>2
  <2>8. log'[p][e].attempts = log[p][e].attempts + 1
    BY <1>2, <1>4 DEF Logged
  <2>9. PICK all : all = Repeats * requests
    OBVIOUS
  <2>10. /\ Cardinality(L) \in Nat /\ Cardinality(M) \in Nat /\ Cardinality(S) \in Nat
         /\ Cardinality(T) \in Nat /\ all \in Nat /\ log[p][e].attempts \in Nat
    BY <2>1, <2>2, <2>9, AttemptsCount
  <2>11. /\ Cardinality(L) <= all
         /\ log[p][e].attempts + Cardinality(S) + Cardinality(L)
              <= (MaxAttempts - 1) + Cardinality(Workers) + all
    BY <2>1, <2>9 DEF AttemptsAt
  <2>12. /\ Cardinality(M) <= all
         /\ log'[p][e].attempts + Cardinality(T) + Cardinality(M)
              <= (MaxAttempts - 1) + Cardinality(Workers) + all
    BY <2>6, <2>7, <2>8, <2>10, <2>11, WorkersCount
  <2>13. QED
    BY <1>1, <2>1, <2>9, <2>12 DEF AttemptsAt
<1>5. CASE ~(p = job[w].provider /\ e = n)
  <2>1. log'[p][e] = log[p][e]
    BY <1>2, <1>5
  <2>2. QED
    BY <1>1, <1>3, <2>1, AttemptsOne
<1>6. QED
  BY <1>4, <1>5

\* The cron lets an event in only while its row has attempts left; then even
\* all workers together stay within the bound.
LEMMA AttemptsRetry ==
  ASSUME DispatchInv, NEW w \in Workers, NEW q \in Providers, RetryFailed(w, q),
         NEW p \in Providers, NEW e \in Events, AttemptsAt(p, e)
  PROVE  AttemptsAt(p, e)'
<1>1. /\ Others(w) /\ log' = log /\ requests' = requests
      /\ job'[w].at = "call" /\ job'[w].kind = "retry" /\ job'[w].provider = q
      /\ \A n \in Events : (n \in job'[w].queue \/ job'[w].events[n] > 0) => n \in Pending(q)
  BY RetrySound DEF db
<1>2. Copies(w, p, e)' \in 0..Copies(w, p, e)
  <2>1. Copies(w, p, e)' = 0
    BY <1>1 DEF Copies
  <2>2. QED
    BY <2>1, CopiesCount, WorkersCount
<1>3. CASE Retries(w, p, e)'
  <2>1. e \in Pending(p)
    BY <1>1, <1>3 DEF Retries
  <2>2. log[p][e].attempts < MaxAttempts
    BY <2>1 DEF Pending
  <2>3. PICK L, M, T : L = Live(p, e) /\ M = Live(p, e)' /\ T = Retrying(p, e)'
    OBVIOUS
  <2>4. TypeOK
    BY DEF DispatchInv
  <2>5. \A y \in Workers : /\ Copies(y, p, e)' \in 0..Copies(y, p, e)
                           /\ Copies(y, p, e) \in 0..Repeats
    BY <1>1, <1>2, CopiesStay, CopiesCount DEF Others
  <2>6. M \subseteq L
    <3>1. ASSUME NEW c \in M PROVE c \in L
      <4>1. c \in Workers \X (1..Repeats) /\ c[2] <= Copies(c[1], p, e)' /\ c[1] \in Workers
        BY <2>3, <3>1 DEF Live
      <4>2. PICK k : k = Copies(c[1], p, e)
        OBVIOUS
      <4>3. PICK i : i = Copies(c[1], p, e)'
        OBVIOUS
      <4>4. i \in 0..k /\ k \in 0..Repeats /\ c[2] \in 1..Repeats /\ c[2] <= i
        BY <2>5, <4>1, <4>2, <4>3
      <4>5. c[2] <= k
        BY <4>4, WorkersCount
      <4>6. QED
        BY <2>3, <4>1, <4>2, <4>5 DEF Live
    <3>2. QED
      BY <3>1
  <2>7. Cardinality(M) <= Cardinality(L)
    BY <2>3, <2>4, <2>6, AttemptsCount, WorkersCount, Fewer
  <2>8. Cardinality(T) <= Cardinality(Workers)
    BY <2>3, <2>4, AttemptsCount, WorkersCount
  <2>9. PICK all : all = Repeats * requests
    OBVIOUS
  <2>10. /\ Cardinality(L) \in Nat /\ Cardinality(M) \in Nat /\ Cardinality(T) \in Nat
         /\ all \in Nat /\ log[p][e].attempts \in Nat
    BY <2>3, <2>4, <2>9, AttemptsCount
  <2>11. Cardinality(L) <= all
    BY <2>3, <2>9 DEF AttemptsAt
  <2>12. /\ Cardinality(M) <= all
         /\ log[p][e].attempts + Cardinality(T) + Cardinality(M)
              <= (MaxAttempts - 1) + Cardinality(Workers) + all
    BY <2>2, <2>7, <2>8, <2>10, <2>11, WorkersCount
  <2>13. QED
    BY <1>1, <2>3, <2>9, <2>12 DEF AttemptsAt
<1>4. CASE ~Retries(w, p, e)'
  BY <1>1, <1>2, <1>4, AttemptsOne
<1>5. QED
  BY <1>3, <1>4

LEMMA AttemptsNext ==
  ASSUME DispatchInv, AttemptsInv, [Next]_vars
  PROVE  AttemptsInv'
<1> SUFFICES ASSUME NEW p \in Providers, NEW e \in Events PROVE AttemptsAt(p, e)'
  BY DEF AttemptsInv, AttemptsAt, Live, Retrying, Copies, Retries
<1>1. AttemptsAt(p, e)
  BY DEF AttemptsInv
<1>2. ASSUME NEW w \in Workers,
             \/ \E s \in Sessions, batch \in Batches : TrackEvents(w, s, batch)
             \/ \E n \in Purchases : TrackPurchase(w, n)
      PROVE  AttemptsAt(p, e)'
  <2>1. /\ Others(w) /\ UNCHANGED log /\ job[w] = Idle /\ requests' = requests + 1
        /\ \E todo \in Counts : /\ job'[w] = Recording(todo)
                               /\ \A n \in Events : todo[n] <= Repeats
    BY <1>2, TrackSound DEF db
  <2>2. PICK todo \in Counts : /\ job'[w] = Recording(todo)
                               /\ \A n \in Events : todo[n] <= Repeats
    BY <2>1
  <2>3. QED
    BY <1>1, <2>1, <2>2, AttemptsTrack
<1>3. ASSUME NEW w \in Workers, RecordEvent(w) PROVE AttemptsAt(p, e)'
  <2>1. /\ Others(w) /\ job[w].at = "record" /\ job[w] \in Recorders
        /\ UNCHANGED <<log, requests>>
    BY <1>3, RecordSound
  <2>2. PICK n \in Held(job[w].todo) :
          job'[w] = [at |-> "record", todo |-> Without(job[w].todo, n),
                     events |-> With(job[w].events, n)]
    BY <1>3, RecordSound
  <2>3. PICK a, b : a = job[w].todo /\ b = job[w].events
    OBVIOUS
  <2>4. a \in Counts /\ b \in Counts /\ n \in Held(a) /\ n \in Events
    BY <2>1, <2>3 DEF Recorders, Held
  <2>5. a[e] + b[e] = Without(a, n)[e] + With(b, n)[e]
    <3>1. a[e] \in Nat /\ b[e] \in Nat
      BY <2>4 DEF Counts
    <3>2. CASE e = n
      <4>1. Without(a, n)[e] = a[e] - 1 /\ With(b, n)[e] = b[e] + 1
        BY <2>4, <3>2, WithoutHeld, WithHeld
      <4>2. QED
        BY <3>1, <4>1
    <3>3. CASE e # n
      BY <2>4, <3>3, WithoutHeld, WithHeld
    <3>4. QED
      BY <3>2, <3>3
  <2>6. Copies(w, p, e)' = Copies(w, p, e) /\ ~Retries(w, p, e)'
    BY <2>1, <2>2, <2>3, <2>5 DEF Copies, Retries
  <2>7. Copies(w, p, e)' \in 0..Copies(w, p, e)
    BY <2>6, CopiesCount, WorkersCount
  <2>8. QED
    BY <1>1, <2>1, <2>6, <2>7, AttemptsOne
<1>4. ASSUME NEW w \in Workers, Dispatch(w) PROVE AttemptsAt(p, e)'
  BY <1>1, <1>4, AttemptsDispatch
<1>5. ASSUME NEW w \in Workers, Skip(w) \/ Call(w) PROVE AttemptsAt(p, e)'
  <2>1. Others(w) /\ job[w].at = "call" /\ log' = log /\ requests' = requests
    BY <1>5, AnswerSound DEF db
  <2>2. PICK result : job'[w] = [at |-> "log", kind |-> job[w].kind,
                                 provider |-> job[w].provider, events |-> job[w].events,
                                 queue |-> job[w].queue, result |-> result]
    BY <1>5, AnswerSound
  <2>3. /\ Copies(w, p, e)' = Copies(w, p, e)
        /\ Retries(w, p, e)' => Retries(w, p, e)
    BY <2>1, <2>2 DEF Copies, Retries
  <2>4. Copies(w, p, e)' \in 0..Copies(w, p, e)
    BY <2>3, CopiesCount, WorkersCount
  <2>5. QED
    BY <1>1, <2>1, <2>3, <2>4, AttemptsOne
<1>6. ASSUME NEW w \in Workers, LogResult(w) PROVE AttemptsAt(p, e)'
  BY <1>1, <1>6, AttemptsLog
<1>7. ASSUME NEW w \in Workers, NEW q \in Providers, RetryFailed(w, q)
      PROVE  AttemptsAt(p, e)'
  BY <1>1, <1>7, AttemptsRetry
<1>8. ASSUME NEW w \in Workers, RecordFails(w) \/ LogFails(w) PROVE AttemptsAt(p, e)'
  <2>1. Others(w) /\ log' = log /\ requests' = requests
    BY <1>8, FailSound DEF db
  <2>2. /\ Copies(w, p, e)' \in 0..Copies(w, p, e)
        /\ Retries(w, p, e)' => Retries(w, p, e)
    <3>1. CASE job'[w] = Idle
      BY <3>1, CopiesStay
    <3>2. CASE job[w].at = "log" /\ \E n \in Held(job[w].events) : job'[w] \in NextJob(w, n)
      BY <3>2, NextCounts
    <3>3. QED
      BY <1>8, <3>1, <3>2, FailSound
  <2>3. QED
    BY <1>1, <2>1, <2>2, AttemptsOne
<1>9. ASSUME UNCHANGED <<log, requests>>,
             \A w \in Workers : job'[w] = job[w] \/ job'[w] = Idle
      PROVE  AttemptsAt(p, e)'
  BY <1>1, <1>9, CopiesStay, AttemptsKept
<1>10. CASE Restart
  BY <1>9, <1>10, RestartSound DEF db
<1>11. ASSUME NEW s \in Sessions, StartSession(s) \/ SessionTimeout(s) \/ EndSession(s)
       PROVE  AttemptsAt(p, e)'
  BY <1>9, <1>11 DEF StartSession, SessionTimeout, EndSession
<1>12. CASE UNCHANGED vars
  BY <1>9, <1>12 DEF vars, db
<1>13. QED
  BY <1>2, <1>3, <1>4, <1>5, <1>6, <1>7, <1>8, <1>10, <1>11, <1>12 DEF Next, Work, Retry

LEMMA AttemptsInit == Init => AttemptsInv
<1> SUFFICES ASSUME Init, NEW p \in Providers, NEW e \in Events PROVE AttemptsAt(p, e)
  BY DEF AttemptsInv
<1>1. log[p][e].attempts = 0 /\ requests = 0
  BY DEF Init, NoLog
<1>2. Live(p, e) = {} /\ Retrying(p, e) = {}
  <2>1. \A w \in Workers : Copies(w, p, e) = 0 /\ ~Retries(w, p, e)
    BY DEF Init, Copies, Retries, Idle
  <2>2. QED
    BY <2>1, WorkersCount DEF Live, Retrying
<1>3. PICK none : none = {}
  OBVIOUS
<1>4. Cardinality(none) = 0
  BY <1>3, FS_EmptySet
<1>5. Repeats * requests = 0
  BY <1>1, WorkersCount
<1>6. QED
  BY <1>1, <1>2, <1>3, <1>4, <1>5, WorkersCount DEF AttemptsAt

\* Overlapping runs of the cron exceed MaxAttempts by no more than one attempt for
\* each task, and requests that send an event again add no more than one for every
\* time their batches hold it.
THEOREM AttemptsHold == Spec => []AttemptsBounded
<1>1. DispatchInv /\ AttemptsInv => AttemptsBounded
  <2> SUFFICES ASSUME DispatchInv, AttemptsInv, NEW p \in Providers, NEW e \in Events
               PROVE  log[p][e].attempts
                        <= (MaxAttempts - 1) + Cardinality(Workers) + Repeats * requests
    BY DEF AttemptsBounded
  <2>1. PICK L, S : L = Live(p, e) /\ S = Retrying(p, e)
    OBVIOUS
  <2>2. PICK all : all = Repeats * requests
    OBVIOUS
  <2>3. log[p][e].attempts + Cardinality(S) + Cardinality(L)
          <= (MaxAttempts - 1) + Cardinality(Workers) + all
    BY <2>1, <2>2 DEF AttemptsInv, AttemptsAt
  <2>4. /\ Cardinality(L) \in Nat /\ Cardinality(S) \in Nat /\ all \in Nat
        /\ log[p][e].attempts \in Nat
    BY <2>1, <2>2, AttemptsCount DEF DispatchInv
  <2>5. QED
    BY <2>2, <2>3, <2>4, WorkersCount
<1>2. QED
  BY DispatchInit, DispatchNext, AttemptsInit, AttemptsNext, <1>1, PTL DEF Spec
=============================================================================
