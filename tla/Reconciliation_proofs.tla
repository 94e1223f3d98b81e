------------------------ MODULE Reconciliation_proofs ------------------------
(***************************************************************************)
(* Theorems of Reconciliation for every set of attempts, transactions, runs *)
(* of the cron and handlers, and every duration.                           *)
(***************************************************************************)
EXTENDS Reconciliation, SequenceTheorems, FiniteSetTheorems, TLAPS

-----------------------------------------------------------------------------
(* Types.                                                                   *)

LEMMA Durations ==
  /\ Take \in Nat \ {0} /\ Lifetime \in Nat \ {0} /\ Grace \in Nat \ {0} /\ Retry \in Nat \ {0}
  /\ MaxAge \in Nat /\ MaxWait \in Nat /\ MaxHolds \in Nat /\ MaxErrors \in Nat
BY ReconciliationAssumption DEF ReconciliationAssumption

\* The kind of a handler follows from where it stands.
LEMMA CronKinds ==
  ASSUME TypeOK, NEW c \in Crons, Running(c)
  PROVE  /\ job[c] \in Runs
         /\ job[c].age \in 0..MaxAge /\ job[c].queue \in Batches
         /\ job[c].at \in {"inspect", "settle"}
         /\ job[c].at = "settle" => job[c].outcome \in Outcomes \cup {"pending"}
         /\ job[c].at = "inspect" => job[c].outcome = None
BY DEF TypeOK, Running, Runs

LEMMA WorkerKinds ==
  ASSUME TypeOK, NEW w \in Workers
  PROVE  /\ job[w].at = "verify" => /\ job[w].kind \in {"webhook", "manual"}
                                    /\ job[w].t \in Transactions
                                    /\ job[w].heard \in Answers \cup {None}
         /\ job[w].at = "write" => job[w].p \in Attempts /\ job[w].outcome \in Outcomes
         /\ job[w].at = "hold" => job[w].p \in Attempts /\ job[w].open \in BOOLEAN
BY DEF TypeOK, Handlings, Idle

LEMMA QueueHead ==
  ASSUME NEW q \in Batches
  PROVE  /\ q[1] \in Queued /\ Head(q) = q[1] /\ Len(q) \in Nat \ {0}
         /\ Tail(q) \in Seq(Queued) /\ Len(Tail(q)) = Len(q) - 1
         /\ \A i \in 1..Len(Tail(q)) : Tail(q)[i] = q[i + 1]
         /\ Len(q) # 1 => Tail(q) \in Batches
<1>1. q \in Seq(Queued) /\ q # <<>>
  BY DEF Batches
<1>2. Len(q) \in Nat \ {0}
  BY <1>1, EmptySeq
<1>3. q[1] \in Queued
  BY <1>1, <1>2, ElementOfSeq
<1>4. Head(q) = q[1]
  BY <1>1
<1>5. /\ Tail(q) \in Seq(Queued) /\ Len(Tail(q)) = Len(q) - 1
      /\ \A i \in 1..Len(Tail(q)) : Tail(q)[i] = q[i + 1]
  BY <1>1, HeadTailProperties
<1>6. Len(q) # 1 => Tail(q) # <<>>
  <2>1. Len(<<>>) = 0
    BY EmptySeq
  <2>2. Len(q) # 1 => Len(Tail(q)) # 0
    BY <1>2, <1>5
  <2>3. QED
    BY <2>1, <2>2
<1>7. QED
  BY <1>2, <1>3, <1>4, <1>5, <1>6 DEF Batches

LEMMA HeadType ==
  ASSUME TypeOK, NEW c \in Crons, Running(c)
  PROVE  /\ Head1(c) = job[c].queue[1] /\ Head1(c) \in Queued
         /\ Head1(c).p \in Attempts /\ Head1(c).read \in Rows
BY CronKinds, QueueHead DEF Head1, Queued

LEMMA InitType == Init => TypeOK
<1> SUFFICES ASSUME Init PROVE TypeOK
  OBVIOUS
<1>1. NoRow \in Rows
  BY DEF NoRow, Rows, Statuses
<1>2. 0 \in -(MaxWait + MaxAge)..(Lifetime + Retry) /\ 0 \in -MaxAge..(Lifetime + Grace)
  BY Durations
<1>3. QED
  BY <1>1, <1>2, Durations DEF Init, TypeOK

\* One handler changes, and possibly the rows and the dates.
LEMMA CronType ==
  ASSUME TypeOK, NEW c \in Crons, NEW j \in {Idle} \cup Runs, job' = [job EXCEPT ![c] = j],
         row' \in [Attempts -> Rows], due' \in [Attempts -> -(MaxWait + MaxAge)..(Lifetime + Retry)],
         errors' \in 0..MaxErrors, UNCHANGED <<key, tx, left, holds>>
  PROVE  TypeOK'
BY ReconciliationAssumption DEF TypeOK, ReconciliationAssumption

LEMMA WorkerType ==
  ASSUME TypeOK, NEW w \in Workers, NEW j \in {Idle} \cup Handlings, job' = [job EXCEPT ![w] = j],
         row' \in [Attempts -> Rows], due' \in [Attempts -> -(MaxWait + MaxAge)..(Lifetime + Retry)],
         errors' \in 0..MaxErrors, holds' \in 0..MaxHolds, UNCHANGED <<key, tx, left>>
  PROVE  TypeOK'
BY ReconciliationAssumption DEF TypeOK, ReconciliationAssumption

LEMMA SettledType ==
  ASSUME TypeOK, NEW p \in Attempts, NEW outcome \in Outcomes
  PROVE  Settled(p, outcome) \in [Attempts -> Rows]
<1>1. Final(outcome) \in Statuses
  BY DEF Final, Outcomes, Statuses
<1>2. [row[p] EXCEPT !.status = Final(outcome)] \in Rows
  BY <1>1 DEF TypeOK, Rows
<1>3. QED
  BY <1>2 DEF TypeOK, Settled

LEMMA RescheduledType ==
  ASSUME TypeOK, NEW p \in Attempts, NEW age \in 0..MaxAge
  PROVE  /\ Rescheduled(p, NextDue(p, age)) \in [Attempts -> -(MaxWait + MaxAge)..(Lifetime + Retry)]
         /\ Rescheduled(p, Retry - age) \in [Attempts -> -(MaxWait + MaxAge)..(Lifetime + Retry)]
<1>1. Retry - age \in -(MaxWait + MaxAge)..(Lifetime + Retry)
  BY Durations
<1>2. left[p] \in -MaxAge..(Lifetime + Grace)
  BY DEF TypeOK
<1>3. NextDue(p, age) \in -(MaxWait + MaxAge)..(Lifetime + Retry)
  BY <1>1, <1>2, Durations DEF NextDue
<1>4. QED
  BY <1>1, <1>3 DEF TypeOK, Rescheduled

LEMMA NextRowType ==
  ASSUME TypeOK, NEW c \in Crons, Running(c)
  PROVE  \E j \in {Idle} \cup Runs : NextRow(c) = [job EXCEPT ![c] = j]
<1>1. CASE Len(job[c].queue) = 1
  BY <1>1 DEF NextRow
<1>2. CASE Len(job[c].queue) # 1
  <2> DEFINE j == [job[c] EXCEPT !.at = "inspect", !.queue = Tail(@), !.outcome = None]
  <2>1. Tail(job[c].queue) \in Batches
    BY <1>2, CronKinds, QueueHead
  <2>2. j \in Runs
    BY <2>1, CronKinds DEF Runs
  <2>3. NextRow(c) = [job EXCEPT ![c] = j]
    BY <1>2 DEF NextRow, TypeOK
  <2> HIDE DEF j
  <2>4. QED
    BY <2>2, <2>3
<1>3. QED
  BY <1>1, <1>2

LEMMA StartRunType ==
  ASSUME TypeOK, NEW c \in Crons, StartRun(c)
  PROVE  TypeOK'
<1>1. PICK s \in SetToSeqs(Selected) :
        job' = [job EXCEPT ![c] =
          [at |-> "inspect", age |-> 0, outcome |-> None,
           queue |-> [i \in 1..Batch(Len(s)) |-> [p |-> s[i], read |-> row[s[i]]]]]]
  BY DEF StartRun
<1>2. Cardinality(Selected) \in Nat \ {0}
  <2>1. IsFiniteSet(Selected)
    BY ReconciliationAssumption, FS_Subset DEF ReconciliationAssumption, Selected
  <2>2. QED
    BY <2>1, FS_CardinalityType, FS_EmptySet DEF StartRun
<1>3. s \in [1..Cardinality(Selected) -> Selected]
  BY DEF SetToSeqs
<1>4. s \in Seq(Attempts) /\ Len(s) = Cardinality(Selected)
  <2>1. \A i \in 1..Cardinality(Selected) : s[i] \in Attempts
    BY <1>3 DEF Selected
  <2>2. s = [i \in 1..Cardinality(Selected) |-> s[i]]
    BY <1>3
  <2>3. [i \in 1..Cardinality(Selected) |-> s[i]] \in Seq(Attempts)
    BY <1>2, <2>1
  <2>4. Len([i \in 1..Cardinality(Selected) |-> s[i]]) = Cardinality(Selected)
    BY <1>2
  <2>5. QED
    BY <2>2, <2>3, <2>4
<1>5. Batch(Len(s)) \in 1..Len(s)
  BY <1>2, <1>4, Durations DEF Batch
<1> DEFINE q == [i \in 1..Batch(Len(s)) |-> [p |-> s[i], read |-> row[s[i]]]]
<1>6. \A i \in 1..Batch(Len(s)) : q[i] \in Queued
  BY <1>4, <1>5 DEF Queued, TypeOK
<1>7. q \in Batches
  <2>1. q \in Seq(Queued) /\ Len(q) = Batch(Len(s))
    BY <1>2, <1>4, <1>5, <1>6
  <2>2. QED
    BY <1>5, <2>1, <1>2, <1>4 DEF Batches
<1> HIDE DEF q
<1>8. [at |-> "inspect", age |-> 0, outcome |-> None, queue |-> q] \in Runs
  BY <1>7, Durations DEF Runs
<1>9. QED
  BY <1>1, <1>8, CronType DEF StartRun, TypeOK, q

LEMMA OutcomeType == \A answer : Outcome(answer) \in Outcomes \cup {"pending"}
BY DEF Outcome, Outcomes

LEMMA InspectType ==
  ASSUME TypeOK, NEW c \in Crons, Inspect(c)
  PROVE  TypeOK'
<1>1. Running(c) /\ job[c].at = "inspect" /\ UNCHANGED <<key, tx, due, left, holds, errors>>
  BY DEF Inspect
<1>2. job[c] \in Runs /\ Head1(c).p \in Attempts /\ Head1(c).read \in Rows
  BY <1>1, CronKinds, HeadType
<1>3. ASSUME NEW outcome \in Outcomes \cup {"pending"}
      PROVE  [job[c] EXCEPT !.at = "settle", !.outcome = outcome] \in Runs
  BY <1>2 DEF Runs
<1>4. PICK outcome \in Outcomes \cup {"pending"} :
        job' = [job EXCEPT ![c].at = "settle", ![c].outcome = outcome]
  BY OutcomeType DEF Inspect
<1>5. job' = [job EXCEPT ![c] = [job[c] EXCEPT !.at = "settle", !.outcome = outcome]]
  BY <1>4 DEF TypeOK
<1>6. row' \in [Attempts -> Rows]
  <2>1. \A t \in Found(Head1(c).p) \ {None} : t \in Transactions
    BY DEF Found, Known
  <2>2. ASSUME NEW t \in Transactions,
               row' = [row EXCEPT ![Head1(c).p].txId = t,
                                  ![Head1(c).p].heard = Head1(c).read.heard]
        PROVE  row' \in [Attempts -> Rows]
    <3>1. [row[Head1(c).p] EXCEPT !.txId = t, !.heard = Head1(c).read.heard] \in Rows
      BY <1>2 DEF TypeOK, Rows
    <3>2. QED
      BY <1>2, <2>2, <3>1 DEF TypeOK
  <2>3. QED
    BY <2>1, <2>2 DEF Inspect, TypeOK
<1>7. QED
  BY <1>1, <1>3, <1>5, <1>6, CronType DEF TypeOK

LEMMA SettleType ==
  ASSUME TypeOK, NEW c \in Crons, SettleRow(c) \/ SettleThrows(c) \/ RescheduleThrows(c)
  PROVE  TypeOK'
<1>1. Running(c) /\ job[c].at = "settle" /\ job' = NextRow(c) /\ UNCHANGED <<key, tx, left, holds>>
  BY DEF SettleRow, SettleThrows, RescheduleThrows
<1>2. /\ Head1(c).p \in Attempts /\ job[c].age \in 0..MaxAge
      /\ Verdict(c) \in Outcomes \cup {"pending"}
  BY <1>1, CronKinds, HeadType DEF Verdict, Outcomes
<1>3. row' \in [Attempts -> Rows]
  BY <1>2, SettledType DEF SettleRow, SettleThrows, RescheduleThrows, TypeOK
<1>4. due' \in [Attempts -> -(MaxWait + MaxAge)..(Lifetime + Retry)]
  BY <1>2, RescheduledType DEF SettleRow, SettleThrows, RescheduleThrows, AfterError, TypeOK
<1>5. errors' \in 0..MaxErrors
  BY Durations DEF SettleRow, SettleThrows, RescheduleThrows, Error, TypeOK
<1>6. PICK j \in {Idle} \cup Runs : job' = [job EXCEPT ![c] = j]
  BY <1>1, NextRowType
<1>7. QED
  BY <1>1, <1>3, <1>4, <1>5, <1>6, CronType

LEMMA WordType ==
  ASSUME TypeOK, NEW t \in Transactions, tx[t] # None, NEW word \in Words(t)
  PROVE  word \in Answers
BY DEF TypeOK, Words, Answers

LEMMA HearType ==
  ASSUME TypeOK, NEW w \in Workers,
         \/ \E t \in Transactions : Webhook(w, t)
         \/ \E p \in Attempts : Ask(w, p)
  PROVE  TypeOK'
<1>1. TxOf \in [Transactions -> Attempts]
  BY ReconciliationAssumption DEF ReconciliationAssumption
<1>2. ASSUME NEW t \in Transactions, Webhook(w, t)
      PROVE  TypeOK'
  <2>1. PICK word \in Words(t) :
          /\ row' = [row EXCEPT ![TxOf[t]].txId = t, ![TxOf[t]].heard = word]
          /\ job' = [job EXCEPT ![w] =
               CASE word.status = "pending"   -> Idle
                 [] word.status = "succeeded" -> [at |-> "verify", kind |-> "webhook", t |-> t,
                                                  heard |-> word]
                 [] OTHER -> [at |-> "write", p |-> TxOf[t], outcome |-> word.status]]
    BY <1>2 DEF Webhook
  <2>2. word \in Answers
    BY <1>2, WordType DEF Webhook
  <2>3. row' \in [Attempts -> Rows]
    <3>1. TxOf[t] \in Attempts /\ row[TxOf[t]] \in Rows
      BY <1>1 DEF TypeOK
    <3>2. [row[TxOf[t]] EXCEPT !.txId = t, !.heard = word] \in Rows
      BY <2>2, <3>1 DEF Rows
    <3>3. QED
      BY <2>1, <3>1, <3>2 DEF TypeOK
  <2>4. [at |-> "verify", kind |-> "webhook", t |-> t, heard |-> word] \in Handlings
    BY <2>2 DEF Handlings
  <2>5. word.status \in {"failed", "expired"} =>
          [at |-> "write", p |-> TxOf[t], outcome |-> word.status] \in Handlings
    BY <1>1 DEF Handlings, Outcomes
  <2>6. word.status \in {"pending", "succeeded", "failed", "expired"}
    BY <2>2 DEF Answers
  <2>7. PICK j \in {Idle} \cup Handlings : job' = [job EXCEPT ![w] = j]
    BY <2>1, <2>4, <2>5, <2>6
  <2>8. QED
    BY <1>2, <2>3, <2>7, WorkerType DEF Webhook, TypeOK
<1>3. ASSUME NEW p \in Attempts, Ask(w, p)
      PROVE  TypeOK'
  <2>1. PICK t \in IF row[p].txId # None THEN {row[p].txId} ELSE Found(p) \ {None} :
          job' = [job EXCEPT ![w] = [at |-> "verify", kind |-> "manual", t |-> t,
                                     heard |-> row[p].heard]]
    BY <1>3 DEF Ask
  <2>2. row[p].txId \in Transactions \cup {None} /\ row[p].heard \in Answers \cup {None}
    BY DEF TypeOK, Rows
  <2>3. t \in Transactions
    BY <2>1, <2>2 DEF Found, Known
  <2>4. [at |-> "verify", kind |-> "manual", t |-> t, heard |-> row[p].heard] \in Handlings
    BY <2>2, <2>3 DEF Handlings
  <2>5. QED
    BY <1>3, <2>1, <2>4, WorkerType DEF Ask, TypeOK
<1>4. QED
  BY <1>2, <1>3

LEMMA HandleType ==
  ASSUME TypeOK, NEW w \in Workers, Handle(w)
  PROVE  TypeOK'
<1>1. TxOf \in [Transactions -> Attempts]
  BY ReconciliationAssumption DEF ReconciliationAssumption
<1>2. ASSUME Verify(w)
      PROVE  TypeOK'
  <2>1. job[w].t \in Transactions /\ TxOf[job[w].t] \in Attempts
    BY <1>1, <1>2, WorkerKinds DEF Verify
  <2>2. [at |-> "write", p |-> TxOf[job[w].t], outcome |-> "paid"] \in Handlings
    BY <2>1 DEF Handlings, Outcomes
  <2>3. [at |-> "hold", p |-> TxOf[job[w].t], open |-> IsOpen(TxOf[job[w].t])] \in Handlings
    BY <2>1 DEF Handlings, IsOpen
  <2>4. PICK ok \in BOOLEAN, hold \in BOOLEAN :
          /\ holds' = IF hold THEN holds + 1 ELSE holds
          /\ holds' <= MaxHolds
          /\ job' = [job EXCEPT ![w] =
               CASE ok    -> [at |-> "write", p |-> TxOf[job[w].t], outcome |-> "paid"]
                 [] hold  -> [at |-> "hold", p |-> TxOf[job[w].t], open |-> IsOpen(TxOf[job[w].t])]
                 [] OTHER -> Idle]
    BY <1>2 DEF Verify, Verified
  <2>5. holds' \in 0..MaxHolds
    BY <2>4, Durations DEF TypeOK
  <2>6. PICK j \in {Idle} \cup Handlings : job' = [job EXCEPT ![w] = j]
    BY <2>2, <2>3, <2>4
  <2>7. QED
    BY <1>2, <2>5, <2>6, WorkerType DEF Verify, TypeOK
<1>3. ASSUME Write(w)
      PROVE  TypeOK'
  <2>1. row' \in [Attempts -> Rows]
    BY <1>3, WorkerKinds, SettledType DEF Write
  <2>2. QED
    BY <1>3, <2>1, WorkerType DEF Write, TypeOK
<1>4. ASSUME Hold(w)
      PROVE  TypeOK'
  <2>1. job[w].p \in Attempts
    BY <1>4, WorkerKinds DEF Hold
  <2>2. row' \in [Attempts -> Rows]
    <3>1. [row[job[w].p] EXCEPT !.status = "PROCESSING"] \in Rows
      BY <2>1 DEF TypeOK, Rows, Statuses
    <3>2. QED
      BY <1>4, <2>1, <3>1 DEF Hold, TypeOK
  <2>3. due' \in [Attempts -> -(MaxWait + MaxAge)..(Lifetime + Retry)]
    <3>1. Retry \in -(MaxWait + MaxAge)..(Lifetime + Retry)
      BY Durations
    <3>2. QED
      BY <1>4, <2>1, <3>1 DEF Hold, TypeOK
  <2>4. QED
    BY <1>4, <2>2, <2>3, WorkerType DEF Hold, TypeOK
<1>5. ASSUME WriteThrows(w)
      PROVE  TypeOK'
  <2>1. errors' \in 0..MaxErrors
    BY <1>5, Durations DEF WriteThrows, Error, TypeOK
  <2>2. QED
    BY <1>5, <2>1, WorkerType DEF WriteThrows, TypeOK
<1>6. QED
  BY <1>2, <1>3, <1>4, <1>5 DEF Handle

LEMMA TickType ==
  ASSUME TypeOK, Tick
  PROVE  TypeOK'
<1>1. due' \in [Attempts -> -(MaxWait + MaxAge)..(Lifetime + Retry)]
  BY Durations DEF Tick, TypeOK, Later
<1>2. left' \in [Attempts -> -MaxAge..(Lifetime + Grace)]
  BY Durations DEF Tick, TypeOK, Later
<1>3. ASSUME NEW c \in Crons
      PROVE  job'[c] \in {Idle} \cup Runs
  <2>1. CASE Running(c)
    <3>1. job[c] \in Runs /\ job[c].age \in 0..MaxAge /\ job[c].age < MaxAge
      BY <2>1, CronKinds DEF Tick
    <3>2. job[c].age + 1 \in 0..MaxAge
      BY <3>1, Durations
    <3>3. [job[c] EXCEPT !.age = @ + 1] \in Runs
      BY <3>1, <3>2 DEF Runs
    <3>4. QED
      BY <2>1, <3>3 DEF Tick
  <2>2. CASE ~ Running(c)
    BY <2>2 DEF Tick, TypeOK
  <2>3. QED
    BY <2>1, <2>2
<1>4. ASSUME NEW w \in Workers
      PROVE  job'[w] \in {Idle} \cup Handlings
  BY ReconciliationAssumption DEF Tick, TypeOK, ReconciliationAssumption
<1>5. job' = [w \in Crons \cup Workers |-> job'[w]]
  BY DEF Tick
<1>6. QED
  BY <1>1, <1>2, <1>3, <1>4, <1>5 DEF Tick, TypeOK

LEMMA NextType == TypeOK /\ [Next]_vars => TypeOK'
<1> SUFFICES ASSUME TypeOK, [Next]_vars
             PROVE  TypeOK'
  OBVIOUS
<1>1. ASSUME NEW p \in Attempts, Initiate(p)
      PROVE  TypeOK'
  <2>1. [row[p] EXCEPT !.status = "PENDING"] \in Rows
    BY DEF TypeOK, Rows, Statuses
  <2>2. /\ Lifetime \in -(MaxWait + MaxAge)..(Lifetime + Retry)
        /\ Lifetime + Grace \in -MaxAge..(Lifetime + Grace)
    BY Durations
  <2>3. QED
    BY <1>1, <2>1, <2>2 DEF Initiate, TypeOK
<1>2. ASSUME NEW t \in Transactions, Pay(t)
      PROVE  TypeOK'
  <2>1. \A good \in BOOLEAN : [status |-> "pending", good |-> good] \in Answers
    BY DEF Answers
  <2>2. QED
    BY <1>2, <2>1 DEF Pay, TypeOK
<1>3. ASSUME NEW t \in Transactions, Conclude(t)
      PROVE  TypeOK'
  <2>1. \A s \in {"succeeded", "failed", "expired"} : [tx[t] EXCEPT !.status = s] \in Answers
    BY <1>3 DEF Answers, TypeOK, Conclude
  <2>2. QED
    BY <1>3, <2>1 DEF Conclude, TypeOK
<1>4. ASSUME Restart
      PROVE  TypeOK'
  BY <1>4, Durations DEF Restart, Error, TypeOK
<1>5. CASE UNCHANGED vars
  BY <1>5 DEF vars, TypeOK
<1>6. QED
  BY <1>1, <1>2, <1>3, <1>4, <1>5, TickType, StartRunType, InspectType, SettleType, HearType,
     HandleType DEF Next, Run

\* Every variable keeps its shape: a run of the cron never looks past the end of
\* its batch, dates and ages stay within the bounds.
THEOREM TypeCorrect == Spec => []TypeOK
BY InitType, NextType, PTL DEF Spec

-----------------------------------------------------------------------------
(* What the handlers hold is true, and stays so.                            *)

\* A notification about one of the attempt's transactions.
Heard(p, heard) == heard # None => \E t \in Known(p) : heard \in Words(t)

\* The provider has closed one of the attempt's transactions that way.
SettlesAs(p, outcome) ==
  \E t \in Known(p) : IF outcome = "paid" THEN tx[t].status = "succeeded" /\ tx[t].good
                      ELSE tx[t].status = outcome

Honest(p, r) == (r.txId # None => r.txId \in Known(p)) /\ Heard(p, r.heard)

RowsHonest == \A p \in Attempts : Honest(p, row[p])
QueueHonest(q) == \A i \in 1..Len(q) : Honest(q[i].p, q[i].read)
RunHonest(c) ==
  Running(c) => /\ QueueHonest(job[c].queue)
                /\ job[c].at = "settle" /\ job[c].outcome \in Outcomes
                   => SettlesAs(job[c].queue[1].p, job[c].outcome)
RunsHonest == \A c \in Crons : RunHonest(c)
HandlerHonest(w) ==
  /\ job[w].at = "verify" => tx[job[w].t] # None /\ Heard(TxOf[job[w].t], job[w].heard)
  /\ job[w].at = "write" => SettlesAs(job[w].p, job[w].outcome)
HandlersHonest == \A w \in Workers : HandlerHonest(w)
EndHonest(p) ==
  /\ row[p].status = "PAID" => SettlesAs(p, "paid")
  /\ row[p].status = "FAILED" => SettlesAs(p, "failed")
  /\ row[p].status = "EXPIRED" => SettlesAs(p, "expired") \/ left[p] <= 0
EndsHonest == \A p \in Attempts : EndHonest(p)

\* What a row says, what a handler has read or been told, however old, and what
\* it is about to write, was announced by the provider and holds for good.
TruthInv == RowsHonest /\ RunsHonest /\ HandlersHonest /\ EndsHonest

LEMMA WordsAre ==
  ASSUME NEW r \in Answers
  PROVE  \A word : word \in {[r EXCEPT !.status = s] : s \in {"pending", r.status}}
                   <=> /\ word \in Answers /\ word.good = r.good
                       /\ word.status \in {"pending", r.status}
<1>1. ASSUME NEW s \in {"pending", r.status}
      PROVE  /\ [r EXCEPT !.status = s] \in Answers
             /\ [r EXCEPT !.status = s].good = r.good /\ [r EXCEPT !.status = s].status = s
  BY DEF Answers
<1>2. ASSUME NEW word \in Answers, word.good = r.good
      PROVE  word = [r EXCEPT !.status = word.status]
  BY <1>2 DEF Answers
<1>3. QED
  BY <1>1, <1>2

\* The provider takes nothing back.
TxGrows ==
  \A t \in Transactions : tx[t] # None =>
    /\ tx'[t] # None /\ tx'[t].good = tx[t].good
    /\ tx[t].status # "pending" => tx'[t] = tx[t]

LEMMA NextGrows == TypeOK /\ [Next]_vars => TxGrows
<1> SUFFICES ASSUME TypeOK, [Next]_vars
             PROVE  TxGrows
  OBVIOUS
<1>1. CASE UNCHANGED tx
  BY <1>1 DEF TxGrows
<1>2. ASSUME NEW t \in Transactions, Pay(t)
      PROVE  TxGrows
  BY <1>2 DEF Pay, TxGrows, TypeOK
<1>3. ASSUME NEW t \in Transactions, Conclude(t)
      PROVE  TxGrows
  <2>1. tx[t] \in Answers /\ tx[t].status = "pending"
    BY <1>3 DEF Conclude, TypeOK
  <2>2. PICK s \in {"succeeded", "failed", "expired"} : tx' = [tx EXCEPT ![t].status = s]
    BY <1>3 DEF Conclude
  <2>3. tx'[t] = [tx[t] EXCEPT !.status = s] /\ \A u \in Transactions \ {t} : tx'[u] = tx[u]
    BY <2>2 DEF TypeOK
  <2>4. tx'[t] \in Answers /\ tx'[t].good = tx[t].good
    BY <2>1, <2>3 DEF Answers
  <2>5. QED
    BY <2>1, <2>3, <2>4, ReconciliationAssumption DEF TxGrows, ReconciliationAssumption
<1>4. QED
  BY <1>1, <1>2, <1>3
     DEF Next, vars, Initiate, Tick, StartRun, Run, Inspect, SettleRow, SettleThrows,
         RescheduleThrows, Webhook, Ask, Handle, Verify, Write, Hold, WriteThrows, Restart

LEMMA StableWords ==
  ASSUME TypeOK, TypeOK', TxGrows, NEW p
  PROVE  /\ \A outcome \in Outcomes : SettlesAs(p, outcome) => SettlesAs(p, outcome)'
         /\ \A heard : Heard(p, heard) => Heard(p, heard)'
         /\ \A r : Honest(p, r) => Honest(p, r)'
<1>1. Known(p) \subseteq Known(p)'
  BY DEF Known, TxGrows
<1>2. \A t \in Known(p) : t \in Transactions /\ tx[t] # None /\ tx'[t] # None
  BY DEF Known, TxGrows
<1>3. ASSUME NEW outcome \in Outcomes, SettlesAs(p, outcome)
      PROVE  SettlesAs(p, outcome)'
  <2>1. PICK t \in Known(p) : IF outcome = "paid" THEN tx[t].status = "succeeded" /\ tx[t].good
                              ELSE tx[t].status = outcome
    BY <1>3 DEF SettlesAs
  <2>2. tx'[t] = tx[t]
    BY <1>2, <2>1 DEF Outcomes, TxGrows
  <2>3. QED
    BY <1>1, <2>1, <2>2 DEF SettlesAs
<1>4. ASSUME NEW heard, Heard(p, heard)
      PROVE  Heard(p, heard)'
  <2>1. ASSUME NEW t \in Known(p), heard \in Words(t)
        PROVE  heard \in Words(t)'
    <3>1. heard \in Answers /\ heard.good = tx[t].good /\ heard.status \in {"pending", tx[t].status}
      BY <1>2, <2>1, WordsAre DEF TypeOK, Words
    <3>2. heard.good = tx'[t].good /\ heard.status \in {"pending", tx'[t].status}
      BY <1>2, <3>1 DEF TxGrows
    <3>3. tx'[t] \in Answers
      BY <1>2 DEF TypeOK
    <3>4. QED
      BY <3>1, <3>2, <3>3, WordsAre DEF Words
  <2>2. QED
    BY <1>1, <1>4, <2>1 DEF Heard
<1>5. QED
  BY <1>1, <1>3, <1>4 DEF Honest

LEMMA Stable ==
  ASSUME TypeOK, TypeOK', TxGrows
  PROVE  /\ \A p : \A outcome \in Outcomes : SettlesAs(p, outcome) => SettlesAs(p, outcome)'
         /\ \A p, heard : Heard(p, heard) => Heard(p, heard)'
         /\ \A p, r : Honest(p, r) => Honest(p, r)'
         /\ \A q : QueueHonest(q) => QueueHonest(q)'
<1>1. \A p, r : Honest(p, r) => Honest(p, r)'
  BY StableWords
<1>2. \A q : QueueHonest(q) => QueueHonest(q)'
  BY <1>1 DEF QueueHonest
<1>3. QED
  BY <1>1, <1>2, StableWords

LEMMA TruthInit == Init => TruthInv
<1> SUFFICES ASSUME Init PROVE TruthInv
  OBVIOUS
<1>1. \A p \in Attempts : row[p] = NoRow
  BY DEF Init
<1>2. RowsHonest
  BY <1>1 DEF RowsHonest, Honest, Heard, NoRow
<1>3. \A w \in Crons \cup Workers : job[w] = Idle
  BY DEF Init
<1>4. RunsHonest /\ HandlersHonest
  BY <1>3 DEF RunsHonest, RunHonest, HandlersHonest, HandlerHonest, Running, Idle
<1>5. EndsHonest
  BY <1>1 DEF EndsHonest, EndHonest, NoRow
<1>6. QED
  BY <1>2, <1>4, <1>5 DEF TruthInv

LEMMA RowsKept ==
  ASSUME TypeOK, TypeOK', TxGrows, RowsHonest,
         \A p \in Attempts : row'[p].txId = row[p].txId /\ row'[p].heard = row[p].heard
  PROVE  RowsHonest'
<1>1. ASSUME NEW p \in Attempts
      PROVE  Honest(p, row[p])' 
  <2>1. Honest(p, row[p])
    BY DEF RowsHonest
  <2>2. PICK r : r = row[p]
    OBVIOUS
  <2>3. Honest(p, r)'
    BY <2>1, <2>2, Stable
  <2>4. QED
    BY <2>2, <2>3 DEF Honest, Heard
<1>2. QED
  BY <1>1 DEF RowsHonest

LEMMA RunKept ==
  ASSUME TypeOK, TypeOK', TxGrows, NEW c \in Crons, RunHonest(c),
         Running(c)' => /\ Running(c) /\ job'[c].queue = job[c].queue
                        /\ job'[c].at = job[c].at /\ job'[c].outcome = job[c].outcome
  PROVE  RunHonest(c)'
<1> SUFFICES ASSUME Running(c)' PROVE RunHonest(c)'
  BY DEF RunHonest
<1>1. PICK q, outcome : q = job[c].queue /\ outcome = job[c].outcome
  OBVIOUS
<1>2. job'[c].queue = q /\ job'[c].outcome = outcome /\ job'[c].at = job[c].at /\ Running(c)
  BY <1>1
<1>3. /\ QueueHonest(q)
      /\ job[c].at = "settle" /\ outcome \in Outcomes => SettlesAs(q[1].p, outcome)
  BY <1>1, <1>2 DEF RunHonest
<1>4. /\ QueueHonest(q)'
      /\ job[c].at = "settle" /\ outcome \in Outcomes => SettlesAs(q[1].p, outcome)'
  BY <1>3, Stable
<1>5. QED
  BY <1>2, <1>4 DEF RunHonest, QueueHonest, Honest, Heard, SettlesAs

LEMMA HandlerKept ==
  ASSUME TypeOK, TypeOK', TxGrows, NEW w \in Workers, HandlerHonest(w), job'[w] = job[w]
  PROVE  HandlerHonest(w)'
<1>1. PICK j : j = job[w]
  OBVIOUS
<1>2. /\ j.at = "verify" => j.t \in Transactions /\ tx[j.t] # None /\ Heard(TxOf[j.t], j.heard)
      /\ j.at = "write" => j.outcome \in Outcomes /\ SettlesAs(j.p, j.outcome)
  BY <1>1, WorkerKinds DEF HandlerHonest
<1>3. /\ j.at = "verify" => tx'[j.t] # None /\ Heard(TxOf[j.t], j.heard)'
      /\ j.at = "write" => SettlesAs(j.p, j.outcome)'
  BY <1>2, Stable DEF TxGrows
<1>4. QED
  BY <1>1, <1>3 DEF HandlerHonest, Heard, SettlesAs

LEMMA EndKept ==
  ASSUME TypeOK, TypeOK', TxGrows, NEW p \in Attempts, EndHonest(p),
         row'[p].status = row[p].status \/ row'[p].status \in Open,
         row[p].status = "EXPIRED" /\ left[p] <= 0 => left'[p] <= 0
  PROVE  EndHonest(p)'
<1>1. \A outcome \in Outcomes : SettlesAs(p, outcome) => SettlesAs(p, outcome)'
  BY Stable
<1>2. QED
  BY <1>1 DEF EndHonest, Open, Outcomes

\* The outcome written is one that the provider announced, or an expiry after the
\* grace period.
LEMMA SettledHonest ==
  ASSUME TypeOK, TypeOK', TxGrows, EndsHonest, UNCHANGED left,
         NEW p \in Attempts, NEW outcome \in Outcomes,
         SettlesAs(p, outcome) \/ (outcome = "expired" /\ left[p] <= 0),
         row' = Settled(p, outcome)
  PROVE  EndsHonest'
<1>1. ASSUME NEW q \in Attempts, row'[q].status = row[q].status
      PROVE  EndHonest(q)'
  BY <1>1, EndKept DEF EndsHonest
<1>2. ASSUME row'[p].status # row[p].status
      PROVE  EndHonest(p)'
  <2>1. row'[p].status = Final(outcome)
    BY <1>2 DEF Settled, TypeOK, Rows
  <2>2. SettlesAs(p, outcome) => SettlesAs(p, outcome)'
    BY Stable
  <2>3. QED
    BY <2>1, <2>2 DEF EndHonest, Final, Outcomes
<1>3. \A q \in Attempts \ {p} : row'[q] = row[q]
  BY DEF Settled, TypeOK
<1>4. QED
  BY <1>1, <1>2, <1>3 DEF EndsHonest

LEMMA OutcomeProven ==
  ASSUME TypeOK, NEW p, NEW t \in Known(p), NEW answer,
         answer \in {tx[t], Unreachable, Forbidden}, Outcome(answer) \in Outcomes
  PROVE  SettlesAs(p, Outcome(answer))
<1>1. tx[t] \in Answers
  BY DEF Known, TypeOK
<1>2. answer = tx[t]
  BY DEF Outcome, Unreachable, Forbidden, Verified, Announced, Outcomes
<1>3. CASE tx[t].status \in {"failed", "expired"}
  BY <1>2, <1>3 DEF Outcome, SettlesAs
<1>4. CASE tx[t].status = "succeeded" /\ Verified(tx[t], None)
  <2>1. tx[t].good
    BY <1>4 DEF Verified, Announced
  <2>2. Outcome(answer) = "paid"
    BY <1>2, <1>4 DEF Outcome
  <2>3. QED
    BY <1>4, <2>1, <2>2 DEF SettlesAs
<1>5. QED
  BY <1>2, <1>3, <1>4 DEF Outcome, Outcomes

\* All but one handler keep what they hold.
LEMMA OthersKept ==
  ASSUME TypeOK, TypeOK', TxGrows, TruthInv,
         NEW v \in Crons \cup Workers, NEW j, job' = [job EXCEPT ![v] = j],
         v \in Crons => RunHonest(v)', v \in Workers => HandlerHonest(v)'
  PROVE  RunsHonest' /\ HandlersHonest'
<1>1. \A u \in (Crons \cup Workers) \ {v} : job'[u] = job[u]
  BY DEF TypeOK
<1>2. ASSUME NEW c \in Crons, c # v
      PROVE  RunHonest(c)'
  BY <1>1, <1>2, RunKept DEF TruthInv, RunsHonest, Running
<1>3. ASSUME NEW w \in Workers, w # v
      PROVE  HandlerHonest(w)'
  BY <1>1, <1>3, HandlerKept DEF TruthInv, HandlersHonest
<1>4. QED
  BY <1>2, <1>3 DEF RunsHonest, HandlersHonest

LEMMA EndsKept ==
  ASSUME TypeOK, TypeOK', TxGrows, TruthInv, UNCHANGED left,
         \A p \in Attempts : row'[p].status = row[p].status \/ row'[p].status \in Open
  PROVE  EndsHonest'
BY EndKept DEF TruthInv, EndsHonest

LEMMA TruthEnvironment ==
  ASSUME TypeOK, TypeOK', TxGrows, TruthInv,
         \/ \E p \in Attempts : Initiate(p)
         \/ \E t \in Transactions : Pay(t) \/ Conclude(t)
         \/ Tick \/ Restart \/ UNCHANGED vars
  PROVE  TruthInv'
<1>1. RowsHonest'
  <2>1. ASSUME NEW p \in Attempts, Initiate(p)
        PROVE  \A q \in Attempts : row'[q].txId = row[q].txId /\ row'[q].heard = row[q].heard
    BY <2>1 DEF Initiate, TypeOK, Rows
  <2>2. \A q \in Attempts : row'[q].txId = row[q].txId /\ row'[q].heard = row[q].heard
    BY <2>1 DEF Pay, Conclude, Tick, Restart, vars
  <2>3. QED
    BY <2>2, RowsKept DEF TruthInv
<1>2. RunsHonest'
  <2>1. ASSUME NEW c \in Crons, Running(c)'
        PROVE  /\ Running(c) /\ job'[c].queue = job[c].queue
               /\ job'[c].at = job[c].at /\ job'[c].outcome = job[c].outcome
    <3>1. CASE Tick
      <4>1. job'[c] = IF Running(c) THEN [job[c] EXCEPT !.age = @ + 1] ELSE job[c]
        BY <3>1 DEF Tick
      <4>2. Running(c)
        BY <2>1, <4>1 DEF Running
      <4>3. job[c] \in Runs
        BY <4>2, CronKinds
      <4>4. QED
        BY <4>1, <4>2, <4>3 DEF Runs
    <3>2. CASE Restart
      BY <2>1, <3>2 DEF Restart, Running
    <3>3. CASE ~ Tick /\ ~ Restart
      BY <2>1, <3>3 DEF Initiate, Pay, Conclude, vars, Running
    <3>4. QED
      BY <3>1, <3>2, <3>3
  <2>2. QED
    BY <2>1, RunKept DEF TruthInv, RunsHonest
<1>3. HandlersHonest'
  <2>1. ASSUME NEW w \in Workers
        PROVE  job'[w] = job[w] \/ job'[w] = Idle
    BY ReconciliationAssumption
       DEF Initiate, Pay, Conclude, Tick, Restart, vars, ReconciliationAssumption
  <2>2. ASSUME NEW w \in Workers, job'[w] = Idle
        PROVE  HandlerHonest(w)'
    BY <2>2 DEF HandlerHonest, Idle
  <2>3. QED
    BY <2>1, <2>2, HandlerKept DEF TruthInv, HandlersHonest
<1>4. EndsHonest'
  <2>1. ASSUME NEW p \in Attempts
        PROVE  /\ row'[p].status = row[p].status \/ row'[p].status \in Open
               /\ row[p].status = "EXPIRED" /\ left[p] <= 0 => left'[p] <= 0
    <3>1. CASE Tick
      BY <3>1, Durations DEF Tick, IsOpen, Open
    <3>2. ASSUME NEW q \in Attempts, Initiate(q)
          PROVE  /\ row'[p].status = row[p].status \/ row'[p].status \in Open
                 /\ row[p].status = "EXPIRED" /\ left[p] <= 0 => left'[p] <= 0
      <4>1. CASE p = q
        BY <3>2, <4>1 DEF Initiate, TypeOK, Rows, Open
      <4>2. CASE p # q
        BY <3>2, <4>2 DEF Initiate, TypeOK
      <4>3. QED
        BY <4>1, <4>2
    <3>3. QED
      BY <3>1, <3>2 DEF Pay, Conclude, Restart, vars
  <2>2. QED
    BY <2>1, EndKept DEF TruthInv, EndsHonest
<1>5. QED
  BY <1>1, <1>2, <1>3, <1>4 DEF TruthInv

LEMMA TruthStart ==
  ASSUME TypeOK, TypeOK', TxGrows, TruthInv, NEW c \in Crons, StartRun(c)
  PROVE  TruthInv'
<1>1. UNCHANGED <<key, tx, row, due, left, holds, errors>>
  BY DEF StartRun
<1>2. PICK s \in SetToSeqs(Selected) :
        job' = [job EXCEPT ![c] =
          [at |-> "inspect", age |-> 0, outcome |-> None,
           queue |-> [i \in 1..Batch(Len(s)) |-> [p |-> s[i], read |-> row[s[i]]]]]]
  BY DEF StartRun
<1> DEFINE q == [i \in 1..Batch(Len(s)) |-> [p |-> s[i], read |-> row[s[i]]]]
<1>3. job'[c].at = "inspect" /\ job'[c].queue = q
  BY <1>2 DEF TypeOK
<1>4. Running(c)' /\ job'[c] \in Runs
  <2>1. Running(c)'
    BY <1>3 DEF Running, Idle
  <2>2. QED
    BY <2>1 DEF TypeOK, Running
<1>5. q \in Batches
  BY <1>3, <1>4 DEF Runs
<1>6. ASSUME NEW i \in 1..Len(q)
      PROVE  q[i].p \in Attempts /\ q[i].read = row[q[i].p]
  <2>1. i \in 1..Batch(Len(s))
    <3>1. q \in Seq(Queued)
      BY <1>5 DEF Batches
    <3> HIDE DEF q
    <3>2. DOMAIN q = 1..Len(q)
      BY <3>1, LenProperties
    <3>3. DOMAIN q = 1..Batch(Len(s))
      BY DEF q
    <3>4. QED
      BY <3>2, <3>3
  <2>2. q[i] = [p |-> s[i], read |-> row[s[i]]]
    BY <2>1
  <2>3. q[i] \in Queued
    <3> HIDE DEF q
    <3>1. QED
      BY <1>5, ElementOfSeq DEF Batches
  <2>4. QED
    BY <2>2, <2>3 DEF Queued
<1> HIDE DEF q
<1>7. PICK r : r = q
  OBVIOUS
<1>8. QueueHonest(r)
  BY <1>6, <1>7 DEF TruthInv, RowsHonest, QueueHonest
<1>9. QueueHonest(r)'
  BY <1>8, Stable
<1>10. RunHonest(c)'
  BY <1>3, <1>7, <1>9 DEF RunHonest, QueueHonest, Honest, Heard
<1>11. RunsHonest' /\ HandlersHonest'
  BY <1>2, <1>10, OthersKept, ReconciliationAssumption DEF ReconciliationAssumption
<1>12. RowsHonest' /\ EndsHonest'
  BY <1>1, RowsKept, EndsKept DEF TruthInv
<1>13. QED
  BY <1>11, <1>12 DEF TruthInv

\* One row takes an id and a notification of its own transactions.
LEMMA RowHears ==
  ASSUME TypeOK, TypeOK', TxGrows, TruthInv, NEW p \in Attempts, NEW t \in Known(p),
         NEW heard, Heard(p, heard), UNCHANGED tx,
         row' = [row EXCEPT ![p].txId = t, ![p].heard = heard]
  PROVE  RowsHonest' /\ \A q \in Attempts : row'[q].status = row[q].status
<1>1. row[p] \in Rows
  BY DEF TypeOK
<1>2. /\ row'[p].txId = t /\ row'[p].heard = heard /\ row'[p].status = row[p].status
      /\ \A q \in Attempts \ {p} : row'[q] = row[q]
  BY <1>1 DEF TypeOK, Rows
<1>3. Honest(p, row[p])'
  <2>1. Heard(p, heard)'
    BY Stable
  <2>2. t \in Known(p)'
    BY DEF Known
  <2>3. QED
    BY <1>2, <2>1, <2>2 DEF Honest, Heard
<1>4. ASSUME NEW q \in Attempts \ {p}
      PROVE  Honest(q, row[q])'
  <2>1. PICK r : r = row[q] /\ Honest(q, r)
    BY DEF TruthInv, RowsHonest
  <2>2. Honest(q, r)'
    BY <2>1, Stable
  <2>3. QED
    BY <1>2, <2>1, <2>2 DEF Honest, Heard
<1>5. QED
  BY <1>2, <1>3, <1>4 DEF RowsHonest

LEMMA TruthInspect ==
  ASSUME TypeOK, TypeOK', TxGrows, TruthInv, NEW c \in Crons, Inspect(c)
  PROVE  TruthInv'
<1>1. /\ Running(c) /\ job[c].at = "inspect" /\ UNCHANGED <<key, tx, due, left, holds, errors>>
      /\ job[c] \in Runs
  BY CronKinds DEF Inspect
<1>2. PICK q, p, read : q = job[c].queue /\ p = Head1(c).p /\ read = Head1(c).read
  OBVIOUS
<1>3. /\ q[1] = Head1(c) /\ q[1].p = p /\ p \in Attempts /\ read \in Rows
      /\ QueueHonest(q) /\ Honest(p, read)
  <2>1. Head1(c) = q[1] /\ p \in Attempts /\ read \in Rows
    BY <1>1, <1>2, HeadType
  <2>2. QueueHonest(q)
    BY <1>1, <1>2 DEF TruthInv, RunsHonest, RunHonest
  <2>3. q \in Batches
    BY <1>1, <1>2, CronKinds
  <2>4. Honest(p, read)
    BY <1>2, <2>1, <2>2, <2>3, QueueHead DEF QueueHonest
  <2>5. QED
    BY <1>2, <2>1, <2>2, <2>4
<1>4. PICK outcome \in Outcomes \cup {"pending"} :
        /\ job' = [job EXCEPT ![c].at = "settle", ![c].outcome = outcome]
        /\ outcome \in Outcomes => SettlesAs(p, outcome)
  <2>1. CASE read.txId # None
    <3>1. PICK answer \in Reading(read.txId) :
            job' = [job EXCEPT ![c].at = "settle", ![c].outcome = Outcome(answer)]
      BY <1>2, <2>1 DEF Inspect
    <3>2. read.txId \in Known(p) /\ answer \in {tx[read.txId], Unreachable, Forbidden}
      BY <1>3, <2>1, <3>1 DEF Honest, Reading
    <3>3. Outcome(answer) \in Outcomes => SettlesAs(p, Outcome(answer))
      BY <3>2, OutcomeProven
    <3>4. QED
      BY <3>1, <3>3, OutcomeType
  <2>2. CASE read.txId = None
    <3>1. PICK t \in Found(p) :
            job' = [job EXCEPT ![c].at = "settle",
                      ![c].outcome = IF t = None THEN "pending" ELSE Outcome(tx[t])]
      BY <1>2, <2>2 DEF Inspect
    <3>2. CASE t = None
      BY <3>1, <3>2 DEF Outcomes
    <3>3. CASE t # None
      <4>1. t \in Known(p)
        BY <3>1, <3>3 DEF Found
      <4>2. Outcome(tx[t]) \in Outcomes => SettlesAs(p, Outcome(tx[t]))
        BY <4>1, OutcomeProven
      <4>3. QED
        BY <3>1, <3>3, <4>2, OutcomeType
    <3>4. QED
      BY <3>2, <3>3
  <2>3. QED
    BY <2>1, <2>2
<1>5. /\ job' = [job EXCEPT ![c] = [job[c] EXCEPT !.at = "settle", !.outcome = outcome]]
      /\ job'[c].queue = q /\ job'[c].at = "settle" /\ job'[c].outcome = outcome
  BY <1>1, <1>2, <1>4 DEF TypeOK, Runs
<1>6. QueueHonest(q)' /\ (outcome \in Outcomes => SettlesAs(p, outcome)')
  BY <1>3, <1>4, Stable
<1>7. RunHonest(c)'
  <2>1. QueueHonest(job[c].queue)'
    BY <1>5, <1>6 DEF QueueHonest, Honest, Heard
  <2>2. outcome \in Outcomes => SettlesAs(job[c].queue[1].p, job[c].outcome)'
    BY <1>3, <1>5, <1>6 DEF SettlesAs
  <2>3. QED
    BY <1>5, <2>1, <2>2 DEF RunHonest
<1>8. RunsHonest' /\ HandlersHonest'
  BY <1>5, <1>7, OthersKept, ReconciliationAssumption DEF ReconciliationAssumption
<1>9. RowsHonest' /\ \A r \in Attempts : row'[r].status = row[r].status
  <2>1. CASE UNCHANGED row
    BY <2>1, RowsKept DEF TruthInv
  <2>2. ASSUME NEW t \in Found(p), t # None,
               row' = [row EXCEPT ![p].txId = t, ![p].heard = read.heard]
        PROVE  RowsHonest' /\ \A r \in Attempts : row'[r].status = row[r].status
    <3>1. t \in Known(p) /\ Heard(p, read.heard)
      BY <1>3, <2>2 DEF Found, Honest
    <3>2. QED
      BY <1>1, <1>3, <2>2, <3>1, RowHears
  <2>3. QED
    BY <1>2, <2>1, <2>2 DEF Inspect
<1>10. EndsHonest'
  BY <1>1, <1>9, EndsKept
<1>11. QED
  BY <1>8, <1>9, <1>10 DEF TruthInv

LEMMA TruthSettle ==
  ASSUME TypeOK, TypeOK', TxGrows, TruthInv, NEW c \in Crons,
         SettleRow(c) \/ SettleThrows(c) \/ RescheduleThrows(c)
  PROVE  TruthInv'
<1>1. /\ Running(c) /\ job[c].at = "settle" /\ job' = NextRow(c) /\ UNCHANGED <<key, tx, left, holds>>
      /\ job[c] \in Runs
  BY CronKinds DEF SettleRow, SettleThrows, RescheduleThrows
<1>2. PICK q, p : q = job[c].queue /\ p = Head1(c).p
  OBVIOUS
<1>3. q \in Batches /\ p \in Attempts /\ q[1].p = p
  BY <1>1, <1>2, CronKinds, HeadType
<1>4. QueueHonest(q) /\ QueueHonest(q)'
  BY <1>1, <1>2, Stable DEF TruthInv, RunsHonest, RunHonest
<1>5. RunsHonest' /\ HandlersHonest'
  <2>1. CASE Len(q) = 1
    <3>1. job' = [job EXCEPT ![c] = Idle]
      BY <1>1, <1>2, <2>1 DEF NextRow
    <3>2. RunHonest(c)'
      BY <3>1 DEF RunHonest, Running, TypeOK
    <3>3. QED
      BY <3>1, <3>2, OthersKept, ReconciliationAssumption DEF ReconciliationAssumption
  <2>2. CASE Len(q) # 1
    <3> DEFINE j == [job[c] EXCEPT !.at = "inspect", !.queue = Tail(@), !.outcome = None]
    <3>1. job' = [job EXCEPT ![c] = j]
      BY <1>1, <1>2, <2>2 DEF NextRow, TypeOK
    <3>2. j.at = "inspect" /\ j.queue = Tail(q)
      BY <1>1, <1>2 DEF Runs
    <3> HIDE DEF j
    <3>3. job'[c].at = "inspect" /\ job'[c].queue = Tail(q)
      BY <3>1, <3>2 DEF TypeOK
    <3>4. QueueHonest(Tail(q))
      BY <1>3, <1>4, QueueHead DEF QueueHonest
    <3>5. QueueHonest(Tail(q))'
      BY <3>4, Stable
    <3>6. RunHonest(c)'
      BY <3>3, <3>5 DEF RunHonest, QueueHonest, Honest, Heard
    <3>7. QED
      BY <3>1, <3>6, OthersKept, ReconciliationAssumption DEF ReconciliationAssumption
  <2>3. QED
    BY <2>1, <2>2
<1>6. CASE UNCHANGED row
  BY <1>1, <1>5, <1>6, RowsKept, EndsKept DEF TruthInv
<1>7. CASE SettleRow(c) /\ Verdict(c) # "pending"
  <2>1. Verdict(c) \in Outcomes /\ row' = Settled(p, Verdict(c))
    BY <1>1, <1>2, <1>7, CronKinds DEF SettleRow, Verdict, Outcomes
  <2>2. SettlesAs(p, Verdict(c)) \/ (Verdict(c) = "expired" /\ left[p] <= 0)
    <3>1. CASE job[c].outcome \in Outcomes
      BY <1>1, <1>2, <1>3, <3>1 DEF Verdict, TruthInv, RunsHonest, RunHonest, Outcomes
    <3>2. CASE job[c].outcome = "pending"
      <4>1. left[p] + job[c].age <= 0 /\ Verdict(c) = "expired"
        BY <1>2, <1>7, <3>2 DEF Verdict, GraceReached
      <4>2. job[c].age \in Nat /\ left[p] \in Int
        BY <1>1, <1>3, CronKinds, Durations DEF TypeOK
      <4>3. QED
        BY <4>1, <4>2
    <3>3. QED
      BY <1>1, <3>1, <3>2, CronKinds
  <2>3. EndsHonest'
    BY <1>1, <1>3, <2>1, <2>2, SettledHonest DEF TruthInv
  <2>4. \A r \in Attempts : row'[r].txId = row[r].txId /\ row'[r].heard = row[r].heard
    BY <1>3, <2>1 DEF Settled, TypeOK, Rows
  <2>5. QED
    BY <1>5, <2>3, <2>4, RowsKept DEF TruthInv
<1>8. QED
  BY <1>6, <1>7 DEF SettleRow, SettleThrows, RescheduleThrows

LEMMA TruthWebhook ==
  ASSUME TypeOK, TypeOK', TxGrows, TruthInv, NEW w \in Workers, NEW t \in Transactions,
         Webhook(w, t)
  PROVE  TruthInv'
<1>1. /\ tx[t] # None /\ UNCHANGED <<key, tx, due, left, holds, errors>>
      /\ t \in Known(TxOf[t]) /\ TxOf[t] \in Attempts
  BY ReconciliationAssumption DEF Webhook, Known, ReconciliationAssumption
<1>2. PICK word \in Words(t) :
        /\ row' = [row EXCEPT ![TxOf[t]].txId = t, ![TxOf[t]].heard = word]
        /\ job' = [job EXCEPT ![w] =
             CASE word.status = "pending"   -> Idle
               [] word.status = "succeeded" -> [at |-> "verify", kind |-> "webhook", t |-> t,
                                                heard |-> word]
               [] OTHER -> [at |-> "write", p |-> TxOf[t], outcome |-> word.status]]
  BY DEF Webhook
<1>3. Heard(TxOf[t], word)
  BY <1>1, <1>2 DEF Heard
<1>4. RowsHonest' /\ \A p \in Attempts : row'[p].status = row[p].status
  BY <1>1, <1>2, <1>3, RowHears
<1>5. word.status \in {"pending", tx[t].status} /\ tx[t].status \in {"pending", "succeeded", "failed", "expired"}
  <2>1. tx[t] \in Answers
    BY <1>1 DEF TypeOK
  <2>2. word.status \in {"pending", tx[t].status}
    BY <1>2, <2>1, WordsAre DEF Words
  <2>3. QED
    BY <2>1, <2>2 DEF Answers
<1>6. HandlerHonest(w)'
  <2>1. CASE word.status = "pending"
    <3>1. job'[w] = Idle
      BY <1>2, <2>1 DEF TypeOK
    <3>2. QED
      BY <3>1 DEF HandlerHonest, Idle
  <2>2. CASE word.status = "succeeded"
    <3>1. job'[w] = [at |-> "verify", kind |-> "webhook", t |-> t, heard |-> word]
      BY <1>2, <2>2 DEF TypeOK
    <3>2. Heard(TxOf[t], word)' /\ tx'[t] # None
      BY <1>1, <1>3, Stable
    <3>3. job'[w].at = "verify" /\ job'[w].t = t /\ job'[w].heard = word
      BY <3>1
    <3>4. QED
      BY <3>2, <3>3 DEF HandlerHonest, Heard
  <2>3. CASE word.status \in {"failed", "expired"}
    <3>1. job'[w] = [at |-> "write", p |-> TxOf[t], outcome |-> word.status]
      BY <1>2, <2>3 DEF TypeOK
    <3>2. SettlesAs(TxOf[t], word.status)
      BY <1>1, <1>5, <2>3 DEF SettlesAs
    <3>3. SettlesAs(TxOf[t], word.status)'
      BY <2>3, <3>2, Stable DEF Outcomes
    <3>4. job'[w].at = "write" /\ job'[w].p = TxOf[t] /\ job'[w].outcome = word.status
      BY <3>1
    <3>5. QED
      BY <3>3, <3>4 DEF HandlerHonest, SettlesAs
  <2>4. QED
    BY <1>5, <2>1, <2>2, <2>3
<1>7. RunsHonest' /\ HandlersHonest'
  BY <1>2, <1>6, OthersKept, ReconciliationAssumption DEF ReconciliationAssumption
<1>8. EndsHonest'
  BY <1>1, <1>4, EndsKept
<1>9. QED
  BY <1>4, <1>7, <1>8 DEF TruthInv

LEMMA TruthAsk ==
  ASSUME TypeOK, TypeOK', TxGrows, TruthInv, NEW w \in Workers, NEW p \in Attempts, Ask(w, p)
  PROVE  TruthInv'
<1>1. UNCHANGED <<key, tx, row, due, left, holds, errors>>
  BY DEF Ask
<1>2. PICK heard : heard = row[p].heard
  OBVIOUS
<1>3. PICK t \in IF row[p].txId # None THEN {row[p].txId} ELSE Found(p) \ {None} :
        job' = [job EXCEPT ![w] = [at |-> "verify", kind |-> "manual", t |-> t, heard |-> heard]]
  BY <1>2 DEF Ask
<1>4. t \in Known(p) /\ Heard(p, heard)
  BY <1>2, <1>3 DEF Found, TruthInv, RowsHonest, Honest
<1>5. tx'[t] # None /\ TxOf[t] = p /\ Heard(p, heard)'
  BY <1>1, <1>4, Stable DEF Known
<1>6. job'[w].at = "verify" /\ job'[w].t = t /\ job'[w].heard = heard
  <2>1. job'[w] = [at |-> "verify", kind |-> "manual", t |-> t, heard |-> heard]
    BY <1>3 DEF TypeOK
  <2>2. QED
    BY <2>1
<1>7. HandlerHonest(w)'
  BY <1>5, <1>6 DEF HandlerHonest, Heard
<1>8. RunsHonest' /\ HandlersHonest'
  BY <1>3, <1>7, OthersKept, ReconciliationAssumption DEF ReconciliationAssumption
<1>9. QED
  BY <1>1, <1>8, RowsKept, EndsKept DEF TruthInv

\* A confirmation rests on a success that was read or announced.
LEMMA VerifiedProven ==
  ASSUME TypeOK, TruthInv, NEW t \in Transactions, tx[t] # None, NEW heard, Heard(TxOf[t], heard),
         NEW answer \in Reading(t), Verified(answer, heard)
  PROVE  SettlesAs(TxOf[t], "paid")
<1>1. CASE answer = Forbidden /\ Announced(heard)
  <2>1. PICK u \in Known(TxOf[t]) : heard \in Words(u)
    BY <1>1 DEF Announced, Heard
  <2>2. tx[u] \in Answers
    BY DEF Known, TypeOK
  <2>3. heard.good = tx[u].good /\ heard.status \in {"pending", tx[u].status}
    BY <2>1, <2>2, WordsAre DEF Words
  <2>4. QED
    BY <1>1, <2>3 DEF Announced, SettlesAs
<1>2. CASE answer.status = "succeeded" /\ answer.good
  <2>1. answer = tx[t]
    BY <1>2 DEF Reading, Unreachable, Forbidden
  <2>2. QED
    BY <1>2, <2>1 DEF SettlesAs, Known
<1>3. QED
  BY <1>1, <1>2 DEF Verified

LEMMA TruthVerify ==
  ASSUME TypeOK, TypeOK', TxGrows, TruthInv, NEW w \in Workers, Verify(w)
  PROVE  TruthInv'
<1>1. job[w].at = "verify" /\ UNCHANGED <<key, tx, row, due, left, errors>>
  BY DEF Verify
<1>2. PICK t, p, heard : t = job[w].t /\ p = TxOf[t] /\ heard = job[w].heard
  OBVIOUS
<1>3. t \in Transactions /\ tx[t] # None /\ Heard(p, heard)
  BY <1>1, <1>2, WorkerKinds DEF TruthInv, HandlersHonest, HandlerHonest
<1> DEFINE open == IsOpen(p)
<1>4. PICK answer \in Reading(t), hold \in BOOLEAN :
        job' = [job EXCEPT ![w] =
          CASE Verified(answer, heard) -> [at |-> "write", p |-> p, outcome |-> "paid"]
            [] hold  -> [at |-> "hold", p |-> p, open |-> open]
            [] OTHER -> Idle]
        /\ (hold => ~ Verified(answer, heard))
  BY <1>2 DEF Verify
<1>5. HandlerHonest(w)'
  <2>1. CASE Verified(answer, heard)
    <3>1. job'[w] = [at |-> "write", p |-> p, outcome |-> "paid"]
      BY <1>4, <2>1 DEF TypeOK
    <3>2. SettlesAs(p, "paid")
      BY <1>2, <1>3, <2>1, VerifiedProven
    <3>3. SettlesAs(p, "paid")'
      BY <3>2, Stable DEF Outcomes
    <3>4. job'[w].at = "write" /\ job'[w].p = p /\ job'[w].outcome = "paid"
      BY <3>1
    <3>5. QED
      BY <3>3, <3>4 DEF HandlerHonest, SettlesAs
  <2>2. CASE ~ Verified(answer, heard)
    <3>1. job'[w] \in {Idle, [at |-> "hold", p |-> p, open |-> open]}
      BY <1>4, <2>2 DEF TypeOK
    <3>2. job'[w].at \in {"idle", "hold"}
      BY <3>1 DEF Idle
    <3>3. QED
      BY <3>2 DEF HandlerHonest
  <2>3. QED
    BY <2>1, <2>2
<1>6. RunsHonest' /\ HandlersHonest'
  BY <1>4, <1>5, OthersKept, ReconciliationAssumption DEF ReconciliationAssumption
<1>7. QED
  BY <1>1, <1>6, RowsKept, EndsKept DEF TruthInv

LEMMA TruthWrite ==
  ASSUME TypeOK, TypeOK', TxGrows, TruthInv, NEW w \in Workers,
         Write(w) \/ Hold(w) \/ WriteThrows(w)
  PROVE  TruthInv'
<1>1. job' = [job EXCEPT ![w] = Idle] /\ UNCHANGED <<key, tx, left>>
  BY DEF Write, Hold, WriteThrows
<1>2. HandlerHonest(w)'
  BY <1>1 DEF HandlerHonest, Idle, TypeOK
<1>3. RunsHonest' /\ HandlersHonest'
  BY <1>1, <1>2, OthersKept, ReconciliationAssumption DEF ReconciliationAssumption
<1>4. CASE Write(w)
  <2>1. /\ job[w].p \in Attempts /\ job[w].outcome \in Outcomes
        /\ SettlesAs(job[w].p, job[w].outcome) /\ row' = Settled(job[w].p, job[w].outcome)
    BY <1>4, WorkerKinds DEF Write, TruthInv, HandlersHonest, HandlerHonest
  <2>2. EndsHonest'
    BY <1>1, <2>1, SettledHonest DEF TruthInv
  <2>3. \A r \in Attempts : row'[r].txId = row[r].txId /\ row'[r].heard = row[r].heard
    BY <2>1 DEF Settled, TypeOK, Rows
  <2>4. QED
    BY <1>3, <2>2, <2>3, RowsKept DEF TruthInv
<1>5. CASE Hold(w)
  <2>1. job[w].p \in Attempts
    BY <1>5, WorkerKinds DEF Hold
  <2>2. \A r \in Attempts : /\ row'[r].txId = row[r].txId /\ row'[r].heard = row[r].heard
                            /\ row'[r].status = row[r].status \/ row'[r].status \in Open
    BY <1>5, <2>1 DEF Hold, TypeOK, Rows, Open
  <2>3. QED
    BY <1>1, <1>3, <2>2, RowsKept, EndsKept DEF TruthInv
<1>6. CASE WriteThrows(w)
  BY <1>1, <1>3, <1>6, RowsKept, EndsKept DEF WriteThrows, TruthInv
<1>7. QED
  BY <1>4, <1>5, <1>6

LEMMA TruthNext == TypeOK /\ TruthInv /\ [Next]_vars => TruthInv'
<1> SUFFICES ASSUME TypeOK, TruthInv, [Next]_vars
             PROVE  TruthInv'
  OBVIOUS
<1>1. TypeOK' /\ TxGrows
  BY NextType, NextGrows
<1>2. QED
  BY <1>1, TruthEnvironment, TruthStart, TruthInspect, TruthSettle, TruthWebhook, TruthAsk,
     TruthVerify, TruthWrite DEF Next, Run, Handle

LEMMA TruthHolds == Spec => [](TypeOK /\ TruthInv)
<1>1. Init => TypeOK /\ TruthInv
  BY InitType, TruthInit
<1>2. TypeOK /\ TruthInv /\ [Next]_vars => (TypeOK /\ TruthInv)'
  BY NextType, TruthNext
<1>3. QED
  BY <1>1, <1>2, PTL DEF Spec

\* An attempt is PAID only when one of its transactions succeeded for enough
\* money, whichever handler confirmed it, from whatever it had read or been told.
THEOREM PaidEarned == Spec => []PaidIsEarned
<1>1. TypeOK /\ TruthInv => PaidIsEarned
  BY DEF TruthInv, EndsHonest, EndHonest, SettlesAs, PaidIsEarned
<1>2. QED
  BY <1>1, TruthHolds, PTL

\* An attempt is closed because the provider closed one of its transactions, or
\* because the grace period is over, however late a run of the cron settles it.
THEOREM ClosedRightly == Spec => []ClosedForAReason
<1>1. TypeOK /\ TruthInv => ClosedForAReason
  BY DEF TruthInv, EndsHonest, EndHonest, SettlesAs, ClosedForAReason
<1>2. QED
  BY <1>1, TruthHolds, PTL
=============================================================================
