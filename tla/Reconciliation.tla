--------------------------- MODULE Reconciliation ---------------------------
(***************************************************************************)
(* How Bictorys attempts are settled: the cron takes the attempts that are *)
(* due, asks the provider about each and settles or reschedules it, while  *)
(* webhooks and manual checks write to the same rows. What an attempt's    *)
(* end does to its order is the subject of OrderPayments; here one order   *)
(* has one attempt, which may have several transactions (the customer      *)
(* tries again on the provider's page).                                    *)
(***************************************************************************)
EXTENDS Integers, FiniteSets, Sequences, SequencesExt

CONSTANTS
  Attempts,      \* payment rows
  Transactions,  \* ids the provider gives
  TxOf,          \* TxOf[t]: the attempt it pays
  Crons,         \* bound: runs of the cron at once (nothing prevents overlaps)
  Workers,       \* bound: other handlers at once
  Take,          \* rows a run takes (50)
  Lifetime, Grace, Retry, \* durations, in ticks of the clock
  MaxAge,        \* bound: ticks a run of the cron lasts
  MaxWait,       \* bound: ticks an attempt is remembered to be overdue
  Unsettleable,  \* attempts whose settlement throws every time
  Keys,          \* bound: API keys that may, may not read transactions
  MaxHolds,      \* bound: confirmations held, each of which puts an attempt off
  MaxErrors,     \* bound: other database errors and restarts
  None

Answers == [status: {"pending", "succeeded", "failed", "expired"}, good: BOOLEAN]

ASSUME ReconciliationAssumption ==
  /\ IsFiniteSet(Attempts)
  /\ TxOf \in [Transactions -> Attempts] /\ Unsettleable \subseteq Attempts
  /\ Crons \cap Workers = {} /\ Keys \subseteq {"reads", "forbidden"}
  /\ {Take, Lifetime, Grace, Retry} \subseteq Nat \ {0}
  /\ {MaxAge, MaxWait, MaxHolds, MaxErrors} \subseteq Nat
  /\ None \notin Attempts \cup Transactions \cup Answers

VARIABLES
  key,      \* what the configured API key may do
  tx,       \* tx[t]: the provider's transaction, its truth
  row,      \* row[p]: status, transactionId and the last notification kept
  due,      \* due[p]: ticks until nextReconciliationAt, negative once past
  left,     \* left[p]: ticks until the end of the grace period
  job,      \* job[w]: the handler in progress
  holds, errors

vars == <<key, tx, row, due, left, job, holds, errors>>

Open == {"PENDING", "PROCESSING"}
NoRow == [status |-> "none", txId |-> None, heard |-> None]
Idle == [at |-> "idle"]

Init == /\ key \in Keys
        /\ tx = [t \in Transactions |-> None]
        /\ row = [p \in Attempts |-> NoRow]
        /\ due = [p \in Attempts |-> 0]
        /\ left = [p \in Attempts |-> 0]
        /\ job = [w \in Crons \cup Workers |-> Idle]
        /\ holds = 0 /\ errors = 0

-----------------------------------------------------------------------------
(* The client, the provider, the clock.                                     *)

IsOpen(p) == row[p].status \in Open

\* initiatePayment: the first reconciliation is due when the attempt expires.
Initiate(p) ==
  /\ row[p].status = "none"
  /\ row' = [row EXCEPT ![p].status = "PENDING"]
  /\ due' = [due EXCEPT ![p] = Lifetime]
  /\ left' = [left EXCEPT ![p] = Lifetime + Grace]
  /\ UNCHANGED <<key, tx, job, holds, errors>>

\* "good": the amount covers the order's total, in its currency.
Pay(t) ==
  /\ tx[t] = None /\ row[TxOf[t]].status # "none"
  /\ \E good \in BOOLEAN : tx' = [tx EXCEPT ![t] = [status |-> "pending", good |-> good]]
  /\ UNCHANGED <<key, row, due, left, job, holds, errors>>

Conclude(t) ==
  /\ tx[t] # None /\ tx[t].status = "pending"
  /\ \E s \in {"succeeded", "failed", "expired"} : tx' = [tx EXCEPT ![t].status = s]
  /\ UNCHANGED <<key, row, due, left, job, holds, errors>>

\* Attempts the query selects: due, or past expiresAt whatever is scheduled.
Selected == {p \in Attempts : IsOpen(p) /\ (due[p] <= 0 \/ left[p] <= Grace)}

\* A run of the cron lasts MaxAge ticks at most.
Running(c) == job[c] # Idle

Later(x, least) == IF x - 1 < least THEN least ELSE x - 1

\* The cron is triggered every minute, which is more than once a tick.
Tick ==
  /\ Selected # {} => \E c \in Crons : Running(c)
  /\ \A c \in Crons : Running(c) => job[c].age < MaxAge
  /\ due' = [p \in Attempts |-> IF IsOpen(p) THEN Later(due[p], -MaxWait) ELSE due[p]]
  /\ left' = [p \in Attempts |-> IF IsOpen(p) THEN Later(left[p], -MaxAge) ELSE left[p]]
  /\ job' = [w \in Crons \cup Workers |->
               IF w \in Crons /\ Running(w) THEN [job[w] EXCEPT !.age = @ + 1] ELSE job[w]]
  /\ UNCHANGED <<key, tx, row, holds, errors>>

-----------------------------------------------------------------------------
(* Reading a transaction at the provider, and deciding.                     *)

Unreachable == [status |-> "unreachable", good |-> FALSE]
Forbidden == [status |-> "forbidden", good |-> FALSE]

\* The answers to getTransaction: the transaction, or an error.
Reading(t) == {Unreachable, IF key = "reads" THEN tx[t] ELSE Forbidden}

Known(p) == {t \in Transactions : TxOf[t] = p /\ tx[t] # None}

\* findTransactionByReference: one of the order's transactions; every error is
\* caught and means that there is none.
Found(p) == {None} \cup IF key = "reads" THEN Known(p) ELSE {}

Announced(heard) == heard # None /\ heard.status = "succeeded" /\ heard.good

\* Mutant: only the amount of the notification is compared.
VerifiedIfAnnounced(answer, heard) ==
  \/ answer = Forbidden /\ Announced(heard)
  \/ answer.status = "succeeded" /\ (heard # None => heard.good)

\* verifyBictorysTransaction: the transaction read at the provider, or, when the
\* key may not read it, the notification; every amount known must be enough.
Verified(answer, heard) ==
  \/ answer = Forbidden /\ Announced(heard)
  \/ answer.status = "succeeded" /\ answer.good /\ (heard # None => heard.good)

\* inspectBictorysPayment, from the transaction it has read.
Outcome(answer) ==
  CASE answer.status \in {"failed", "expired"} -> answer.status
    [] answer.status = "succeeded" /\ Verified(answer, None) -> "paid"
    [] OTHER -> "pending"

-----------------------------------------------------------------------------
(* The writes that settle an attempt.                                       *)

\* confirmPayment, markPaymentFailed, markPaymentExpired: the statuses each
\* finds acceptable when its updateMany runs.
From(outcome) == IF outcome = "expired" THEN Open ELSE {"PENDING", "PROCESSING", "EXPIRED", "FAILED"}
Final(outcome) == CASE outcome = "paid"    -> "PAID"
                    [] outcome = "failed"  -> "FAILED"
                    [] outcome = "expired" -> "EXPIRED"

Settled(p, outcome) ==
  IF row[p].status \in From(outcome) THEN [row EXCEPT ![p].status = Final(outcome)] ELSE row

\* min(now + Retry, graceDeadline), seen from the time now - age of the run.
NextDue(p, age) == IF Retry - age < left[p] THEN Retry - age ELSE left[p]

\* scheduleNextReconciliation writes to open rows only.
Rescheduled(p, at) == IF IsOpen(p) THEN [due EXCEPT ![p] = at] ELSE due

-----------------------------------------------------------------------------
(* The cron: expireAbandonedPayments and reconcilePayment.                  *)

\* Mutant: the rows come back in any order.
AnyOrder(s) == TRUE

\* The rows as read, oldest nextReconciliationAt first, equal dates in any order.
InOrder(s) == \A i \in 1..Len(s) - 1 : due[s[i]] <= due[s[i + 1]]

Batch(n) == IF n < Take THEN n ELSE Take

StartRun(c) ==
  /\ job[c] = Idle /\ Selected # {}
  /\ \E s \in SetToSeqs(Selected) :
       /\ InOrder(s)
       /\ job' = [job EXCEPT ![c] =
            [at |-> "inspect", age |-> 0, outcome |-> None,
             queue |-> [i \in 1..Batch(Len(s)) |-> [p |-> s[i], read |-> row[s[i]]]]]]
  /\ UNCHANGED <<key, tx, row, due, left, holds, errors>>

Head1(c) == Head(job[c].queue)

\* Mutant: the loop does not see the end of the batch.
PastTheEnd(c) == [job EXCEPT ![c].at = "inspect", ![c].queue = Tail(@), ![c].outcome = None]

NextRow(c) ==
  IF Len(job[c].queue) = 1 THEN [job EXCEPT ![c] = Idle]
  ELSE [job EXCEPT ![c].at = "inspect", ![c].queue = Tail(@), ![c].outcome = None]

\* The transaction is read by the id the row had, or searched for and recorded
\* over what the row has become since.
Inspect(c) ==
  /\ Running(c) /\ job[c].at = "inspect"
  /\ LET p == Head1(c).p
         read == Head1(c).read
     IN IF read.txId # None
        THEN /\ \E answer \in Reading(read.txId) :
                  job' = [job EXCEPT ![c].at = "settle", ![c].outcome = Outcome(answer)]
             /\ UNCHANGED row
        ELSE \E t \in Found(p) :
               /\ job' = [job EXCEPT ![c].at = "settle",
                            ![c].outcome = IF t = None THEN "pending" ELSE Outcome(tx[t])]
               /\ row' = IF t = None THEN row
                         ELSE [row EXCEPT ![p].txId = t, ![p].heard = read.heard]
  /\ UNCHANGED <<key, tx, due, left, holds, errors>>

\* Mutant: an attempt is given up as soon as it has expired.
PastExpiry(c) == left[Head1(c).p] + job[c].age <= Grace

GraceReached(c) == left[Head1(c).p] + job[c].age <= 0

Verdict(c) == IF job[c].outcome = "pending" /\ GraceReached(c) THEN "expired" ELSE job[c].outcome

SettleRow(c) ==
  /\ Running(c) /\ job[c].at = "settle"
  /\ LET p == Head1(c).p
     IN IF Verdict(c) = "pending"
        THEN /\ due' = Rescheduled(p, NextDue(p, job[c].age))
             /\ UNCHANGED row
        ELSE /\ p \notin Unsettleable
             /\ row' = Settled(p, Verdict(c))
             /\ UNCHANGED due
  /\ job' = NextRow(c)
  /\ UNCHANGED <<key, tx, left, holds, errors>>

Error == errors < MaxErrors /\ errors' = errors + 1

\* Mutant: the attempt that threw keeps its place.
KeepsPlace(c) == due

AfterError(c) == Rescheduled(Head1(c).p, Retry - job[c].age)

\* The settlement throws: the attempt is rescheduled and the run goes on.
SettleThrows(c) ==
  /\ Running(c) /\ job[c].at = "settle"
  /\ IF Head1(c).p \in Unsettleable /\ Verdict(c) # "pending" THEN UNCHANGED errors ELSE Error
  /\ due' = AfterError(c)
  /\ job' = NextRow(c)
  /\ UNCHANGED <<key, tx, row, left, holds>>

\* ... unless that throws too.
RescheduleThrows(c) ==
  /\ Running(c) /\ job[c].at = "settle"
  /\ Error
  /\ job' = NextRow(c)
  /\ UNCHANGED <<key, tx, row, due, left, holds>>

-----------------------------------------------------------------------------
(* Webhooks and manual checks.                                              *)

\* Notifications of t still under way may say that it was pending.
Words(t) == {[tx[t] EXCEPT !.status = s] : s \in {"pending", tx[t].status}}

\* handleBictorysWebhook: the notification is kept, then acted on.
Webhook(w, t) ==
  /\ job[w] = Idle /\ tx[t] # None
  /\ \E word \in Words(t) :
       /\ row' = [row EXCEPT ![TxOf[t]].txId = t, ![TxOf[t]].heard = word]
       /\ job' = [job EXCEPT ![w] =
            CASE word.status = "pending"   -> Idle
              [] word.status = "succeeded" -> [at |-> "verify", kind |-> "webhook", t |-> t, heard |-> word]
              [] OTHER                     -> [at |-> "write", p |-> TxOf[t], outcome |-> word.status]]
  /\ UNCHANGED <<key, tx, due, left, holds, errors>>

\* verifyBictorysPayment: with the row's transaction, or one it searches for.
Ask(w, p) ==
  /\ job[w] = Idle /\ row[p].status \notin {"none", "PAID"}
  /\ \E t \in IF row[p].txId # None THEN {row[p].txId} ELSE Found(p) \ {None} :
       job' = [job EXCEPT ![w] = [at |-> "verify", kind |-> "manual", t |-> t, heard |-> row[p].heard]]
  /\ UNCHANGED <<key, tx, row, due, left, holds, errors>>

\* A confirmation that is refused keeps the row as holdBictorysPayment reads it.
Verify(w) ==
  /\ job[w].at = "verify"
  /\ LET p == TxOf[job[w].t]
     IN \E answer \in Reading(job[w].t) :
          LET ok == Verified(answer, job[w].heard)
              hold == ~ok /\ job[w].kind = "webhook" /\ row[p].status # "PAID"
          IN /\ holds' = IF hold THEN holds + 1 ELSE holds
             /\ holds' <= MaxHolds
             /\ job' = [job EXCEPT ![w] =
                  CASE ok    -> [at |-> "write", p |-> p, outcome |-> "paid"]
                    [] hold  -> [at |-> "hold", p |-> p, open |-> IsOpen(p)]
                    [] OTHER -> Idle]
  /\ UNCHANGED <<key, tx, row, due, left, errors>>

Write(w) ==
  /\ job[w].at = "write"
  /\ job[w].p \notin Unsettleable
  /\ row' = Settled(job[w].p, job[w].outcome)
  /\ job' = [job EXCEPT ![w] = Idle]
  /\ UNCHANGED <<key, tx, due, left, holds, errors>>

\* holdBictorysPayment updates by id what it read before.
Hold(w) ==
  /\ job[w].at = "hold"
  /\ IF job[w].open
     THEN /\ row' = [row EXCEPT ![job[w].p].status = "PROCESSING"]
          /\ due' = [due EXCEPT ![job[w].p] = Retry]
     ELSE UNCHANGED <<row, due>>
  /\ job' = [job EXCEPT ![w] = Idle]
  /\ UNCHANGED <<key, tx, left, holds, errors>>

WriteThrows(w) ==
  /\ job[w].at = "write"
  /\ IF job[w].p \in Unsettleable THEN UNCHANGED errors ELSE Error
  /\ job' = [job EXCEPT ![w] = Idle]
  /\ UNCHANGED <<key, tx, row, due, left, holds>>

Restart ==
  /\ Error
  /\ job' = [w \in Crons \cup Workers |-> Idle]
  /\ UNCHANGED <<key, tx, row, due, left, holds>>

-----------------------------------------------------------------------------
Run(c) == Inspect(c) \/ SettleRow(c) \/ SettleThrows(c)
Handle(w) == Verify(w) \/ Write(w) \/ Hold(w) \/ WriteThrows(w)

Next ==
  \/ \E p \in Attempts : Initiate(p)
  \/ \E t \in Transactions : Pay(t) \/ Conclude(t)
  \/ Tick
  \/ \E c \in Crons : StartRun(c) \/ Run(c) \/ RescheduleThrows(c)
  \/ \E w \in Workers : \/ \E t \in Transactions : Webhook(w, t)
                        \/ \E p \in Attempts : Ask(w, p)
                        \/ Handle(w)
  \/ Restart

\* Time passes, between the runs of the cron too; the cron is triggered and its
\* runs go on.
Fairness == /\ SF_vars(Tick)
            /\ \A c \in Crons : WF_vars(StartRun(c)) /\ WF_vars(Run(c))

Spec == Init /\ [][Next]_vars /\ Fairness

-----------------------------------------------------------------------------
Statuses == {"none", "PENDING", "PROCESSING", "PAID", "FAILED", "EXPIRED"}
Rows == [status: Statuses, txId: Transactions \cup {None}, heard: Answers \cup {None}]
Queued == [p: Attempts, read: Rows]
Outcomes == {"paid", "failed", "expired"}
Batches == Seq(Queued) \ {<<>>}
Runs == [at: {"inspect"}, age: 0..MaxAge, outcome: {None}, queue: Batches] \cup
        [at: {"settle"}, age: 0..MaxAge, outcome: Outcomes \cup {"pending"}, queue: Batches]
Handlings == [at: {"verify"}, kind: {"webhook", "manual"}, t: Transactions,
              heard: Answers \cup {None}] \cup
             [at: {"write"}, p: Attempts, outcome: Outcomes] \cup
             [at: {"hold"}, p: Attempts, open: BOOLEAN]

\* Every variable has the shape the rest of the module relies on.
TypeOK ==
  /\ key \in Keys
  /\ tx \in [Transactions -> Answers \cup {None}]
  /\ row \in [Attempts -> Rows]
  /\ due \in [Attempts -> -(MaxWait + MaxAge)..(Lifetime + Retry)]
  /\ left \in [Attempts -> -MaxAge..(Lifetime + Grace)]
  /\ job \in [Crons \cup Workers -> {Idle} \cup Runs \cup Handlings]
  /\ \A c \in Crons : job[c] \in {Idle} \cup Runs
  /\ \A w \in Workers : job[w] \in {Idle} \cup Handlings
  /\ holds \in 0..MaxHolds /\ errors \in 0..MaxErrors

\* An attempt is PAID only when one of its transactions succeeded for enough
\* money, whichever handler confirmed it, with whatever it had read or been told
\* before other handlers wrote to the row.
PaidIsEarned ==
  \A p \in Attempts : row[p].status = "PAID" =>
    \E t \in Known(p) : tx[t].status = "succeeded" /\ tx[t].good

\* An attempt is closed because the provider closed one of its transactions, or
\* because the grace period is over.
ClosedForAReason ==
  \A p \in Attempts :
    /\ row[p].status = "FAILED" => \E t \in Known(p) : tx[t].status = "failed"
    /\ row[p].status = "EXPIRED" => \/ \E t \in Known(p) : tx[t].status = "expired"
                                    \/ left[p] <= 0

\* Every attempt is settled, although a run takes only the first rows and
\* attempts that can never be settled come back for ever. (A hold may open it
\* again later.)
AttemptsGetTheirTurn ==
  \A p \in Attempts \ Unsettleable : row[p].status \in Open ~> row[p].status \notin Open
=============================================================================
