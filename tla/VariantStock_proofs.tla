-------------------------- MODULE VariantStock_proofs --------------------------
(***************************************************************************)
(* Theorems of VariantStock for every set of variants and workers: types    *)
(* and the ledger, that a request run alone repairs the product's row, and  *)
(* that a product is oversold by the requests that overlapped and no more.  *)
(***************************************************************************)
EXTENDS VariantStock, Sums, TLAPS

-----------------------------------------------------------------------------
(* The sums of the module are those of Sums.                                *)

LEMMA SumTyped ==
  ASSUME NEW S, IsFiniteSet(S), NEW f, \A x \in S : f[x] \in Int
  PROVE  Sum(f, S) \in Int
BY SumInt DEF Sum, SumFunctionOnSet

LEMMA SumSame ==
  ASSUME NEW S, IsFiniteSet(S), NEW f, NEW g, \A x \in S : f[x] = g[x]
  PROVE  Sum(f, S) = Sum(g, S)
BY SumAgree DEF Sum, SumFunctionOnSet

-----------------------------------------------------------------------------
(* The inductive invariant.                                                 *)

\* A row that a transaction has written is its own until the commit, and the
\* movements it recorded are what it changed; a delivery that has read a
\* variant finds the quantity it read, or the variant is disputed.
JobSound(w) ==
  Busy(w) =>
    /\ job[w].at = "insert" => job[w].op = "order"
    /\ job[w].order # {} => job[w].op \in OrderMoves
    /\ \A v \in Variants :
         /\ v \notin job[w].locks => job[w].noted[v] = 0
         /\ v \in job[w].locks =>
              /\ variant[v] # "none"
              /\ v \in disputed \/ job[w].value[v] = quantity[v] + job[w].noted[v]
    /\ job[w].at = "set" =>
         /\ job[w].locks = {} /\ \A s \in job[w].todo : job[w].lines[s] > 0
         /\ \A v \in Variants :
              job[w].lines[v] > 0 => /\ variant[v] # "none"
                                     /\ v \in disputed \/ job[w].base = quantity[v]

LocksExclusive ==
  \A w, x \in Workers : (w # x /\ Busy(w) /\ Busy(x)) => job[w].locks \cap job[x].locks = {}

StockInv == TypeOK /\ LedgerAccounts /\ LocksExclusive /\ \A w \in Workers : JobSound(w)

-----------------------------------------------------------------------------
(* Jobs.                                                                    *)

LEMMA BusyJob ==
  ASSUME TypeOK, NEW w \in Workers
  PROVE  /\ Busy(w) => job[w] \in Jobs
         /\ ~Busy(w) => job[w] = Idle
         /\ \A j \in Jobs : j # Idle
BY DEF TypeOK, Busy, Jobs, Idle, HandlerKinds

LEMMA JobParts ==
  ASSUME NEW j \in Jobs
  PROVE  /\ j.op \in HandlerKinds /\ j.at \in JobStates /\ j.lines \in [Shelves -> Nat]
         /\ j.todo \subseteq Shelves /\ j.locks \subseteq Shelves
         /\ j.value \in [Shelves -> Int] /\ j.noted \in [Shelves -> Int]
         /\ j.refs \subseteq Shelves /\ j.order \subseteq Orders
         /\ j.amount \in Nat /\ j.base \in Int /\ j.total \in Int /\ j.overlap \in Nat
BY DEF Jobs

\* Any part of a job may change within its type.
LEMMA JobChanged ==
  ASSUME NEW j \in Jobs
  PROVE  /\ \A at \in JobStates : [j EXCEPT !.at = at] \in Jobs
         /\ \A todo \in SUBSET Shelves : [j EXCEPT !.todo = todo] \in Jobs
         /\ \A locks \in SUBSET Shelves : [j EXCEPT !.locks = locks] \in Jobs
         /\ \A value \in [Shelves -> Int] : [j EXCEPT !.value = value] \in Jobs
         /\ \A noted \in [Shelves -> Int] : [j EXCEPT !.noted = noted] \in Jobs
BY DEF Jobs

-----------------------------------------------------------------------------
(* What a step leaves to the others.                                        *)

\* The part of a job that the invariant is about.
KeepsJob(x) ==
  /\ Busy(x)' <=> Busy(x)
  /\ Busy(x) => /\ job'[x].op = job[x].op /\ job'[x].at = job[x].at
                /\ job'[x].lines = job[x].lines /\ job'[x].todo = job[x].todo
                /\ job'[x].locks = job[x].locks /\ job'[x].value = job[x].value
                /\ job'[x].noted = job[x].noted /\ job'[x].order = job[x].order
                /\ job'[x].base = job[x].base

Others(w) == \A x \in Workers \ {w} : KeepsJob(x)

\* A row that changes is not one x has written; if x has read it, it is disputed.
RowsFit(x) ==
  \A v \in Variants :
    /\ variant[v] # "none" => variant'[v] # "none"
    /\ v \in disputed => v \in disputed'
    /\ (Busy(x) /\ variant[v] # "none" /\ quantity'[v] # quantity[v]) =>
         /\ v \notin job[x].locks
         /\ (job[x].at = "set" /\ job[x].lines[v] > 0) => v \in disputed'

LocksGranted(w) ==
  Busy(w)' => \A s \in job'[w].locks : (Busy(w) /\ s \in job[w].locks) \/ Free(w, s)

LEMMA SameKept == ASSUME NEW x, job'[x] = job[x] PROVE KeepsJob(x)
  BY DEF KeepsJob, Busy

LEMMA RowsSame ==
  ASSUME UNCHANGED <<variant, quantity, disputed>>, NEW x PROVE RowsFit(x)
BY DEF RowsFit

LEMMA KeptSound ==
  ASSUME StockInv, NEW x \in Workers, KeepsJob(x), RowsFit(x)
  PROVE  JobSound(x)'
<1> SUFFICES ASSUME Busy(x)' PROVE JobSound(x)'
  BY DEF JobSound
<1>1. JobSound(x) /\ Busy(x)
  BY DEF StockInv, KeepsJob
<1>2. /\ job'[x].op = job[x].op /\ job'[x].at = job[x].at
      /\ job'[x].lines = job[x].lines /\ job'[x].todo = job[x].todo
      /\ job'[x].locks = job[x].locks /\ job'[x].value = job[x].value
      /\ job'[x].noted = job[x].noted /\ job'[x].order = job[x].order
      /\ job'[x].base = job[x].base
  BY <1>1 DEF KeepsJob
<1>3. /\ job'[x].at = "insert" => job'[x].op = "order"
      /\ job'[x].order # {} => job'[x].op \in OrderMoves
  BY <1>1, <1>2 DEF JobSound
<1>4. ASSUME NEW v \in Variants
      PROVE  /\ v \notin job'[x].locks => job'[x].noted[v] = 0
             /\ v \in job'[x].locks =>
                  /\ variant'[v] # "none"
                  /\ v \in disputed' \/ job'[x].value[v] = quantity'[v] + job'[x].noted[v]
  BY <1>1, <1>2 DEF JobSound, RowsFit
<1>5. job'[x].at = "set" =>
        /\ job'[x].locks = {} /\ \A s \in job'[x].todo : job'[x].lines[s] > 0
        /\ \A v \in Variants :
             job'[x].lines[v] > 0 => /\ variant'[v] # "none"
                                     /\ v \in disputed' \/ job'[x].base = quantity'[v]
  BY <1>1, <1>2 DEF JobSound, RowsFit
<1>6. QED
  BY <1>3, <1>4, <1>5 DEF JobSound

LEMMA LocksKept ==
  ASSUME StockInv, NEW w \in Workers, Others(w), LocksGranted(w)
  PROVE  LocksExclusive'
<1> SUFFICES ASSUME NEW x \in Workers, NEW y \in Workers, x # y, Busy(x)', Busy(y)'
             PROVE  job'[x].locks \cap job'[y].locks = {}
  BY DEF LocksExclusive
<1>1. ASSUME NEW z \in Workers \ {w}, Busy(z)', Busy(w)'
      PROVE  job'[w].locks \cap job'[z].locks = {}
  <2>1. Busy(z) /\ job'[z].locks = job[z].locks
    BY <1>1 DEF Others, KeepsJob
  <2>2. Busy(w) => job[w].locks \cap job[z].locks = {}
    BY <2>1 DEF StockInv, LocksExclusive
  <2>3. \A s \in job'[w].locks : (Busy(w) /\ s \in job[w].locks) \/ s \notin job[z].locks
    BY <1>1, <2>1 DEF LocksGranted, Free
  <2>4. QED
    BY <2>1, <2>2, <2>3
<1>2. CASE x # w /\ y # w
  BY <1>2 DEF Others, KeepsJob, StockInv, LocksExclusive
<1>3. QED
  BY <1>1, <1>2

LEMMA OneSteps ==
  ASSUME StockInv, TypeOK', LedgerAccounts', NEW w \in Workers, Others(w), LocksGranted(w),
         \A x \in Workers \ {w} : RowsFit(x), JobSound(w)'
  PROVE  StockInv'
BY LocksKept, KeptSound DEF StockInv, Others

LEMMA LedgerKept ==
  ASSUME LedgerAccounts, UNCHANGED <<variant, quantity, moved, disputed>>
  PROVE  LedgerAccounts'
BY DEF LedgerAccounts, Live

\* A request that does not write yet.
LEMMA QuietStep ==
  ASSUME StockInv, UNCHANGED <<variant, quantity, moved, order, requests, disputed>>,
         hasVariants' \in BOOLEAN, NEW w \in Workers, NEW j \in Jobs \cup {Idle},
         job' = [job EXCEPT ![w] = j], LocksGranted(w), JobSound(w)'
  PROVE  StockInv'
<1>1. job' \in [Workers -> Jobs \cup {Idle}] /\ \A x \in Workers \ {w} : job'[x] = job[x]
  BY DEF StockInv, TypeOK
<1>2. TypeOK'
  BY <1>1 DEF StockInv, TypeOK
<1>3. LedgerAccounts'
  BY LedgerKept DEF StockInv
<1>4. QED
  BY <1>1, <1>2, <1>3, SameKept, RowsSame, OneSteps DEF Others

LEMMA IdleSound ==
  ASSUME NEW w, job'[w] = Idle PROVE JobSound(w)' /\ LocksGranted(w)
BY DEF JobSound, LocksGranted, Busy

LEMMA FinishStep ==
  ASSUME StockInv, UNCHANGED <<variant, quantity, moved, order, requests, disputed>>,
         hasVariants' \in BOOLEAN, NEW w \in Workers, Finish(w)
  PROVE  StockInv'
<1>1. job' = [job EXCEPT ![w] = Idle] /\ job'[w] = Idle
  BY DEF Finish, StockInv, TypeOK
<1>2. QED
  BY <1>1, IdleSound, QuietStep


-----------------------------------------------------------------------------
(* Requests that begin.                                                     *)

LEMMA OverlappedKept ==
  ASSUME TypeOK, NEW x \in Workers, job'[x] = Overlapped[x]
  PROVE  KeepsJob(x) /\ job'[x] \in Jobs \cup {Idle}
<1>1. CASE ~Busy(x)
  <2>1. job'[x] = job[x] /\ job[x] = Idle
    BY <1>1, BusyJob DEF Overlapped
  <2>2. QED
    BY <2>1, SameKept
<1>2. CASE Busy(x)
  <2>1. job[x] \in Jobs
    BY <1>2, BusyJob
  <2>2. PICK n : n = job[x].overlap + 1
    OBVIOUS
  <2>3. n \in Nat
    BY <2>1, <2>2, JobParts
  <2>4. job'[x] = [job[x] EXCEPT !.overlap = n]
    BY <1>2, <2>1, <2>2 DEF Overlapped, Jobs
  <2>5. job'[x] \in Jobs
    BY <2>1, <2>3, <2>4 DEF Jobs
  <2>6. /\ job'[x].op = job[x].op /\ job'[x].at = job[x].at
        /\ job'[x].lines = job[x].lines /\ job'[x].todo = job[x].todo
        /\ job'[x].locks = job[x].locks /\ job'[x].value = job[x].value
        /\ job'[x].noted = job[x].noted /\ job'[x].order = job[x].order
        /\ job'[x].base = job[x].base
    BY <2>1, <2>4 DEF Jobs
  <2>7. Busy(x)'
    BY <2>5, BusyJob DEF Busy, Jobs, Idle, HandlerKinds
  <2>8. QED
    BY <1>2, <2>5, <2>6, <2>7 DEF KeepsJob
<1>3. QED
  BY <1>1, <1>2

\* Every request of an operation op starts like this.
LEMMA RequestIs ==
  ASSUME NEW op \in HandlerKinds, NEW at \in JobStates, NEW lines \in [Shelves -> Nat]
  PROVE  /\ Request(op, at, lines) \in Jobs
         /\ Request(op, at, lines).op = op /\ Request(op, at, lines).at = at
         /\ Request(op, at, lines).lines = lines
         /\ Request(op, at, lines).todo = {s \in Shelves : lines[s] > 0}
         /\ Request(op, at, lines).locks = {} /\ Request(op, at, lines).order = {}
         /\ Request(op, at, lines).noted = NoLines
<1>1. PICK n : n = Cardinality({x \in Workers : Busy(x)})
  OBVIOUS
<1>2. n \in Nat
  BY <1>1, StockAssumption, FS_Subset, FS_CardinalityType DEF StockAssumption
<1>3. PICK todo : todo = {s \in Shelves : lines[s] > 0}
  OBVIOUS
<1>4. NoLines \in [Shelves -> Int] /\ todo \in SUBSET Shelves
  BY <1>3 DEF NoLines
<1>5. PICK none : none = NoLines
  OBVIOUS
<1>6. Request(op, at, lines) =
        [op |-> op, at |-> at, lines |-> lines, todo |-> todo,
         locks |-> {}, value |-> none, noted |-> none, refs |-> {}, order |-> {},
         amount |-> 0, base |-> 0, total |-> 0, overlap |-> n]
  BY <1>1, <1>3, <1>5 DEF Request
<1>7. PICK j : j = Request(op, at, lines)
  OBVIOUS
<1>8. /\ j.op = op /\ j.at = at /\ j.lines = lines /\ j.todo = todo /\ j.locks = {}
      /\ j.order = {} /\ j.noted = none
  BY <1>6, <1>7
<1>9. j \in Jobs
  BY <1>2, <1>4, <1>5, <1>6, <1>7 DEF Jobs
<1>10. QED
  BY <1>3, <1>5, <1>7, <1>8, <1>9

\* A beginning request holds no lock and has recorded no movement.
LEMMA BeginSound ==
  ASSUME StockInv, NEW w \in Workers, NEW j \in Jobs, Begin(w, j),
         j.locks = {}, j.noted = NoLines,
         j.at = "insert" => j.op = "order", j.order # {} => j.op \in OrderMoves,
         j.at = "set" =>
           /\ \A s \in j.todo : j.lines[s] > 0
           /\ \A v \in Variants : j.lines[v] > 0 =>
                variant'[v] # "none" /\ (v \in disputed' \/ j.base = quantity'[v])
  PROVE  /\ job' \in [Workers -> Jobs \cup {Idle}] /\ requests' \in 0..MaxRequests
         /\ Others(w) /\ LocksGranted(w) /\ JobSound(w)' /\ ~Busy(w)
<1>1. job' = [Overlapped EXCEPT ![w] = j] /\ ~Busy(w) /\ requests < MaxRequests
      /\ requests' = requests + 1
  BY DEF Begin
<1>2. job'[w] = j /\ \A x \in Workers \ {w} : job'[x] = Overlapped[x]
  BY <1>1 DEF Overlapped
<1>3. \A x \in Workers : job'[x] \in Jobs \cup {Idle}
  BY <1>2, OverlappedKept DEF StockInv
<1>4. job' = [x \in Workers |-> job'[x]]
  BY <1>1 DEF Overlapped
<1>5. job' \in [Workers -> Jobs \cup {Idle}]
  BY <1>3, <1>4
<1>6. Others(w)
  BY <1>2, OverlappedKept DEF StockInv, Others
<1>7. requests' \in 0..MaxRequests
  <2>1. requests \in Nat /\ MaxRequests \in Nat
    BY StockAssumption DEF StockInv, TypeOK, StockAssumption
  <2>2. QED
    BY <1>1, <2>1
<1>8. \A v \in Variants : j.noted[v] = 0
  BY DEF NoLines, Shelves
<1>9. JobSound(w)' /\ LocksGranted(w)
  BY <1>2, <1>8 DEF JobSound, LocksGranted
<1>10. QED
  BY <1>1, <1>5, <1>6, <1>7, <1>9

\* A request that reads before it does anything.
LEMMA BeginStep ==
  ASSUME StockInv, UNCHANGED <<tables, disputed>>, NEW w \in Workers, NEW j \in Jobs,
         Begin(w, j), j.locks = {}, j.noted = NoLines,
         j.at = "insert" => j.op = "order", j.order # {} => j.op \in OrderMoves,
         j.at = "set" =>
           /\ \A s \in j.todo : j.lines[s] > 0
           /\ \A v \in Variants : j.lines[v] > 0 =>
                variant[v] # "none" /\ (v \in disputed \/ j.base = quantity[v])
  PROVE  StockInv'
<1>1. UNCHANGED <<variant, hasVariants, quantity, moved, order, disputed>>
  BY DEF tables
<1>2. /\ job' \in [Workers -> Jobs \cup {Idle}] /\ requests' \in 0..MaxRequests
      /\ Others(w) /\ LocksGranted(w) /\ JobSound(w)'
  BY <1>1, BeginSound
<1>3. TypeOK'
  BY <1>1, <1>2 DEF StockInv, TypeOK
<1>4. LedgerAccounts'
  BY <1>1, LedgerKept DEF StockInv
<1>5. QED
  BY <1>1, <1>2, <1>3, <1>4, RowsSame, OneSteps

LEMMA PlaceSound ==
  ASSUME StockInv, NEW w \in Workers, NEW lines \in Baskets, PlaceOrder(w, lines)
  PROVE  StockInv'
<1>1. lines \in [Shelves -> Nat]
  <2>1. lines \in [Shelves -> Quantities \cup {0}]
    BY DEF Baskets
  <2>2. Quantities \cup {0} \subseteq Nat
    BY StockAssumption DEF StockAssumption
  <2>3. \A s \in Shelves : lines[s] \in Nat
    BY <2>1, <2>2
  <2>4. QED
    BY <2>1, <2>3
<1>2. PICK j : j = Request("order", "insert", lines)
  OBVIOUS
<1>3. /\ j \in Jobs /\ j.locks = {} /\ j.noted = NoLines /\ j.op = "order"
      /\ j.at = "insert" /\ j.order = {}
  BY <1>1, <1>2, RequestIs DEF HandlerKinds, JobStates
<1>4. Begin(w, j) /\ UNCHANGED <<tables, disputed>>
  BY <1>2 DEF PlaceOrder
<1>5. QED
  BY <1>3, <1>4, BeginStep

LEMMA MoveOrderSound ==
  ASSUME StockInv, NEW w \in Workers, NEW o \in Orders, ReturnOrder(w, o) \/ ReopenOrder(w, o)
  PROVE  StockInv'
<1>1. UNCHANGED <<tables, disputed>>
  BY DEF ReturnOrder, ReopenOrder
<1>2. PICK op \in {"return", "reopen"}, at \in {"move", "check"} :
        Begin(w, [Request(op, at, order[o].lines) EXCEPT !.order = {o}])
  BY DEF ReturnOrder, ReopenOrder
<1>3. PICK r, os : r = Request(op, at, order[o].lines) /\ os = {o}
  OBVIOUS
<1>4. order[o].lines \in [Shelves -> Nat]
  BY DEF StockInv, TypeOK
<1>5. r \in Jobs /\ r.locks = {} /\ r.noted = NoLines /\ r.op = op /\ r.at = at
  BY <1>3, <1>4, RequestIs DEF HandlerKinds, JobStates
<1>6. PICK j : j = [r EXCEPT !.order = os]
  OBVIOUS
<1>7. /\ j \in Jobs /\ j.locks = {} /\ j.noted = NoLines /\ j.op = op /\ j.at = at
      /\ j.order = os
  BY <1>3, <1>5, <1>6 DEF Jobs
<1>8. Begin(w, j)
  BY <1>2, <1>3, <1>6
<1>9. op \in OrderMoves /\ at # "insert" /\ at # "set"
  BY DEF OrderMoves
<1>10. QED
  BY <1>1, <1>7, <1>8, <1>9, BeginStep

LEMMA ReadSound ==
  ASSUME StockInv, NEW w \in Workers, NEW op \in {"adjust", "receive"}, NEW s \in Shelves,
         NEW n \in Nat, ReadStock(w, op, s, n)
  PROVE  StockInv'
<1>1. UNCHANGED <<tables, disputed>> /\ s \in Live \cup {Product}
  BY DEF ReadStock
<1>2. PICK lines : lines = [NoLines EXCEPT ![s] = 1]
  OBVIOUS
<1>3. lines \in [Shelves -> Nat] /\ \A x \in Shelves : lines[x] > 0 => x = s
  BY <1>2 DEF NoLines
<1>4. PICK r, q : r = Request(op, "set", lines) /\ q = quantity[s]
  OBVIOUS
<1>5. /\ r \in Jobs /\ r.locks = {} /\ r.noted = NoLines /\ r.op = op /\ r.at = "set"
      /\ r.lines = lines /\ r.todo = {x \in Shelves : lines[x] > 0} /\ r.order = {}
  BY <1>3, <1>4, RequestIs DEF HandlerKinds, JobStates
<1>6. q \in Int
  BY <1>4 DEF StockInv, TypeOK
<1>7. PICK a : a = [r EXCEPT !.amount = n]
  OBVIOUS
<1>8. /\ a \in Jobs /\ a.locks = {} /\ a.noted = NoLines /\ a.op = op /\ a.at = "set"
      /\ a.lines = lines /\ a.todo = {x \in Shelves : lines[x] > 0} /\ a.order = {}
  BY <1>5, <1>7 DEF Jobs
<1>9. PICK j : j = [a EXCEPT !.base = q]
  OBVIOUS
<1>10. /\ j \in Jobs /\ j.locks = {} /\ j.noted = NoLines /\ j.op = op /\ j.at = "set"
       /\ j.lines = lines /\ j.todo = {x \in Shelves : lines[x] > 0} /\ j.order = {}
       /\ j.base = q
  BY <1>6, <1>8, <1>9 DEF Jobs
<1>11. Begin(w, j)
  BY <1>2, <1>4, <1>7, <1>9 DEF ReadStock
<1>12. \A v \in Variants : j.lines[v] > 0 =>
         variant[v] # "none" /\ (v \in disputed \/ j.base = quantity[v])
  BY <1>1, <1>3, <1>4, <1>10, StockAssumption DEF StockAssumption, Live, Shelves
<1>13. \A x \in j.todo : j.lines[x] > 0
  BY <1>10
<1>14. QED
  BY <1>1, <1>10, <1>11, <1>12, <1>13, BeginStep


-----------------------------------------------------------------------------
(* Requests that write rows as they begin.                                  *)

LEMMA CreateSound ==
  ASSUME StockInv, NEW w \in Workers, NEW u \in Variants, NEW n \in 0..MaxStock,
         CreateVariant(w, u, n)
  PROVE  StockInv'
<1>1. /\ variant[u] = "none" /\ variant' = [variant EXCEPT ![u] = "live"]
      /\ quantity' = [quantity EXCEPT ![u] = n] /\ moved' = [moved EXCEPT ![u] = n]
      /\ UNCHANGED <<hasVariants, order, disputed>>
  BY DEF CreateVariant
<1>2. u \in Shelves /\ n \in Int
  BY StockAssumption DEF Shelves, StockAssumption
<1>3. PICK j : j = Request("create", "flag", NoLines)
  OBVIOUS
<1>4. NoLines \in [Shelves -> Nat]
  BY DEF NoLines
<1>5. j \in Jobs /\ j.locks = {} /\ j.noted = NoLines /\ j.at = "flag" /\ j.order = {}
  BY <1>3, <1>4, RequestIs DEF HandlerKinds, JobStates
<1>6. Begin(w, j)
  BY <1>3 DEF CreateVariant
<1>7. /\ job' \in [Workers -> Jobs \cup {Idle}] /\ requests' \in 0..MaxRequests
      /\ Others(w) /\ LocksGranted(w) /\ JobSound(w)'
  BY <1>5, <1>6, BeginSound
<1>8. /\ variant' \in [Variants -> {"none", "live", "deleted"}]
      /\ quantity' \in [Shelves -> Int] /\ moved' \in [Variants -> Int]
  BY <1>1, <1>2 DEF StockInv, TypeOK
<1>9. TypeOK'
  BY <1>1, <1>7, <1>8 DEF StockInv, TypeOK
<1>10. \A v \in Variants : v = u \/ (variant'[v] = variant[v] /\ quantity'[v] = quantity[v]
                                     /\ moved'[v] = moved[v])
  BY <1>1, <1>2 DEF StockInv, TypeOK, Shelves
<1>11. quantity'[u] = moved'[u] /\ variant'[u] = "live"
  BY <1>1, <1>2 DEF StockInv, TypeOK
<1>12. LedgerAccounts'
  BY <1>1, <1>10, <1>11 DEF StockInv, LedgerAccounts, Live
<1>13. \A x \in Workers : RowsFit(x)
  BY <1>1, <1>10, <1>11 DEF RowsFit
<1>14. QED
  BY <1>7, <1>9, <1>12, <1>13, OneSteps

LEMMA UpdateSound ==
  ASSUME StockInv, NEW w \in Workers, NEW u \in Variants, NEW n \in 0..MaxStock,
         UpdateVariant(w, u, n)
  PROVE  StockInv'
<1>1. /\ quantity' = [quantity EXCEPT ![u] = n] /\ disputed' = disputed \cup {u}
      /\ UNCHANGED <<variant, hasVariants, moved, order>> /\ Free(w, u)
  BY DEF UpdateVariant
<1>2. u \in Shelves /\ n \in Int
  BY StockAssumption DEF Shelves, StockAssumption
<1>3. PICK j : j = Request("update", "sum", NoLines)
  OBVIOUS
<1>4. NoLines \in [Shelves -> Nat]
  BY DEF NoLines
<1>5. j \in Jobs /\ j.locks = {} /\ j.noted = NoLines /\ j.at = "sum" /\ j.order = {}
  BY <1>3, <1>4, RequestIs DEF HandlerKinds, JobStates
<1>6. Begin(w, j)
  BY <1>3 DEF UpdateVariant
<1>7. /\ job' \in [Workers -> Jobs \cup {Idle}] /\ requests' \in 0..MaxRequests
      /\ Others(w) /\ LocksGranted(w) /\ JobSound(w)'
  BY <1>5, <1>6, BeginSound
<1>8. quantity' \in [Shelves -> Int] /\ disputed' \subseteq Variants
  BY <1>1, <1>2 DEF StockInv, TypeOK
<1>9. TypeOK'
  BY <1>1, <1>7, <1>8 DEF StockInv, TypeOK
<1>10. \A v \in Variants : v = u \/ quantity'[v] = quantity[v]
  BY <1>1, <1>2 DEF StockInv, TypeOK, Shelves
<1>11. LedgerAccounts'
  BY <1>1, <1>10 DEF StockInv, LedgerAccounts, Live
<1>12. \A x \in Workers \ {w} : RowsFit(x)
  BY <1>1, <1>10 DEF RowsFit, Free
<1>13. QED
  BY <1>7, <1>9, <1>11, <1>12, OneSteps

LEMMA RemoveSound ==
  ASSUME StockInv, NEW w \in Workers, NEW u \in Variants, RemoveVariant(w, u)
  PROVE  StockInv'
<1>1. /\ variant' = [variant EXCEPT ![u] = "deleted"]
      /\ order' = [o \in Orders |-> [order[o] EXCEPT !.lines = Unlinked(@, u)]]
      /\ UNCHANGED <<hasVariants, quantity, moved, disputed>>
  BY DEF RemoveVariant
<1>2. u \in Shelves /\ Product \in Shelves
  BY DEF Shelves
<1>3. PICK j : j = Request("remove", "count", NoLines)
  OBVIOUS
<1>4. NoLines \in [Shelves -> Nat]
  BY DEF NoLines
<1>5. j \in Jobs /\ j.locks = {} /\ j.noted = NoLines /\ j.at = "count" /\ j.order = {}
  BY <1>3, <1>4, RequestIs DEF HandlerKinds, JobStates
<1>6. Begin(w, j)
  BY <1>3 DEF RemoveVariant
<1>7. variant' \in [Variants -> {"none", "live", "deleted"}]
      /\ \A v \in Variants : variant'[v] = IF v = u THEN "deleted" ELSE variant[v]
  BY <1>1 DEF StockInv, TypeOK
<1>8. /\ job' \in [Workers -> Jobs \cup {Idle}] /\ requests' \in 0..MaxRequests
      /\ Others(w) /\ LocksGranted(w) /\ JobSound(w)'
  BY <1>5, <1>6, BeginSound
<1>9. ASSUME NEW o \in Orders
      PROVE  order'[o] \in [status: {"none", "placed", "cancelled"}, lines: [Shelves -> Nat]]
  <2>1. PICK lines, new : lines = order[o].lines /\ new = Unlinked(lines, u)
    OBVIOUS
  <2>2. /\ order[o] \in [status: {"none", "placed", "cancelled"}, lines: [Shelves -> Nat]]
        /\ lines \in [Shelves -> Nat]
    BY <2>1 DEF StockInv, TypeOK
  <2>3. new \in [Shelves -> Nat]
    BY <1>2, <2>1, <2>2 DEF Unlinked
  <2>4. order'[o] = [order[o] EXCEPT !.lines = new]
    BY <1>1, <2>1
  <2>5. QED
    BY <2>2, <2>3, <2>4
<1>10. order' \in [Orders -> [status: {"none", "placed", "cancelled"}, lines: [Shelves -> Nat]]]
  BY <1>1, <1>9
<1>11. TypeOK'
  BY <1>1, <1>7, <1>8, <1>10 DEF StockInv, TypeOK
<1>12. LedgerAccounts'
  BY <1>1, <1>7 DEF StockInv, LedgerAccounts, Live
<1>13. \A x \in Workers : RowsFit(x)
  BY <1>1, <1>7 DEF RowsFit
<1>14. QED
  BY <1>8, <1>11, <1>12, <1>13, OneSteps

LEMMA EditSound ==
  ASSUME StockInv, NEW n \in 0..MaxStock, EditProduct(n)
  PROVE  StockInv'
<1>1. /\ quantity' = [quantity EXCEPT ![Product] = n] /\ requests < MaxRequests
      /\ requests' = requests + 1 /\ job' = Overlapped
      /\ UNCHANGED <<variant, hasVariants, moved, order, disputed>>
  BY DEF EditProduct
<1>2. Product \in Shelves /\ n \in Int /\ Product \notin Variants
  BY StockAssumption DEF Shelves, StockAssumption
<1>3. \A x \in Workers : KeepsJob(x) /\ job'[x] \in Jobs \cup {Idle}
  BY <1>1, OverlappedKept DEF StockInv
<1>4. job' \in [Workers -> Jobs \cup {Idle}]
  <2>1. job' = [x \in Workers |-> job'[x]]
    BY <1>1 DEF Overlapped
  <2>2. QED
    BY <1>3, <2>1
<1>5. requests' \in 0..MaxRequests
  <2>1. requests \in Nat /\ MaxRequests \in Nat
    BY StockAssumption DEF StockInv, TypeOK, StockAssumption
  <2>2. QED
    BY <1>1, <2>1
<1>6. quantity' \in [Shelves -> Int] /\ \A v \in Variants : quantity'[v] = quantity[v]
  BY <1>1, <1>2 DEF StockInv, TypeOK, Shelves
<1>7. TypeOK'
  BY <1>1, <1>4, <1>5, <1>6 DEF StockInv, TypeOK
<1>8. LedgerAccounts'
  BY <1>1, <1>6 DEF StockInv, LedgerAccounts, Live
<1>9. \A x \in Workers : JobSound(x)'
  BY <1>1, <1>3, <1>6, KeptSound DEF RowsFit
<1>10. LocksExclusive'
  BY <1>3 DEF StockInv, LocksExclusive, KeepsJob
<1>11. QED
  BY <1>7, <1>8, <1>9, <1>10 DEF StockInv


-----------------------------------------------------------------------------
(* Requests that go on.                                                     *)

\* A job that goes on to state at, and to nothing else the invariant is about.
GoesOn(w, j, at) ==
  /\ j.op = job[w].op /\ j.at = at /\ j.locks = job[w].locks
  /\ j.value = job[w].value /\ j.noted = job[w].noted
  /\ at \notin {"insert", "set"}

LEMMA GoOnStep ==
  ASSUME StockInv, NEW w \in Workers, Busy(w), NEW at \in JobStates, NEW j \in Jobs,
         GoesOn(w, j, at), j.order = job[w].order \/ j.op \in OrderMoves,
         job' = [job EXCEPT ![w] = j],
         UNCHANGED <<variant, quantity, moved, order, requests, disputed>>,
         hasVariants' \in BOOLEAN
  PROVE  StockInv'
<1>1. job'[w] = j /\ JobSound(w)
  BY DEF StockInv, TypeOK
<1>2. JobSound(w)'
  BY <1>1 DEF JobSound, GoesOn
<1>3. LocksGranted(w)
  BY <1>1 DEF LocksGranted, GoesOn
<1>4. QED
  BY <1>2, <1>3, QuietStep

LEMMA InsertSound ==
  ASSUME StockInv, NEW w \in Workers, InsertOrder(w)
  PROVE  StockInv'
<1>1. Busy(w) /\ job[w].at = "insert" /\ job[w] \in Jobs /\ UNCHANGED <<tables, requests, disputed>>
  BY BusyJob DEF InsertOrder, StockInv
<1>2. PICK o \in Orders :
        job' = [job EXCEPT ![w].at = "move", ![w].order = {o}, ![w].refs = job[w].todo]
  BY DEF InsertOrder
<1>3. PICK os, refs : os = {o} /\ refs = job[w].todo
  OBVIOUS
<1>4. os \in SUBSET Orders /\ refs \in SUBSET Shelves
  BY <1>1, <1>3, JobParts
<1>5. PICK j1, j2, j3 : /\ j1 = [job[w] EXCEPT !.at = "move"]
                        /\ j2 = [j1 EXCEPT !.order = os]
                        /\ j3 = [j2 EXCEPT !.refs = refs]
  OBVIOUS
<1>6. j1 \in Jobs /\ GoesOn(w, j1, "move")
  BY <1>1, <1>5 DEF Jobs, GoesOn, JobStates
<1>7. j2 \in Jobs /\ GoesOn(w, j2, "move")
  BY <1>4, <1>5, <1>6 DEF Jobs, GoesOn
<1>8. j3 \in Jobs /\ GoesOn(w, j3, "move")
  BY <1>4, <1>5, <1>7 DEF Jobs, GoesOn
<1>9. j3.op \in OrderMoves
  BY <1>1, <1>8 DEF StockInv, JobSound, GoesOn, OrderMoves
<1>10. job' = [job EXCEPT ![w] = j3]
  <2>1. job \in [Workers -> Jobs \cup {Idle}]
    BY DEF StockInv, TypeOK
  <2>2. PICK f, g, h : /\ f = [job EXCEPT ![w].at = "move"]
                       /\ g = [f EXCEPT ![w].order = os]
                       /\ h = [g EXCEPT ![w].refs = refs]
    OBVIOUS
  <2>3. job' = h
    BY <1>2, <1>3, <2>2
  <2>4. f = [job EXCEPT ![w] = j1]
    BY <1>5, <2>1, <2>2
  <2>5. g = [job EXCEPT ![w] = j2]
    BY <1>5, <2>1, <2>2, <2>4
  <2>6. h = [job EXCEPT ![w] = j3]
    BY <1>5, <2>1, <2>2, <2>5
  <2>7. QED
    BY <2>3, <2>6
<1>11. QED
  BY <1>1, <1>8, <1>9, <1>10, GoOnStep DEF tables, StockInv, TypeOK, JobStates

LEMMA CheckSound ==
  ASSUME StockInv, NEW w \in Workers, CheckStock(w)
  PROVE  StockInv'
<1>1. Busy(w) /\ job[w] \in Jobs /\ UNCHANGED <<tables, requests, disputed>>
  BY BusyJob DEF CheckStock, StockInv
<1>2. PICK todo : todo = job[w].todo \cap (Live \cup {Product})
  OBVIOUS
<1>3. todo \in SUBSET Shelves
  BY <1>1, <1>2, JobParts
<1>4. CASE Finish(w)
  BY <1>1, <1>4, FinishStep DEF tables, StockInv, TypeOK
<1>5. CASE job' = [job EXCEPT ![w].at = "move", ![w].todo = todo]
  <2>1. PICK j1, j2 : j1 = [job[w] EXCEPT !.at = "move"] /\ j2 = [j1 EXCEPT !.todo = todo]
    OBVIOUS
  <2>2. j1 \in Jobs /\ GoesOn(w, j1, "move") /\ j1.order = job[w].order
    BY <1>1, <2>1 DEF Jobs, GoesOn, JobStates
  <2>3. j2 \in Jobs /\ GoesOn(w, j2, "move") /\ j2.order = job[w].order
    BY <1>3, <2>1, <2>2 DEF Jobs, GoesOn
  <2>4. job' = [job EXCEPT ![w] = j2]
    <3>1. job \in [Workers -> Jobs \cup {Idle}]
      BY DEF StockInv, TypeOK
    <3>2. PICK f, g : f = [job EXCEPT ![w].at = "move"] /\ g = [f EXCEPT ![w].todo = todo]
      OBVIOUS
    <3>3. job' = g
      BY <1>5, <3>2
    <3>4. f = [job EXCEPT ![w] = j1]
      BY <2>1, <3>1, <3>2
    <3>5. g = [job EXCEPT ![w] = j2]
      BY <2>1, <3>1, <3>2, <3>4
    <3>6. QED
      BY <3>3, <3>5
  <2>5. QED
    BY <1>1, <2>3, <2>4, GoOnStep DEF tables, StockInv, TypeOK, JobStates
<1>6. QED
  BY <1>2, <1>4, <1>5 DEF CheckStock

LEMMA SkipSound ==
  ASSUME StockInv, NEW w \in Workers, SkipLine(w)
  PROVE  StockInv'
<1>1. Busy(w) /\ job[w].at = "move" /\ job[w] \in Jobs /\ UNCHANGED <<tables, requests, disputed>>
  BY BusyJob DEF SkipLine, StockInv
<1>2. PICK s \in job[w].todo : job' = [job EXCEPT ![w].todo = @ \ {s}]
  BY DEF SkipLine
<1>3. PICK todo : todo = job[w].todo \ {s}
  OBVIOUS
<1>4. todo \in SUBSET Shelves
  BY <1>1, <1>3, JobParts
<1>5. PICK j : j = [job[w] EXCEPT !.todo = todo]
  OBVIOUS
<1>6. j \in Jobs /\ GoesOn(w, j, "move") /\ j.order = job[w].order
  BY <1>1, <1>4, <1>5 DEF Jobs, GoesOn
<1>7. job' = [job EXCEPT ![w] = j]
  <2>1. job \in [Workers -> Jobs \cup {Idle}]
    BY DEF StockInv, TypeOK
  <2>2. job' = [job EXCEPT ![w].todo = todo]
    BY <1>1, <1>2, <1>3, <2>1 DEF Jobs
  <2>3. QED
    BY <1>5, <2>1, <2>2
<1>8. QED
  BY <1>1, <1>6, <1>7, GoOnStep DEF tables, StockInv, TypeOK, JobStates

LEMMA SumSound ==
  ASSUME StockInv, NEW w \in Workers, SumVariants(w)
  PROVE  StockInv'
<1>1. Busy(w) /\ job[w] \in Jobs /\ UNCHANGED <<tables, requests, disputed>>
  BY BusyJob DEF SumVariants, StockInv
<1>2. job \in [Workers -> Jobs \cup {Idle}]
  BY DEF StockInv, TypeOK
<1>3. PICK total : total = Sum([v \in Live |-> Seen(w, v)], Live)
  OBVIOUS
<1>4. total \in Int
  <2>1. IsFiniteSet(Live)
    BY StockAssumption, FS_Subset DEF StockAssumption, Live
  <2>2. \A v \in Live : Seen(w, v) \in Int
    BY <1>1, JobParts DEF Seen, StockInv, TypeOK, Live, Shelves
  <2>3. PICK f : f = [v \in Live |-> Seen(w, v)]
    OBVIOUS
  <2>4. \A v \in Live : f[v] \in Int
    BY <2>2, <2>3
  <2>5. QED
    BY <1>3, <2>1, <2>3, <2>4, SumTyped
<1>5. CASE job' = [job EXCEPT ![w].at = "move"]
  <2>1. PICK j : j = [job[w] EXCEPT !.at = "move"]
    OBVIOUS
  <2>2. j \in Jobs /\ GoesOn(w, j, "move") /\ j.order = job[w].order
    BY <1>1, <2>1 DEF Jobs, GoesOn, JobStates
  <2>3. job' = [job EXCEPT ![w] = j]
    BY <1>2, <1>5, <2>1
  <2>4. QED
    BY <1>1, <2>2, <2>3, GoOnStep DEF tables, StockInv, TypeOK, JobStates
<1>6. CASE job' = [job EXCEPT ![w].at = "parent", ![w].total = total]
  <2>1. PICK j1, j2 : j1 = [job[w] EXCEPT !.at = "parent"] /\ j2 = [j1 EXCEPT !.total = total]
    OBVIOUS
  <2>2. j1 \in Jobs /\ GoesOn(w, j1, "parent") /\ j1.order = job[w].order
    BY <1>1, <2>1 DEF Jobs, GoesOn, JobStates
  <2>3. j2 \in Jobs /\ GoesOn(w, j2, "parent") /\ j2.order = job[w].order
    BY <1>4, <2>1, <2>2 DEF Jobs, GoesOn
  <2>4. job' = [job EXCEPT ![w] = j2]
    <3>1. PICK f, g : f = [job EXCEPT ![w].at = "parent"] /\ g = [f EXCEPT ![w].total = total]
      OBVIOUS
    <3>2. job' = g
      BY <1>6, <3>1
    <3>3. f = [job EXCEPT ![w] = j1]
      BY <1>2, <2>1, <3>1
    <3>4. g = [job EXCEPT ![w] = j2]
      BY <1>2, <2>1, <3>1, <3>3
    <3>5. QED
      BY <3>2, <3>4
  <2>5. QED
    BY <1>1, <2>3, <2>4, GoOnStep DEF tables, StockInv, TypeOK, JobStates
<1>7. QED
  BY <1>3, <1>5, <1>6 DEF SumVariants

LEMMA FlagSound ==
  ASSUME StockInv, NEW w \in Workers,
         FlagVariants(w) \/ CountVariants(w) \/ UnflagVariants(w)
  PROVE  StockInv'
<1>1. /\ Busy(w) /\ job[w] \in Jobs /\ hasVariants' \in BOOLEAN
      /\ UNCHANGED <<variant, quantity, moved, order, requests, disputed>>
  BY BusyJob DEF FlagVariants, CountVariants, UnflagVariants, tables, StockInv, TypeOK
<1>2. CASE Finish(w)
  BY <1>1, <1>2, FinishStep
<1>3. ASSUME NEW at \in {"sum", "unflag"}, job' = [job EXCEPT ![w].at = at] PROVE StockInv'
  <2>1. PICK j : j = [job[w] EXCEPT !.at = at]
    OBVIOUS
  <2>2. j \in Jobs /\ GoesOn(w, j, at) /\ j.order = job[w].order
    BY <1>1, <2>1 DEF Jobs, GoesOn, JobStates
  <2>3. job' = [job EXCEPT ![w] = j]
    BY <1>3, <2>1 DEF StockInv, TypeOK
  <2>4. QED
    BY <1>1, <2>2, <2>3, GoOnStep DEF JobStates
<1>4. QED
  BY <1>2, <1>3 DEF FlagVariants, CountVariants, UnflagVariants


-----------------------------------------------------------------------------
(* Rows written in a transaction.                                           *)

\* Worker w locks row s, writes n in it, and goes on as j.
Written(w, j, s, n, noted) ==
  /\ j.op = job[w].op /\ j.at \notin {"insert", "set"}
  /\ j.locks = job[w].locks \cup {s} /\ j.order = job[w].order
  /\ j.value = [job[w].value EXCEPT ![s] = n] /\ j.noted = noted

LEMMA WriteStep ==
  ASSUME StockInv, NEW w \in Workers, Busy(w), job[w].at # "insert",
         UNCHANGED <<tables, requests, disputed>>,
         NEW j \in Jobs, job' = [job EXCEPT ![w] = j],
         NEW s \in Shelves, s \in Live \cup {Product}, Free(w, s),
         NEW n \in Int, NEW noted \in [Shelves -> Int],
         Written(w, j, s, n, noted),
         \A v \in Variants : v # s => noted[v] = job[w].noted[v],
         s \in Variants => (s \in disputed \/ n = quantity[s] + noted[s])
  PROVE  StockInv'
<1>1. UNCHANGED <<variant, hasVariants, quantity, moved, order, requests, disputed>>
  BY DEF tables
<1>2. job'[w] = j /\ job[w] \in Jobs /\ JobSound(w)
  BY BusyJob DEF StockInv, TypeOK
<1>3. job[w].value \in [Shelves -> Int] /\ \A v \in Variants : v \in Shelves
  BY <1>2, JobParts DEF Shelves
<1>4. /\ j.op = job[w].op /\ j.at \notin {"insert", "set"}
      /\ j.locks = job[w].locks \cup {s} /\ j.order = job[w].order
      /\ j.value = [job[w].value EXCEPT ![s] = n] /\ j.noted = noted
  BY DEF Written
<1>5. ASSUME NEW v \in Variants
      PROVE  /\ v \notin j.locks => j.noted[v] = 0
             /\ v \in j.locks =>
                  /\ variant[v] # "none"
                  /\ v \in disputed \/ j.value[v] = quantity[v] + j.noted[v]
  <2>1. CASE v = s
    <3>1. variant[v] = "live"
      BY <2>1, StockAssumption DEF StockAssumption, Live
    <3>2. j.value[v] = n /\ v \in j.locks
      BY <1>3, <1>4, <2>1
    <3>3. QED
      BY <1>4, <2>1, <3>1, <3>2
  <2>2. CASE v # s
    <3>1. j.value[v] = job[w].value[v] /\ j.noted[v] = job[w].noted[v]
      BY <1>3, <1>4, <2>2
    <3>2. v \in j.locks <=> v \in job[w].locks
      BY <1>4, <2>2
    <3>3. QED
      BY <1>2, <3>1, <3>2 DEF JobSound
  <2>3. QED
    BY <2>1, <2>2
<1>6. JobSound(w)'
  BY <1>1, <1>2, <1>4, <1>5 DEF JobSound
<1>7. LocksGranted(w)
  BY <1>2, <1>4 DEF LocksGranted
<1>8. QED
  BY <1>1, <1>6, <1>7, QuietStep DEF StockInv, TypeOK

LEMMA SeenIs ==
  ASSUME StockInv, NEW w \in Workers, Busy(w), NEW s \in Shelves
  PROVE  /\ Seen(w, s) \in Int
         /\ s \in Variants => (s \in disputed \/ Seen(w, s) = quantity[s] + job[w].noted[s])
<1>1. job[w] \in Jobs /\ JobSound(w) /\ quantity[s] \in Int
  BY BusyJob DEF StockInv, TypeOK
<1>2. job[w].value[s] \in Int /\ job[w].noted[s] \in Int
  BY <1>1, JobParts
<1>3. QED
  BY <1>1, <1>2 DEF Seen, JobSound

Rewritten(w, s, todo, at, locks, n, noted) ==
  [job EXCEPT ![w].todo = todo, ![w].at = at, ![w].locks = locks, ![w].value[s] = n,
              ![w].noted = noted]

\* A job record whose row s is written: the chain of its fields.
LEMMA WrittenJob ==
  ASSUME TypeOK, NEW w \in Workers, Busy(w), NEW s \in Shelves, NEW todo \in SUBSET Shelves,
         NEW at \in JobStates \ {"insert", "set"},
         NEW locks \in SUBSET Shelves, locks = job[w].locks \cup {s},
         NEW n \in Int, NEW noted \in [Shelves -> Int],
         job' = Rewritten(w, s, todo, at, locks, n, noted)
  PROVE  \E j \in Jobs : job' = [job EXCEPT ![w] = j] /\ Written(w, j, s, n, noted)
<1>1. job[w] \in Jobs /\ job \in [Workers -> Jobs \cup {Idle}]
  BY BusyJob DEF TypeOK
<1>2. PICK value : value = [job[w].value EXCEPT ![s] = n]
  OBVIOUS
<1>3. value \in [Shelves -> Int]
  BY <1>1, <1>2, JobParts
<1>4. PICK j1, j2, j3, j4, j5 :
        /\ j1 = [job[w] EXCEPT !.todo = todo]
        /\ j2 = [j1 EXCEPT !.at = at]
        /\ j3 = [j2 EXCEPT !.locks = locks]
        /\ j4 = [j3 EXCEPT !.value = value]
        /\ j5 = [j4 EXCEPT !.noted = noted]
  OBVIOUS
<1>5. j1 \in Jobs /\ j1.op = job[w].op /\ j1.order = job[w].order /\ j1.value = job[w].value
  BY <1>1, <1>4 DEF Jobs
<1>6. j2 \in Jobs /\ j2.op = job[w].op /\ j2.order = job[w].order /\ j2.value = job[w].value
      /\ j2.at = at
  BY <1>4, <1>5 DEF Jobs
<1>7. j3 \in Jobs /\ j3.op = job[w].op /\ j3.order = job[w].order /\ j3.value = job[w].value
      /\ j3.at = at /\ j3.locks = locks
  BY <1>4, <1>6 DEF Jobs
<1>8. j4.op = job[w].op /\ j4.order = job[w].order /\ j4.value = value
      /\ j4.at = at /\ j4.locks = locks
  BY <1>4, <1>7 DEF Jobs
<1>9. j5 \in Jobs /\ Written(w, j5, s, n, noted)
  <2>1. j5 \in Jobs
    <3>1. j4 \in Jobs
      BY <1>3, <1>4, <1>7, JobChanged
    <3>2. QED
      BY <1>4, <3>1, JobChanged
  <2>2. j5.op = job[w].op /\ j5.order = job[w].order /\ j5.value = value
    BY <1>4, <1>8 DEF Jobs
  <2>3. j5.at = at /\ j5.locks = locks /\ j5.noted = noted
    BY <1>4, <1>8 DEF Jobs
  <2>4. QED
    BY <1>2, <2>1, <2>2, <2>3 DEF Written
<1>10. PICK f1, f2, f3, f4, f5 :
         /\ f1 = [job EXCEPT ![w].todo = todo]
         /\ f2 = [f1 EXCEPT ![w].at = at]
         /\ f3 = [f2 EXCEPT ![w].locks = locks]
         /\ f4 = [f3 EXCEPT ![w].value[s] = n]
         /\ f5 = [f4 EXCEPT ![w].noted = noted]
  OBVIOUS
<1>11. job' = f5
  BY <1>10 DEF Rewritten
<1>12. f1 = [job EXCEPT ![w] = j1]
  BY <1>1, <1>4, <1>10
<1>13. f2 = [job EXCEPT ![w] = j2]
  BY <1>1, <1>4, <1>10, <1>12
<1>14. f3 = [job EXCEPT ![w] = j3]
  BY <1>1, <1>4, <1>10, <1>13
<1>15. f4 = [job EXCEPT ![w] = j4]
  BY <1>1, <1>2, <1>4, <1>7, <1>10, <1>14
<1>16. f5 = [job EXCEPT ![w] = j5]
  BY <1>1, <1>4, <1>10, <1>15
<1>17. QED
  BY <1>9, <1>11, <1>16

LEMMA MoveSound ==
  ASSUME StockInv, NEW w \in Workers, MoveLine(w)
  PROVE  StockInv'
<1>1. /\ Busy(w) /\ job[w].at = "move" /\ job[w].op \in OrderMoves /\ job[w] \in Jobs
      /\ UNCHANGED <<tables, requests, disputed>> /\ TypeOK
  BY BusyJob DEF MoveLine, StockInv
<1>2. job \in [Workers -> Jobs \cup {Idle}] /\ job[w].noted \in [Shelves -> Int]
      /\ job[w].lines \in [Shelves -> Nat]
  BY <1>1, JobParts DEF TypeOK
<1>3. PICK s \in job[w].todo :
        /\ s \in Live \cup {Product} /\ Free(w, s)
        /\ job' = [job EXCEPT ![w].todo = @ \ {s}, ![w].at = NextOfMove(w, s),
                              ![w].locks = @ \cup {s},
                              ![w].value[s] = Seen(w, s) + Signed(w, s),
                              ![w].noted = Noted(w, s)]
  BY DEF MoveLine
<1>4. s \in Shelves
  BY <1>1, <1>3, JobParts
<1>5. PICK todo, at, locks, n, noted :
        /\ todo = job[w].todo \ {s} /\ at = NextOfMove(w, s) /\ locks = job[w].locks \cup {s}
        /\ n = Seen(w, s) + Signed(w, s) /\ noted = Noted(w, s)
  OBVIOUS
<1>6. Signed(w, s) \in Int /\ Seen(w, s) \in Int
  BY <1>1, <1>2, <1>4, SeenIs DEF Signed
<1>7. /\ todo \in SUBSET Shelves /\ locks \in SUBSET Shelves /\ n \in Int
      /\ at \in JobStates /\ at \notin {"insert", "set"}
  BY <1>1, <1>4, <1>5, <1>6, JobParts DEF NextOfMove, JobStates
<1>8. /\ noted \in [Shelves -> Int] /\ noted[s] = job[w].noted[s] + Signed(w, s)
      /\ \A v \in Shelves : v # s => noted[v] = job[w].noted[v]
  BY <1>2, <1>4, <1>5, <1>6 DEF Noted
<1>9. job' = Rewritten(w, s, todo, at, locks, n, noted)
  BY <1>1, <1>2, <1>3, <1>5 DEF Jobs, Rewritten
<1>10. PICK j \in Jobs : job' = [job EXCEPT ![w] = j] /\ Written(w, j, s, n, noted)
  BY <1>5, <1>1, <1>4, <1>7, <1>8, <1>9, WrittenJob
<1>11. s \in Variants => (s \in disputed \/ n = quantity[s] + noted[s])
  <2>1. s \in Variants => (s \in disputed \/ Seen(w, s) = quantity[s] + job[w].noted[s])
    BY <1>1, <1>4, SeenIs
  <2>2. quantity[s] \in Int /\ job[w].noted[s] \in Int
    BY <1>1, <1>2, <1>4 DEF TypeOK
  <2>3. QED
    BY <1>5, <1>6, <1>8, <2>1, <2>2
<1>12. \A v \in Variants : v # s => noted[v] = job[w].noted[v]
  BY <1>8 DEF Shelves
<1>13. s \in Live \cup {Product} /\ Free(w, s) /\ job[w].at # "insert"
  BY <1>1, <1>3
<1>14. n \in Int /\ noted \in [Shelves -> Int]
  BY <1>7, <1>8
<1>15. QED
  BY <1>1, <1>4, <1>10, <1>11, <1>12, <1>13, <1>14, WriteStep

LEMMA UpdateStockSound ==
  ASSUME StockInv, NEW w \in Workers, UpdateStock(w)
  PROVE  StockInv'
<1>1. /\ Busy(w) /\ job[w].at = "set" /\ job[w] \in Jobs /\ JobSound(w)
      /\ UNCHANGED <<tables, requests, disputed>> /\ TypeOK
  BY BusyJob DEF UpdateStock, StockInv
<1>2. job \in [Workers -> Jobs \cup {Idle}] /\ job[w].noted \in [Shelves -> Int]
      /\ job[w].base \in Int /\ job[w].amount \in Nat
  BY <1>1, JobParts DEF TypeOK
<1>3. PICK s \in job[w].todo, n \in {job[w].amount, job[w].base + job[w].amount} :
        /\ s \in Live \cup {Product} /\ Free(w, s)
        /\ job' = [job EXCEPT ![w].todo = {}, ![w].at = NextOfMove(w, s),
                              ![w].locks = {s}, ![w].value[s] = n,
                              ![w].noted[s] = n - job[w].base]
  BY DEF UpdateStock
<1>4. s \in Shelves /\ n \in Int /\ job[w].lines[s] > 0 /\ job[w].locks = {}
  BY <1>1, <1>2, <1>3, JobParts DEF JobSound
<1>5. PICK todo, at, locks, noted :
        /\ todo = {} /\ at = NextOfMove(w, s) /\ locks = {s}
        /\ noted = [job[w].noted EXCEPT ![s] = n - job[w].base]
  OBVIOUS
<1>6. /\ todo \in SUBSET Shelves /\ locks \in SUBSET Shelves
      /\ at \in JobStates /\ at \notin {"insert", "set"} /\ locks = job[w].locks \cup {s}
  BY <1>4, <1>5 DEF NextOfMove, JobStates
<1>7. /\ noted \in [Shelves -> Int] /\ noted[s] = n - job[w].base
      /\ \A v \in Shelves : v # s => noted[v] = job[w].noted[v]
  BY <1>2, <1>4, <1>5
<1>8. job' = Rewritten(w, s, todo, at, locks, n, noted)
  <2>1. job' = [job EXCEPT ![w].todo = todo, ![w].at = at, ![w].locks = locks,
                           ![w].value[s] = n, ![w].noted[s] = n - job[w].base]
    BY <1>3, <1>5
  <2>2. QED
    BY <1>1, <1>2, <1>5, <2>1 DEF Jobs, Rewritten
<1>9. PICK j \in Jobs : job' = [job EXCEPT ![w] = j] /\ Written(w, j, s, n, noted)
  BY <1>1, <1>4, <1>6, <1>7, <1>8, WrittenJob
<1>10. s \in Variants => (s \in disputed \/ n = quantity[s] + noted[s])
  <2>1. s \in Variants => (s \in disputed \/ job[w].base = quantity[s])
    BY <1>1, <1>4 DEF JobSound
  <2>2. QED
    BY <1>2, <1>4, <1>7, <2>1
<1>11. \A v \in Variants : v # s => noted[v] = job[w].noted[v]
  BY <1>7 DEF Shelves
<1>12. s \in Live \cup {Product} /\ Free(w, s) /\ job[w].at # "insert"
  BY <1>1, <1>3
<1>13. QED
  BY <1>1, <1>4, <1>7, <1>9, <1>10, <1>11, <1>12, WriteStep


LEMMA ParentSound ==
  ASSUME StockInv, NEW w \in Workers, WriteParent(w)
  PROVE  StockInv'
<1>1. /\ Busy(w) /\ job[w].at = "parent" /\ job[w] \in Jobs /\ Free(w, Product)
      /\ job \in [Workers -> Jobs \cup {Idle}]
      /\ UNCHANGED <<variant, hasVariants, moved, order, requests, disputed>>
  BY BusyJob DEF WriteParent, StockInv, TypeOK
<1>2. Product \in Shelves /\ Product \notin Variants
  BY StockAssumption DEF Shelves, StockAssumption
<1>3. PICK total, noted : total = job[w].total /\ noted = job[w].noted
  OBVIOUS
<1>4. total \in Int /\ noted \in [Shelves -> Int]
  BY <1>1, <1>3, JobParts
<1>5. CASE job[w].op \in Transactions
  <2>1. /\ job' = [job EXCEPT ![w].at = "move", ![w].locks = @ \cup {Product},
                              ![w].value[Product] = job[w].total]
        /\ UNCHANGED quantity
    BY <1>5 DEF WriteParent
  <2>2. PICK locks, value : /\ locks = job[w].locks \cup {Product}
                            /\ value = [job[w].value EXCEPT ![Product] = total]
    OBVIOUS
  <2>3. locks \in SUBSET Shelves /\ value \in [Shelves -> Int]
    BY <1>1, <1>2, <1>4, <2>2, JobParts
  <2>4. PICK j1, j2, j3 : /\ j1 = [job[w] EXCEPT !.at = "move"]
                          /\ j2 = [j1 EXCEPT !.locks = locks]
                          /\ j3 = [j2 EXCEPT !.value = value]
    OBVIOUS
  <2>5. j1 \in Jobs /\ j1.value = job[w].value
    BY <1>1, <2>4 DEF Jobs, JobStates
  <2>6. j1.op = job[w].op /\ j1.order = job[w].order /\ j1.noted = noted /\ j1.at = "move"
    BY <1>1, <1>3, <2>4 DEF Jobs
  <2>7. j2 \in Jobs /\ j2.value = job[w].value
    BY <2>3, <2>4, <2>5 DEF Jobs
  <2>8. /\ j2.op = job[w].op /\ j2.order = job[w].order /\ j2.noted = noted
        /\ j2.at = "move" /\ j2.locks = locks
    BY <2>4, <2>5, <2>6 DEF Jobs
  <2>9. j3 \in Jobs
    BY <2>3, <2>4, <2>7, JobChanged
  <2>10. /\ j3.op = job[w].op /\ j3.order = job[w].order /\ j3.noted = noted
         /\ j3.at = "move" /\ j3.locks = locks /\ j3.value = value
    BY <2>4, <2>7, <2>8 DEF Jobs
  <2>11. Written(w, j3, Product, total, noted)
    BY <2>2, <2>10 DEF Written
  <2>12. job' = [job EXCEPT ![w] = j3]
    <3>1. PICK f, g, h : /\ f = [job EXCEPT ![w].at = "move"]
                         /\ g = [f EXCEPT ![w].locks = locks]
                         /\ h = [g EXCEPT ![w].value[Product] = total]
      OBVIOUS
    <3>2. f = [job EXCEPT ![w] = j1]
      BY <1>1, <2>4, <3>1
    <3>3. job' = [job EXCEPT ![w].at = "move", ![w].locks = locks, ![w].value[Product] = total]
      BY <1>1, <1>3, <2>1, <2>2 DEF Jobs
    <3>4. job' = h
      BY <3>1, <3>3
    <3>5. g = [job EXCEPT ![w] = j2]
      BY <1>1, <2>4, <3>1, <3>2
    <3>6. h = [job EXCEPT ![w] = j3]
      BY <1>1, <2>2, <2>4, <2>7, <3>1, <3>5
    <3>7. QED
      BY <3>4, <3>6
  <2>13. UNCHANGED <<tables, requests, disputed>>
    BY <1>1, <2>1 DEF tables
  <2>14. \A v \in Variants : v # Product => noted[v] = job[w].noted[v]
    BY <1>3
  <2>15. job[w].at # "insert" /\ Product \in Live \cup {Product}
    BY <1>1
  <2>16. Busy(w) /\ Free(w, Product)
    BY <1>1
  <2>17. QED
    BY <1>2, <1>4, <2>9, <2>11, <2>12, <2>13, <2>14, <2>15, <2>16, WriteStep
<1>6. CASE job[w].op \notin Transactions
  <2>1. quantity' = [quantity EXCEPT ![Product] = total] /\ Finish(w)
    BY <1>3, <1>6 DEF WriteParent
  <2>2. job' = [job EXCEPT ![w] = Idle] /\ job'[w] = Idle
        /\ \A x \in Workers \ {w} : job'[x] = job[x]
    BY <1>1, <2>1 DEF Finish
  <2>3. quantity' \in [Shelves -> Int] /\ \A v \in Variants : quantity'[v] = quantity[v]
    BY <1>2, <1>4, <2>1 DEF StockInv, TypeOK, Shelves
  <2>4. job' \in [Workers -> Jobs \cup {Idle}]
    BY <1>1, <2>2
  <2>5. TypeOK'
    BY <1>1, <2>3, <2>4 DEF StockInv, TypeOK
  <2>6. LedgerAccounts'
    BY <1>1, <2>3 DEF StockInv, LedgerAccounts, Live
  <2>7. \A x \in Workers : RowsFit(x)
    BY <1>1, <2>3 DEF RowsFit
  <2>8. Others(w) /\ JobSound(w)' /\ LocksGranted(w)
    BY <2>2, SameKept, IdleSound DEF Others
  <2>9. QED
    BY <2>5, <2>6, <2>7, <2>8, OneSteps
<1>7. QED
  BY <1>5, <1>6

\* The commit publishes the rows a transaction has written and its movements.
LEMMA CommitSound ==
  ASSUME StockInv, NEW w \in Workers, Commit(w)
  PROVE  StockInv'
<1>1. /\ Busy(w) /\ job[w].at = "move" /\ job[w] \in Jobs /\ JobSound(w)
      /\ quantity' = [s \in Shelves |-> Seen(w, s)]
      /\ moved' = [v \in Variants |-> moved[v] + job[w].noted[v]]
      /\ order' = [o \in Orders |-> IF o \in job[w].order THEN Committed(w, o) ELSE order[o]]
      /\ disputed' = disputed \cup StaleReads(job[w].locks \cap Variants)
      /\ Finish(w) /\ UNCHANGED <<variant, hasVariants, requests>>
  BY BusyJob DEF Commit, StockInv
<1>2. job' \in [Workers -> Jobs \cup {Idle}] /\ job'[w] = Idle
      /\ \A x \in Workers \ {w} : job'[x] = job[x]
  BY <1>1 DEF Finish, StockInv, TypeOK
<1>3. \A s \in Shelves : Seen(w, s) \in Int
  BY <1>1, SeenIs
<1>4. quantity' \in [Shelves -> Int]
  BY <1>1, <1>3
<1>5. \A v \in Variants : v \in Shelves /\ job[w].noted[v] \in Int /\ moved[v] \in Int
                          /\ quantity[v] \in Int
  BY <1>1, JobParts DEF Shelves, StockInv, TypeOK
<1>6. moved' \in [Variants -> Int]
  BY <1>1, <1>5
<1>7. ASSUME NEW o \in Orders
      PROVE  order'[o] \in [status: {"none", "placed", "cancelled"}, lines: [Shelves -> Nat]]
  <2>1. order[o] \in [status: {"none", "placed", "cancelled"}, lines: [Shelves -> Nat]]
    BY DEF StockInv, TypeOK
  <2>2. CASE o \in job[w].order
    <3>1. job[w].op \in OrderMoves
      BY <1>1, <2>2 DEF JobSound
    <3>2. PICK c : c = Committed(w, o) /\ order'[o] = c
      BY <1>1, <2>2
    <3>3. CASE job[w].op = "order"
      <4>1. c = [status |-> "placed", lines |-> job[w].lines]
        BY <3>2, <3>3, Zenon DEF Committed
      <4>2. job[w].lines \in [Shelves -> Nat]
        BY <1>1, JobParts
      <4>3. QED
        BY <3>2, <4>1, <4>2
    <3>4. CASE job[w].op = "return"
      <4>1. job[w].op # "order"
        BY <3>4
      <4>2. c = [order[o] EXCEPT !.status = "cancelled"]
        BY <3>2, <3>4, <4>1, Zenon DEF Committed
      <4>3. QED
        BY <2>1, <3>2, <4>2
    <3>5. CASE job[w].op = "reopen"
      <4>1. job[w].op # "order" /\ job[w].op # "return"
        BY <3>5
      <4>2. c = [order[o] EXCEPT !.status = "placed"]
        BY <3>2, <3>5, <4>1, Zenon DEF Committed
      <4>3. QED
        BY <2>1, <3>2, <4>2
    <3>6. QED
      BY <3>1, <3>3, <3>4, <3>5 DEF OrderMoves
  <2>3. CASE o \notin job[w].order
    BY <1>1, <2>1, <2>3
  <2>4. QED
    BY <2>2, <2>3
<1>8. order' \in [Orders -> [status: {"none", "placed", "cancelled"}, lines: [Shelves -> Nat]]]
  BY <1>1, <1>7
<1>9. disputed' \subseteq Variants /\ disputed \subseteq disputed'
  BY <1>1 DEF StaleReads, StockInv, TypeOK
<1>10. TypeOK'
  BY <1>1, <1>2, <1>4, <1>6, <1>8, <1>9 DEF StockInv, TypeOK
<1>11. ASSUME NEW v \in Variants
       PROVE  /\ quantity'[v] = Seen(w, v) /\ moved'[v] = moved[v] + job[w].noted[v]
              /\ v \in disputed \/ Seen(w, v) = quantity[v] + job[w].noted[v]
              /\ v \notin job[w].locks => Seen(w, v) = quantity[v]
  BY <1>1, <1>5, SeenIs DEF Seen
<1>12. LedgerAccounts'
  <2> SUFFICES ASSUME NEW v \in Variants, variant'[v] = "live", v \notin disputed'
               PROVE  quantity'[v] = moved'[v]
    BY DEF LedgerAccounts, Live
  <2>1. quantity[v] = moved[v]
    BY <1>1, <1>9 DEF StockInv, LedgerAccounts, Live
  <2>2. QED
    BY <1>9, <1>11, <2>1
<1>13. ASSUME NEW x \in Workers \ {w} PROVE RowsFit(x)
  <2> SUFFICES ASSUME NEW v \in Variants, Busy(x), quantity'[v] # quantity[v]
               PROVE  /\ v \notin job[x].locks
                      /\ (job[x].at = "set" /\ job[x].lines[v] > 0) => v \in disputed'
    BY <1>1, <1>9 DEF RowsFit
  <2>1. v \in job[w].locks
    BY <1>11
  <2>2. v \notin job[x].locks
    BY <1>1, <2>1 DEF StockInv, LocksExclusive
  <2>3. (job[x].at = "set" /\ job[x].lines[v] > 0) => v \in StaleReads(job[w].locks \cap Variants)
    BY <2>1 DEF StaleReads
  <2>4. QED
    BY <1>1, <2>2, <2>3
<1>14. Others(w) /\ JobSound(w)' /\ LocksGranted(w)
  BY <1>2, SameKept, IdleSound DEF Others
<1>15. QED
  BY <1>10, <1>12, <1>13, <1>14, OneSteps

-----------------------------------------------------------------------------
(* The theorems.                                                            *)

LEMMA StockNext ==
  ASSUME StockInv, [Next]_vars
  PROVE  StockInv'
<1>1. ASSUME NEW w \in Workers, Start(w) PROVE StockInv'
  <2>1. ASSUME NEW s \in Shelves, NEW n \in 0..MaxStock, Adjust(w, s, n) PROVE StockInv'
    <3>1. n \in Nat /\ ReadStock(w, "adjust", s, n)
      BY <2>1 DEF Adjust
    <3>2. QED
      BY <3>1, ReadSound
  <2>2. ASSUME NEW s \in Shelves, NEW n \in Quantities, Receive(w, s, n) PROVE StockInv'
    <3>1. n \in Nat /\ ReadStock(w, "receive", s, n)
      BY <2>2, StockAssumption DEF Receive, StockAssumption
    <3>2. QED
      BY <3>1, ReadSound
  <2>3. QED
    BY <1>1, <2>1, <2>2, PlaceSound, MoveOrderSound, CreateSound, UpdateSound, RemoveSound
       DEF Start
<1>2. ASSUME NEW w \in Workers, Continue(w) PROVE StockInv'
  BY <1>2, InsertSound, CheckSound, MoveSound, SkipSound, CommitSound, UpdateStockSound,
     SumSound, ParentSound, FlagSound DEF Continue
<1>3. ASSUME NEW w \in Workers, Crash(w) PROVE StockInv'
  BY <1>3, FinishStep DEF Crash, tables, StockInv, TypeOK
<1>4. ASSUME NEW n \in 0..MaxStock, EditProduct(n) PROVE StockInv'
  BY <1>4, EditSound
<1>5. CASE UNCHANGED vars
  <2>1. UNCHANGED <<variant, hasVariants, quantity, moved, order, job, requests, disputed>>
    BY <1>5 DEF vars, tables
  <2>2. TypeOK'
    BY <2>1 DEF StockInv, TypeOK
  <2>3. LedgerAccounts'
    BY <2>1, LedgerKept DEF StockInv
  <2>4. \A x \in Workers : KeepsJob(x) /\ RowsFit(x)
    BY <2>1, SameKept, RowsSame
  <2>5. LocksExclusive'
    BY <2>4 DEF StockInv, LocksExclusive, KeepsJob
  <2>6. QED
    BY <2>2, <2>3, <2>4, <2>5, KeptSound DEF StockInv
<1>6. QED
  BY <1>1, <1>2, <1>3, <1>4, <1>5 DEF Next

LEMMA StockInit == Init => StockInv
<1> SUFFICES ASSUME Init PROVE StockInv
  OBVIOUS
<1>1. \A w \in Workers : ~Busy(w)
  BY DEF Init, Busy
<1>2. \A v \in Variants : v \in Shelves /\ v # Product
  BY StockAssumption DEF Shelves, StockAssumption
<1>3. Cardinality(FirstVariants) \in Int
  BY StockAssumption, FS_Subset, FS_CardinalityType DEF StockAssumption
<1>4. /\ variant \in [Variants -> {"none", "live", "deleted"}] /\ hasVariants \in BOOLEAN
      /\ quantity \in [Shelves -> Int] /\ moved \in [Variants -> Int]
      /\ job \in [Workers -> Jobs \cup {Idle}] /\ disputed \subseteq Variants
  BY <1>3 DEF Init
<1>5. requests \in 0..MaxRequests
  BY StockAssumption DEF Init, StockAssumption
<1>6. order \in [Orders -> [status: {"none", "placed", "cancelled"}, lines: [Shelves -> Nat]]]
  <2>1. PICK lines : lines = [s \in Shelves |-> IF s \in FirstVariants THEN 1 ELSE 0]
    OBVIOUS
  <2>2. lines \in [Shelves -> Nat] /\ NoLines \in [Shelves -> Nat]
    BY <2>1 DEF NoLines
  <2>3. \A o \in Orders : order[o] = [status |-> "cancelled", lines |-> lines] \/ order[o] = NoOrder
    BY <2>1 DEF Init
  <2>4. \A o \in Orders :
          order[o] \in [status: {"none", "placed", "cancelled"}, lines: [Shelves -> Nat]]
    BY <2>2, <2>3 DEF NoOrder
  <2>5. QED
    BY <2>4 DEF Init
<1>7. TypeOK
  BY <1>4, <1>5, <1>6 DEF TypeOK
<1>8. LedgerAccounts
  BY <1>2 DEF Init, LedgerAccounts, Live
<1>9. QED
  BY <1>1, <1>7, <1>8 DEF StockInv, LocksExclusive, JobSound

\* Every variable keeps its shape; the product's quantity is a number because
\* the sum over its variants is one.
THEOREM TypeCorrect == Spec => []TypeOK
<1>1. StockInv => TypeOK
  BY DEF StockInv
<1>2. QED
  BY StockInit, StockNext, <1>1, PTL DEF Spec

\* The inventory movements account for the quantity of every variant, whatever
\* sales, returns and deliveries overlap or fail half-way, unless the staff
\* wrote over it (VariantsService.update, InventoryService on a stale read).
THEOREM LedgerHolds == Spec => []LedgerAccounts
<1>1. StockInv => LedgerAccounts
  BY DEF StockInv
<1>2. QED
  BY StockInit, StockNext, <1>1, PTL DEF Spec

-----------------------------------------------------------------------------
(* The inductive invariant of RequestRepairs.                               *)

\* The sum syncParentStock would compute for worker w.
SeenSum(w) == Sum([v \in Live |-> Seen(w, v)], Live)

\* Which requests reach which state, and which may hold locks.
KnownJob(w) ==
  Busy(w) =>
    /\ job[w].todo \subseteq {s \in Shelves : job[w].lines[s] > 0}
    /\ job[w].at \in {"insert", "check", "set"} => job[w].op \in Transactions /\ job[w].locks = {}
    /\ job[w].at = "move" => job[w].op \in Transactions
    /\ job[w].at = "flag" => job[w].op = "create"
    /\ job[w].at \in {"count", "unflag"} => job[w].op = "remove"
    /\ job[w].op \notin Transactions => job[w].op # "edit" /\ job[w].locks = {}

\* A request that nothing has overlapped: the others are idle, and once it has
\* written a variant and come back to its lines, the product's row holds the sum.
LoneJob(w) ==
  (Busy(w) /\ job[w].overlap = 0) =>
    /\ \A x \in Workers \ {w} : ~Busy(x)
    /\ (job[w].op = "create" /\ job[w].at # "flag") => hasVariants
    /\ (job[w].op = "remove" /\ job[w].at \in {"sum", "parent"}) => Live # {}
    /\ job[w].at = "unflag" => Live = {}
    /\ job[w].at = "parent" => job[w].total = SeenSum(w)
    /\ (/\ job[w].at = "move" /\ job[w].lines[Product] = 0
        /\ job[w].locks \cap Variants # {} /\ hasVariants) =>
         Product \in job[w].locks /\ job[w].value[Product] = SeenSum(w)

RepairInv == \A w \in Workers : KnownJob(w) /\ LoneJob(w)

-----------------------------------------------------------------------------
(* What the steps do to a request.                                          *)

\* What a step leaves of a request that goes on.
Continues(w, at) ==
  /\ Busy(w) /\ Busy(w)' /\ job'[w].at = at
  /\ job'[w].op = job[w].op /\ job'[w].lines = job[w].lines
  /\ job'[w].overlap = job[w].overlap
  /\ \A x \in Workers \ {w} : job'[x] = job[x]

\* The rows it has written, the lines left and the movements.
KeepsWrites(w) ==
  /\ job'[w].locks = job[w].locks /\ job'[w].value = job[w].value
  /\ job'[w].noted = job[w].noted

Writes(w, s, n, noted) ==
  /\ job'[w].locks = job[w].locks \cup {s} /\ job'[w].noted = noted
  /\ job'[w].value = [job[w].value EXCEPT ![s] = n]

LEMMA StillBusy ==
  ASSUME TypeOK, NEW w \in Workers, Busy(w), job'[w].op = job[w].op
  PROVE  Busy(w)'
BY BusyJob, JobParts DEF Busy, Idle, HandlerKinds

LEMMA InsertShape ==
  ASSUME TypeOK, NEW w \in Workers, InsertOrder(w)
  PROVE  /\ Continues(w, "move") /\ KeepsWrites(w) /\ job'[w].todo = job[w].todo
         /\ job[w].at = "insert" /\ job[w].todo \subseteq Live \cup {Product}
<1>1. PICK o \in Orders :
        job' = [job EXCEPT ![w].at = "move", ![w].order = {o}, ![w].refs = job[w].todo]
  BY DEF InsertOrder
<1>2. Busy(w) /\ job[w].at = "insert" /\ job[w] \in Jobs /\ job[w].todo \subseteq Live \cup {Product}
  BY BusyJob DEF InsertOrder
<1>3. /\ job'[w].at = "move" /\ job'[w].op = job[w].op /\ job'[w].lines = job[w].lines
      /\ job'[w].overlap = job[w].overlap /\ job'[w].todo = job[w].todo
      /\ \A x \in Workers \ {w} : job'[x] = job[x]
  BY <1>1, <1>2 DEF TypeOK, Jobs
<1>4. KeepsWrites(w)
  BY <1>1, <1>2 DEF TypeOK, Jobs, KeepsWrites
<1>5. QED
  BY <1>2, <1>3, <1>4, StillBusy DEF Continues

LEMMA CheckShape ==
  ASSUME TypeOK, NEW w \in Workers, CheckStock(w), ~Finish(w)
  PROVE  /\ Continues(w, "move") /\ KeepsWrites(w) /\ job[w].at = "check"
         /\ job'[w].todo = job[w].todo \cap (Live \cup {Product})
         /\ \A s \in job'[w].todo : job[w].lines[s] <= Seen(w, s)
<1>1. PICK todo : todo = job[w].todo \cap (Live \cup {Product})
  OBVIOUS
<1>2. /\ job' = [job EXCEPT ![w].at = "move", ![w].todo = todo]
      /\ \A s \in todo : job[w].lines[s] <= Seen(w, s)
  BY <1>1 DEF CheckStock
<1>3. Busy(w) /\ job[w].at = "check" /\ job[w] \in Jobs
  BY BusyJob DEF CheckStock
<1>4. /\ job'[w].at = "move" /\ job'[w].op = job[w].op /\ job'[w].lines = job[w].lines
      /\ job'[w].overlap = job[w].overlap /\ job'[w].todo = todo
      /\ \A x \in Workers \ {w} : job'[x] = job[x]
  BY <1>2, <1>3 DEF TypeOK, Jobs
<1>5. KeepsWrites(w)
  BY <1>2, <1>3 DEF TypeOK, Jobs, KeepsWrites
<1>6. QED
  BY <1>1, <1>2, <1>3, <1>4, <1>5, StillBusy DEF Continues

LEMMA MoveShape ==
  ASSUME TypeOK, NEW w \in Workers, MoveLine(w)
  PROVE  /\ job[w].op \in OrderMoves /\ job[w].at = "move"
         /\ \E s \in job[w].todo :
              /\ Continues(w, NextOfMove(w, s)) /\ s \in Live \cup {Product}
              /\ job'[w].todo = job[w].todo \ {s}
              /\ Writes(w, s, Seen(w, s) + Signed(w, s), Noted(w, s))
<1>1. PICK s \in job[w].todo :
        /\ s \in Live \cup {Product} /\ Free(w, s)
        /\ job' = [job EXCEPT ![w].todo = @ \ {s}, ![w].at = NextOfMove(w, s),
                              ![w].locks = @ \cup {s},
                              ![w].value[s] = Seen(w, s) + Signed(w, s),
                              ![w].noted = Noted(w, s)]
  BY DEF MoveLine
<1>2. Busy(w) /\ job[w].at = "move" /\ job[w].op \in OrderMoves /\ job[w] \in Jobs
  BY BusyJob DEF MoveLine
<1>3. PICK at, n, noted : at = NextOfMove(w, s) /\ n = Seen(w, s) + Signed(w, s)
                          /\ noted = Noted(w, s)
  OBVIOUS
<1>4. job' = [job EXCEPT ![w].todo = @ \ {s}, ![w].at = at, ![w].locks = @ \cup {s},
                         ![w].value[s] = n, ![w].noted = noted]
  BY <1>1, <1>3
<1>5. /\ job'[w].at = at /\ job'[w].op = job[w].op /\ job'[w].lines = job[w].lines
      /\ job'[w].overlap = job[w].overlap /\ job'[w].todo = job[w].todo \ {s}
      /\ \A x \in Workers \ {w} : job'[x] = job[x]
  BY <1>2, <1>4 DEF TypeOK, Jobs
<1>6. Writes(w, s, n, noted)
  BY <1>2, <1>4 DEF TypeOK, Jobs, Writes
<1>7. Continues(w, at)
  BY <1>2, <1>5, StillBusy DEF Continues
<1>8. QED
  BY <1>1, <1>2, <1>3, <1>5, <1>6, <1>7

LEMMA SkipShape ==
  ASSUME TypeOK, NEW w \in Workers, SkipLine(w)
  PROVE  /\ Continues(w, "move") /\ KeepsWrites(w) /\ job[w].at = "move"
         /\ job[w].op = "return" /\ job'[w].todo \subseteq job[w].todo
<1>1. PICK s \in job[w].todo : job' = [job EXCEPT ![w].todo = @ \ {s}]
  BY DEF SkipLine
<1>2. Busy(w) /\ job[w].at = "move" /\ job[w].op = "return" /\ job[w] \in Jobs
  BY BusyJob DEF SkipLine
<1>3. /\ job'[w].at = "move" /\ job'[w].op = job[w].op /\ job'[w].lines = job[w].lines
      /\ job'[w].overlap = job[w].overlap /\ job'[w].todo \subseteq job[w].todo
      /\ \A x \in Workers \ {w} : job'[x] = job[x]
  BY <1>1, <1>2 DEF TypeOK, Jobs
<1>4. KeepsWrites(w)
  BY <1>1, <1>2 DEF TypeOK, Jobs, KeepsWrites
<1>5. QED
  BY <1>2, <1>3, <1>4, StillBusy DEF Continues

\* The quantity that InventoryService writes.
Restocked(w) == IF job[w].op = "adjust" THEN job[w].amount ELSE job[w].base + job[w].amount

LEMMA UpdateShape ==
  ASSUME TypeOK, NEW w \in Workers, UpdateStock(w), job[w].locks = {}
  PROVE  /\ job[w].at = "set"
         /\ \E s \in job[w].todo :
              /\ Continues(w, NextOfMove(w, s)) /\ s \in Live \cup {Product}
              /\ job'[w].todo = {}
              /\ Writes(w, s, Restocked(w),
                        [job[w].noted EXCEPT ![s] = Restocked(w) - job[w].base])
<1>1. PICK n, base : n = Restocked(w) /\ base = job[w].base
  OBVIOUS
<1>2. PICK s \in job[w].todo :
        /\ s \in Live \cup {Product}
        /\ job' = [job EXCEPT ![w].todo = {}, ![w].at = NextOfMove(w, s), ![w].locks = {s},
                              ![w].value[s] = n, ![w].noted[s] = n - job[w].base]
  BY <1>1 DEF UpdateStock, Restocked
<1>3. Busy(w) /\ job[w].at = "set" /\ job[w] \in Jobs
  BY BusyJob DEF UpdateStock
<1>4. PICK at : at = NextOfMove(w, s)
  OBVIOUS
<1>5. PICK d : d = n - base
  OBVIOUS
<1>6. job' = [job EXCEPT ![w].todo = {}, ![w].at = at, ![w].locks = {s},
                         ![w].value[s] = n, ![w].noted[s] = d]
  BY <1>1, <1>2, <1>4, <1>5
<1>7. /\ job'[w].at = at /\ job'[w].op = job[w].op /\ job'[w].lines = job[w].lines
      /\ job'[w].overlap = job[w].overlap /\ job'[w].todo = {}
      /\ \A x \in Workers \ {w} : job'[x] = job[x]
  BY <1>3, <1>6 DEF TypeOK, Jobs
<1>8. Writes(w, s, n, [job[w].noted EXCEPT ![s] = d])
  BY <1>3, <1>6 DEF TypeOK, Jobs, Writes
<1>9. Continues(w, at)
  BY <1>3, <1>7, StillBusy DEF Continues
<1>10. QED
  BY <1>1, <1>2, <1>3, <1>4, <1>5, <1>7, <1>8, <1>9

LEMMA SumShape ==
  ASSUME TypeOK, NEW w \in Workers, SumVariants(w)
  PROVE  /\ job[w].at = "sum" /\ KeepsWrites(w) /\ job'[w].todo = job[w].todo
         /\ \/ Continues(w, "move") /\ job[w].op \in Transactions /\ ~hasVariants
            \/ Continues(w, "parent") /\ job'[w].total = SeenSum(w)
<1>1. Busy(w) /\ job[w].at = "sum" /\ job[w] \in Jobs
  BY BusyJob DEF SumVariants
<1>2. PICK total : total = SeenSum(w)
  OBVIOUS
<1>3. ASSUME NEW at, job'[w].at = at, job'[w].op = job[w].op, job'[w].lines = job[w].lines,
             job'[w].overlap = job[w].overlap, \A x \in Workers \ {w} : job'[x] = job[x]
      PROVE  Continues(w, at)
  BY <1>1, <1>3, StillBusy DEF Continues
<1>4. CASE job' = [job EXCEPT ![w].at = "move"] /\ job[w].op \in Transactions /\ ~hasVariants
  <2>1. KeepsWrites(w) /\ job'[w].todo = job[w].todo
    BY <1>1, <1>4 DEF TypeOK, Jobs, KeepsWrites
  <2>2. /\ job'[w].at = "move" /\ job'[w].op = job[w].op /\ job'[w].lines = job[w].lines
        /\ job'[w].overlap = job[w].overlap /\ \A x \in Workers \ {w} : job'[x] = job[x]
    BY <1>1, <1>4 DEF TypeOK, Jobs
  <2>3. QED
    BY <1>1, <1>3, <1>4, <2>1, <2>2
<1>5. CASE job' = [job EXCEPT ![w].at = "parent", ![w].total = total]
  <2>1. KeepsWrites(w) /\ job'[w].todo = job[w].todo /\ job'[w].total = total
    BY <1>1, <1>5 DEF TypeOK, Jobs, KeepsWrites
  <2>2. /\ job'[w].at = "parent" /\ job'[w].op = job[w].op /\ job'[w].lines = job[w].lines
        /\ job'[w].overlap = job[w].overlap /\ \A x \in Workers \ {w} : job'[x] = job[x]
    BY <1>1, <1>5 DEF TypeOK, Jobs
  <2>3. QED
    BY <1>1, <1>2, <1>3, <2>1, <2>2
<1>6. QED
  BY <1>2, <1>4, <1>5 DEF SumVariants, SeenSum

LEMMA ParentShape ==
  ASSUME TypeOK, NEW w \in Workers, WriteParent(w), job[w].op \in Transactions
  PROVE  /\ Continues(w, "move") /\ job[w].at = "parent" /\ job'[w].todo = job[w].todo
         /\ Writes(w, Product, job[w].total, job[w].noted) /\ UNCHANGED quantity
<1>1. PICK total : total = job[w].total
  OBVIOUS
<1>2. Busy(w) /\ job[w].at = "parent" /\ job[w] \in Jobs /\ UNCHANGED quantity
  BY BusyJob DEF WriteParent
<1>3. job' = [job EXCEPT ![w].at = "move", ![w].locks = @ \cup {Product},
                         ![w].value[Product] = total]
  BY <1>1 DEF WriteParent
<1>4. /\ job'[w].at = "move" /\ job'[w].op = job[w].op /\ job'[w].lines = job[w].lines
      /\ job'[w].overlap = job[w].overlap /\ job'[w].todo = job[w].todo
      /\ \A x \in Workers \ {w} : job'[x] = job[x]
  BY <1>2, <1>3 DEF TypeOK, Jobs
<1>5. Writes(w, Product, total, job[w].noted)
  BY <1>2, <1>3 DEF TypeOK, Jobs, Writes
<1>6. QED
  BY <1>1, <1>2, <1>4, <1>5, StillBusy DEF Continues

LEMMA FlagShape ==
  ASSUME TypeOK, NEW w \in Workers, FlagVariants(w) \/ CountVariants(w)
  PROVE  /\ KeepsWrites(w) /\ job'[w].todo = job[w].todo
         /\ \/ FlagVariants(w) /\ job[w].at = "flag" /\ Continues(w, "sum")
            \/ CountVariants(w) /\ job[w].at = "count" /\ Live = {} /\ Continues(w, "unflag")
            \/ CountVariants(w) /\ job[w].at = "count" /\ Live # {} /\ Continues(w, "sum")
<1>1. PICK at : at = IF CountVariants(w) /\ Live = {} THEN "unflag" ELSE "sum"
  OBVIOUS
<1>2. Busy(w) /\ job[w] \in Jobs /\ job' = [job EXCEPT ![w].at = at]
      /\ (FlagVariants(w) => job[w].at = "flag") /\ (CountVariants(w) => job[w].at = "count")
  BY <1>1, BusyJob DEF FlagVariants, CountVariants
<1>3. /\ job'[w].at = at /\ job'[w].op = job[w].op /\ job'[w].lines = job[w].lines
      /\ job'[w].overlap = job[w].overlap /\ job'[w].todo = job[w].todo
      /\ \A x \in Workers \ {w} : job'[x] = job[x]
  BY <1>2 DEF TypeOK, Jobs
<1>4. KeepsWrites(w)
  BY <1>2 DEF TypeOK, Jobs, KeepsWrites
<1>5. Continues(w, at)
  BY <1>2, <1>3, StillBusy DEF Continues
<1>6. QED
  BY <1>1, <1>2, <1>3, <1>4, <1>5

-----------------------------------------------------------------------------
(* How many requests overlap.                                               *)

LEMMA RequestCounts ==
  ASSUME NEW op, NEW at, NEW lines
  PROVE  Request(op, at, lines).overlap = Cardinality({x \in Workers : Busy(x)})
<1>1. PICK n, todo : /\ n = Cardinality({x \in Workers : Busy(x)})
                     /\ todo = {s \in Shelves : lines[s] > 0}
  OBVIOUS
<1>2. Request(op, at, lines) =
        [op |-> op, at |-> at, lines |-> lines, todo |-> todo,
         locks |-> {}, value |-> NoLines, noted |-> NoLines, refs |-> {}, order |-> {},
         amount |-> 0, base |-> 0, total |-> 0, overlap |-> n]
  BY <1>1 DEF Request
<1>3. Request(op, at, lines).overlap = n
  BY <1>2
<1>4. QED
  BY <1>1, <1>3

LEMMA OverlapCounts ==
  ASSUME TypeOK, NEW x \in Workers, job'[x] = Overlapped[x]
  PROVE  /\ Busy(x) => job'[x].overlap = job[x].overlap + 1
         /\ ~Busy(x) => ~Busy(x)'
<1>1. Busy(x) => job[x] \in Jobs
  BY BusyJob
<1>2. Busy(x) => job'[x].overlap = job[x].overlap + 1
  BY <1>1 DEF Overlapped, Jobs
<1>3. QED
  BY <1>2 DEF Overlapped, Busy

-----------------------------------------------------------------------------
(* A request that no other overlaps.                                        *)

LEMMA SeenSumSame ==
  ASSUME NEW w, UNCHANGED variant, \A v \in Variants : Seen(w, v)' = Seen(w, v)
  PROVE  SeenSum(w)' = SeenSum(w)
<1>1. PICK l, f : l = Live /\ f = [v \in Live |-> Seen(w, v)]
  OBVIOUS
<1>2. Live' = l /\ \A v \in l : v \in Variants
  BY <1>1 DEF Live
<1>3. [v \in Live |-> Seen(w, v)]' = f
  BY <1>1, <1>2
<1>4. QED
  BY <1>1, <1>2, <1>3 DEF SeenSum

LEMMA SeenKept ==
  ASSUME NEW w, UNCHANGED quantity, KeepsWrites(w)
  PROVE  \A v \in Variants : Seen(w, v)' = Seen(w, v)
BY DEF Seen, KeepsWrites

LEMMA OthersRepair ==
  ASSUME TypeOK, RepairInv, NEW w \in Workers, Busy(w),
         \A x \in Workers \ {w} : job'[x] = job[x], KnownJob(w)', LoneJob(w)'
  PROVE  RepairInv'
<1>1. ASSUME NEW x \in Workers \ {w} PROVE KnownJob(x)' /\ LoneJob(x)'
  <2>1. KnownJob(x)'
    BY DEF RepairInv, KnownJob, Busy
  <2>2. Busy(x)' => Busy(x) /\ job'[x].overlap = job[x].overlap
    BY DEF Busy
  <2>3. LoneJob(x)'
    BY <2>2 DEF RepairInv, LoneJob
  <2>4. QED
    BY <2>1, <2>3
<1>2. QED
  BY <1>1 DEF RepairInv

\* Every other worker is idle, before and after.
LEMMA Alone ==
  ASSUME RepairInv, NEW w \in Workers, NEW at, Continues(w, at), job'[w].overlap = 0
  PROVE  /\ LoneJob(w) /\ KnownJob(w) /\ job[w].overlap = 0
         /\ \A x \in Workers \ {w} : ~Busy(x)'
<1>1. LoneJob(w) /\ KnownJob(w) /\ job[w].overlap = 0 /\ Busy(w)
  BY DEF RepairInv, Continues
<1>2. \A x \in Workers \ {w} : ~Busy(x)
  BY <1>1 DEF LoneJob
<1>3. QED
  BY <1>1, <1>2 DEF Continues, Busy

LEMMA MoveKnown ==
  ASSUME StockInv, RepairInv, NEW w \in Workers, NEW at,
         Continues(w, at), at = "move" \/ at \in {"sum", "parent"},
         at = "move" => job[w].op \in Transactions,
         job'[w].todo \subseteq job[w].todo,
         job[w].op \in Transactions \/ KeepsWrites(w)
  PROVE  KnownJob(w)'
BY DEF RepairInv, KnownJob, Continues, KeepsWrites

LEMMA WritesSeen ==
  ASSUME StockInv, NEW w \in Workers, Busy(w), UNCHANGED quantity, NEW n, NEW noted,
         Writes(w, Product, n, noted)
  PROVE  /\ \A v \in Variants : Seen(w, v)' = Seen(w, v)
         /\ Product \in job'[w].locks /\ job'[w].value[Product] = n
<1>1. job[w].value \in [Shelves -> Int]
  BY BusyJob, JobParts DEF StockInv
<1>2. Product \in Shelves /\ \A v \in Variants : v \in Shelves /\ v # Product
  BY StockAssumption DEF StockAssumption, Shelves
<1>3. QED
  BY <1>1, <1>2 DEF Writes, Seen

\* A transaction that has written a variant goes on to recompute the sum.
LEMMA LinesRepair ==
  ASSUME StockInv, RepairInv, NEW w \in Workers, MoveLine(w) \/ UpdateStock(w)
  PROVE  RepairInv'
<1>1. Busy(w) /\ KnownJob(w) /\ TypeOK
  BY DEF MoveLine, UpdateStock, RepairInv, StockInv
<1>2. UpdateStock(w) => job[w].at = "set" /\ job[w].locks = {}
  BY <1>1 DEF UpdateStock, KnownJob
<1>3. PICK s \in job[w].todo :
        /\ Continues(w, NextOfMove(w, s)) /\ job'[w].todo \subseteq job[w].todo
        /\ s \in Live \cup {Product}
  BY <1>1, <1>2, MoveShape, UpdateShape
<1>4. job[w].op \in Transactions
  BY <1>1, <1>2, MoveShape DEF KnownJob
<1>5. PICK at : at = NextOfMove(w, s) /\ at \in {"move", "sum"}
  BY DEF NextOfMove
<1>6. Continues(w, at)
  BY <1>3, <1>5
<1>7. KnownJob(w)'
  BY <1>3, <1>4, <1>5, <1>6, MoveKnown
<1>8. LoneJob(w)'
  <2> SUFFICES ASSUME job'[w].overlap = 0 PROVE LoneJob(w)'
    BY DEF LoneJob
  <2>1. \A x \in Workers \ {w} : ~Busy(x)'
    BY <1>6, Alone
  <2>2. job'[w].op \notin {"create", "remove"} /\ job'[w].at = at
    BY <1>4, <1>6 DEF Continues, Transactions
  <2>3. at = "move" => job'[w].lines[Product] > 0
    <3>1. at = "move" => s = Product
      BY <1>5 DEF NextOfMove
    <3>2. job[w].lines[s] > 0
      BY <1>1, <1>3 DEF KnownJob
    <3>3. QED
      BY <1>6, <3>1, <3>2 DEF Continues
  <2>4. at # "parent" /\ at # "unflag"
    BY <1>5
  <2>5. QED
    BY <2>1, <2>2, <2>3, <2>4 DEF LoneJob
<1>9. QED
  BY <1>1, <1>6, <1>7, <1>8, OthersRepair DEF Continues

LEMMA StartedRepair ==
  ASSUME StockInv, RepairInv, NEW w \in Workers, InsertOrder(w) \/ (CheckStock(w) /\ ~Finish(w))
  PROVE  RepairInv'
<1>1. Busy(w) /\ KnownJob(w) /\ TypeOK
  BY DEF InsertOrder, CheckStock, RepairInv, StockInv
<1>2. /\ Continues(w, "move") /\ KeepsWrites(w) /\ job'[w].todo \subseteq job[w].todo
      /\ job[w].at \in {"insert", "check"}
  BY <1>1, InsertShape, CheckShape
<1>3. job[w].op \in Transactions /\ job[w].locks = {}
  BY <1>1, <1>2 DEF KnownJob
<1>4. KnownJob(w)'
  BY <1>2, <1>3, MoveKnown
<1>5. LoneJob(w)'
  <2> SUFFICES ASSUME job'[w].overlap = 0 PROVE LoneJob(w)'
    BY DEF LoneJob
  <2>1. \A x \in Workers \ {w} : ~Busy(x)'
    BY <1>2, Alone
  <2>2. /\ job'[w].op \notin {"create", "remove"} /\ job'[w].at = "move"
        /\ job'[w].locks = {}
    BY <1>2, <1>3 DEF Continues, Transactions, KeepsWrites
  <2>3. QED
    BY <2>1, <2>2 DEF LoneJob
<1>6. QED
  BY <1>1, <1>2, <1>4, <1>5, OthersRepair DEF Continues

LEMMA SkipRepair ==
  ASSUME StockInv, RepairInv, NEW w \in Workers, SkipLine(w)
  PROVE  RepairInv'
<1>1. Busy(w) /\ TypeOK /\ UNCHANGED <<variant, hasVariants, quantity>>
  BY DEF SkipLine, StockInv, tables
<1>2. /\ Continues(w, "move") /\ KeepsWrites(w) /\ job[w].at = "move"
      /\ job[w].op = "return" /\ job'[w].todo \subseteq job[w].todo
  BY <1>1, SkipShape
<1>3. KnownJob(w)'
  BY <1>2, MoveKnown DEF Transactions
<1>4. LoneJob(w)'
  <2> SUFFICES ASSUME job'[w].overlap = 0 PROVE LoneJob(w)'
    BY DEF LoneJob
  <2>1. (\A x \in Workers \ {w} : ~Busy(x)') /\ LoneJob(w) /\ job[w].overlap = 0
    BY <1>2, Alone
  <2>2. job'[w].op = "return" /\ job'[w].at = "move"
    BY <1>2 DEF Continues
  <2>3. PICK sum : sum = SeenSum(w) /\ SeenSum(w)' = sum
    BY <1>1, <1>2, SeenKept, SeenSumSame
  <2>4. (/\ job[w].lines[Product] = 0 /\ job[w].locks \cap Variants # {} /\ hasVariants) =>
          Product \in job[w].locks /\ job[w].value[Product] = sum
    BY <1>1, <1>2, <2>1, <2>3 DEF LoneJob
  <2>5. (/\ job'[w].lines[Product] = 0 /\ job'[w].locks \cap Variants # {} /\ hasVariants') =>
          Product \in job'[w].locks /\ job'[w].value[Product] = sum
    BY <1>1, <1>2, <2>4 DEF Continues, KeepsWrites
  <2>6. QED
    BY <2>1, <2>2, <2>3, <2>5 DEF LoneJob
<1>5. QED
  BY <1>1, <1>2, <1>3, <1>4, OthersRepair DEF Continues

LEMMA SumRepair ==
  ASSUME StockInv, RepairInv, NEW w \in Workers, SumVariants(w)
  PROVE  RepairInv'
<1>1. Busy(w) /\ TypeOK /\ UNCHANGED <<variant, hasVariants, quantity>> /\ KnownJob(w)
  BY DEF SumVariants, StockInv, RepairInv, tables
<1>2. job[w].at = "sum" /\ KeepsWrites(w) /\ job'[w].todo = job[w].todo
  BY <1>1, SumShape
<1>3. CASE Continues(w, "move") /\ job[w].op \in Transactions /\ ~hasVariants
  <2>1. KnownJob(w)'
    BY <1>2, <1>3, MoveKnown
  <2>2. LoneJob(w)'
    <3> SUFFICES ASSUME job'[w].overlap = 0 PROVE LoneJob(w)'
      BY DEF LoneJob
    <3>1. \A x \in Workers \ {w} : ~Busy(x)'
      BY <1>3, Alone
    <3>2. job'[w].op \notin {"create", "remove"} /\ job'[w].at = "move" /\ ~hasVariants'
      BY <1>1, <1>3 DEF Continues, Transactions
    <3>3. QED
      BY <3>1, <3>2 DEF LoneJob
  <2>3. QED
    BY <1>1, <1>3, <2>1, <2>2, OthersRepair DEF Continues
<1>4. CASE Continues(w, "parent") /\ job'[w].total = SeenSum(w)
  <2>1. KnownJob(w)'
    BY <1>2, <1>4, MoveKnown
  <2>2. LoneJob(w)'
    <3> SUFFICES ASSUME job'[w].overlap = 0 PROVE LoneJob(w)'
      BY DEF LoneJob
    <3>1. (\A x \in Workers \ {w} : ~Busy(x)') /\ LoneJob(w) /\ job[w].overlap = 0
      BY <1>4, Alone
    <3>2. PICK sum : sum = SeenSum(w) /\ SeenSum(w)' = sum
      BY <1>1, <1>2, SeenKept, SeenSumSame
    <3>3. job'[w].total = sum /\ job'[w].at = "parent" /\ job'[w].op = job[w].op
      BY <1>4, <3>2 DEF Continues
    <3>4. /\ job'[w].op = "create" => hasVariants'
          /\ job'[w].op = "remove" => Live' # {}
      BY <1>1, <1>2, <3>1, <3>3 DEF LoneJob, Live
    <3>5. QED
      BY <3>1, <3>2, <3>3, <3>4 DEF LoneJob
  <2>3. QED
    BY <1>1, <1>4, <2>1, <2>2, OthersRepair DEF Continues
<1>5. QED
  BY <1>1, <1>3, <1>4, SumShape

LEMMA ParentRepair ==
  ASSUME StockInv, RepairInv, NEW w \in Workers, WriteParent(w), job[w].op \in Transactions
  PROVE  RepairInv'
<1>1. Busy(w) /\ TypeOK /\ UNCHANGED <<variant, hasVariants>>
  BY DEF WriteParent, StockInv, tables
<1>2. /\ Continues(w, "move") /\ job[w].at = "parent" /\ job'[w].todo = job[w].todo
      /\ Writes(w, Product, job[w].total, job[w].noted) /\ UNCHANGED quantity
  BY <1>1, ParentShape
<1>3. KnownJob(w)'
  BY <1>2, MoveKnown
<1>4. LoneJob(w)'
  <2> SUFFICES ASSUME job'[w].overlap = 0 PROVE LoneJob(w)'
    BY DEF LoneJob
  <2>1. (\A x \in Workers \ {w} : ~Busy(x)') /\ LoneJob(w) /\ job[w].overlap = 0
    BY <1>2, Alone
  <2>2. job'[w].op \notin {"create", "remove"} /\ job'[w].at = "move"
    BY <1>2 DEF Continues, Transactions
  <2>3. /\ \A v \in Variants : Seen(w, v)' = Seen(w, v)
        /\ Product \in job'[w].locks /\ job'[w].value[Product] = job[w].total
    BY <1>1, <1>2, WritesSeen
  <2>4. PICK sum : sum = SeenSum(w) /\ SeenSum(w)' = sum
    BY <1>1, <2>3, SeenSumSame
  <2>5. job[w].total = sum
    BY <1>1, <1>2, <2>1, <2>4 DEF LoneJob
  <2>6. QED
    BY <2>1, <2>2, <2>3, <2>4, <2>5 DEF LoneJob
<1>5. QED
  BY <1>1, <1>2, <1>3, <1>4, OthersRepair DEF Continues

LEMMA FlagRepair ==
  ASSUME StockInv, RepairInv, NEW w \in Workers, FlagVariants(w) \/ CountVariants(w)
  PROVE  RepairInv'
<1>1. Busy(w) /\ TypeOK /\ KnownJob(w) /\ UNCHANGED variant
  BY DEF FlagVariants, CountVariants, StockInv, RepairInv, tables
<1>2. KeepsWrites(w) /\ job'[w].todo = job[w].todo
  BY <1>1, FlagShape
<1>3. PICK at \in {"sum", "unflag"} : Continues(w, at)
  BY <1>1, FlagShape
<1>4. /\ job[w].at = "flag" => at = "sum" /\ hasVariants' /\ job[w].op = "create"
      /\ job[w].at = "count" =>
           job[w].op = "remove" /\ (at = "unflag" => Live = {}) /\ (at = "sum" => Live # {})
      /\ job[w].at \in {"flag", "count"}
  <2>1. FlagVariants(w) => hasVariants'
    BY DEF FlagVariants
  <2>2. job'[w].at = at
    BY <1>3 DEF Continues
  <2>3. \/ FlagVariants(w) /\ job[w].at = "flag" /\ at = "sum"
        \/ job[w].at = "count" /\ Live = {} /\ at = "unflag"
        \/ job[w].at = "count" /\ Live # {} /\ at = "sum"
    BY <1>1, <2>2, FlagShape DEF Continues
  <2>4. QED
    BY <1>1, <2>1, <2>3 DEF KnownJob
<1>5. job[w].op \notin Transactions /\ job[w].locks = {} /\ job[w].op # "edit"
  BY <1>1, <1>4 DEF Transactions, KnownJob
<1>6. KnownJob(w)'
  BY <1>1, <1>2, <1>3, <1>4, <1>5 DEF KnownJob, Continues, KeepsWrites
<1>7. LoneJob(w)'
  <2> SUFFICES ASSUME job'[w].overlap = 0 PROVE LoneJob(w)'
    BY DEF LoneJob
  <2>1. \A x \in Workers \ {w} : ~Busy(x)'
    BY <1>3, Alone
  <2>2. job'[w].op = job[w].op /\ job'[w].at = at /\ Live' = Live
    BY <1>1, <1>3 DEF Continues, Live
  <2>3. QED
    BY <1>4, <2>1, <2>2 DEF LoneJob
<1>8. QED
  BY <1>1, <1>3, <1>6, <1>7, OthersRepair DEF Continues

LEMMA FinishRepair ==
  ASSUME StockInv, RepairInv, NEW w \in Workers, Busy(w), Finish(w)
  PROVE  RepairInv'
<1>1. job'[w] = Idle /\ \A x \in Workers \ {w} : job'[x] = job[x]
  BY DEF Finish, StockInv, TypeOK
<1>2. KnownJob(w)' /\ LoneJob(w)'
  BY <1>1 DEF KnownJob, LoneJob, Busy
<1>3. QED
  BY <1>1, <1>2, OthersRepair DEF StockInv

\* A request begins alone only when no worker is busy.
LEMMA BeginRepair ==
  ASSUME StockInv, RepairInv, NEW w \in Workers, NEW j \in Jobs, Begin(w, j),
         j.overlap = Cardinality({x \in Workers : Busy(x)}),
         j.locks = {}, j.todo \subseteq {s \in Shelves : j.lines[s] > 0},
         \/ j.op \in Transactions /\ j.at \in {"insert", "check", "set", "move"}
         \/ j.op = "create" /\ j.at = "flag"
         \/ j.op = "update" /\ j.at = "sum"
         \/ j.op = "remove" /\ j.at = "count"
  PROVE  RepairInv'
<1>1. TypeOK /\ job' = [Overlapped EXCEPT ![w] = j] /\ ~Busy(w)
  BY DEF StockInv, Begin
<1>2. job'[w] = j /\ \A x \in Workers \ {w} : job'[x] = Overlapped[x]
  BY <1>1 DEF Overlapped
<1>3. ASSUME NEW x \in Workers \ {w} PROVE KnownJob(x)' /\ LoneJob(x)'
  <2>1. KeepsJob(x)
    BY <1>1, <1>2, OverlappedKept
  <2>2. KnownJob(x)'
    BY <2>1 DEF RepairInv, KnownJob, KeepsJob
  <2>3. Busy(x)' => job'[x].overlap # 0
    <3>1. Busy(x)' => Busy(x) /\ job'[x].overlap = job[x].overlap + 1
      BY <1>1, <1>2, OverlapCounts
    <3>2. Busy(x) => job[x].overlap \in Nat
      BY <1>1, BusyJob, JobParts
    <3>3. QED
      BY <3>1, <3>2
  <2>4. QED
    BY <2>2, <2>3 DEF LoneJob
<1>4. KnownJob(w)'
  BY <1>2 DEF KnownJob, Transactions
<1>5. LoneJob(w)'
  <2> SUFFICES ASSUME j.overlap = 0 PROVE LoneJob(w)'
    BY <1>2 DEF LoneJob
  <2>1. PICK busy : busy = {x \in Workers : Busy(x)}
    OBVIOUS
  <2>2. IsFiniteSet(busy) /\ Cardinality(busy) = 0
    BY <2>1, StockAssumption, FS_Subset DEF StockAssumption
  <2>3. busy = {}
    BY <2>2, FS_EmptySet
  <2>4. \A x \in Workers \ {w} : ~Busy(x)'
    BY <1>1, <1>2, <2>1, <2>3, OverlapCounts
  <2>5. QED
    BY <1>2, <2>4 DEF LoneJob, Transactions
<1>6. QED
  BY <1>3, <1>4, <1>5 DEF RepairInv

LEMMA EditRepair ==
  ASSUME StockInv, RepairInv, NEW n, EditProduct(n)
  PROVE  RepairInv'
<1>1. ASSUME NEW x \in Workers PROVE KnownJob(x)' /\ LoneJob(x)'
  <2>1. job'[x] = Overlapped[x] /\ TypeOK
    BY DEF EditProduct, StockInv
  <2>2. KeepsJob(x)
    BY <2>1, OverlappedKept
  <2>3. KnownJob(x)'
    BY <2>2 DEF RepairInv, KnownJob, KeepsJob
  <2>4. Busy(x)' => job'[x].overlap # 0
    <3>1. Busy(x)' => Busy(x) /\ job'[x].overlap = job[x].overlap + 1
      BY <2>1, OverlapCounts
    <3>2. Busy(x) => job[x].overlap \in Nat
      BY <2>1, BusyJob, JobParts
    <3>3. QED
      BY <3>1, <3>2
  <2>5. QED
    BY <2>3, <2>4 DEF LoneJob
<1>2. QED
  BY <1>1 DEF RepairInv

\* What every request that begins looks like.
LEMMA StartShape ==
  ASSUME StockInv, NEW w \in Workers, Start(w)
  PROVE  \E j \in Jobs :
           /\ Begin(w, j) /\ j.overlap = Cardinality({x \in Workers : Busy(x)})
           /\ j.locks = {} /\ j.todo = {s \in Shelves : j.lines[s] > 0}
           /\ \/ /\ \E lines \in Baskets : PlaceOrder(w, lines) /\ j.lines = lines
                 /\ j.op = "order" /\ j.at = "insert"
              \/ /\ \E o \in Orders :
                      (ReturnOrder(w, o) \/ ReopenOrder(w, o)) /\ j.lines = order[o].lines
                 /\ \/ j.op = "return" /\ j.at = "move"
                    \/ j.op = "reopen" /\ j.at = "check"
              \/ /\ j.op \in {"adjust", "receive"} /\ j.at = "set"
                 /\ UNCHANGED <<tables, disputed>>
              \/ /\ \E v \in Variants, n \in 0..MaxStock : CreateVariant(w, v, n)
                 /\ j.op = "create" /\ j.at = "flag"
              \/ /\ \E v \in Variants, n \in 0..MaxStock : UpdateVariant(w, v, n)
                 /\ j.op = "update" /\ j.at = "sum"
              \/ /\ \E v \in Variants : RemoveVariant(w, v)
                 /\ j.op = "remove" /\ j.at = "count"
<1>1. ASSUME NEW lines \in Baskets, PlaceOrder(w, lines)
      PROVE  \E j \in Jobs :
               /\ Begin(w, j) /\ j.overlap = Cardinality({x \in Workers : Busy(x)})
               /\ j.locks = {} /\ j.todo = {s \in Shelves : j.lines[s] > 0}
               /\ j.op = "order" /\ j.at = "insert" /\ j.lines = lines
  <2>1. PICK j : j = Request("order", "insert", lines)
    OBVIOUS
  <2>2. lines \in [Shelves -> Nat]
    <3>1. lines \in [Shelves -> Quantities \cup {0}] /\ Quantities \cup {0} \subseteq Nat
      BY StockAssumption DEF Baskets, StockAssumption
    <3>2. \A s \in Shelves : lines[s] \in Nat
      BY <3>1
    <3>3. QED
      BY <3>1, <3>2
  <2>3. /\ j \in Jobs /\ j.locks = {} /\ j.todo = {s \in Shelves : j.lines[s] > 0}
        /\ j.op = "order" /\ j.at = "insert" /\ j.lines = lines
    BY <2>1, <2>2, RequestIs DEF HandlerKinds, JobStates
  <2>4. j.overlap = Cardinality({x \in Workers : Busy(x)}) /\ Begin(w, j)
    BY <1>1, <2>1, RequestCounts DEF PlaceOrder
  <2>5. QED
    BY <2>3, <2>4
<1>2. ASSUME NEW o \in Orders, NEW op, NEW at,
             (op = "return" /\ at = "move") \/ (op = "reopen" /\ at = "check"),
             Begin(w, [Request(op, at, order[o].lines) EXCEPT !.order = {o}])
      PROVE  \E j \in Jobs :
               /\ Begin(w, j) /\ j.overlap = Cardinality({x \in Workers : Busy(x)})
               /\ j.locks = {} /\ j.todo = {s \in Shelves : j.lines[s] > 0}
               /\ j.op = op /\ j.at = at /\ j.lines = order[o].lines
  <2>1. PICK lines, os, n : /\ lines = order[o].lines /\ os = {o}
                            /\ n = Cardinality({x \in Workers : Busy(x)})
    OBVIOUS
  <2>2. PICK r : r = Request(op, at, lines)
    OBVIOUS
  <2>3. lines \in [Shelves -> Nat]
    BY <2>1 DEF StockInv, TypeOK
  <2>4. /\ r \in Jobs /\ r.locks = {} /\ r.todo = {s \in Shelves : lines[s] > 0}
        /\ r.op = op /\ r.at = at /\ r.lines = lines
    BY <1>2, <2>2, <2>3, RequestIs DEF HandlerKinds, JobStates
  <2>5. r.overlap = n
    BY <2>1, <2>2, RequestCounts
  <2>6. PICK j : j = [r EXCEPT !.order = os]
    OBVIOUS
  <2>7. /\ j \in Jobs /\ j.locks = {} /\ j.todo = {s \in Shelves : j.lines[s] > 0}
        /\ j.op = op /\ j.at = at /\ j.lines = lines /\ j.overlap = n
    BY <2>1, <2>4, <2>5, <2>6 DEF Jobs
  <2>8. Begin(w, j)
    BY <1>2, <2>1, <2>2, <2>6
  <2>9. QED
    BY <2>1, <2>7, <2>8
<1>3. ASSUME NEW op \in {"adjust", "receive"}, NEW s \in Shelves, NEW n \in Nat,
             ReadStock(w, op, s, n)
      PROVE  \E j \in Jobs :
               /\ Begin(w, j) /\ j.overlap = Cardinality({x \in Workers : Busy(x)})
               /\ j.locks = {} /\ j.todo = {x \in Shelves : j.lines[x] > 0}
               /\ j.op = op /\ j.at = "set"
  <2>1. PICK lines, q, c : /\ lines = [NoLines EXCEPT ![s] = 1] /\ q = quantity[s]
                           /\ c = Cardinality({x \in Workers : Busy(x)})
    OBVIOUS
  <2>2. lines \in [Shelves -> Nat] /\ q \in Int
    BY <2>1 DEF NoLines, StockInv, TypeOK
  <2>3. PICK r : r = Request(op, "set", lines)
    OBVIOUS
  <2>4. /\ r \in Jobs /\ r.locks = {} /\ r.todo = {x \in Shelves : lines[x] > 0}
        /\ r.op = op /\ r.at = "set" /\ r.lines = lines
    BY <2>2, <2>3, RequestIs DEF HandlerKinds, JobStates
  <2>5. r.overlap = c
    BY <2>1, <2>3, RequestCounts
  <2>6. PICK a, j : a = [r EXCEPT !.amount = n] /\ j = [a EXCEPT !.base = q]
    OBVIOUS
  <2>7. /\ a \in Jobs /\ a.locks = {} /\ a.todo = {x \in Shelves : lines[x] > 0}
        /\ a.op = op /\ a.at = "set" /\ a.lines = lines /\ a.overlap = c
    BY <2>4, <2>5, <2>6 DEF Jobs
  <2>8. /\ j \in Jobs /\ j.locks = {} /\ j.todo = {x \in Shelves : j.lines[x] > 0}
        /\ j.op = op /\ j.at = "set" /\ j.overlap = c
    BY <2>2, <2>6, <2>7 DEF Jobs
  <2>9. Begin(w, j)
    BY <1>3, <2>1, <2>3, <2>6 DEF ReadStock
  <2>10. QED
    BY <2>1, <2>8, <2>9
<1>4. ASSUME NEW op \in HandlerKinds, NEW at \in JobStates, Begin(w, Request(op, at, NoLines))
      PROVE  \E j \in Jobs :
               /\ Begin(w, j) /\ j.overlap = Cardinality({x \in Workers : Busy(x)})
               /\ j.locks = {} /\ j.todo = {x \in Shelves : j.lines[x] > 0}
               /\ j.op = op /\ j.at = at
  <2>1. PICK j : j = Request(op, at, NoLines)
    OBVIOUS
  <2>2. NoLines \in [Shelves -> Nat]
    BY DEF NoLines
  <2>3. /\ j \in Jobs /\ j.locks = {} /\ j.todo = {x \in Shelves : j.lines[x] > 0}
        /\ j.op = op /\ j.at = at
    BY <2>1, <2>2, RequestIs
  <2>4. j.overlap = Cardinality({x \in Workers : Busy(x)}) /\ Begin(w, j)
    BY <1>4, <2>1, RequestCounts
  <2>5. QED
    BY <2>3, <2>4
<1>5. CASE \E lines \in Baskets : PlaceOrder(w, lines)
  BY <1>1, <1>5
<1>6. CASE \E o \in Orders : ReturnOrder(w, o) \/ ReopenOrder(w, o)
  <2>1. PICK o \in Orders : ReturnOrder(w, o) \/ ReopenOrder(w, o)
    BY <1>6
  <2>2. CASE ReturnOrder(w, o)
    <3>1. Begin(w, [Request("return", "move", order[o].lines) EXCEPT !.order = {o}])
      BY <2>2 DEF ReturnOrder
    <3>2. PICK j \in Jobs : /\ Begin(w, j)
                            /\ j.overlap = Cardinality({x \in Workers : Busy(x)})
                            /\ j.locks = {} /\ j.todo = {x \in Shelves : j.lines[x] > 0}
                            /\ j.op = "return" /\ j.at = "move" /\ j.lines = order[o].lines
      BY <1>2, <3>1
    <3>3. QED
      BY <2>2, <3>2
  <2>3. CASE ReopenOrder(w, o)
    <3>1. Begin(w, [Request("reopen", "check", order[o].lines) EXCEPT !.order = {o}])
      BY <2>3 DEF ReopenOrder
    <3>2. PICK j \in Jobs : /\ Begin(w, j)
                            /\ j.overlap = Cardinality({x \in Workers : Busy(x)})
                            /\ j.locks = {} /\ j.todo = {x \in Shelves : j.lines[x] > 0}
                            /\ j.op = "reopen" /\ j.at = "check" /\ j.lines = order[o].lines
      BY <1>2, <3>1
    <3>3. QED
      BY <2>3, <3>2
  <2>4. QED
    BY <2>1, <2>2, <2>3
<1>7. CASE \/ \E s \in Shelves, n \in 0..MaxStock : Adjust(w, s, n)
           \/ \E s \in Shelves, n \in Quantities : Receive(w, s, n)
  <2>1. PICK op \in {"adjust", "receive"}, s \in Shelves, n \in Nat : ReadStock(w, op, s, n)
    BY <1>7, StockAssumption DEF StockAssumption, Adjust, Receive
  <2>2. UNCHANGED <<tables, disputed>>
    BY <2>1 DEF ReadStock
  <2>3. QED
    BY <1>3, <2>1, <2>2
<1>8. CASE \E v \in Variants, n \in 0..MaxStock : CreateVariant(w, v, n) \/ UpdateVariant(w, v, n)
  <2>1. PICK v \in Variants, n \in 0..MaxStock : CreateVariant(w, v, n) \/ UpdateVariant(w, v, n)
    BY <1>8
  <2>2. CASE CreateVariant(w, v, n)
    <3>1. Begin(w, Request("create", "flag", NoLines))
      BY <2>2 DEF CreateVariant
    <3>2. PICK j \in Jobs : /\ Begin(w, j)
                            /\ j.overlap = Cardinality({x \in Workers : Busy(x)})
                            /\ j.locks = {} /\ j.todo = {x \in Shelves : j.lines[x] > 0}
                            /\ j.op = "create" /\ j.at = "flag"
      BY <1>4, <3>1 DEF HandlerKinds, JobStates
    <3>3. QED
      BY <2>2, <3>2
  <2>3. CASE UpdateVariant(w, v, n)
    <3>1. Begin(w, Request("update", "sum", NoLines))
      BY <2>3 DEF UpdateVariant
    <3>2. PICK j \in Jobs : /\ Begin(w, j)
                            /\ j.overlap = Cardinality({x \in Workers : Busy(x)})
                            /\ j.locks = {} /\ j.todo = {x \in Shelves : j.lines[x] > 0}
                            /\ j.op = "update" /\ j.at = "sum"
      BY <1>4, <3>1 DEF HandlerKinds, JobStates
    <3>3. QED
      BY <2>3, <3>2
  <2>4. QED
    BY <2>1, <2>2, <2>3
<1>9. CASE \E v \in Variants : RemoveVariant(w, v)
  <2>1. PICK v \in Variants : RemoveVariant(w, v)
    BY <1>9
  <2>2. Begin(w, Request("remove", "count", NoLines))
    BY <2>1 DEF RemoveVariant
  <2>3. QED
    BY <1>4, <2>1, <2>2 DEF HandlerKinds, JobStates
<1>10. QED
  BY <1>5, <1>6, <1>7, <1>8, <1>9 DEF Start

LEMMA RepairNext ==
  ASSUME StockInv, RepairInv, [Next]_vars
  PROVE  RepairInv'
<1>1. ASSUME NEW w \in Workers, Start(w) PROVE RepairInv'
  <2>1. PICK j \in Jobs :
          /\ Begin(w, j) /\ j.overlap = Cardinality({x \in Workers : Busy(x)})
          /\ j.locks = {} /\ j.todo = {s \in Shelves : j.lines[s] > 0}
          /\ \/ j.op \in Transactions /\ j.at \in {"insert", "check", "set", "move"}
             \/ j.op = "create" /\ j.at = "flag"
             \/ j.op = "update" /\ j.at = "sum"
             \/ j.op = "remove" /\ j.at = "count"
    BY <1>1, StartShape DEF Transactions
  <2>2. QED
    BY <2>1, BeginRepair
<1>2. ASSUME NEW w \in Workers, Continue(w) PROVE RepairInv'
  <2>1. ASSUME CheckStock(w) PROVE RepairInv'
    BY <2>1, StartedRepair, FinishRepair DEF CheckStock
  <2>2. ASSUME WriteParent(w) PROVE RepairInv'
    BY <2>2, ParentRepair, FinishRepair DEF WriteParent
  <2>3. ASSUME Commit(w) \/ UnflagVariants(w) PROVE RepairInv'
    BY <2>3, FinishRepair DEF Commit, UnflagVariants
  <2>4. QED
    BY <1>2, <2>1, <2>2, <2>3, LinesRepair, StartedRepair, SkipRepair, SumRepair, FlagRepair
       DEF Continue
<1>3. ASSUME NEW w \in Workers, Crash(w) PROVE RepairInv'
  BY <1>3, FinishRepair DEF Crash
<1>4. ASSUME NEW n \in 0..MaxStock, EditProduct(n) PROVE RepairInv'
  BY <1>4, EditRepair
<1>5. CASE UNCHANGED vars
  <2>1. UNCHANGED <<variant, hasVariants, quantity, moved, order, job, requests, disputed>>
    BY <1>5 DEF vars, tables
  <2>2. ASSUME NEW w \in Workers PROVE KnownJob(w)' /\ LoneJob(w)'
    <3>1. KnownJob(w) /\ LoneJob(w)
      BY DEF RepairInv
    <3>2. PICK sum : sum = SeenSum(w) /\ SeenSum(w)' = sum
      BY <2>1, SeenKept, SeenSumSame DEF KeepsWrites
    <3>3. LoneJob(w)'
      BY <2>1, <3>1, <3>2 DEF LoneJob, Busy, Live
    <3>4. QED
      BY <2>1, <3>1, <3>3 DEF KnownJob, Busy
  <2>3. QED
    BY <2>2 DEF RepairInv
<1>6. QED
  BY <1>1, <1>2, <1>3, <1>4, <1>5 DEF Next

LEMMA RepairInit == Init => RepairInv
BY DEF Init, RepairInv, KnownJob, LoneJob, Busy

\* What it means that a request has repaired the product's quantity.
LEMMA RepairedIs ==
  ASSUME NEW op, \/ op \in Transactions /\ (hasVariants' => ParentIsSum')
                 \/ op = "create" /\ hasVariants' /\ ParentIsSum'
                 \/ op = "update" /\ ParentIsSum'
                 \/ op = "remove" /\ Live' # {} /\ ParentIsSum'
                 \/ op = "remove" /\ Live' = {} /\ ~hasVariants'
  PROVE  Repaired(op)'
<1>1. PICK t : t \in BOOLEAN /\ (t <=> ParentIsSum')
  OBVIOUS
<1>2. "create" \notin Transactions /\ "update" \notin Transactions /\ "remove" \notin Transactions
  BY DEF Transactions
<1>3. CASE op \in Transactions /\ (hasVariants' => ParentIsSum')
  BY <1>2, <1>3, Zenon DEF Repaired
<1>4. CASE op = "create" /\ hasVariants' /\ ParentIsSum'
  BY <1>2, <1>4 DEF Repaired
<1>5. CASE op = "update" /\ ParentIsSum'
  BY <1>2, <1>5 DEF Repaired
<1>6. CASE op = "remove" /\ Live' # {} /\ ParentIsSum'
  BY <1>2, <1>6 DEF Repaired
<1>7. CASE op = "remove" /\ Live' = {} /\ ~hasVariants'
  BY <1>2, <1>7 DEF Repaired
<1>8. QED
  BY <1>3, <1>4, <1>5, <1>6, <1>7

\* The sum a worker sees is the sum of what its end leaves.
LEMMA SumPublished ==
  ASSUME TypeOK, NEW w \in Workers, UNCHANGED variant,
         \A v \in Variants : quantity'[v] = Seen(w, v), quantity'[Product] = SeenSum(w)
  PROVE  ParentIsSum'
<1>1. PICK l, f, q : l = Live /\ f = [v \in Live |-> Seen(w, v)] /\ q = quantity'
  OBVIOUS
<1>2. Live' = l /\ l \subseteq Variants
  BY <1>1 DEF Live
<1>3. IsFiniteSet(l)
  BY <1>2, StockAssumption, FS_Subset DEF StockAssumption
<1>4. \A v \in l : f[v] = q[v]
  BY <1>1, <1>2
<1>5. Sum(f, l) = Sum(q, l)
  BY <1>3, <1>4, SumSame
<1>6. quantity'[Product] = Sum(f, l)
  BY <1>1 DEF SeenSum
<1>7. QED
  BY <1>1, <1>2, <1>5, <1>6 DEF ParentIsSum

LEMMA CommitRepairs ==
  ASSUME StockInv, RepairInv, NEW w \in Workers, NEW op, job[w].op = op, Commit(w),
         job[w].overlap = 0, job[w].lines[Product] = 0, job[w].locks \cap Variants # {}
  PROVE  Repaired(op)'
<1>1. /\ Busy(w) /\ job[w].op \in Transactions /\ job[w].at = "move"
      /\ quantity' = [s \in Shelves |-> Seen(w, s)]
      /\ UNCHANGED <<variant, hasVariants>> /\ LoneJob(w) /\ TypeOK
  BY DEF Commit, RepairInv, StockInv
<1>2. Product \in Shelves /\ \A v \in Variants : v \in Shelves
  BY DEF Shelves
<1>3. \A v \in Variants : quantity'[v] = Seen(w, v)
  BY <1>1, <1>2
<1>4. hasVariants => quantity'[Product] = SeenSum(w)
  BY <1>1, <1>2 DEF LoneJob, Seen
<1>5. hasVariants' => ParentIsSum'
  BY <1>1, <1>3, <1>4, SumPublished
<1>6. QED
  BY <1>1, <1>5, RepairedIs

LEMMA EndRepairs ==
  ASSUME StockInv, StockInv', RepairInv, NEW w \in Workers, NEW op, job[w].op = op,
         job[w].overlap = 0, Busy(w), ~Busy(w)', WriteParent(w) \/ UnflagVariants(w)
  PROVE  Repaired(op)'
<1>1. TypeOK /\ KnownJob(w) /\ LoneJob(w) /\ UNCHANGED variant
  BY DEF StockInv, RepairInv, WriteParent, UnflagVariants
<1>2. CASE UnflagVariants(w)
  <2>1. job[w].at = "unflag" /\ ~hasVariants'
    BY <1>2 DEF UnflagVariants
  <2>2. op = "remove" /\ Live' = {}
    BY <1>1, <2>1 DEF KnownJob, LoneJob, Live
  <2>3. QED
    BY <2>1, <2>2, RepairedIs
<1>3. CASE WriteParent(w)
  <2>1. op \notin Transactions
    BY <1>1, <1>3, ParentShape DEF Continues
  <2>2. /\ job[w].at = "parent" /\ UNCHANGED <<variant, hasVariants>>
        /\ quantity' = [quantity EXCEPT ![Product] = job[w].total]
    BY <1>3, <2>1 DEF WriteParent
  <2>3. /\ job[w].locks = {} /\ op \in {"create", "update", "remove"}
    BY <1>1, <2>1, BusyJob, JobParts DEF KnownJob, HandlerKinds, Transactions
  <2>4. Product \in Shelves /\ \A v \in Variants : v # Product
    BY StockAssumption DEF StockAssumption, Shelves
  <2>5. quantity'[Product] = SeenSum(w)
    BY <1>1, <2>2, <2>4 DEF LoneJob, TypeOK
  <2>6. \A v \in Variants : quantity'[v] = Seen(w, v)
    BY <1>1, <2>2, <2>3, <2>4 DEF Seen, TypeOK
  <2>7. ParentIsSum'
    BY <1>1, <2>2, <2>5, <2>6, SumPublished
  <2>8. (op = "create" => hasVariants') /\ (op = "remove" => Live' # {})
    BY <1>1, <2>2 DEF LoneJob, Live
  <2>9. QED
    BY <2>3, <2>7, <2>8, RepairedIs
<1>4. QED
  BY <1>2, <1>3

\* A request on variants that no other overlaps leaves the product's quantity
\* equal to the sum over its variants (syncParentStock), whatever overlaps,
\* crashes and edits of the product left before it.
THEOREM Repairs == Spec => RequestRepairs
<1>1. Init => StockInv /\ RepairInv
  BY StockInit, RepairInit
<1>2. StockInv /\ RepairInv /\ [Next]_vars => (StockInv /\ RepairInv)'
  BY StockNext, RepairNext
<1>3. ASSUME StockInv, StockInv', RepairInv, NEW w \in Workers, NEW op \in HandlerKinds,
             Busy(w), job[w].op = op, job[w].overlap = 0, job[w].lines[Product] = 0,
             \/ Commit(w) /\ job[w].locks \cap Variants # {}
             \/ ~Busy(w)' /\ (WriteParent(w) \/ UnflagVariants(w))
      PROVE  Repaired(op)'
  BY <1>3, CommitRepairs, EndRepairs
<1>4. StockInv /\ StockInv' /\ RepairInv =>
        [\A w \in Workers, op \in HandlerKinds :
           /\ Busy(w) /\ job[w].op = op /\ job[w].overlap = 0 /\ job[w].lines[Product] = 0
           /\ \/ Commit(w) /\ job[w].locks \cap Variants # {}
              \/ ~Busy(w)' /\ (WriteParent(w) \/ UnflagVariants(w))
           => Repaired(op)']_vars
  BY <1>3
<1>5. QED
  BY <1>1, <1>2, <1>4, PTL DEF Spec, RequestRepairs

-----------------------------------------------------------------------------
(* Overselling: the inductive invariant.                                    *)

\* No request is about more than q units.
Most(q) == \A n \in Quantities : n <= q

\* The other requests in progress.
Peers(w) == Cardinality({x \in Workers \ {w} : Busy(x)})

\* Every request in progress is counted in overlap; one line moves at most q
\* units, and only once.
SmallJob(w, q) ==
  Busy(w) =>
    /\ job[w].overlap >= Peers(w)
    /\ job[w].at = "set" => job[w].op \in {"adjust", "receive"}
    /\ job[w].op \in OrderMoves => \A v \in Variants : job[w].lines[v] <= q
    /\ \A v \in Variants : v \in job[w].todo => v \notin job[w].locks
    /\ \A v \in Variants : v \in job[w].locks =>
         /\ job[w].op \in OrderMoves => job[w].noted[v] = Signed(w, v)
         /\ job[w].op = "adjust" => job[w].value[v] >= 0
         /\ job[w].op = "receive" => job[w].noted[v] >= 0

\* Those that w overlapped and that have ended are overlap - Peers(w): what w
\* checked is still there, but for q units for each of them.
CoveredJob(w, q) ==
  (Busy(w) /\ job[w].op \in {"order", "reopen"} /\ job[w].at # "check") =>
    \A v \in Variants : v \in job[w].todo \cup job[w].locks =>
      /\ variant[v] # "none"
      /\ \/ v \in disputed
         \/ job[w].lines[v] <= quantity[v] + (job[w].overlap - Peers(w)) * q

SmallOrders(q) == \A o \in Orders, v \in Variants : order[o].lines[v] <= q

LEMMA PeersNumber ==
  ASSUME NEW w PROVE IsFiniteSet({x \in Workers \ {w} : Busy(x)}) /\ Peers(w) \in Nat
<1>1. PICK peers : peers = {x \in Workers \ {w} : Busy(x)}
  OBVIOUS
<1>2. IsFiniteSet(peers)
  BY <1>1, StockAssumption, FS_Subset DEF StockAssumption
<1>3. Cardinality(peers) \in Nat
  BY <1>2, FS_CardinalityType
<1>4. QED
  BY <1>1, <1>2, <1>3 DEF Peers

LEMMA PeersNumberNext ==
  ASSUME NEW w PROVE Peers(w)' \in Nat
<1>1. PICK peers : peers = {x \in Workers \ {w} : Busy(x)}'
  OBVIOUS
<1>2. IsFiniteSet(peers)
  BY <1>1, StockAssumption, FS_Subset DEF StockAssumption
<1>3. Cardinality(peers) \in Nat
  BY <1>2, FS_CardinalityType
<1>4. QED
  BY <1>1, <1>3 DEF Peers

LEMMA PeersSame ==
  ASSUME NEW x, \A y \in Workers : Busy(y)' <=> Busy(y)
  PROVE  Peers(x)' = Peers(x)
<1>1. PICK peers : peers = {y \in Workers \ {x} : Busy(y)}
  OBVIOUS
<1>2. {y \in Workers \ {x} : Busy(y)}' = peers
  BY <1>1
<1>3. QED
  BY <1>1, <1>2 DEF Peers

\* Worker w stops being busy: one peer less for every other.
LEMMA PeersLess ==
  ASSUME NEW w \in Workers, Busy(w), ~Busy(w)', \A y \in Workers \ {w} : Busy(y)' <=> Busy(y),
         NEW x \in Workers \ {w}
  PROVE  Peers(x)' = Peers(x) - 1
<1>1. PICK before, after : /\ before = {y \in Workers \ {x} : Busy(y)}
                           /\ after = {y \in Workers \ {x} : Busy(y)}'
  OBVIOUS
<1>2. after = before \ {w} /\ w \in before
  BY <1>1
<1>3. IsFiniteSet(before)
  BY <1>1, PeersNumber
<1>4. Cardinality(after) = Cardinality(before) - 1
  BY <1>2, <1>3, FS_RemoveElement
<1>5. QED
  BY <1>1, <1>4 DEF Peers

\* Worker w becomes busy: one peer more.
LEMMA PeersMore ==
  ASSUME NEW w \in Workers, ~Busy(w), Busy(w)', \A y \in Workers \ {w} : Busy(y)' <=> Busy(y),
         NEW x \in Workers \ {w}
  PROVE  Peers(x)' = Peers(x) + 1
<1>1. PICK before, after : /\ before = {y \in Workers \ {x} : Busy(y)}
                           /\ after = {y \in Workers \ {x} : Busy(y)}'
  OBVIOUS
<1>2. after = before \cup {w} /\ w \notin before
  BY <1>1
<1>3. IsFiniteSet(before)
  BY <1>1, PeersNumber
<1>4. Cardinality(after) = Cardinality(before) + 1
  BY <1>2, <1>3, FS_AddElement
<1>5. QED
  BY <1>1, <1>4 DEF Peers

LEMMA PeersAtBegin ==
  ASSUME NEW w \in Workers, ~Busy(w), \A y \in Workers \ {w} : Busy(y)' <=> Busy(y)
  PROVE  Peers(w)' = Cardinality({x \in Workers : Busy(x)})
<1>1. PICK busy : busy = {x \in Workers : Busy(x)}
  OBVIOUS
<1>2. {x \in Workers \ {w} : Busy(x)}' = busy
  BY <1>1
<1>3. QED
  BY <1>1, <1>2 DEF Peers

\* An unfinished cover of l units grows by q with every request that ends.
LEMMA CoverKept ==
  ASSUME NEW l \in Nat, NEW a \in Int, NEW b \in Int, NEW d \in Nat, NEW e \in Nat,
         NEW q \in Nat, l <= q, l <= a + d * q,
         \/ (e = d \/ e = d + 1) /\ b = a
         \/ e = d + 1 /\ (b >= a - q \/ b >= 0)
  PROVE  l <= b + e * q
<1>1. d * q \in Nat /\ (d + 1) * q = d * q + q
  OBVIOUS
<1>2. PICK m \in Nat : m = d * q
  BY <1>1
<1>3. e * q = m \/ e * q = m + q
  BY <1>1, <1>2
<1>4. e = d + 1 => e * q = m + q
  BY <1>1, <1>2
<1>5. QED
  BY <1>2, <1>3, <1>4

\* What a step of another worker does to the rows and the count of request x.
Spares(x, q) ==
  LET d == job[x].overlap - Peers(x)
      e == job'[x].overlap - Peers(x)'
  IN /\ e = d \/ e = d + 1
     /\ \A v \in Variants : variant[v] # "none" =>
          /\ variant'[v] # "none"
          /\ \/ v \in disputed'
             \/ quantity'[v] = quantity[v]
             \/ e = d + 1 /\ (quantity'[v] >= quantity[v] - q \/ quantity'[v] >= 0)

LEMMA OthersCovered ==
  ASSUME TypeOK, TypeOK', disputed \subseteq disputed', NEW x \in Workers, NEW q \in Nat,
         SmallJob(x, q), CoveredJob(x, q), KeepsJob(x), Busy(x) => Spares(x, q)
  PROVE  SmallJob(x, q)' /\ CoveredJob(x, q)'
<1> SUFFICES ASSUME Busy(x)' PROVE SmallJob(x, q)' /\ CoveredJob(x, q)'
  BY DEF SmallJob, CoveredJob
<1>1. Busy(x) /\ Spares(x, q) /\ job[x] \in Jobs /\ job'[x] \in Jobs
  BY BusyJob DEF KeepsJob, TypeOK, Busy
<1>2. PICK d, e : d = job[x].overlap - Peers(x) /\ e = job'[x].overlap - Peers(x)'
  OBVIOUS
<1>3. job[x].overlap \in Nat /\ Peers(x) \in Nat /\ job[x].overlap >= Peers(x)
  BY <1>1, PeersNumber, JobParts DEF SmallJob
<1>4. Peers(x)' \in Nat
  BY PeersNumberNext
<1>5. job'[x].overlap \in Nat
  BY <1>1 DEF Jobs
<1>6. d \in Nat /\ e \in Nat /\ job'[x].overlap >= Peers(x)'
  BY <1>1, <1>2, <1>3, <1>4, <1>5 DEF Spares
<1>7. SmallJob(x, q)'
  BY <1>1, <1>6 DEF SmallJob, KeepsJob, Signed
<1>8. ASSUME job'[x].op \in {"order", "reopen"}, job'[x].at # "check",
             NEW v \in Variants, v \in job'[x].todo \cup job'[x].locks
      PROVE  variant'[v] # "none" /\ (v \in disputed' \/ job'[x].lines[v] <= quantity'[v] + e * q)
  <2>1. /\ job[x].op \in {"order", "reopen"} /\ job[x].at # "check"
        /\ v \in job[x].todo \cup job[x].locks /\ job'[x].lines = job[x].lines
    BY <1>1, <1>8 DEF KeepsJob
  <2>2. variant[v] # "none" /\ (v \in disputed \/ job[x].lines[v] <= quantity[v] + d * q)
    BY <1>1, <1>2, <2>1 DEF CoveredJob
  <2>3. /\ job[x].lines[v] \in Nat /\ quantity[v] \in Int /\ quantity'[v] \in Int
        /\ job[x].lines[v] <= q
    BY <1>1, <2>1, JobParts DEF SmallJob, OrderMoves, Shelves, TypeOK
  <2>4. /\ variant'[v] # "none" /\ (e = d \/ e = d + 1)
        /\ \/ v \in disputed'
           \/ quantity'[v] = quantity[v]
           \/ e = d + 1 /\ (quantity'[v] >= quantity[v] - q \/ quantity'[v] >= 0)
    BY <1>1, <1>2, <2>2 DEF Spares
  <2>5. CASE v \in disputed'
    BY <2>4, <2>5
  <2>6. CASE v \notin disputed'
    <3>1. job[x].lines[v] <= quantity[v] + d * q
      BY <2>2, <2>6
    <3>2. job[x].lines[v] <= quantity'[v] + e * q
      BY <1>6, <2>3, <2>4, <2>6, <3>1, CoverKept
    <3>3. QED
      BY <2>1, <2>4, <3>2
  <2>7. QED
    BY <2>5, <2>6
<1>9. CoveredJob(x, q)'
  BY <1>2, <1>8 DEF CoveredJob
<1>10. QED
  BY <1>7, <1>9

-----------------------------------------------------------------------------
(* Overselling: the steps.                                                  *)

\* The invariant for the quantity q that bounds every request.
CoverInv(q) == SmallOrders(q) /\ \A w \in Workers : SmallJob(w, q) /\ CoveredJob(w, q)

\* A request goes on: nothing but its own job changes.
LEMMA ContinueCovered ==
  ASSUME StockInv, TypeOK', NEW w \in Workers, NEW at, Continues(w, at), NEW q \in Nat,
         CoverInv(q), UNCHANGED <<variant, quantity, order, disputed>>,
         SmallJob(w, q) /\ CoveredJob(w, q) =>
           /\ job'[w].at = "set" => job'[w].op \in {"adjust", "receive"}
           /\ \A v \in Variants : v \in job'[w].todo => v \notin job'[w].locks
           /\ \A v \in Variants : v \in job'[w].locks =>
                /\ job[w].op \in OrderMoves => job'[w].noted[v] = Signed(w, v)
                /\ job[w].op = "adjust" => job'[w].value[v] >= 0
                /\ job[w].op = "receive" => job'[w].noted[v] >= 0
           /\ (job[w].op \in {"order", "reopen"} /\ at # "check") =>
                \A v \in Variants : v \in job'[w].todo \cup job'[w].locks =>
                  /\ variant[v] # "none"
                  /\ \/ v \in disputed
                     \/ job[w].lines[v] <= quantity[v] + (job[w].overlap - Peers(w)) * q
  PROVE  CoverInv(q)'
<1>1. /\ SmallOrders(q) /\ \A x \in Workers : SmallJob(x, q) /\ CoveredJob(x, q)
      /\ TypeOK
  BY DEF CoverInv, StockInv
<1>2. \A x \in Workers \ {w} : job'[x] = job[x] /\ KeepsJob(x)
  BY SameKept DEF Continues
<1>3. \A y \in Workers : Busy(y)' <=> Busy(y)
  BY <1>2 DEF Continues, KeepsJob
<1>4. \A x \in Workers : Peers(x)' = Peers(x)
  BY <1>3, PeersSame
<1>5. ASSUME NEW x \in Workers \ {w} PROVE SmallJob(x, q)' /\ CoveredJob(x, q)'
  <2>1. Spares(x, q)
    BY <1>2, <1>4 DEF Spares
  <2>2. QED
    BY <1>1, <1>2, <2>1, OthersCovered
<1>6. SmallJob(w, q)'
  BY <1>1, <1>4 DEF Continues, SmallJob, Signed
<1>7. CoveredJob(w, q)'
  <2>1. PICK c : c = (job[w].overlap - Peers(w)) * q
    OBVIOUS
  <2>2. (job'[w].overlap - Peers(w)') * q = c
    BY <1>4, <2>1 DEF Continues
  <2>3. QED
    BY <1>1, <2>1, <2>2 DEF Continues, CoveredJob
<1>8. SmallOrders(q)'
  BY <1>1 DEF SmallOrders
<1>9. QED
  BY <1>5, <1>6, <1>7, <1>8 DEF CoverInv

\* A request ends: those it overlapped may find q units less.
LEMMA FinishCovered ==
  ASSUME StockInv, TypeOK', NEW w \in Workers, Busy(w), Finish(w), NEW q \in Nat,
         CoverInv(q), UNCHANGED variant, disputed \subseteq disputed',
         \A v \in Variants : \/ v \in disputed' \/ quantity'[v] = quantity[v]
                             \/ quantity'[v] >= quantity[v] - q \/ quantity'[v] >= 0,
         SmallOrders(q)'
  PROVE  CoverInv(q)'
<1>1. /\ \A x \in Workers : SmallJob(x, q) /\ CoveredJob(x, q)
      /\ TypeOK
  BY DEF CoverInv, StockInv
<1>2. job'[w] = Idle /\ \A x \in Workers \ {w} : job'[x] = job[x] /\ KeepsJob(x)
  BY SameKept DEF Finish, StockInv, TypeOK
<1>3. ~Busy(w)' /\ \A y \in Workers \ {w} : Busy(y)' <=> Busy(y)
  BY <1>2 DEF Busy
<1>4. ASSUME NEW x \in Workers \ {w} PROVE SmallJob(x, q)' /\ CoveredJob(x, q)'
  <2>1. Peers(x)' = Peers(x) - 1 /\ Peers(x) \in Nat
    BY <1>3, PeersLess, PeersNumber
  <2>2. Busy(x) => job[x].overlap \in Nat /\ job'[x].overlap = job[x].overlap
    BY <1>1, <1>2, BusyJob, JobParts
  <2>3. Busy(x) => Spares(x, q)
    BY <2>1, <2>2 DEF Spares
  <2>4. QED
    BY <1>1, <1>2, <2>3, OthersCovered
<1>5. SmallJob(w, q)' /\ CoveredJob(w, q)'
  BY <1>3 DEF SmallJob, CoveredJob
<1>6. QED
  BY <1>4, <1>5 DEF CoverInv

\* A request begins: it overlaps every one in progress.
LEMMA BeginCovered ==
  ASSUME StockInv, TypeOK', NEW w \in Workers, NEW j \in Jobs, Begin(w, j), NEW q \in Nat,
         CoverInv(q), disputed \subseteq disputed', SmallOrders(q)',
         j.overlap = Cardinality({x \in Workers : Busy(x)}), j.locks = {},
         j.at = "set" => j.op \in {"adjust", "receive"},
         j.op \in OrderMoves => \A v \in Variants : j.lines[v] <= q,
         (j.op \in {"order", "reopen"} /\ j.at # "check") =>
           \A v \in Variants : v \in j.todo =>
             variant'[v] # "none" /\ j.lines[v] <= quantity'[v],
         \A v \in Variants : variant[v] # "none" =>
           variant'[v] # "none" /\ (v \in disputed' \/ quantity'[v] = quantity[v])
  PROVE  CoverInv(q)'
<1>1. /\ \A x \in Workers : SmallJob(x, q) /\ CoveredJob(x, q)
      /\ TypeOK /\ ~Busy(w) /\ job' = [Overlapped EXCEPT ![w] = j]
  BY DEF CoverInv, StockInv, Begin
<1>2. job'[w] = j /\ \A x \in Workers \ {w} : job'[x] = Overlapped[x]
  BY <1>1 DEF Overlapped
<1>3. \A x \in Workers \ {w} : KeepsJob(x)
  BY <1>1, <1>2, OverlappedKept
<1>4. Busy(w)' /\ \A y \in Workers \ {w} : Busy(y)' <=> Busy(y)
  BY <1>1, <1>2, <1>3, BusyJob DEF KeepsJob, Busy
<1>5. ASSUME NEW x \in Workers \ {w} PROVE SmallJob(x, q)' /\ CoveredJob(x, q)'
  <2>1. Peers(x)' = Peers(x) + 1 /\ Peers(x) \in Nat
    BY <1>1, <1>4, PeersMore, PeersNumber
  <2>2. Busy(x) => job[x].overlap \in Nat /\ job'[x].overlap = job[x].overlap + 1
    BY <1>1, <1>2, BusyJob, JobParts, OverlapCounts
  <2>3. Busy(x) => Spares(x, q)
    BY <2>1, <2>2 DEF Spares
  <2>4. QED
    BY <1>1, <1>3, <2>3, OthersCovered
<1>6. Peers(w)' = j.overlap /\ j.overlap \in Nat
  BY <1>1, <1>4, PeersAtBegin, JobParts
<1>7. SmallJob(w, q)'
  BY <1>2, <1>6 DEF SmallJob
<1>8. CoveredJob(w, q)'
  <2>1. (j.overlap - Peers(w)') * q = 0
    BY <1>6
  <2>2. \A v \in Variants : quantity'[v] \in Int
    BY DEF TypeOK, Shelves
  <2>3. ASSUME j.op \in {"order", "reopen"}, j.at # "check", NEW v \in Variants, v \in j.todo
        PROVE  variant'[v] # "none"
               /\ j.lines[v] <= quantity'[v] + (j.overlap - Peers(w)') * q
    BY <2>1, <2>2, <2>3
  <2>4. QED
    BY <1>2, <2>3 DEF CoveredJob
<1>9. QED
  BY <1>5, <1>7, <1>8 DEF CoverInv

LEMMA JobRows ==
  ASSUME StockInv, NEW w \in Workers, Busy(w), NEW v \in Variants
  PROVE  /\ quantity[v] \in Int /\ job[w].lines[v] \in Nat /\ job[w].noted[v] \in Int
         /\ job[w].value[v] \in Int /\ v \in Shelves /\ v # Product
         /\ v \notin job[w].locks => job[w].noted[v] = 0
<1>1. job[w] \in Jobs /\ JobSound(w) /\ v \in Shelves
  BY BusyJob DEF StockInv, Shelves
<1>2. v # Product
  BY StockAssumption DEF StockAssumption
<1>3. QED
  BY <1>1, <1>2, JobParts DEF JobSound, StockInv, TypeOK

\* Steps that write no row: the lines left may only become fewer.
LEMMA QuietCovered ==
  ASSUME StockInv, TypeOK', NEW w \in Workers, NEW at, Continues(w, at), at # "set",
         KeepsWrites(w), job'[w].todo \subseteq job[w].todo, job[w].at # "check",
         NEW q \in Nat, CoverInv(q), UNCHANGED <<variant, quantity, order, disputed>>
  PROVE  CoverInv(q)'
<1>1. job'[w].at # "set"
  BY DEF Continues
<1>2. ASSUME SmallJob(w, q), CoveredJob(w, q)
      PROVE  /\ \A v \in Variants : v \in job'[w].todo => v \notin job'[w].locks
             /\ \A v \in Variants : v \in job'[w].locks =>
                  /\ job[w].op \in OrderMoves => job'[w].noted[v] = Signed(w, v)
                  /\ job[w].op = "adjust" => job'[w].value[v] >= 0
                  /\ job[w].op = "receive" => job'[w].noted[v] >= 0
  BY <1>2 DEF SmallJob, KeepsWrites, Continues
<1>3. ASSUME CoveredJob(w, q), job[w].op \in {"order", "reopen"},
             NEW v \in Variants, v \in job'[w].todo \cup job'[w].locks
      PROVE  /\ variant[v] # "none"
             /\ \/ v \in disputed
                \/ job[w].lines[v] <= quantity[v] + (job[w].overlap - Peers(w)) * q
  BY <1>3 DEF CoveredJob, KeepsWrites, Continues
<1>4. QED
  BY <1>1, <1>2, <1>3, ContinueCovered

LEMMA CheckCovered ==
  ASSUME StockInv, TypeOK', RepairInv, NEW w \in Workers, CheckStock(w), ~Finish(w),
         NEW q \in Nat, CoverInv(q)
  PROVE  CoverInv(q)'
<1>1. Busy(w) /\ TypeOK /\ UNCHANGED <<variant, quantity, order, disputed>>
      /\ SmallJob(w, q) /\ KnownJob(w)
  BY DEF CheckStock, tables, StockInv, CoverInv, RepairInv
<1>2. /\ Continues(w, "move") /\ KeepsWrites(w) /\ job[w].at = "check"
      /\ job'[w].todo = job[w].todo \cap (Live \cup {Product})
      /\ \A s \in job'[w].todo : job[w].lines[s] <= Seen(w, s)
  BY <1>1, CheckShape
<1>3. job'[w].locks = {} /\ job[w].locks = {} /\ job'[w].at # "set"
  BY <1>1, <1>2 DEF KnownJob, KeepsWrites, Continues
<1>4. (job[w].overlap - Peers(w)) * q \in Nat
  <2>1. job[w].overlap \in Nat /\ Peers(w) \in Nat /\ job[w].overlap >= Peers(w)
    BY <1>1, BusyJob, JobParts, PeersNumber DEF SmallJob
  <2>2. PICK d \in Nat : d = job[w].overlap - Peers(w)
    BY <2>1
  <2>3. d * q \in Nat
    OBVIOUS
  <2>4. QED
    BY <2>2, <2>3
<1>5. ASSUME NEW v \in Variants, v \in job'[w].todo \cup job'[w].locks
      PROVE  /\ variant[v] # "none"
             /\ job[w].lines[v] <= quantity[v] + (job[w].overlap - Peers(w)) * q
  <2>1. v \in job'[w].todo /\ v \in Live
    BY <1>1, <1>2, <1>3, <1>5, JobRows
  <2>2. job[w].lines[v] <= quantity[v]
    BY <1>2, <1>3, <2>1 DEF Seen
  <2>3. job[w].lines[v] \in Nat /\ quantity[v] \in Int
    BY <1>1, JobRows
  <2>4. QED
    BY <1>4, <2>1, <2>2, <2>3 DEF Live
<1>6. QED
  BY <1>1, <1>2, <1>3, <1>5, ContinueCovered

LEMMA MoveCovered ==
  ASSUME StockInv, TypeOK', NEW w \in Workers, MoveLine(w), NEW q \in Nat, CoverInv(q)
  PROVE  CoverInv(q)'
<1>1. Busy(w) /\ TypeOK /\ UNCHANGED <<variant, quantity, order, disputed>>
      /\ SmallJob(w, q) /\ CoveredJob(w, q) /\ job[w] \in Jobs
  BY BusyJob DEF MoveLine, tables, StockInv, CoverInv
<1>2. job[w].op \in OrderMoves /\ job[w].at = "move"
  BY <1>1, MoveShape
<1>3. PICK s \in job[w].todo :
        /\ Continues(w, NextOfMove(w, s)) /\ s \in Live \cup {Product}
        /\ job'[w].todo = job[w].todo \ {s}
        /\ Writes(w, s, Seen(w, s) + Signed(w, s), Noted(w, s))
  BY <1>1, MoveShape
<1>4. /\ job'[w].locks = job[w].locks \cup {s}
      /\ job'[w].noted = [job[w].noted EXCEPT ![s] = @ + Signed(w, s)]
      /\ job[w].noted \in [Shelves -> Int] /\ s \in Shelves
  BY <1>1, <1>3, JobParts DEF Writes, Noted
<1>5. ASSUME NEW v \in Variants, v \in job'[w].locks
      PROVE  job'[w].noted[v] = Signed(w, v)
  <2>1. CASE v # s
    BY <1>1, <1>2, <1>4, <1>5, <2>1 DEF SmallJob
  <2>2. CASE v = s
    <3>1. job[w].noted[s] = 0
      BY <1>1, <1>3, <2>2, JobRows DEF SmallJob
    <3>2. Signed(w, s) \in Int
      BY <1>1, <2>2, JobRows DEF Signed
    <3>3. QED
      BY <1>4, <2>2, <3>1, <3>2
  <2>3. QED
    BY <2>1, <2>2
<1>6. job'[w].at # "set" /\ job[w].op # "adjust" /\ job[w].op # "receive"
  BY <1>2, <1>3 DEF Continues, NextOfMove, OrderMoves
<1>7. \A v \in Variants : v \in job'[w].todo => v \notin job'[w].locks
  BY <1>1, <1>3, <1>4 DEF SmallJob
<1>8. job'[w].todo \cup job'[w].locks \subseteq job[w].todo \cup job[w].locks
  BY <1>3, <1>4
<1>9. job[w].op \in {"order", "reopen"} =>
        \A v \in Variants : v \in job'[w].todo \cup job'[w].locks =>
          /\ variant[v] # "none"
          /\ \/ v \in disputed
             \/ job[w].lines[v] <= quantity[v] + (job[w].overlap - Peers(w)) * q
  BY <1>1, <1>2, <1>8 DEF CoveredJob
<1>10. QED
  BY <1>1, <1>3, <1>5, <1>6, <1>7, <1>9, ContinueCovered

LEMMA UpdateCovered ==
  ASSUME StockInv, TypeOK', RepairInv, NEW w \in Workers, UpdateStock(w), NEW q \in Nat,
         CoverInv(q)
  PROVE  CoverInv(q)'
<1>1. Busy(w) /\ TypeOK /\ UNCHANGED <<variant, quantity, order, disputed>>
      /\ SmallJob(w, q) /\ job[w] \in Jobs /\ KnownJob(w) /\ job[w].at = "set"
  BY BusyJob DEF UpdateStock, tables, StockInv, CoverInv, RepairInv
<1>2. job[w].op \in {"adjust", "receive"} /\ job[w].locks = {}
  BY <1>1 DEF SmallJob, KnownJob
<1>3. PICK s \in job[w].todo :
        /\ Continues(w, NextOfMove(w, s)) /\ s \in Live \cup {Product}
        /\ job'[w].todo = {}
        /\ Writes(w, s, Restocked(w), [job[w].noted EXCEPT ![s] = Restocked(w) - job[w].base])
  BY <1>1, <1>2, UpdateShape
<1>4. /\ job'[w].locks = {s} /\ job'[w].value = [job[w].value EXCEPT ![s] = Restocked(w)]
      /\ job'[w].noted = [job[w].noted EXCEPT ![s] = Restocked(w) - job[w].base]
      /\ job[w].noted \in [Shelves -> Int] /\ job[w].value \in [Shelves -> Int] /\ s \in Shelves
      /\ job[w].amount \in Nat /\ job[w].base \in Int
  BY <1>1, <1>2, <1>3, JobParts DEF Writes
<1>5. /\ job[w].op = "adjust" => job'[w].value[s] >= 0
      /\ job[w].op = "receive" => job'[w].noted[s] >= 0
  BY <1>4 DEF Restocked
<1>6. job'[w].at # "set"
  BY <1>3 DEF Continues, NextOfMove
<1>7. QED
  BY <1>1, <1>2, <1>3, <1>4, <1>5, <1>6, ContinueCovered DEF OrderMoves

LEMMA ParentCovered ==
  ASSUME StockInv, TypeOK', NEW w \in Workers, WriteParent(w), job[w].op \in Transactions,
         NEW q \in Nat, CoverInv(q)
  PROVE  CoverInv(q)'
<1>1. Busy(w) /\ TypeOK /\ UNCHANGED <<variant, order, disputed>>
      /\ SmallJob(w, q) /\ CoveredJob(w, q) /\ job[w] \in Jobs
  BY BusyJob DEF WriteParent, StockInv, CoverInv
<1>2. /\ Continues(w, "move") /\ job[w].at = "parent" /\ job'[w].todo = job[w].todo
      /\ Writes(w, Product, job[w].total, job[w].noted) /\ UNCHANGED quantity
  BY <1>1, ParentShape
<1>3. /\ job'[w].locks = job[w].locks \cup {Product} /\ job'[w].noted = job[w].noted
      /\ job'[w].value = [job[w].value EXCEPT ![Product] = job[w].total]
      /\ job[w].value \in [Shelves -> Int]
  BY <1>1, <1>2, JobParts DEF Writes
<1>4. \A v \in Variants : /\ v \in job'[w].locks <=> v \in job[w].locks
                          /\ job'[w].value[v] = job[w].value[v] /\ v # Product
  BY <1>1, <1>3, JobRows
<1>5. \A v \in Variants : v \in job'[w].locks =>
         /\ job[w].op \in OrderMoves => job'[w].noted[v] = Signed(w, v)
         /\ job[w].op = "adjust" => job'[w].value[v] >= 0
         /\ job[w].op = "receive" => job'[w].noted[v] >= 0
  BY <1>1, <1>3, <1>4 DEF SmallJob
<1>6. \A v \in Variants : v \in job'[w].todo => v \notin job'[w].locks
  BY <1>1, <1>2, <1>4 DEF SmallJob
<1>7. job[w].op \in {"order", "reopen"} =>
        \A v \in Variants : v \in job'[w].todo \cup job'[w].locks =>
          /\ variant[v] # "none"
          /\ \/ v \in disputed
             \/ job[w].lines[v] <= quantity[v] + (job[w].overlap - Peers(w)) * q
  BY <1>1, <1>2, <1>4 DEF CoveredJob
<1>8. job'[w].at # "set"
  BY <1>2 DEF Continues
<1>9. QED
  BY <1>1, <1>2, <1>5, <1>6, <1>7, <1>8, ContinueCovered

\* What a transaction publishes of a variant.
LEMMA Published ==
  ASSUME StockInv, NEW w \in Workers, Commit(w), NEW q \in Nat, SmallJob(w, q),
         NEW v \in Variants
  PROVE  /\ v \notin job[w].locks => quantity'[v] = quantity[v]
         /\ (v \in job[w].locks /\ v \notin disputed) =>
              quantity'[v] = quantity[v] + job[w].noted[v]
         /\ v \in disputed' \/ quantity'[v] = quantity[v]
            \/ quantity'[v] >= quantity[v] - q \/ quantity'[v] >= 0
<1>1. /\ Busy(w) /\ job[w].op \in Transactions /\ disputed \subseteq disputed'
      /\ quantity' = [s \in Shelves |-> Seen(w, s)]
  BY DEF Commit
<1>2. /\ quantity[v] \in Int /\ job[w].lines[v] \in Nat /\ job[w].noted[v] \in Int
      /\ job[w].value[v] \in Int /\ v \in Shelves
  BY <1>1, JobRows
<1>3. quantity'[v] = Seen(w, v)
  BY <1>1, <1>2
<1>4. v \notin disputed => quantity'[v] = quantity[v] + job[w].noted[v]
  BY <1>1, <1>2, <1>3, SeenIs
<1>5. v \notin job[w].locks => quantity'[v] = quantity[v]
  BY <1>3 DEF Seen
<1>6. v \in job[w].locks => quantity'[v] = job[w].value[v]
  BY <1>3 DEF Seen
<1>7. CASE v \notin job[w].locks \/ v \in disputed
  BY <1>1, <1>4, <1>5, <1>7
<1>8. CASE v \in job[w].locks /\ v \notin disputed
  <2>1. CASE job[w].op \in OrderMoves
    <3>1. job[w].noted[v] = Signed(w, v) /\ job[w].lines[v] <= q
      BY <1>1, <1>8, <2>1 DEF SmallJob
    <3>2. job[w].noted[v] >= -q
      BY <1>2, <3>1 DEF Signed
    <3>3. QED
      BY <1>2, <1>4, <1>8, <3>2
  <2>2. CASE job[w].op = "adjust"
    BY <1>1, <1>4, <1>6, <1>8, <2>2 DEF SmallJob
  <2>3. CASE job[w].op = "receive"
    BY <1>1, <1>2, <1>4, <1>8, <2>3 DEF SmallJob
  <2>4. QED
    BY <1>1, <2>1, <2>2, <2>3 DEF Transactions, OrderMoves
<1>9. QED
  BY <1>7, <1>8

LEMMA CommitCovered ==
  ASSUME StockInv, TypeOK', NEW w \in Workers, Commit(w), NEW q \in Nat, CoverInv(q)
  PROVE  CoverInv(q)'
<1>1. /\ Busy(w) /\ Finish(w) /\ UNCHANGED variant /\ disputed \subseteq disputed'
      /\ SmallJob(w, q) /\ SmallOrders(q) /\ JobSound(w) /\ job[w] \in Jobs
      /\ order' = [o \in Orders |-> IF o \in job[w].order THEN Committed(w, o) ELSE order[o]]
  BY BusyJob DEF Commit, CoverInv, StockInv
<1>2. \A v \in Variants : \/ v \in disputed' \/ quantity'[v] = quantity[v]
                          \/ quantity'[v] >= quantity[v] - q \/ quantity'[v] >= 0
  BY <1>1, Published
<1>3. ASSUME NEW o \in Orders, NEW v \in Variants PROVE order'[o].lines[v] <= q
  <2>1. order[o].lines[v] <= q
    BY <1>1 DEF SmallOrders
  <2>2. order[o] \in [status: {"none", "placed", "cancelled"}, lines: [Shelves -> Nat]]
    BY DEF StockInv, TypeOK
  <2>3. CASE o \in job[w].order
    <3>1. job[w].op \in OrderMoves
      BY <1>1, <2>3 DEF JobSound
    <3>2. PICK c : c = Committed(w, o) /\ order'[o] = c
      BY <1>1, <2>3
    <3>3. CASE job[w].op = "order"
      <4>1. c = [status |-> "placed", lines |-> job[w].lines]
        BY <3>2, <3>3, Zenon DEF Committed
      <4>2. job[w].lines[v] <= q
        BY <1>1, <3>1 DEF SmallJob
      <4>3. QED
        BY <3>2, <4>1, <4>2
    <3>4. CASE job[w].op = "return"
      <4>1. job[w].op # "order"
        BY <3>4
      <4>2. c = [order[o] EXCEPT !.status = "cancelled"]
        BY <3>2, <3>4, <4>1, Zenon DEF Committed
      <4>3. QED
        BY <2>1, <2>2, <3>2, <4>2
    <3>5. CASE job[w].op = "reopen"
      <4>1. job[w].op # "order" /\ job[w].op # "return"
        BY <3>5
      <4>2. c = [order[o] EXCEPT !.status = "placed"]
        BY <3>2, <3>5, <4>1, Zenon DEF Committed
      <4>3. QED
        BY <2>1, <2>2, <3>2, <4>2
    <3>6. QED
      BY <3>1, <3>3, <3>4, <3>5 DEF OrderMoves
  <2>4. CASE o \notin job[w].order
    BY <1>1, <2>1, <2>4
  <2>5. QED
    BY <2>3, <2>4
<1>4. SmallOrders(q)'
  BY <1>3 DEF SmallOrders
<1>5. QED
  BY <1>1, <1>2, <1>4, FinishCovered

\* A request that ends and leaves the variants and the orders as they are.
LEMMA EndCovered ==
  ASSUME StockInv, TypeOK', NEW w \in Workers, Busy(w), Finish(w),
         NEW q \in Nat, CoverInv(q), UNCHANGED <<variant, order, disputed>>,
         \A v \in Variants : quantity'[v] = quantity[v]
  PROVE  CoverInv(q)'
<1>1. SmallOrders(q)'
  BY DEF CoverInv, SmallOrders
<1>2. QED
  BY <1>1, FinishCovered

LEMMA GoOnCovered ==
  ASSUME StockInv, StockInv', RepairInv, NEW w \in Workers, Continue(w) \/ Crash(w),
         NEW q \in Nat, CoverInv(q)
  PROVE  CoverInv(q)'
<1>1. TypeOK /\ TypeOK' /\ SmallJob(w, q) /\ KnownJob(w)
  BY DEF StockInv, CoverInv, RepairInv
<1>2. ASSUME InsertOrder(w) PROVE CoverInv(q)'
  BY <1>1, <1>2, InsertShape, QuietCovered DEF InsertOrder, tables
<1>3. ASSUME CheckStock(w) PROVE CoverInv(q)'
  BY <1>1, <1>3, CheckCovered, EndCovered DEF CheckStock, tables
<1>4. ASSUME SkipLine(w) PROVE CoverInv(q)'
  BY <1>1, <1>4, SkipShape, QuietCovered DEF SkipLine, tables
<1>5. ASSUME SumVariants(w) PROVE CoverInv(q)'
  <2>1. PICK at \in {"move", "parent"} : Continues(w, at)
    BY <1>1, <1>5, SumShape
  <2>2. job[w].at = "sum" /\ KeepsWrites(w) /\ job'[w].todo = job[w].todo
        /\ UNCHANGED <<variant, quantity, order, disputed>>
    BY <1>1, <1>5, SumShape DEF SumVariants, tables
  <2>3. QED
    BY <1>1, <2>1, <2>2, QuietCovered
<1>6. ASSUME WriteParent(w) PROVE CoverInv(q)'
  <2>1. CASE job[w].op \in Transactions
    BY <1>1, <1>6, <2>1, ParentCovered
  <2>2. CASE job[w].op \notin Transactions
    <3>1. /\ Busy(w) /\ Finish(w) /\ UNCHANGED <<variant, order, disputed>>
          /\ quantity' = [quantity EXCEPT ![Product] = job[w].total]
      BY <1>6, <2>2 DEF WriteParent
    <3>2. \A v \in Variants : v # Product
      BY StockAssumption DEF StockAssumption
    <3>3. \A v \in Variants : quantity'[v] = quantity[v]
      BY <1>1, <3>1, <3>2 DEF TypeOK, Shelves
    <3>4. QED
      BY <1>1, <3>1, <3>3, EndCovered
  <2>3. QED
    BY <2>1, <2>2
<1>7. ASSUME FlagVariants(w) \/ CountVariants(w) PROVE CoverInv(q)'
  <2>1. PICK at \in {"sum", "unflag"} : Continues(w, at)
    BY <1>1, <1>7, FlagShape
  <2>2. job[w].at \in {"flag", "count"} /\ KeepsWrites(w) /\ job'[w].todo = job[w].todo
    BY <1>1, <1>7, FlagShape
  <2>3. UNCHANGED <<variant, quantity, order, disputed>>
    BY <1>7 DEF FlagVariants, CountVariants, tables
  <2>4. QED
    BY <1>1, <2>1, <2>2, <2>3, QuietCovered
<1>8. ASSUME UnflagVariants(w) \/ Crash(w) PROVE CoverInv(q)'
  BY <1>1, <1>8, EndCovered DEF UnflagVariants, Crash, tables
<1>9. QED
  BY <1>1, <1>2, <1>3, <1>4, <1>5, <1>6, <1>7, <1>8, MoveCovered, UpdateCovered, CommitCovered
     DEF Continue

LEMMA StartCovered ==
  ASSUME StockInv, StockInv', NEW w \in Workers, Start(w), NEW q \in Quantities, Most(q),
         CoverInv(q)
  PROVE  CoverInv(q)'
<1>1. q \in Nat /\ TypeOK /\ TypeOK' /\ SmallOrders(q)
  BY StockAssumption DEF StockAssumption, StockInv, CoverInv
<1>2. PICK j \in Jobs :
        /\ Begin(w, j) /\ j.overlap = Cardinality({x \in Workers : Busy(x)})
        /\ j.locks = {} /\ j.todo = {s \in Shelves : j.lines[s] > 0}
        /\ \/ /\ \E lines \in Baskets : PlaceOrder(w, lines) /\ j.lines = lines
              /\ j.op = "order" /\ j.at = "insert"
           \/ /\ \E o \in Orders :
                   (ReturnOrder(w, o) \/ ReopenOrder(w, o)) /\ j.lines = order[o].lines
              /\ \/ j.op = "return" /\ j.at = "move"
                 \/ j.op = "reopen" /\ j.at = "check"
           \/ /\ j.op \in {"adjust", "receive"} /\ j.at = "set"
              /\ UNCHANGED <<tables, disputed>>
           \/ /\ \E v \in Variants, n \in 0..MaxStock : CreateVariant(w, v, n)
              /\ j.op = "create" /\ j.at = "flag"
           \/ /\ \E v \in Variants, n \in 0..MaxStock : UpdateVariant(w, v, n)
              /\ j.op = "update" /\ j.at = "sum"
           \/ /\ \E v \in Variants : RemoveVariant(w, v)
              /\ j.op = "remove" /\ j.at = "count"
  BY StartShape
<1>3. ASSUME UNCHANGED <<variant, quantity, order, disputed>>,
             j.at = "set" => j.op \in {"adjust", "receive"},
             j.op \in OrderMoves => \A v \in Variants : j.lines[v] <= q,
             (j.op \in {"order", "reopen"} /\ j.at # "check") =>
               \A v \in Variants : v \in j.todo => variant[v] # "none" /\ j.lines[v] <= quantity[v]
      PROVE  CoverInv(q)'
  <2>1. SmallOrders(q)'
    BY <1>1, <1>3 DEF SmallOrders
  <2>2. QED
    BY <1>1, <1>2, <1>3, <2>1, BeginCovered
<1>4. CASE /\ \E lines \in Baskets : PlaceOrder(w, lines) /\ j.lines = lines
           /\ j.op = "order" /\ j.at = "insert"
  <2>1. PICK lines \in Baskets : PlaceOrder(w, lines) /\ j.lines = lines
    BY <1>4
  <2>2. /\ UNCHANGED <<variant, quantity, order, disputed>>
        /\ \A s \in Shelves : lines[s] > 0 => s \in Live \cup {Product} /\ lines[s] <= quantity[s]
    BY <2>1 DEF PlaceOrder, tables
  <2>3. \A v \in Variants : v \in Shelves /\ v # Product
    BY StockAssumption DEF StockAssumption, Shelves
  <2>4. \A v \in Variants : lines[v] <= q
    <3>1. lines \in [Shelves -> Quantities \cup {0}]
      BY DEF Baskets
    <3>2. \A v \in Variants : lines[v] \in Quantities \/ lines[v] = 0
      BY <2>3, <3>1
    <3>3. \A n \in Quantities : n <= q
      BY DEF Most
    <3>4. 0 <= q
      BY <1>1
    <3>5. QED
      BY <3>2, <3>3, <3>4
  <2>5. \A v \in Variants : v \in j.todo => variant[v] # "none" /\ j.lines[v] <= quantity[v]
    BY <1>2, <2>1, <2>2, <2>3 DEF Live
  <2>6. QED
    BY <1>3, <1>4, <2>1, <2>2, <2>4, <2>5
<1>5. CASE /\ \E o \in Orders :
                (ReturnOrder(w, o) \/ ReopenOrder(w, o)) /\ j.lines = order[o].lines
           /\ \/ j.op = "return" /\ j.at = "move"
              \/ j.op = "reopen" /\ j.at = "check"
  <2>1. UNCHANGED <<variant, quantity, order, disputed>>
    BY <1>5 DEF ReturnOrder, ReopenOrder, tables
  <2>2. \A v \in Variants : j.lines[v] <= q
    BY <1>1, <1>5 DEF SmallOrders
  <2>3. QED
    BY <1>3, <1>5, <2>1, <2>2
<1>6. CASE /\ j.op \in {"adjust", "receive"} /\ j.at = "set"
           /\ UNCHANGED <<tables, disputed>>
  BY <1>3, <1>6 DEF tables, OrderMoves
<1>7. CASE /\ \E v \in Variants, n \in 0..MaxStock : CreateVariant(w, v, n)
           /\ j.op = "create" /\ j.at = "flag"
  <2>1. PICK u \in Variants, n \in 0..MaxStock : CreateVariant(w, u, n)
    BY <1>7
  <2>2. /\ variant[u] = "none" /\ variant' = [variant EXCEPT ![u] = "live"]
        /\ quantity' = [quantity EXCEPT ![u] = n] /\ UNCHANGED <<order, disputed>>
    BY <2>1 DEF CreateVariant
  <2>3. \A v \in Variants : variant[v] # "none" =>
          variant'[v] # "none" /\ quantity'[v] = quantity[v]
    BY <1>1, <2>2 DEF TypeOK, Shelves
  <2>4. SmallOrders(q)'
    BY <1>1, <2>2 DEF SmallOrders
  <2>5. QED
    BY <1>1, <1>2, <1>7, <2>2, <2>3, <2>4, BeginCovered DEF OrderMoves
<1>8. CASE /\ \E v \in Variants, n \in 0..MaxStock : UpdateVariant(w, v, n)
           /\ j.op = "update" /\ j.at = "sum"
  <2>1. PICK u \in Variants, n \in 0..MaxStock : UpdateVariant(w, u, n)
    BY <1>8
  <2>2. /\ quantity' = [quantity EXCEPT ![u] = n] /\ disputed' = disputed \cup {u}
        /\ UNCHANGED <<variant, order>>
    BY <2>1 DEF UpdateVariant
  <2>3. \A v \in Variants : v \in disputed' \/ quantity'[v] = quantity[v]
    BY <1>1, <2>2 DEF TypeOK, Shelves
  <2>4. SmallOrders(q)' /\ disputed \subseteq disputed'
    BY <1>1, <2>2 DEF SmallOrders
  <2>5. QED
    BY <1>1, <1>2, <1>8, <2>2, <2>3, <2>4, BeginCovered DEF OrderMoves
<1>9. CASE /\ \E v \in Variants : RemoveVariant(w, v)
           /\ j.op = "remove" /\ j.at = "count"
  <2>1. PICK u \in Variants : RemoveVariant(w, u)
    BY <1>9
  <2>2. /\ variant' = [variant EXCEPT ![u] = "deleted"] /\ UNCHANGED <<quantity, disputed>>
        /\ order' = [o \in Orders |-> [order[o] EXCEPT !.lines = Unlinked(@, u)]]
    BY <2>1 DEF RemoveVariant
  <2>3. \A v \in Variants : variant[v] # "none" => variant'[v] # "none"
    BY <1>1, <2>2 DEF TypeOK
  <2>4. ASSUME NEW o \in Orders, NEW v \in Variants PROVE order'[o].lines[v] <= q
    <3>1. PICK lines, new : lines = order[o].lines /\ new = Unlinked(lines, u)
      OBVIOUS
    <3>2. /\ order[o] \in [status: {"none", "placed", "cancelled"}, lines: [Shelves -> Nat]]
          /\ lines \in [Shelves -> Nat] /\ lines[v] <= q
      BY <1>1, <3>1 DEF TypeOK, SmallOrders
    <3>3. v \in Shelves /\ v # Product /\ u \in Shelves
      BY StockAssumption DEF StockAssumption, Shelves
    <3>4. new[v] <= q
      BY <1>1, <3>1, <3>2, <3>3 DEF Unlinked
    <3>5. order'[o] = [order[o] EXCEPT !.lines = new]
      BY <2>2, <3>1
    <3>6. QED
      BY <3>2, <3>4, <3>5
  <2>5. SmallOrders(q)'
    BY <2>4 DEF SmallOrders
  <2>6. QED
    BY <1>1, <1>2, <1>9, <2>2, <2>3, <2>5, BeginCovered DEF OrderMoves
<1>10. QED
  BY <1>2, <1>4, <1>5, <1>6, <1>7, <1>8, <1>9

LEMMA EditCovered ==
  ASSUME StockInv, StockInv', NEW n, EditProduct(n), NEW q \in Nat, CoverInv(q)
  PROVE  CoverInv(q)'
<1>1. TypeOK /\ TypeOK' /\ SmallOrders(q) /\ \A x \in Workers : SmallJob(x, q) /\ CoveredJob(x, q)
  BY DEF StockInv, CoverInv
<1>2. /\ job' = Overlapped /\ quantity' = [quantity EXCEPT ![Product] = n]
      /\ UNCHANGED <<variant, order, disputed>>
  BY DEF EditProduct
<1>3. \A v \in Variants : quantity'[v] = quantity[v]
  <2>1. \A v \in Variants : v # Product
    BY StockAssumption DEF StockAssumption
  <2>2. QED
    BY <1>1, <1>2, <2>1 DEF TypeOK, Shelves
<1>4. \A x \in Workers : KeepsJob(x)
  BY <1>1, <1>2, OverlappedKept
<1>5. \A x \in Workers : Peers(x)' = Peers(x)
  BY <1>4, PeersSame DEF KeepsJob
<1>6. ASSUME NEW x \in Workers PROVE SmallJob(x, q)' /\ CoveredJob(x, q)'
  <2>1. Busy(x) => job[x].overlap \in Nat /\ job'[x].overlap = job[x].overlap + 1
    BY <1>1, <1>2, BusyJob, JobParts, OverlapCounts
  <2>2. Peers(x)' = Peers(x) /\ Peers(x) \in Nat
    BY <1>5, PeersNumber
  <2>3. Busy(x) => Spares(x, q)
    BY <1>2, <1>3, <2>1, <2>2 DEF Spares
  <2>4. QED
    BY <1>1, <1>2, <1>4, <2>3, OthersCovered
<1>7. SmallOrders(q)'
  BY <1>1, <1>2 DEF SmallOrders
<1>8. QED
  BY <1>6, <1>7 DEF CoverInv

\* For a quantity q that no request exceeds.
OversellInv == \A q \in Quantities : Most(q) => CoverInv(q)

LEMMA OversellNext ==
  ASSUME StockInv, StockInv', RepairInv, OversellInv, [Next]_vars
  PROVE  OversellInv'
<1> SUFFICES ASSUME NEW q \in Quantities, Most(q) PROVE CoverInv(q)'
  BY DEF OversellInv, Most
<1>1. q \in Nat /\ CoverInv(q)
  BY StockAssumption DEF StockAssumption, OversellInv
<1>2. ASSUME NEW w \in Workers, Start(w) PROVE CoverInv(q)'
  BY <1>1, <1>2, StartCovered
<1>3. ASSUME NEW w \in Workers, Continue(w) \/ Crash(w) PROVE CoverInv(q)'
  BY <1>1, <1>3, GoOnCovered
<1>4. ASSUME NEW n \in 0..MaxStock, EditProduct(n) PROVE CoverInv(q)'
  BY <1>1, <1>4, EditCovered
<1>5. CASE UNCHANGED vars
  <2>1. UNCHANGED <<variant, quantity, order, job, disputed>>
    BY <1>5 DEF vars, tables
  <2>2. \A x \in Workers : KeepsJob(x) /\ Peers(x)' = Peers(x)
    BY <2>1, SameKept, PeersSame DEF Busy
  <2>3. ASSUME NEW x \in Workers PROVE SmallJob(x, q)' /\ CoveredJob(x, q)'
    <3>1. Spares(x, q)
      BY <2>1, <2>2 DEF Spares
    <3>2. TypeOK /\ TypeOK' /\ SmallJob(x, q) /\ CoveredJob(x, q)
      BY <1>1 DEF CoverInv, StockInv
    <3>3. QED
      BY <1>1, <2>1, <2>2, <3>1, <3>2, OthersCovered
  <2>4. QED
    BY <1>1, <2>1, <2>3 DEF CoverInv, SmallOrders
<1>6. QED
  BY <1>2, <1>3, <1>4, <1>5 DEF Next

LEMMA OversellInit == Init => OversellInv
<1> SUFFICES ASSUME Init, NEW q \in Quantities PROVE CoverInv(q)
  BY DEF OversellInv
<1>1. \A w \in Workers : ~Busy(w)
  BY DEF Init, Busy
<1>2. q \in Nat /\ q >= 1
  BY StockAssumption DEF StockAssumption
<1>3. SmallOrders(q)
  <2>1. PICK lines : lines = [s \in Shelves |-> IF s \in FirstVariants THEN 1 ELSE 0]
    OBVIOUS
  <2>2. \A o \in Orders : order[o] = [status |-> "cancelled", lines |-> lines] \/ order[o] = NoOrder
    BY <2>1 DEF Init
  <2>3. \A v \in Variants : lines[v] <= q /\ NoLines[v] <= q
    BY <1>2, <2>1 DEF NoLines, Shelves
  <2>4. QED
    BY <2>2, <2>3 DEF SmallOrders, NoOrder
<1>4. QED
  BY <1>1, <1>3 DEF CoverInv, SmallJob, CoveredJob

LEMMA CommitBounded ==
  ASSUME StockInv, OversellInv, NEW w \in Workers, NEW v \in Variants, NEW q \in Quantities,
         Busy(w), job[w].op \in {"order", "reopen"}, v \in job[w].locks,
         Commit(w), v \notin disputed', Most(q)
  PROVE  quantity'[v] >= -(job[w].overlap * q)
<1>1. /\ q \in Nat /\ SmallJob(w, q) /\ CoveredJob(w, q) /\ job[w] \in Jobs
      /\ job[w].at = "move" /\ disputed \subseteq disputed'
  BY StockAssumption, BusyJob DEF StockAssumption, OversellInv, CoverInv, Commit, StockInv
<1>2. PICK d, k : d = job[w].overlap - Peers(w) /\ k = job[w].overlap
  OBVIOUS
<1>3. d \in Nat /\ k \in Nat /\ d <= k
  <2>1. job[w].overlap \in Nat /\ job[w].overlap >= Peers(w)
    BY <1>1, JobParts DEF SmallJob
  <2>2. Peers(w) \in Nat
    BY PeersNumber
  <2>3. QED
    BY <1>2, <2>1, <2>2
<1>4. quantity'[v] = quantity[v] + job[w].noted[v]
  BY <1>1, Published
<1>5. job[w].noted[v] = -job[w].lines[v]
  BY <1>1 DEF SmallJob, OrderMoves, Signed
<1>6. job[w].lines[v] <= quantity[v] + d * q
  BY <1>1, <1>2 DEF CoveredJob
<1>7. quantity[v] \in Int /\ job[w].lines[v] \in Nat
  BY JobRows
<1>8. d * q <= k * q /\ d * q \in Nat /\ k * q \in Nat
  <2>1. PICK r \in Nat : k = d + r
    BY <1>3
  <2>2. k * q = d * q + r * q /\ r * q \in Nat /\ d * q \in Nat
    BY <1>1, <1>3, <2>1
  <2>3. QED
    BY <2>2
<1>9. PICK x \in Nat, y \in Nat : x = d * q /\ y = k * q /\ x <= y
  BY <1>8
<1>10. quantity'[v] >= -y
  BY <1>4, <1>5, <1>6, <1>7, <1>9
<1>11. QED
  BY <1>2, <1>9, <1>10

\* Overselling is bounded by what overlaps, for any number of workers: a sale
\* or a reopening takes a variant below zero by at most the largest quantity of
\* a request for each one that ran meanwhile (orders.service.ts checks the stock
\* before its transaction, reserveOrderStock in it but without a lock).
THEOREM OversellHolds == Spec => OversellBound
<1>1. Init => StockInv /\ RepairInv /\ OversellInv
  BY StockInit, RepairInit, OversellInit
<1>2. StockInv /\ RepairInv /\ OversellInv /\ [Next]_vars => (StockInv /\ RepairInv /\ OversellInv)'
  BY StockNext, RepairNext, OversellNext
<1>3. StockInv /\ OversellInv =>
        [\A w \in Workers, v \in Variants, q \in Quantities :
           /\ Busy(w) /\ job[w].op \in {"order", "reopen"} /\ v \in job[w].locks
           /\ Commit(w) /\ v \notin disputed' /\ \A n \in Quantities : n <= q
           => quantity'[v] >= -(job[w].overlap * q)]_vars
  BY CommitBounded DEF Most
<1>4. QED
  BY <1>1, <1>2, <1>3, PTL DEF Spec, OversellBound
=============================================================================
