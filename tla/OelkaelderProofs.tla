--------------------------- MODULE OelkaelderProofs ---------------------------
(* What Oelkaelder guarantees for every set of shoppers, workers and amounts. *)
EXTENDS Kasse, Sums, SequenceTheorems

-----------------------------------------------------------------------------
(***************************************************************************)
(* The sum of a sequence.  A recursive function is what its equation says  *)
(* only if some function satisfies the equation; that one does is shown by *)
(* a smallest counterexample.                                              *)
(***************************************************************************)

\* p runs up the sum of the first k elements of v.
RunsUp(p, v, k) ==
  /\ p \in [0..k -> Int]
  /\ p[0] = 0
  /\ \A i \in 1..k : p[i] = p[i - 1] + v[i]

LEMMA SomethingRunsUp ==
  ASSUME NEW v \in Seq(Int)
  PROVE  \E p : RunsUp(p, v, Len(v))
  <1> DEFINE T == {k \in 0..Len(v) : ~ \E p : RunsUp(p, v, k)}
  <1>1. ASSUME T # {}
        PROVE  FALSE
    <2>1. T \subseteq Nat
      OBVIOUS
    <2>2. PICK k \in T : \A j \in T : k <= j
      BY <1>1, <2>1, LeastOf
    <2>3. k \in 0..Len(v) /\ ~ \E p : RunsUp(p, v, k)
      BY <2>2
    <2>4. CASE k = 0
      <3>1. RunsUp([i \in 0..0 |-> 0], v, 0)
        BY DEF RunsUp
      <3> QED
        BY <2>3, <2>4, <3>1
    <2>5. CASE k # 0
      <3>1. k - 1 \in 0..Len(v) /\ ~ (k <= k - 1)
        BY <2>3, <2>5
      <3>2. PICK p : RunsUp(p, v, k - 1)
        BY <2>2, <3>1
      <3> DEFINE q == [i \in 0..k |-> IF i = k THEN p[k - 1] + v[k] ELSE p[i]]
      <3>3. v[k] \in Int /\ k \in Nat /\ k # 0
        BY <2>3, <2>5
      <3>4. RunsUp(q, v, k)
        BY <3>2, <3>3 DEF RunsUp
      <3> QED
        BY <2>3, <3>4
    <2> QED
      BY <2>4, <2>5
  <1>2. Len(v) \in 0..Len(v) /\ Len(v) \notin T
    BY <1>1
  <1> QED
    BY <1>2

\* Whatever runs up the sum of v ends at Sum(v).
LEMMA SumIsRunUp ==
  ASSUME NEW v \in Seq(Int), NEW p, RunsUp(p, v, Len(v))
  PROVE  Sum(v) = p[Len(v)]
  <1> DEFINE n == Len(v)
             f == CHOOSE g : g = [i \in 0..n |-> IF i = 0 THEN 0 ELSE g[i - 1] + v[i]]
  <1>1. p = [i \in 0..n |-> IF i = 0 THEN 0 ELSE p[i - 1] + v[i]]
    BY DEF RunsUp
  <1>2. f = [i \in 0..n |-> IF i = 0 THEN 0 ELSE f[i - 1] + v[i]]
    BY <1>1
  <1> HIDE DEF f
  <1> DEFINE T == {i \in 0..n : f[i] # p[i]}
  <1>3. ASSUME T # {}
        PROVE  FALSE
    <2>1. T \subseteq Nat
      OBVIOUS
    <2>2. PICK k \in T : \A j \in T : k <= j
      BY <1>3, <2>1, LeastOf
    <2>3. k \in 0..n /\ f[k] # p[k]
      BY <2>2
    <2>4. k # 0
      BY <1>2, <2>3 DEF RunsUp
    <2>5. k - 1 \in 0..n /\ ~ (k <= k - 1)
      BY <2>3, <2>4
    <2>6. f[k - 1] = p[k - 1]
      BY <2>2, <2>5
    <2>7. f[k] = f[k - 1] + v[k] /\ p[k] = p[k - 1] + v[k]
      BY <1>1, <1>2, <2>3, <2>4
    <2> QED
      BY <2>3, <2>6, <2>7
  <1>4. f[n] = p[n]
    BY <1>3
  <1>5. Sum(v) = f[n]
    BY DEF Sum, f
  <1> QED
    BY <1>4, <1>5

LEMMA SumType ==
  ASSUME NEW v \in Seq(Int)
  PROVE  Sum(v) \in Int
  <1>1. PICK p : RunsUp(p, v, Len(v))
    BY SomethingRunsUp
  <1>2. Sum(v) = p[Len(v)]
    BY <1>1, SumIsRunUp
  <1> QED
    BY <1>1, <1>2 DEF RunsUp

LEMMA TotalType ==
  ASSUME NEW rows \in Seq(Row), NEW s \in Shoppers, NEW kinds
  PROVE  Total(rows, s, kinds) \in Int
  <1> DEFINE v == [i \in 1..Len(rows) |-> Counted(rows[i], s, kinds)]
  <1>1. ASSUME NEW i \in 1..Len(rows)
        PROVE  Counted(rows[i], s, kinds) \in Int
    <2>1. rows[i] \in Row
      OBVIOUS
    <2>2. rows[i].amounts[s] \in Int
      BY <2>1 DEF Row
    <2> QED
      BY <2>2 DEF Counted
  <1>2. v \in Seq(Int)
    BY <1>1
  <1> QED
    BY <1>2, SumType DEF Total

-----------------------------------------------------------------------------
(***************************************************************************)
(* The invariant.  A job is in shape when what it remembers fits the step  *)
(* it is at: a sale has buyers, so that its price can be divided, and the  *)
(* rows it has not committed are valid and have no void in the log.        *)
(***************************************************************************)

InShape(job) ==
  /\ job \in Job
  /\ \A i \in DOMAIN job.rows : AmountsFit(job.rows[i])
  /\ job.pc \in {"deposits", "spent", "adjustments", "decide"} /\ job.kind = "sale" => job.who # {}
  /\ job.pc = "next" => job.kind = "interest"
  /\ job.pc \in {"priced", "warn"} => job.kind = "sale"
  /\ job.kind = "interest" => \A i \in DOMAIN job.rows : job.rows[i].kind = "interest"
  /\ \A i \in DOMAIN job.rows : job.rows[i].valid /\ job.rows[i].voidLines = 0

LedgerInv ==
  /\ TypeOK
  /\ \A w \in Workers : InShape(jobs[w])
  /\ VoidsAreLogged

LEMMA IdleInShape == InShape(Idle)
  BY DEF InShape, Idle, Job

LEMMA MonthType ==
  ASSUME TypeOK
  PROVE  Calendar[clock].local \in Nat /\ Calendar[clock].utc \in Nat
  <1> DEFINE Turn == [utc: Nat, local: Nat]
  <1>1. Calendar \in Seq(Turn)
    BY ConstantsAssumption
  <1>2. clock \in 1..Len(Calendar)
    BY DEF TypeOK
  <1> HIDE DEF Turn
  <1>3. Calendar[clock] \in Turn
    BY <1>1, <1>2
  <1> QED
    BY <1>3 DEF Turn

LEMMA NewRowType ==
  ASSUME TypeOK, NEW kind \in {"deposit", "sale", "manual", "interest"},
         NEW amounts \in [Shoppers -> Int],
         kind \in {"deposit", "sale"} => \A s \in Shoppers : amounts[s] >= 0
  PROVE  /\ NewRow(kind, amounts) \in Row
         /\ AmountsFit(NewRow(kind, amounts))
         /\ NewRow(kind, amounts).kind = kind
         /\ NewRow(kind, amounts).valid
         /\ NewRow(kind, amounts).voidLines = 0
  BY MonthType DEF NewRow, Row, AmountsFit

LEMMA OnlyType ==
  ASSUME NEW s \in Shoppers, NEW a \in Int
  PROVE  Only(s, a) \in [Shoppers -> Int] /\ (a >= 0 => \A r \in Shoppers : Only(s, a)[r] >= 0)
  BY DEF Only

\* Shares are natural numbers.
LEMMA SharesType ==
  ASSUME NEW price \in Nat, NEW buyers \in SUBSET Shoppers, buyers # {}
  PROVE  /\ SharedOut(price, buyers) \in [Shoppers -> Int]
         /\ \A s \in Shoppers : SharedOut(price, buyers)[s] >= 0
  <1> DEFINE n == Cardinality(buyers)
  <1>1. IsFiniteSet(buyers)
    BY ConstantsAssumption, FS_Subset
  <1>2. n \in Nat /\ n # 0
    BY <1>1, FS_CardinalityType, FS_EmptySet
  <1>3. price \div n \in Nat
    BY <1>2
  <1> HIDE DEF n
  <1> QED
    BY <1>3 DEF SharedOut, n

LEMMA ChargeType ==
  ASSUME NEW b \in Int
  PROVE  Charge(b) \in Int
  BY ConstantsAssumption DEF Charge

\* A job that takes a step of its own, and commits nothing.
LEMMA JobMoves ==
  ASSUME LedgerInv, NEW w \in Workers, NEW new, InShape(new),
         jobs' = [jobs EXCEPT ![w] = new]
  PROVE  /\ jobs' \in [Workers -> Job]
         /\ \A v \in Workers : InShape(jobs'[v])
         /\ \A v \in Workers : \A i \in DOMAIN jobs'[v].rows : AmountsFit(jobs'[v].rows[i])
  <1>1. new \in Job /\ jobs \in [Workers -> Job] /\ \A v \in Workers : InShape(jobs[v])
    BY DEF InShape, LedgerInv, TypeOK
  <1>2. \A v \in Workers : InShape(jobs'[v])
    BY <1>1
  <1>3. jobs' \in [Workers -> Job]
    BY <1>1
  <1> QED
    BY <1>2, <1>3 DEF InShape

LEMMA JobStepKeeps ==
  ASSUME LedgerInv, NEW w \in Workers, NEW new, InShape(new),
         jobs' = [jobs EXCEPT ![w] = new],
         UNCHANGED <<clock, active, limit, interestOn, ledger, mails, made>>
  PROVE  LedgerInv'
  BY JobMoves DEF LedgerInv, TypeOK, VoidsAreLogged

\* A job that another request overtakes.
LEMMA OvertakenInShape ==
  ASSUME LedgerInv, NEW v \in Workers
  PROVE  InShape(Overtaken(v))
  <1>1. InShape(jobs[v])
    BY DEF LedgerInv
  <1>2. CASE jobs[v].pc = "idle"
    BY <1>1, <1>2 DEF Overtaken
  <1>3. CASE jobs[v].pc # "idle"
    <2>1. Overtaken(v) = [jobs[v] EXCEPT !.fresh = FALSE]
      BY <1>3 DEF Overtaken
    <2> QED
      BY <1>1, <2>1 DEF InShape, Job
  <1> QED
    BY <1>2, <1>3

\* All jobs but one that is given are overtaken.
LEMMA JobsOvertaken ==
  ASSUME LedgerInv, NEW w, NEW new, InShape(new),
         jobs' = [v \in Workers |-> IF v = w THEN new ELSE Overtaken(v)]
  PROVE  /\ jobs' \in [Workers -> Job]
         /\ \A v \in Workers : InShape(jobs'[v])
         /\ \A v \in Workers : \A i \in DOMAIN jobs'[v].rows : AmountsFit(jobs'[v].rows[i])
  <1>1. \A v \in Workers : InShape(jobs'[v])
    BY OvertakenInShape
  <1>2. jobs' \in [Workers -> Job]
    BY OvertakenInShape DEF InShape
  <1> QED
    BY <1>1, <1>2 DEF InShape

LEMMA AtOnceKeeps ==
  ASSUME LedgerInv, AtOnce
  PROVE  /\ jobs' \in [Workers -> Job]
         /\ \A v \in Workers : InShape(jobs'[v])
         /\ \A v \in Workers : \A i \in DOMAIN jobs'[v].rows : AmountsFit(jobs'[v].rows[i])
  <1>1. \A v \in Workers : InShape(jobs'[v])
    BY OvertakenInShape DEF AtOnce
  <1>2. jobs' \in [Workers -> Job]
    BY OvertakenInShape DEF InShape, AtOnce
  <1> QED
    BY <1>1, <1>2 DEF InShape

\* Rows that are good are appended.
LEMMA LedgerGrows ==
  ASSUME LedgerInv, NEW rows \in Seq(Row),
         \A i \in DOMAIN rows : AmountsFit(rows[i]) /\ rows[i].valid /\ rows[i].voidLines = 0,
         ledger' = ledger \o rows
  PROVE  /\ ledger' \in Seq(Row)
         /\ \A i \in DOMAIN ledger' : AmountsFit(ledger'[i])
         /\ VoidsAreLogged'
  <1>1. ledger \in Seq(Row) /\ ledger' \in Seq(Row)
    BY DEF LedgerInv, TypeOK
  <1>2. ASSUME NEW i \in DOMAIN ledger'
        PROVE  \/ i \in DOMAIN ledger /\ ledger'[i] = ledger[i]
               \/ i - Len(ledger) \in DOMAIN rows /\ ledger'[i] = rows[i - Len(ledger)]
    BY <1>1
  <1>3. \A i \in DOMAIN ledger' : AmountsFit(ledger'[i])
    BY <1>2 DEF LedgerInv, TypeOK
  <1>4. VoidsAreLogged'
    BY <1>2 DEF LedgerInv, VoidsAreLogged
  <1> QED
    BY <1>1, <1>3, <1>4

LEMMA MadeType ==
  ASSUME TypeOK, NEW k \in Kinds, Make(k)
  PROVE  made' \in [Kinds -> Nat]
  BY DEF TypeOK, Make

-----------------------------------------------------------------------------
(* The steps of a sale *)

LEMMA ReadInShape ==
  ASSUME LedgerInv, NEW w \in Workers, NEW from, NEW sign \in Int, NEW kinds, NEW to,
         ReadTotal(w, from, sign, kinds, to),
         from \in {"deposits", "spent", "adjustments"}, to \in {"spent", "adjustments", "decide"}
  PROVE  LedgerInv'
  <1> DEFINE job == jobs[w]
             seen == [s \in Shoppers |-> IF s \in job.asked
                                         THEN job.seen[s] + sign * Total(ledger, s, kinds)
                                         ELSE job.seen[s]]
             new == [job EXCEPT !.pc = to, !.seen = seen]
  <1>1. InShape(job) /\ job \in Job /\ jobs \in [Workers -> Job] /\ ledger \in Seq(Row)
    BY DEF LedgerInv, InShape, TypeOK
  <1>2. seen \in [Shoppers -> Int]
    <2>1. ASSUME NEW s \in Shoppers
          PROVE  (IF s \in job.asked THEN job.seen[s] + sign * Total(ledger, s, kinds)
                                     ELSE job.seen[s]) \in Int
      <3>1. job.seen[s] \in Int
        BY <1>1 DEF Job
      <3>2. Total(ledger, s, kinds) \in Int
        BY <1>1, TotalType
      <3>3. sign * Total(ledger, s, kinds) \in Int
        BY <3>2
      <3> QED
        BY <3>1, <3>3
    <2> QED
      BY <2>1
  <1>3. jobs' = [jobs EXCEPT ![w] = new]
    BY <1>1 DEF ReadTotal
  <1>4. job.pc = from
    BY DEF ReadTotal
  <1> HIDE DEF seen
  <1>5. InShape(new)
    BY <1>1, <1>2, <1>4 DEF InShape, Job
  <1>6. UNCHANGED <<clock, active, limit, interestOn, ledger, mails, made>>
    BY DEF ReadTotal, settings
  <1> HIDE DEF new
  <1> QED
    BY <1>3, <1>5, <1>6, JobStepKeeps

LEMMA BeginSaleKeeps ==
  ASSUME LedgerInv, NEW w \in Workers, NEW chosen \in SUBSET Shoppers, NEW price \in Prices,
         BeginSale(w, chosen, price)
  PROVE  LedgerInv'
  <1> DEFINE buyers == {s \in chosen : active[s]}
             new == [Idle EXCEPT !.pc = "deposits", !.kind = "sale", !.who = buyers,
                                 !.asked = buyers, !.price = price]
  <1>1. buyers \in SUBSET Shoppers /\ buyers # {} /\ price \in Nat
    BY ConstantsAssumption DEF BeginSale
  <1>2. jobs' = [jobs EXCEPT ![w] = new]
    BY DEF BeginSale
  <1> HIDE DEF buyers
  <1>3. InShape(new)
    BY <1>1, IdleInShape DEF InShape, Idle, Job
  <1>4. made' \in [Kinds -> Nat]
    BY MadeType DEF BeginSale, LedgerInv, Kinds
  <1>5. UNCHANGED <<clock, active, limit, interestOn, ledger, mails>>
    BY DEF BeginSale, settings
  <1> HIDE DEF new
  <1> QED
    BY <1>2, <1>3, <1>4, <1>5, JobMoves DEF LedgerInv, TypeOK, VoidsAreLogged

\* A job that ends leaves an idle worker.
LEMMA FinishKeeps ==
  ASSUME LedgerInv, NEW w \in Workers, Finish(w),
         UNCHANGED <<clock, active, limit, interestOn, ledger>>,
         mails' \in [Shoppers -> Nat], made' \in [Kinds -> Nat]
  PROVE  LedgerInv'
  BY IdleInShape, JobMoves DEF Finish, LedgerInv, TypeOK, VoidsAreLogged

LEMMA WriteSaleKeeps ==
  ASSUME LedgerInv, NEW w \in Workers, WriteSale(w)
  PROVE  LedgerInv'
  <1> DEFINE job == jobs[w]
             row == NewRow("sale", SharedOut(job.price, job.who))
             new == [job EXCEPT !.pc = "priced", !.rows = <<row>>]
  <1>1. /\ InShape(job) /\ job \in Job /\ jobs \in [Workers -> Job]
        /\ job.pc = "decide" /\ job.kind = "sale"
    BY DEF LedgerInv, InShape, TypeOK, WriteSale
  <1>2. job.price \in Nat /\ job.who \in SUBSET Shoppers /\ job.who # {}
    BY <1>1 DEF InShape, Job
  <1>3. row \in Row /\ AmountsFit(row) /\ row.valid /\ row.voidLines = 0
    BY <1>2, SharesType, NewRowType DEF LedgerInv
  <1>4. jobs' = [jobs EXCEPT ![w] = new]
    BY <1>1 DEF WriteSale
  <1> HIDE DEF row
  <1>5. InShape(new)
    <2> DEFINE rows == <<row>>
    <2>1. rows \in Seq(Row) /\ \A i \in DOMAIN rows : rows[i] = row
      BY <1>3
    <2>2. new = [job EXCEPT !.pc = "priced", !.rows = rows]
      OBVIOUS
    <2> HIDE DEF rows, new
    <2> QED
      BY <1>1, <1>3, <2>1, <2>2 DEF InShape, Job
  <1>6. UNCHANGED <<clock, active, limit, interestOn, ledger, mails, made>>
    BY DEF WriteSale, settings
  <1> HIDE DEF new
  <1> QED
    BY <1>4, <1>5, <1>6, JobStepKeeps

\* A commit appends what the job has written.
LEMMA CommitKeeps ==
  ASSUME LedgerInv, NEW w \in Workers, NEW new, InShape(new), Commit(w, new),
         UNCHANGED <<clock, active, limit, interestOn, mails, made>>
  PROVE  LedgerInv'
  <1>1. /\ jobs[w].rows \in Seq(Row)
        /\ \A i \in DOMAIN jobs[w].rows : /\ AmountsFit(jobs[w].rows[i])
                                         /\ jobs[w].rows[i].valid
                                         /\ jobs[w].rows[i].voidLines = 0
    BY DEF LedgerInv, InShape, Job
  <1>2. ledger' = ledger \o jobs[w].rows
    BY DEF Commit
  <1>3. /\ ledger' \in Seq(Row)
        /\ \A i \in DOMAIN ledger' : AmountsFit(ledger'[i])
        /\ VoidsAreLogged'
    BY <1>1, <1>2, LedgerGrows
  <1>4. /\ jobs' \in [Workers -> Job]
        /\ \A v \in Workers : InShape(jobs'[v])
        /\ \A v \in Workers : \A i \in DOMAIN jobs'[v].rows : AmountsFit(jobs'[v].rows[i])
    BY JobsOvertaken DEF Commit
  <1> QED
    BY <1>3, <1>4 DEF LedgerInv, TypeOK

LEMMA CommitSaleKeeps ==
  ASSUME LedgerInv, NEW w \in Workers, CommitSale(w)
  PROVE  LedgerInv'
  <1> DEFINE new == [jobs[w] EXCEPT !.pc = "warn"]
  <1>1. InShape(jobs[w]) /\ jobs[w].pc = "priced"
    BY DEF LedgerInv, CommitSale
  <1>2. InShape(new)
    BY <1>1 DEF InShape, Job
  <1>3. Commit(w, new)
    BY DEF CommitSale
  <1> HIDE DEF new
  <1> QED
    BY <1>2, <1>3, CommitKeeps DEF CommitSale, settings

LEMMA SendWarningsKeeps ==
  ASSUME LedgerInv, NEW w \in Workers, SendWarnings(w)
  PROVE  LedgerInv'
  <1>1. \A old, new : Cardinality(FallsThrough(old, new)) \in Nat
    BY ConstantsAssumption, FS_Subset, FS_CardinalityType DEF FallsThrough
  <1>2. mails' \in [Shoppers -> Nat]
    BY <1>1 DEF SendWarnings, LedgerInv, TypeOK
  <1> QED
    BY <1>2, FinishKeeps DEF SendWarnings, LedgerInv, TypeOK, settings

-----------------------------------------------------------------------------
(* The steps of an interest run *)

LEMMA BeginInterestKeeps ==
  ASSUME LedgerInv, NEW w \in Workers, BeginInterest(w)
  PROVE  LedgerInv'
  <1> DEFINE who == {s \in Shoppers : active[s]}
             month == Calendar[clock].utc
             since == Len(ledger)
             new == [Idle EXCEPT !.pc = "next", !.kind = "interest", !.who = who,
                                 !.month = month, !.since = since]
  <1>1. who \in SUBSET Shoppers /\ month \in Nat /\ since \in Nat
    BY MonthType DEF LedgerInv, TypeOK
  <1>2. jobs' = [jobs EXCEPT ![w] = new]
    BY DEF BeginInterest
  <1> HIDE DEF who, month, since
  <1>3. InShape(new)
    <2>1. \A i \in DOMAIN Idle.rows : FALSE
      BY DEF Idle
    <2>2. Idle \in Job
      BY IdleInShape DEF InShape
    <2> QED
      BY <1>1, <2>1, <2>2 DEF InShape, Job
  <1>4. made' \in [Kinds -> Nat]
    BY MadeType DEF BeginInterest, LedgerInv, Kinds
  <1>5. UNCHANGED <<clock, active, limit, interestOn, ledger, mails>>
    BY DEF BeginInterest, settings
  <1> HIDE DEF new
  <1> QED
    BY <1>2, <1>3, <1>4, <1>5, JobMoves DEF LedgerInv, TypeOK, VoidsAreLogged

LEMMA NextShopperKeeps ==
  ASSUME LedgerInv, NEW w \in Workers, NextShopper(w)
  PROVE  LedgerInv'
  <1>1. /\ InShape(jobs[w]) /\ jobs[w].pc = "next" /\ jobs \in [Workers -> Job]
    BY DEF LedgerInv, TypeOK, NextShopper
  <1>2. PICK s \in jobs[w].who :
           jobs' = [jobs EXCEPT ![w].pc = "deposits", ![w].asked = {s}, ![w].seen = Idle.seen]
    BY DEF NextShopper
  <1> DEFINE new == [jobs[w] EXCEPT !.pc = "deposits", !.asked = {s}, !.seen = Idle.seen]
  <1>3. s \in Shoppers /\ Idle.seen \in [Shoppers -> Int]
    BY <1>1 DEF InShape, Job, Idle
  <1>4. InShape(new)
    BY <1>1, <1>3 DEF InShape, Job
  <1>5. jobs' = [jobs EXCEPT ![w] = new]
    BY <1>1, <1>2
  <1>6. UNCHANGED <<clock, active, limit, interestOn, ledger, mails, made>>
    BY DEF NextShopper, settings
  <1> HIDE DEF new
  <1> QED
    BY <1>4, <1>5, <1>6, JobStepKeeps

\* What an interest run writes for a shopper: one row more, or none.
LEMMA JudgedRows ==
  ASSUME LedgerInv, NEW w \in Workers, JudgeShopper(w)
  PROVE  \E s \in Shoppers, row \in Row :
            /\ s \in jobs[w].asked
            /\ row = NewRow("interest", Only(s, -Charge(jobs[w].seen[s])))
            /\ row \in Row /\ AmountsFit(row) /\ row.valid /\ row.voidLines = 0
            /\ row.kind = "interest"
            /\ jobs' = [jobs EXCEPT ![w] = [jobs[w] EXCEPT
                           !.pc = "next", !.who = @ \ {s},
                           !.rows = IF IsCharged(jobs[w], s) THEN Append(@, row) ELSE @]]
  <1>1. InShape(jobs[w]) /\ jobs \in [Workers -> Job]
    BY DEF LedgerInv, TypeOK
  <1>2. PICK s \in jobs[w].asked :
           jobs' = [jobs EXCEPT
                      ![w].pc = "next",
                      ![w].who = @ \ {s},
                      ![w].rows = IF IsCharged(jobs[w], s)
                                  THEN Append(@, NewRow("interest", Only(s, -Charge(jobs[w].seen[s]))))
                                  ELSE @]
    BY DEF JudgeShopper
  <1> DEFINE amounts == Only(s, -Charge(jobs[w].seen[s]))
             row == NewRow("interest", amounts)
  <1>3. s \in Shoppers /\ jobs[w].seen[s] \in Int
    BY <1>1 DEF InShape, Job
  <1>4. amounts \in [Shoppers -> Int]
    BY <1>3, ChargeType, OnlyType
  <1> HIDE DEF amounts
  <1>5. row \in Row /\ AmountsFit(row) /\ row.valid /\ row.voidLines = 0 /\ row.kind = "interest"
    BY <1>4, NewRowType DEF LedgerInv
  <1>6. row = NewRow("interest", Only(s, -Charge(jobs[w].seen[s])))
    BY DEF amounts
  <1> HIDE DEF row
  <1>7. jobs' = [jobs EXCEPT ![w] = [jobs[w] EXCEPT
                    !.pc = "next", !.who = @ \ {s},
                    !.rows = IF IsCharged(jobs[w], s) THEN Append(@, row) ELSE @]]
    BY <1>1, <1>2, <1>6
  <1> QED
    BY <1>3, <1>5, <1>6, <1>7

LEMMA JudgeShopperKeeps ==
  ASSUME LedgerInv, NEW w \in Workers, JudgeShopper(w)
  PROVE  LedgerInv'
  <1>1. InShape(jobs[w]) /\ jobs[w].kind = "interest"
    BY DEF LedgerInv, JudgeShopper
  <1>2. PICK s \in Shoppers, row \in Row :
            /\ row \in Row /\ AmountsFit(row) /\ row.valid /\ row.voidLines = 0
            /\ row.kind = "interest"
            /\ jobs' = [jobs EXCEPT ![w] = [jobs[w] EXCEPT
                           !.pc = "next", !.who = @ \ {s},
                           !.rows = IF IsCharged(jobs[w], s) THEN Append(@, row) ELSE @]]
    BY JudgedRows
  <1> DEFINE rows == IF IsCharged(jobs[w], s) THEN Append(jobs[w].rows, row) ELSE jobs[w].rows
             new == [jobs[w] EXCEPT !.pc = "next", !.who = @ \ {s}, !.rows = rows]
  <1>3. /\ rows \in Seq(Row)
        /\ \A i \in DOMAIN rows : /\ AmountsFit(rows[i]) /\ rows[i].valid
                                 /\ rows[i].voidLines = 0 /\ rows[i].kind = "interest"
    BY <1>1, <1>2 DEF InShape, Job
  <1>4. jobs' = [jobs EXCEPT ![w] = new]
    BY <1>2
  <1> HIDE DEF rows
  <1>5. InShape(new)
    BY <1>1, <1>3 DEF InShape, Job
  <1>6. UNCHANGED <<clock, active, limit, interestOn, ledger, mails, made>>
    BY DEF JudgeShopper, settings
  <1> HIDE DEF new
  <1> QED
    BY <1>4, <1>5, <1>6, JobStepKeeps

LEMMA CommitInterestKeeps ==
  ASSUME LedgerInv, NEW w \in Workers, CommitInterest(w)
  PROVE  LedgerInv'
  <1>1. UNCHANGED <<clock, active, limit, interestOn, mails, made>>
    BY DEF CommitInterest, settings
  <1>2. CASE jobs[w].rows = <<>>
    BY <1>1, <1>2, FinishKeeps DEF CommitInterest, LedgerInv, TypeOK
  <1>3. CASE jobs[w].rows # <<>>
    BY <1>1, <1>3, CommitKeeps, IdleInShape DEF CommitInterest
  <1> QED
    BY <1>2, <1>3

-----------------------------------------------------------------------------
(* The steps of the administration *)

LEMMA BookKeeps ==
  ASSUME LedgerInv, NEW row \in Row, AmountsFit(row), row.valid, row.voidLines = 0,
         Book(row), made' \in [Kinds -> Nat]
  PROVE  LedgerInv'
  <1>1. ledger' = ledger \o <<row>>
    BY DEF Book, LedgerInv, TypeOK
  <1>2. /\ ledger' \in Seq(Row)
        /\ \A i \in DOMAIN ledger' : AmountsFit(ledger'[i])
        /\ VoidsAreLogged'
    <2> DEFINE rows == <<row>>
    <2>1. rows \in Seq(Row) /\ \A i \in DOMAIN rows : rows[i] = row
      OBVIOUS
    <2>2. ledger' = ledger \o rows
      BY <1>1
    <2> HIDE DEF rows
    <2> QED
      BY <2>1, <2>2, LedgerGrows
  <1>3. /\ jobs' \in [Workers -> Job]
        /\ \A v \in Workers : InShape(jobs'[v])
        /\ \A v \in Workers : \A i \in DOMAIN jobs'[v].rows : AmountsFit(jobs'[v].rows[i])
    BY AtOnceKeeps DEF Book
  <1> QED
    BY <1>2, <1>3 DEF Book, LedgerInv, TypeOK, settings

LEMMA VoidKeeps ==
  ASSUME LedgerInv, NEW i \in DOMAIN ledger, Void(i)
  PROVE  LedgerInv'
  <1> DEFINE old == ledger[i]
             lines == IF old.kind = "deposit" THEN old.voidLines ELSE old.voidLines + 1
             row == [old EXCEPT !.valid = FALSE, !.voidLines = lines]
  <1>1. ledger \in Seq(Row) /\ i \in 1..Len(ledger) /\ old \in Row
    BY DEF LedgerInv, TypeOK
  <1>2. ledger' = [ledger EXCEPT ![i] = row]
    BY <1>1 DEF Void
  <1>3. /\ row \in Row /\ row.kind = ledger[i].kind /\ ~row.valid
        /\ row.amounts = ledger[i].amounts /\ row.voidLines = lines
    <2>1. old.voidLines \in Nat
      BY <1>1 DEF Row
    <2>2. lines \in Nat
      BY <2>1
    <2> HIDE DEF old, lines
    <2>3. row \in Row /\ row.kind = old.kind /\ ~row.valid /\ row.amounts = old.amounts /\ row.voidLines = lines
      BY <1>1, <2>2 DEF Row
    <2> QED
      BY <2>3 DEF old
  <1>4. row.kind # "deposit" => row.voidLines = 1
    <2>1. old.kind # "deposit" => old.voidLines = 0
      BY DEF LedgerInv, VoidsAreLogged, Void, Voids
    <2> QED
      BY <1>3, <2>1
  <1>5. AmountsFit(row)
    BY <1>3 DEF LedgerInv, TypeOK, AmountsFit
  <1> HIDE DEF row
  <1>6. /\ ledger' \in Seq(Row) /\ DOMAIN ledger' = DOMAIN ledger
        /\ \A j \in DOMAIN ledger : ledger'[j] = IF j = i THEN row ELSE ledger[j]
    BY <1>1, <1>2, <1>3
  <1>7. \A j \in DOMAIN ledger' : AmountsFit(ledger'[j])
    BY <1>5, <1>6 DEF LedgerInv, TypeOK
  <1>8. VoidsAreLogged'
    BY <1>3, <1>4, <1>6 DEF LedgerInv, VoidsAreLogged
  <1>9. /\ jobs' \in [Workers -> Job]
        /\ \A v \in Workers : InShape(jobs'[v])
        /\ \A v \in Workers : \A k \in DOMAIN jobs'[v].rows : AmountsFit(jobs'[v].rows[k])
    BY AtOnceKeeps DEF Void
  <1>10. made' \in [Kinds -> Nat]
    BY MadeType DEF Void, LedgerInv, Kinds
  <1> QED
    BY <1>6, <1>7, <1>8, <1>9, <1>10 DEF Void, LedgerInv, TypeOK, settings

\* A change of the rules leaves the ledger alone.
LEMMA SettingKeeps ==
  ASSUME LedgerInv, Make("setting"), AtOnce, UNCHANGED <<clock, ledger, mails>>,
         active' \in [Shoppers -> BOOLEAN], limit' \in Limits, interestOn' \in BOOLEAN
  PROVE  LedgerInv'
  <1>1. /\ jobs' \in [Workers -> Job]
        /\ \A v \in Workers : InShape(jobs'[v])
        /\ \A v \in Workers : \A k \in DOMAIN jobs'[v].rows : AmountsFit(jobs'[v].rows[k])
    BY AtOnceKeeps
  <1>2. made' \in [Kinds -> Nat]
    BY MadeType DEF LedgerInv, Kinds
  <1> QED
    BY <1>1, <1>2 DEF LedgerInv, TypeOK, VoidsAreLogged

LEMMA AdministrationKeeps ==
  ASSUME LedgerInv, Administration
  PROVE  LedgerInv'
  <1>1. ASSUME NEW s \in Shoppers, NEW amount \in Amounts, RecordDeposit(s, amount)
        PROVE  LedgerInv'
    <2> DEFINE row == NewRow("deposit", Only(s, amount))
    <2>1. amount \in Int /\ amount >= 0
      BY <1>1, ConstantsAssumption DEF RecordDeposit, IsDeposit
    <2>2. row \in Row /\ AmountsFit(row) /\ row.valid /\ row.voidLines = 0
      BY <2>1, OnlyType, NewRowType DEF LedgerInv
    <2>3. Book(row) /\ made' \in [Kinds -> Nat]
      BY <1>1, MadeType DEF RecordDeposit, LedgerInv, Kinds
    <2> HIDE DEF row
    <2> QED
      BY <2>2, <2>3, BookKeeps
  <1>2. ASSUME NEW s \in Shoppers, NEW amount \in Amounts, RecordAdjustment(s, amount)
        PROVE  LedgerInv'
    <2> DEFINE row == NewRow("manual", Only(s, amount))
    <2>1. amount \in Int
      BY ConstantsAssumption
    <2>2. row \in Row /\ AmountsFit(row) /\ row.valid /\ row.voidLines = 0
      BY <2>1, OnlyType, NewRowType DEF LedgerInv
    <2>3. Book(row) /\ made' \in [Kinds -> Nat]
      BY <1>2, MadeType DEF RecordAdjustment, LedgerInv, Kinds
    <2> HIDE DEF row
    <2> QED
      BY <2>2, <2>3, BookKeeps
  <1>3. ASSUME NEW i \in DOMAIN ledger, Void(i)
        PROVE  LedgerInv'
    BY <1>3, VoidKeeps
  <1>4. ASSUME NEW s \in Shoppers, SetActive(s)
        PROVE  LedgerInv'
    BY <1>4, SettingKeeps DEF SetActive, LedgerInv, TypeOK
  <1>5. ASSUME NEW l \in Limits, UpdatePurchasePolicy(l)
        PROVE  LedgerInv'
    BY <1>5, SettingKeeps DEF UpdatePurchasePolicy, LedgerInv, TypeOK
  <1>6. ASSUME UpdateInterest
        PROVE  LedgerInv'
    BY <1>6, SettingKeeps DEF UpdateInterest, LedgerInv, TypeOK
  <1> QED
    BY <1>1, <1>2, <1>3, <1>4, <1>5, <1>6 DEF Administration

-----------------------------------------------------------------------------
LEMMA InitHolds == Init => LedgerInv
  <1> SUFFICES ASSUME Init
               PROVE  LedgerInv
    OBVIOUS
  <1>1. clock \in 1..Len(Calendar)
    BY ConstantsAssumption DEF Init
  <1>2. Calendar[clock].local \in Nat
    <2> DEFINE Turn == [utc: Nat, local: Nat]
    <2>1. Calendar \in Seq(Turn)
      BY ConstantsAssumption
    <2> HIDE DEF Turn
    <2>2. Calendar[clock] \in Turn
      BY <1>1, <2>1
    <2> QED
      BY <2>2 DEF Turn
  <1>3. /\ ledger \in Seq(Row)
        /\ \A i \in DOMAIN ledger : AmountsFit(ledger[i])
        /\ VoidsAreLogged
    <2>1. CASE ledger = <<>>
      BY <2>1 DEF VoidsAreLogged
    <2>2. ASSUME NEW s \in Shoppers, NEW b \in Openings, ledger = <<NewRow("manual", Only(s, b))>>
          PROVE  /\ ledger \in Seq(Row)
                 /\ \A i \in DOMAIN ledger : AmountsFit(ledger[i])
                 /\ VoidsAreLogged
      <3> DEFINE row == NewRow("manual", Only(s, b))
      <3>1. /\ row \in Row /\ AmountsFit(row) /\ row.valid /\ row.voidLines = 0
        BY <1>2, OnlyType, ConstantsAssumption DEF NewRow, Row, AmountsFit
      <3> HIDE DEF row
      <3>2. ledger \in Seq(Row) /\ \A i \in DOMAIN ledger : ledger[i] = row
        BY <2>2, <3>1 DEF row
      <3> QED
        BY <3>1, <3>2 DEF VoidsAreLogged
    <2> QED
      BY <2>1, <2>2 DEF Init
  <1>4. jobs \in [Workers -> Job] /\ \A w \in Workers : InShape(jobs[w])
    BY IdleInShape DEF Init, InShape
  <1>5. \A w \in Workers : \A i \in DOMAIN jobs[w].rows : AmountsFit(jobs[w].rows[i])
    BY <1>4 DEF InShape
  <1> QED
    BY <1>1, <1>3, <1>4, <1>5 DEF Init, LedgerInv, TypeOK

LEMMA StepKeeps == LedgerInv /\ [Next]_vars => LedgerInv'
  <1> SUFFICES ASSUME LedgerInv, [Next]_vars
               PROVE  LedgerInv'
    OBVIOUS
  <1>1. CASE UNCHANGED vars
    BY <1>1 DEF vars, LedgerInv, TypeOK, VoidsAreLogged
  <1>2. CASE NextMonth
    <2>1. made' \in [Kinds -> Nat]
      BY <1>2, MadeType DEF NextMonth, LedgerInv, Kinds
    <2>2. clock' \in 1..Len(Calendar)
      BY <1>2, ConstantsAssumption DEF NextMonth, LedgerInv, TypeOK
    <2> QED
      BY <1>2, <2>1, <2>2 DEF NextMonth, LedgerInv, TypeOK, VoidsAreLogged, settings
  <1>3. CASE Administration
    BY <1>3, AdministrationKeeps
  <1>4. ASSUME NEW w \in Workers, Till(w)
        PROVE  LedgerInv'
    <2>1. ASSUME NEW chosen \in SUBSET Shoppers, NEW price \in Prices, BeginSale(w, chosen, price)
          PROVE  LedgerInv'
      BY <2>1, BeginSaleKeeps
    <2>2. CASE RefuseSale(w)
      BY <2>2, FinishKeeps DEF RefuseSale, LedgerInv, TypeOK, settings
    <2> QED
      BY <1>4, <2>1, <2>2, WriteSaleKeeps, CommitSaleKeeps, SendWarningsKeeps DEF Till
  <1>5. ASSUME NEW w \in Workers, Interest(w)
        PROVE  LedgerInv'
    BY <1>5, BeginInterestKeeps, NextShopperKeeps, JudgeShopperKeeps, CommitInterestKeeps
       DEF Interest
  <1>6. ASSUME NEW w \in Workers, ReadDeposits(w) \/ ReadSpent(w) \/ ReadAdjustments(w)
        PROVE  LedgerInv'
    BY <1>6, ReadInShape DEF ReadDeposits, ReadSpent, ReadAdjustments
  <1>7. ASSUME NEW w \in Workers, Crash(w)
        PROVE  LedgerInv'
    <2>1. made' \in [Kinds -> Nat]
      BY <1>7, MadeType DEF Crash, LedgerInv, Kinds
    <2> QED
      BY <1>7, <2>1, FinishKeeps DEF Crash, LedgerInv, TypeOK, settings
  <1> QED
    BY <1>1, <1>2, <1>3, <1>4, <1>5, <1>6, <1>7 DEF Next

\* Every reachable state is well typed: balances are integers, shares are natural
\* numbers that a sale has buyers to pay, for every ledger, price and interleaving.
THEOREM TypeCorrect == Spec => []TypeOK
  <1>1. LedgerInv => TypeOK
    BY DEF LedgerInv
  <1> QED
    BY <1>1, InitHolds, StepKeeps, PTL DEF Spec

\* void_purchase and void_adjustment: however requests interleave, the log has one line
\* for a row that was voided and none for one that was not.
THEOREM VoidsLoggedOnce == Spec => []VoidsAreLogged
  <1>1. LedgerInv => VoidsAreLogged
    BY DEF LedgerInv
  <1> QED
    BY <1>1, InitHolds, StepKeeps, PTL DEF Spec

-----------------------------------------------------------------------------
(***************************************************************************)
(* Interest once a month.  No lock and no constraint keeps two runs of one *)
(* month apart, and the month that is asked for need not be the one that   *)
(* the charge is dated in.  What the check of apply_interest gives is this: *)
(* of the ledger as it was when a run began, nothing the run has written   *)
(* repeats a charge of the month that the run asks for.  A run reads the   *)
(* ledger again for each shopper, which by then only has more in it.       *)
(***************************************************************************)

\* The ledger may grow and be voided: what it charges as interest remains.
Extends(old, new) ==
  /\ Len(old) <= Len(new)
  /\ \A i \in 1..Len(old), s \in Shoppers, m \in Nat :
        Interested(new[i], s, m) = Interested(old[i], s, m)

\* What an interest run has written repeats nothing of what it began with.
NoneTwice(job, lines) ==
  job.kind = "interest" =>
     /\ job.since <= Len(lines)
     /\ \A i \in 1..job.since, k \in DOMAIN job.rows, s \in Shoppers :
           ~ (Interested(lines[i], s, job.month) /\ Interested(job.rows[k], s, job.month))

ChargeInv ==
  /\ LedgerInv
  /\ \A w \in Workers : NoneTwice(jobs[w], ledger)

\* A job that has written no more than it had.
SameRun(old, new) ==
  new.kind = old.kind /\ new.month = old.month /\ new.since = old.since /\ new.rows = old.rows

LEMMA ExtendsItself == ASSUME NEW lines \in Seq(Row) PROVE Extends(lines, lines)
  BY DEF Extends

LEMMA StillNoneTwice ==
  ASSUME NEW old \in Seq(Row), NEW new \in Seq(Row), Extends(old, new),
         NEW job \in Job, NoneTwice(job, old)
  PROVE  NoneTwice(job, new)
  <1>1. job.since \in Nat /\ job.month \in Nat /\ Len(old) \in Nat /\ Len(new) \in Nat
    BY DEF Job
  <1> QED
    BY <1>1 DEF NoneTwice, Extends

LEMMA AppendExtends ==
  ASSUME NEW old \in Seq(Row), NEW rows \in Seq(Row), NEW new, new = old \o rows
  PROVE  Extends(old, new)
  <1>1. new \in Seq(Row) /\ Len(new) = Len(old) + Len(rows) /\ \A i \in 1..Len(old) : new[i] = old[i]
    OBVIOUS
  <1> QED
    BY <1>1 DEF Extends

\* Whatever commits, the charges there are stay as they are.
LEMMA ChargesStay ==
  ASSUME LedgerInv, LedgerInv', [Next]_vars
  PROVE  Extends(ledger, ledger')
  <1>1. ledger \in Seq(Row) /\ \A w \in Workers : jobs[w].rows \in Seq(Row)
    BY DEF LedgerInv, TypeOK, InShape, Job
  <1>2. CASE ledger' = ledger
    BY <1>1, <1>2, ExtendsItself
  <1>3. ASSUME NEW w \in Workers, NEW new, Commit(w, new)
        PROVE  Extends(ledger, ledger')
    BY <1>1, <1>3, AppendExtends DEF Commit
  <1>4. ASSUME NEW row, Book(row)
        PROVE  Extends(ledger, ledger')
    <2>1. /\ ledger' = Append(ledger, row) /\ Len(ledger') = Len(ledger) + 1
          /\ \A i \in 1..Len(ledger) : ledger'[i] = ledger[i]
      BY <1>1, <1>4 DEF Book
    <2> QED
      BY <1>1, <2>1 DEF Extends
  <1>5. ASSUME NEW j \in DOMAIN ledger, Void(j)
        PROVE  Extends(ledger, ledger')
    <2>1. Len(ledger') = Len(ledger) /\ ledger[j] \in Row
      BY <1>1, <1>5 DEF Void
    <2>2. ASSUME NEW i \in 1..Len(ledger)
          PROVE  /\ ledger'[i].kind = ledger[i].kind /\ ledger'[i].month = ledger[i].month
                 /\ ledger'[i].amounts = ledger[i].amounts
      BY <1>1, <1>5, <2>1 DEF Void, Row
    <2> QED
      BY <1>1, <2>1, <2>2 DEF Extends, Interested
  <1>6. CASE Administration
    BY <1>2, <1>4, <1>5, <1>6
       DEF Administration, RecordDeposit, RecordAdjustment, SetActive, UpdatePurchasePolicy,
           UpdateInterest
  <1>7. ASSUME NEW w \in Workers, Till(w)
        PROVE  Extends(ledger, ledger')
    BY <1>2, <1>3, <1>7 DEF Till, BeginSale, RefuseSale, WriteSale, CommitSale, SendWarnings
  <1>8. ASSUME NEW w \in Workers, Interest(w)
        PROVE  Extends(ledger, ledger')
    BY <1>2, <1>3, <1>8 DEF Interest, BeginInterest, NextShopper, JudgeShopper, CommitInterest
  <1> QED
    BY <1>2, <1>6, <1>7, <1>8
       DEF Next, vars, NextMonth, ReadDeposits, ReadSpent, ReadAdjustments, ReadTotal, Crash

LEMMA OvertakenIsSame ==
  ASSUME LedgerInv, NEW v \in Workers
  PROVE  SameRun(jobs[v], Overtaken(v))
  <1>1. jobs[v] \in Job
    BY DEF LedgerInv, InShape
  <1> QED
    BY <1>1 DEF SameRun, Overtaken, Job

LEMMA JobsTyped == ASSUME LedgerInv PROVE jobs \in [Workers -> Job] /\ ledger \in Seq(Row)
  BY DEF LedgerInv, TypeOK

\* A step of one job, which writes no row of interest.
LEMMA SameRunsKeep ==
  ASSUME ChargeInv,
         \A v \in Workers : jobs'[v].kind = "sale" \/ SameRun(jobs[v], jobs'[v])
  PROVE  \A v \in Workers : NoneTwice(jobs'[v], ledger)
  BY DEF ChargeInv, NoneTwice, SameRun

LEMMA CommitsAreSame ==
  ASSUME ChargeInv, NEW w \in Workers, NEW new, Commit(w, new), new.kind = "sale"
  PROVE  \A v \in Workers : NoneTwice(jobs'[v], ledger)
  BY SameRunsKeep, OvertakenIsSame DEF Commit, ChargeInv

LEMMA FinishIsSale ==
  ASSUME ChargeInv, NEW w \in Workers, Finish(w)
  PROVE  \A v \in Workers : NoneTwice(jobs'[v], ledger)
  <1>1. Idle.kind = "sale"
    BY DEF Idle
  <1>2. \A v \in Workers : jobs'[v].kind = "sale" \/ SameRun(jobs[v], jobs'[v])
    BY <1>1, JobsTyped DEF Finish, ChargeInv, SameRun
  <1> QED
    BY <1>2, SameRunsKeep

LEMMA TillWritesNoInterest ==
  ASSUME ChargeInv, NEW w \in Workers, Till(w)
  PROVE  \A v \in Workers : NoneTwice(jobs'[v], ledger)
  <1>1. jobs \in [Workers -> Job] /\ jobs[w] \in Job
    BY JobsTyped DEF ChargeInv
  <1>2. ASSUME NEW chosen \in SUBSET Shoppers, NEW price \in Prices, BeginSale(w, chosen, price)
        PROVE  \A v \in Workers : jobs'[v].kind = "sale" \/ SameRun(jobs[v], jobs'[v])
    <2>1. jobs'[w].kind = "sale"
      BY <1>1, <1>2 DEF BeginSale, Idle
    <2> QED
      BY <1>1, <1>2, <2>1 DEF BeginSale, SameRun
  <1>3. CASE WriteSale(w)
    <2>1. jobs'[w].kind = "sale"
      BY <1>1, <1>3 DEF WriteSale, Job
    <2> QED
      BY <1>1, <1>3, <2>1, SameRunsKeep DEF WriteSale, SameRun
  <1>4. CASE CommitSale(w)
    <2>1. jobs[w].kind = "sale"
      BY <1>4 DEF CommitSale, ChargeInv, LedgerInv, InShape
    <2>2. [jobs[w] EXCEPT !.pc = "warn"].kind = "sale"
      BY <1>1, <2>1 DEF Job
    <2> QED
      BY <1>4, <2>2, CommitsAreSame DEF CommitSale
  <1> QED
    BY <1>2, <1>3, <1>4, SameRunsKeep, FinishIsSale DEF Till, RefuseSale, SendWarnings

\* One round of the loop: the shopper who is charged has no interest of the month.
LEMMA JudgedNoneTwice ==
  ASSUME ChargeInv, NEW w \in Workers, JudgeShopper(w)
  PROVE  \A v \in Workers : NoneTwice(jobs'[v], ledger)
  <1>1. /\ jobs \in [Workers -> Job] /\ jobs[w] \in Job /\ ledger \in Seq(Row)
        /\ jobs[w].kind = "interest" /\ jobs[w].rows \in Seq(Row)
        /\ jobs[w].since \in Nat /\ jobs[w].since <= Len(ledger)
    BY JobsTyped DEF ChargeInv, Job, JudgeShopper, NoneTwice
  <1>2. PICK s \in Shoppers, row \in Row :
            /\ row = NewRow("interest", Only(s, -Charge(jobs[w].seen[s])))
            /\ jobs' = [jobs EXCEPT ![w] = [jobs[w] EXCEPT
                           !.pc = "next", !.who = @ \ {s},
                           !.rows = IF IsCharged(jobs[w], s) THEN Append(@, row) ELSE @]]
    BY JudgedRows DEF ChargeInv
  <1> DEFINE rows == IF IsCharged(jobs[w], s) THEN Append(jobs[w].rows, row) ELSE jobs[w].rows
             new == [jobs[w] EXCEPT !.pc = "next", !.who = @ \ {s}, !.rows = rows]
  <1>3. jobs' = [jobs EXCEPT ![w] = new]
    BY <1>2
  <1>4. \A r \in Shoppers : r # s => row.amounts[r] = 0
    BY <1>2 DEF NewRow, Only
  <1>5. ASSUME NEW k \in DOMAIN rows
        PROVE  \/ k \in DOMAIN jobs[w].rows /\ rows[k] = jobs[w].rows[k]
               \/ rows[k] = row /\ IsCharged(jobs[w], s)
    BY <1>1
  <1>6. IsCharged(jobs[w], s) => \A i \in DOMAIN ledger : ~Interested(ledger[i], s, jobs[w].month)
    BY DEF IsCharged, AlreadyCharged, Interested
  <1> HIDE DEF rows
  <1>7. /\ new.kind = "interest" /\ new.rows = rows
        /\ new.month = jobs[w].month /\ new.since = jobs[w].since
    BY <1>1 DEF Job
  <1> HIDE DEF new
  <1>8. ASSUME NEW i \in 1..new.since, NEW k \in DOMAIN new.rows, NEW r \in Shoppers,
               Interested(ledger[i], r, new.month), Interested(new.rows[k], r, new.month)
        PROVE  FALSE
    <2>1. i \in 1..jobs[w].since /\ i \in DOMAIN ledger
      BY <1>1, <1>7
    <2>2. CASE k \in DOMAIN jobs[w].rows /\ rows[k] = jobs[w].rows[k]
      BY <1>1, <1>7, <1>8, <2>1, <2>2 DEF ChargeInv, NoneTwice
    <2>3. CASE rows[k] = row /\ IsCharged(jobs[w], s)
      <3>1. r = s
        BY <1>4, <1>7, <1>8, <2>3 DEF Interested
      <3> QED
        BY <1>6, <1>7, <1>8, <2>1, <2>3, <3>1
    <2> QED
      BY <1>5, <1>7, <2>2, <2>3
  <1>9. NoneTwice(new, ledger)
    BY <1>1, <1>7, <1>8 DEF NoneTwice
  <1> QED
    BY <1>1, <1>3, <1>9 DEF ChargeInv

LEMMA InterestNoneTwice ==
  ASSUME ChargeInv, NEW w \in Workers, Interest(w)
  PROVE  \A v \in Workers : NoneTwice(jobs'[v], ledger)
  <1>1. jobs \in [Workers -> Job] /\ jobs[w] \in Job /\ ledger \in Seq(Row)
    BY JobsTyped DEF ChargeInv
  <1>2. CASE BeginInterest(w)
    <2> DEFINE who == {s \in Shoppers : active[s]}
               new == [Idle EXCEPT !.pc = "next", !.kind = "interest", !.who = who,
                                   !.month = Calendar[clock].utc, !.since = Len(ledger)]
    <2>1. jobs' = [jobs EXCEPT ![w] = new]
      BY <1>2 DEF BeginInterest
    <2> HIDE DEF who
    <2>2. new.since = Len(ledger) /\ new.rows = <<>>
      BY DEF Idle
    <2> HIDE DEF new
    <2>3. NoneTwice(new, ledger)
      BY <1>1, <2>2 DEF NoneTwice
    <2> QED
      BY <1>1, <2>1, <2>3 DEF ChargeInv
  <1>3. CASE NextShopper(w)
    <2>0. PICK s \in jobs[w].who :
             jobs' = [jobs EXCEPT ![w].pc = "deposits", ![w].asked = {s}, ![w].seen = Idle.seen]
      BY <1>3 DEF NextShopper
    <2>1. SameRun(jobs[w], jobs'[w])
      BY <1>1, <2>0 DEF SameRun, Job
    <2> QED
      BY <1>1, <2>0, <2>1, SameRunsKeep DEF SameRun
  <1>4. CASE CommitInterest(w)
    <2>1. Idle.kind = "sale"
      BY DEF Idle
    <2> QED
      BY <1>4, <2>1, FinishIsSale, CommitsAreSame DEF CommitInterest
  <1> QED
    BY <1>2, <1>3, <1>4, JudgedNoneTwice DEF Interest

LEMMA ChargeStep ==
  ASSUME ChargeInv, [Next]_vars
  PROVE  ChargeInv'
  <1>1. LedgerInv /\ LedgerInv'
    BY StepKeeps DEF ChargeInv
  <1>2. jobs \in [Workers -> Job]
    BY <1>1, JobsTyped
  <1>3. ASSUME UNCHANGED jobs
        PROVE  \A v \in Workers : NoneTwice(jobs'[v], ledger)
    BY <1>3, SameRunsKeep DEF SameRun
  <1>4. ASSUME AtOnce
        PROVE  \A v \in Workers : NoneTwice(jobs'[v], ledger)
    BY <1>1, <1>4, SameRunsKeep, OvertakenIsSame DEF AtOnce
  <1>5. ASSUME Administration
        PROVE  \A v \in Workers : NoneTwice(jobs'[v], ledger)
    BY <1>4, <1>5 DEF Administration, RecordDeposit, RecordAdjustment, Book, Void, SetActive,
                      UpdatePurchasePolicy, UpdateInterest
  <1>6. ASSUME NEW w \in Workers, NEW from, NEW sign, NEW kinds, NEW to,
               ReadTotal(w, from, sign, kinds, to)
        PROVE  \A v \in Workers : NoneTwice(jobs'[v], ledger)
    <2>1. SameRun(jobs[w], jobs'[w])
      BY <1>2, <1>6 DEF ReadTotal, SameRun, Job
    <2> QED
      BY <1>2, <1>6, <2>1, SameRunsKeep DEF ReadTotal, SameRun
  <1>7. \A v \in Workers : NoneTwice(jobs'[v], ledger)
    BY <1>3, <1>5, <1>6, TillWritesNoInterest, InterestNoneTwice, FinishIsSale
       DEF Next, vars, NextMonth, ReadDeposits, ReadSpent, ReadAdjustments, Crash
  <1>8. ledger \in Seq(Row) /\ ledger' \in Seq(Row) /\ \A v \in Workers : jobs'[v] \in Job
    BY <1>1 DEF LedgerInv, TypeOK, InShape
  <1>9. \A v \in Workers : NoneTwice(jobs'[v], ledger')
    BY <1>1, <1>7, <1>8, ChargesStay, StillNoneTwice
  <1> QED
    BY <1>1, <1>9 DEF ChargeInv

\* Only the commit of a run ends it and adds to the ledger in one step.
LEMMA WhoCommits ==
  ASSUME LedgerInv, [Next]_vars, NEW w \in Workers,
         jobs[w].pc = "next", jobs'[w].pc = "idle", DOMAIN ledger' # DOMAIN ledger
  PROVE  ledger' = ledger \o jobs[w].rows
  <1>1. ledger' # ledger
    OBVIOUS
  <1>2. Overtaken(w).pc = "next"
    <2>1. jobs[w] \in Job
      BY DEF LedgerInv, InShape
    <2> QED
      BY <2>1 DEF Overtaken, Job
  <1>3. ~AtOnce
    BY <1>2 DEF AtOnce
  <1>4. ~Administration
    BY <1>3 DEF Administration, RecordDeposit, RecordAdjustment, Book, Void, SetActive,
                UpdatePurchasePolicy, UpdateInterest
  <1>5. ASSUME NEW v \in Workers, NEW new, Commit(v, new)
        PROVE  ledger' = ledger \o jobs[w].rows
    BY <1>2, <1>5 DEF Commit
  <1>6. ASSUME NEW v \in Workers, Till(v)
        PROVE  ledger' = ledger \o jobs[w].rows
    <2>1. CommitSale(v)
      BY <1>1, <1>6 DEF Till, BeginSale, RefuseSale, WriteSale, SendWarnings
    <2> QED
      BY <1>5, <2>1 DEF CommitSale
  <1>7. ASSUME NEW v \in Workers, Interest(v)
        PROVE  ledger' = ledger \o jobs[w].rows
    <2>1. CommitInterest(v)
      BY <1>1, <1>7 DEF Interest, BeginInterest, NextShopper, JudgeShopper
    <2> QED
      BY <1>1, <1>5, <2>1 DEF CommitInterest
  <1> QED
    BY <1>1, <1>4, <1>6, <1>7
       DEF Next, vars, NextMonth, ReadDeposits, ReadSpent, ReadAdjustments, ReadTotal, Crash

\* apply_interest: whatever sells, voids, corrects, charges or dies meanwhile, and wherever in the
\* run the month turns on either clock, a run charges nobody who had interest of the month that it
\* asks for when it began; for every calendar, ledger and number of workers.
THEOREM NobodyChargedAgain == Spec => NeverChargedAgain
  <1> DEFINE Again ==
        \A w \in Workers :
          jobs[w].kind = "interest" /\ jobs[w].pc = "next" /\ jobs'[w].pc = "idle" =>
             \A i \in 1..jobs[w].since, j \in DOMAIN ledger' \ DOMAIN ledger, s \in Shoppers :
                 ~ /\ Interested(ledger[i], s, jobs[w].month)
                   /\ Interested(ledger'[j], s, jobs[w].month)
  <1>1. ChargeInv /\ [Next]_vars => Again
    <2> SUFFICES ASSUME ChargeInv, [Next]_vars, NEW w \in Workers,
                        jobs[w].kind = "interest", jobs[w].pc = "next", jobs'[w].pc = "idle",
                        NEW i \in 1..jobs[w].since, NEW j \in DOMAIN ledger' \ DOMAIN ledger,
                        NEW s \in Shoppers,
                        Interested(ledger[i], s, jobs[w].month),
                        Interested(ledger'[j], s, jobs[w].month)
                 PROVE  FALSE
      OBVIOUS
    <2>1. ledger' = ledger \o jobs[w].rows
      BY WhoCommits DEF ChargeInv
    <2>2. ledger \in Seq(Row) /\ jobs[w].rows \in Seq(Row)
      BY DEF ChargeInv, LedgerInv, TypeOK, InShape, Job
    <2> DEFINE k == j - Len(ledger)
    <2>3. k \in DOMAIN jobs[w].rows /\ ledger'[j] = jobs[w].rows[k]
      BY <2>1, <2>2
    <2> HIDE DEF k
    <2> QED
      BY <2>3 DEF ChargeInv, NoneTwice
  <1>2. Init => ChargeInv
    <2>1. Init => \A w \in Workers : NoneTwice(jobs[w], ledger)
      BY DEF Init, Idle, NoneTwice
    <2> QED
      BY <2>1, InitHolds DEF ChargeInv
  <1>3. ChargeInv /\ [Next]_vars => ChargeInv'
    BY ChargeStep
  <1> QED
    BY <1>1, <1>2, <1>3, PTL DEF Spec, NeverChargedAgain

-----------------------------------------------------------------------------
(***************************************************************************)
(* What a sale knows.  It reads three aggregates, decides, commits and     *)
(* mails in steps of its own; as long as nothing overtakes it, what it has *)
(* added up is what the ledger says, of the limit it has asked about, and  *)
(* once it has committed, of the ledger but for its own row.               *)
(***************************************************************************)

LEMMA SumAppend ==
  ASSUME NEW v \in Seq(Int), NEW x \in Int
  PROVE  Sum(Append(v, x)) = Sum(v) + x
  <1> DEFINE n == Len(v)
             u == Append(v, x)
  <1>1. n \in Nat /\ u \in Seq(Int) /\ Len(u) = n + 1 /\ u[n + 1] = x /\ \A i \in 1..n : u[i] = v[i]
    OBVIOUS
  <1>2. PICK p : RunsUp(p, v, n)
    BY SomethingRunsUp
  <1> DEFINE q == [i \in 0..(n + 1) |-> IF i = n + 1 THEN p[n] + x ELSE p[i]]
  <1> HIDE DEF u, n
  <1>3. RunsUp(q, u, n + 1)
    BY <1>1, <1>2 DEF RunsUp
  <1>4. Sum(u) = q[n + 1] /\ Sum(v) = p[n]
    BY <1>1, <1>2, <1>3, SumIsRunUp DEF n
  <1> QED
    BY <1>1, <1>4 DEF u

LEMMA TotalAppend ==
  ASSUME NEW rows \in Seq(Row), NEW row \in Row, NEW s \in Shoppers, NEW kinds
  PROVE  Total(Append(rows, row), s, kinds) = Total(rows, s, kinds) + Counted(row, s, kinds)
  <1> DEFINE n == Len(rows)
             more == Append(rows, row)
             v == [i \in 1..n |-> Counted(rows[i], s, kinds)]
             u == [i \in 1..(n + 1) |-> Counted(more[i], s, kinds)]
  <1>1. \A r \in Row : Counted(r, s, kinds) \in Int
    BY DEF Counted, Row
  <1>2. n \in Nat /\ more \in Seq(Row) /\ Len(more) = n + 1 /\ more[n + 1] = row
        /\ \A i \in 1..n : more[i] = rows[i] /\ rows[i] \in Row
    OBVIOUS
  <1>3. v \in Seq(Int) /\ Counted(row, s, kinds) \in Int
    BY <1>1, <1>2
  <1>4. u = Append(v, Counted(row, s, kinds))
    <2> HIDE DEF more
    <2> QED
      BY <1>1, <1>2
  <1> HIDE DEF u, v
  <1>5. Sum(u) = Sum(v) + Counted(row, s, kinds)
    BY <1>3, <1>4, SumAppend
  <1>6. Total(more, s, kinds) = Sum(u) /\ Total(rows, s, kinds) = Sum(v)
    BY <1>2 DEF Total, u, v
  <1> QED
    BY <1>5, <1>6

\* What a valid sale takes from a balance.
LEMMA BalanceAfterSale ==
  ASSUME NEW rows \in Seq(Row), NEW row \in Row, row.valid, row.kind = "sale", NEW s \in Shoppers
  PROVE  /\ Balance(rows, s) \in Int
         /\ Balance(Append(rows, row), s) = Balance(rows, s) - row.amounts[s]
  <1>1. /\ Counted(row, s, {"deposit"}) = 0 /\ Counted(row, s, {"sale"}) = row.amounts[s]
        /\ Counted(row, s, {"manual", "interest"}) = 0 /\ row.amounts[s] \in Int
    BY DEF Counted, Row
  <1>2. \A kinds : /\ Total(rows, s, kinds) \in Int
                   /\ Total(Append(rows, row), s, kinds) = Total(rows, s, kinds) + Counted(row, s, kinds)
    BY TotalType, TotalAppend
  <1> QED
    BY <1>1, <1>2 DEF Balance

\* The ledger before its last row.
Before == SubSeq(ledger, 1, Len(ledger) - 1)

SaleKnows(job) ==
  job.kind = "sale" /\ job.fresh =>
    /\ job.pc \in {"deposits", "spent", "adjustments"} => job.asked = job.who
    /\ \A s \in job.who :
          /\ job.pc = "deposits" => job.seen[s] = 0
          /\ job.pc = "spent" => job.seen[s] = Total(ledger, s, {"deposit"})
          /\ job.pc = "adjustments" =>
                job.seen[s] = Total(ledger, s, {"deposit"}) - Total(ledger, s, {"sale"})
          /\ job.pc \in {"decide", "priced"} => job.seen[s] = Balance(ledger, s)
          /\ job.pc = "priced" /\ limit # Null => job.seen[s] >= limit
          /\ job.pc = "warn" => job.seen[s] = Balance(Before, s)
    /\ job.pc \in {"priced", "warn"} =>
          /\ Len(job.rows) = 1 /\ job.rows[1].kind = "sale"
          /\ \A s \in Shoppers \ job.who : job.rows[1].amounts[s] = 0
    /\ job.pc = "warn" => ledger # <<>> /\ ledger[Len(ledger)] = job.rows[1]

SaleInv == LedgerInv /\ \A w \in Workers : SaleKnows(jobs[w])

\* A job that takes a step of its own, and commits nothing.
LEMMA SaleJobStep ==
  ASSUME SaleInv, LedgerInv', NEW w \in Workers, NEW new, SaleKnows(new),
         jobs' = [jobs EXCEPT ![w] = new], UNCHANGED <<limit, ledger>>
  PROVE  SaleInv'
  <1>1. jobs \in [Workers -> Job]
    BY DEF SaleInv, LedgerInv, TypeOK
  <1>2. \A v \in Workers : SaleKnows(jobs'[v])
    BY <1>1 DEF SaleInv
  <1>3. Before' = Before
    BY DEF Before
  <1> QED
    BY <1>2, <1>3 DEF SaleInv, SaleKnows

\* Another request commits, or changes the rules.
LEMMA SaleOvertaken ==
  ASSUME SaleInv, LedgerInv',
         \A v \in Workers : jobs'[v] = Overtaken(v) \/ SaleKnows(jobs[v])'
  PROVE  SaleInv'
  <1>1. ASSUME NEW v \in Workers, jobs'[v] = Overtaken(v) PROVE SaleKnows(jobs[v])'
    <2>1. jobs[v] \in Job
      BY DEF SaleInv, LedgerInv, InShape
    <2>2. CASE jobs[v].pc = "idle"
      BY <1>1, <2>2 DEF Overtaken, SaleKnows
    <2>3. CASE jobs[v].pc # "idle"
      <3>1. ~jobs'[v].fresh
        BY <1>1, <2>1, <2>3 DEF Overtaken, Job
      <3> QED
        BY <3>1 DEF SaleKnows
    <2> QED
      BY <2>2, <2>3
  <1> QED
    BY <1>1 DEF SaleInv

LEMMA SaleFinish ==
  ASSUME SaleInv, LedgerInv', NEW w \in Workers, Finish(w), UNCHANGED <<limit, ledger>>
  PROVE  SaleInv'
  <1>1. SaleKnows(Idle)
    BY DEF SaleKnows, Idle
  <1> QED
    BY <1>1, SaleJobStep DEF Finish

\* One of the three aggregates is read.
LEMMA SaleReads ==
  ASSUME SaleInv, LedgerInv', NEW w \in Workers,
         ReadDeposits(w) \/ ReadSpent(w) \/ ReadAdjustments(w)
  PROVE  SaleInv'
  <1> DEFINE job == jobs[w]
             new == jobs'[w]
  <1>1. jobs \in [Workers -> Job] /\ job \in Job /\ SaleKnows(job) /\ ledger \in Seq(Row)
    BY DEF SaleInv, LedgerInv, TypeOK
  <1>2. /\ jobs' = [jobs EXCEPT ![w] = new] /\ UNCHANGED <<limit, ledger>>
        /\ new.kind = job.kind /\ new.fresh = job.fresh /\ new.who = job.who /\ new.asked = job.asked
    BY <1>1 DEF ReadDeposits, ReadSpent, ReadAdjustments, ReadTotal, Job, settings
  <1>3. ASSUME NEW from, NEW sign \in Int, NEW kinds, NEW to, ReadTotal(w, from, sign, kinds, to)
        PROVE  /\ job.pc = from /\ new.pc = to
               /\ \A s \in Shoppers : s \in job.asked =>
                     new.seen[s] = job.seen[s] + sign * Total(ledger, s, kinds)
    BY <1>1, <1>3 DEF ReadTotal, Job
  <1>4. \A s \in Shoppers : /\ Total(ledger, s, {"deposit"}) \in Int /\ Total(ledger, s, {"sale"}) \in Int
                            /\ Total(ledger, s, {"manual", "interest"}) \in Int
    BY <1>1, TotalType
  <1>5. job.who \subseteq Shoppers /\ job.seen \in [Shoppers -> Int]
    BY <1>1 DEF Job
  <1> HIDE DEF job, new
  <1>6. CASE ReadDeposits(w)
    <2>1. /\ job.pc = "deposits" /\ new.pc = "spent"
          /\ \A s \in Shoppers : s \in job.asked =>
                new.seen[s] = job.seen[s] + 1 * Total(ledger, s, {"deposit"})
      BY <1>3, <1>6 DEF ReadDeposits
    <2>2. SaleKnows(new)
      BY <1>1, <1>2, <1>4, <1>5, <2>1 DEF SaleKnows
    <2> QED
      BY <1>2, <2>2, SaleJobStep
  <1>7. CASE ReadSpent(w)
    <2>1. /\ job.pc = "spent" /\ new.pc = "adjustments"
          /\ \A s \in Shoppers : s \in job.asked =>
                new.seen[s] = job.seen[s] + (-1) * Total(ledger, s, {"sale"})
      BY <1>3, <1>7 DEF ReadSpent
    <2>2. SaleKnows(new)
      BY <1>1, <1>2, <1>4, <1>5, <2>1 DEF SaleKnows
    <2> QED
      BY <1>2, <2>2, SaleJobStep
  <1>8. CASE ReadAdjustments(w)
    <2>1. /\ job.pc = "adjustments" /\ new.pc = "decide"
          /\ \A s \in Shoppers : s \in job.asked =>
                new.seen[s] = job.seen[s] + 1 * Total(ledger, s, {"manual", "interest"})
      BY <1>3, <1>8 DEF ReadAdjustments
    <2>2. SaleKnows(new)
      BY <1>1, <1>2, <1>4, <1>5, <2>1 DEF SaleKnows, Balance
    <2> QED
      BY <1>2, <2>2, SaleJobStep
  <1> QED
    BY <1>6, <1>7, <1>8

LEMMA SaleWrites ==
  ASSUME SaleInv, LedgerInv', NEW w \in Workers, WriteSale(w)
  PROVE  SaleInv'
  <1> DEFINE job == jobs[w]
             amounts == SharedOut(job.price, job.who)
             rows == <<NewRow("sale", amounts)>>
             new == [job EXCEPT !.pc = "priced", !.rows = rows]
  <1>1. job \in Job /\ SaleKnows(job) /\ limit \in Int \cup {Null}
    BY ConstantsAssumption DEF SaleInv, LedgerInv, TypeOK
  <1>2. /\ jobs' = [jobs EXCEPT ![w] = new] /\ UNCHANGED <<limit, ledger>>
        /\ job.pc = "decide" /\ job.kind = "sale" /\ ~SomeoneBlocked(w)
    BY <1>1 DEF WriteSale, settings
  <1>3. \A s \in Shoppers \ job.who : amounts[s] = 0
    BY DEF SharedOut
  <1> HIDE DEF amounts
  <1>4. Len(rows) = 1 /\ rows[1].kind = "sale" /\ rows[1].amounts = amounts
    BY DEF NewRow
  <1>5. limit # Null => \A s \in job.who : job.seen[s] >= limit
    BY <1>1, <1>2, ConstantsAssumption DEF SomeoneBlocked, Job
  <1> HIDE DEF rows
  <1>6. /\ new.pc = "priced" /\ new.rows = rows /\ new.kind = job.kind /\ new.fresh = job.fresh
        /\ new.who = job.who /\ new.seen = job.seen
    BY <1>1 DEF Job
  <1> HIDE DEF new, job
  <1>7. SaleKnows(new)
    BY <1>1, <1>2, <1>3, <1>4, <1>5, <1>6 DEF SaleKnows
  <1> QED
    BY <1>2, <1>7, SaleJobStep

LEMMA SaleCommits ==
  ASSUME SaleInv, LedgerInv', NEW w \in Workers, CommitSale(w)
  PROVE  SaleInv'
  <1> DEFINE job == jobs[w]
             new == [job EXCEPT !.pc = "warn"]
  <1>1. /\ job \in Job /\ SaleKnows(job) /\ job.pc = "priced" /\ job.kind = "sale"
        /\ job.rows \in Seq(Row) /\ ledger \in Seq(Row)
    BY DEF SaleInv, LedgerInv, InShape, TypeOK, CommitSale, Job
  <1>2. ledger' = ledger \o job.rows /\ jobs'[w] = new /\ \A v \in Workers \ {w} : jobs'[v] = Overtaken(v)
    BY DEF CommitSale, Commit
  <1>3. /\ new.pc = "warn" /\ new.rows = job.rows /\ new.kind = job.kind /\ new.fresh = job.fresh
        /\ new.who = job.who /\ new.seen = job.seen
    BY <1>1 DEF Job
  <1> HIDE DEF new
  <1>4. SaleKnows(jobs[w])'
    <2> SUFFICES ASSUME job.fresh PROVE SaleKnows(jobs[w])'
      BY <1>2, <1>3 DEF SaleKnows
    <2>1. Len(job.rows) = 1 /\ job.rows[1].kind = "sale"
          /\ \A s \in Shoppers \ job.who : job.rows[1].amounts[s] = 0
      BY <1>1 DEF SaleKnows
    <2>2. ledger' # <<>> /\ ledger'[Len(ledger')] = job.rows[1] /\ SubSeq(ledger', 1, Len(ledger') - 1) = ledger
      BY <1>1, <1>2, <2>1
    <2>3. \A s \in job.who : job.seen[s] = Balance(ledger, s)
      BY <1>1 DEF SaleKnows
    <2>4. Before' = ledger
      BY <2>2 DEF Before
    <2> HIDE DEF job
    <2> QED
      BY <1>2, <1>3, <2>1, <2>2, <2>3, <2>4 DEF SaleKnows
  <1> QED
    BY <1>2, <1>4, SaleOvertaken

LEMMA SaleStep ==
  ASSUME SaleInv, [Next]_vars
  PROVE  SaleInv'
  <1>1. LedgerInv'
    BY StepKeeps DEF SaleInv
  <1>2. ASSUME UNCHANGED <<jobs, ledger, limit>> PROVE SaleInv'
    BY <1>1, <1>2 DEF SaleInv, SaleKnows, Before
  <1>3. CASE UNCHANGED vars \/ NextMonth
    BY <1>2, <1>3 DEF vars, NextMonth, settings
  <1>4. CASE Administration
    <2>1. AtOnce
      BY <1>4 DEF Administration, RecordDeposit, RecordAdjustment, Book, Void, SetActive,
                  UpdatePurchasePolicy, UpdateInterest
    <2> QED
      BY <1>1, <2>1, SaleOvertaken DEF AtOnce
  <1>5. ASSUME NEW w \in Workers, Till(w) PROVE SaleInv'
    <2>1. ASSUME NEW chosen \in SUBSET Shoppers, NEW price \in Prices, BeginSale(w, chosen, price)
          PROVE  SaleInv'
      <3> DEFINE buyers == {s \in chosen : active[s]}
                 new == [Idle EXCEPT !.pc = "deposits", !.kind = "sale", !.who = buyers,
                                     !.asked = buyers, !.price = price]
      <3>1. jobs' = [jobs EXCEPT ![w] = new] /\ UNCHANGED <<limit, ledger>>
        BY <2>1 DEF BeginSale, settings
      <3>2. buyers \subseteq Shoppers
        OBVIOUS
      <3> HIDE DEF buyers
      <3>3. SaleKnows(new)
        BY <3>2 DEF SaleKnows, Idle
      <3> HIDE DEF new
      <3> QED
        BY <1>1, <3>1, <3>3, SaleJobStep
    <2>2. CASE RefuseSale(w) \/ SendWarnings(w)
      BY <1>1, <2>2, SaleFinish DEF RefuseSale, SendWarnings, settings
    <2> QED
      BY <1>1, <1>5, <2>1, <2>2, SaleWrites, SaleCommits DEF Till
  <1>6. ASSUME NEW w \in Workers, Interest(w) PROVE SaleInv'
    <2>0. jobs \in [Workers -> Job] /\ jobs[w] \in Job /\ InShape(jobs[w])
      BY DEF SaleInv, LedgerInv, TypeOK
    <2>1. CASE BeginInterest(w) \/ NextShopper(w) \/ JudgeShopper(w)
      <3> DEFINE new == jobs'[w]
      <3>1. /\ jobs' = [jobs EXCEPT ![w] = new] /\ UNCHANGED <<limit, ledger>>
            /\ new.kind = "interest"
        <4>1. CASE BeginInterest(w)
          BY <2>0, <4>1 DEF BeginInterest, settings, Idle
        <4>2. CASE NextShopper(w)
          <5>1. PICK s \in jobs[w].who :
                  jobs' = [jobs EXCEPT ![w].pc = "deposits", ![w].asked = {s}, ![w].seen = Idle.seen]
            BY <4>2 DEF NextShopper
          <5>2. new.kind = "interest" /\ jobs' = [jobs EXCEPT ![w] = new]
            BY <2>0, <4>2, <5>1 DEF NextShopper, InShape, Job
          <5> QED
            BY <4>2, <5>2 DEF NextShopper, settings
        <4>3. CASE JudgeShopper(w)
          <5>1. PICK s \in jobs[w].asked :
                  jobs' = [jobs EXCEPT
                      ![w].pc = "next",
                      ![w].who = @ \ {s},
                      ![w].rows = IF IsCharged(jobs[w], s)
                                  THEN Append(@, NewRow("interest", Only(s, -Charge(jobs[w].seen[s]))))
                                  ELSE @]
            BY <4>3 DEF JudgeShopper
          <5>2. new.kind = "interest" /\ jobs' = [jobs EXCEPT ![w] = new]
            BY <2>0, <4>3, <5>1 DEF JudgeShopper, Job
          <5> QED
            BY <4>3, <5>2 DEF JudgeShopper, settings
        <4> QED
          BY <2>1, <4>1, <4>2, <4>3
      <3> HIDE DEF new
      <3>2. SaleKnows(new)
        BY <3>1 DEF SaleKnows
      <3> QED
        BY <1>1, <3>1, <3>2, SaleJobStep
    <2>2. CASE CommitInterest(w)
      <3>1. CASE jobs[w].rows = <<>>
        BY <1>1, <2>2, <3>1, SaleFinish DEF CommitInterest, settings
      <3>2. CASE jobs[w].rows # <<>>
        <4>1. \A v \in Workers : jobs'[v] = IF v = w THEN Idle ELSE Overtaken(v)
          BY <2>2, <3>2 DEF CommitInterest, Commit
        <4>2. jobs'[w] = Idle => SaleKnows(jobs[w])'
          BY DEF SaleKnows, Idle
        <4> QED
          BY <1>1, <4>1, <4>2, SaleOvertaken
      <3> QED
        BY <3>1, <3>2
    <2> QED
      BY <1>6, <2>1, <2>2 DEF Interest
  <1>7. ASSUME NEW w \in Workers, ReadDeposits(w) \/ ReadSpent(w) \/ ReadAdjustments(w)
        PROVE  SaleInv'
    BY <1>1, <1>7, SaleReads
  <1>8. ASSUME NEW w \in Workers, Crash(w) PROVE SaleInv'
    BY <1>1, <1>8, SaleFinish DEF Crash, settings
  <1> QED
    BY <1>3, <1>4, <1>5, <1>6, <1>7, <1>8 DEF Next

LEMMA SaleInit ==
  ASSUME Init
  PROVE  SaleInv
  <1>1. SaleKnows(Idle)
    BY DEF SaleKnows, Idle
  <1> QED
    BY <1>1, InitHolds DEF SaleInv, Init

\* Only the worker itself sends its warnings; or it dies.
LEMMA WhoMails ==
  ASSUME LedgerInv, Next, NEW w \in Workers, jobs[w].pc = "warn", jobs'[w].pc = "idle",
         made'["crash"] = made["crash"]
  PROVE  SendWarnings(w)
  <1>1. jobs \in [Workers -> Job] /\ jobs[w] \in Job /\ made["crash"] \in Nat
    BY DEF LedgerInv, TypeOK, Kinds
  <1>2. Overtaken(w).pc = "warn"
    BY <1>1 DEF Overtaken, Job
  <1>3. jobs'[w] # jobs[w] /\ jobs'[w] # Overtaken(w)
    BY <1>2
  <1>4. ~AtOnce
    BY <1>3 DEF AtOnce
  <1>5. ~Administration /\ ~NextMonth
    BY <1>3, <1>4 DEF Administration, RecordDeposit, RecordAdjustment, Book, Void, SetActive,
                UpdatePurchasePolicy, UpdateInterest, NextMonth
  <1>6. ASSUME NEW v \in Workers, Till(v) PROVE SendWarnings(w)
    <2>1. v = w
      BY <1>1, <1>3, <1>6
         DEF Till, BeginSale, RefuseSale, WriteSale, CommitSale, SendWarnings, Finish, Commit
    <2> QED
      BY <1>1, <1>6, <2>1 DEF Till, BeginSale, RefuseSale, WriteSale, CommitSale
  <1>7. ASSUME NEW v \in Workers, Interest(v) PROVE FALSE
    <2>1. v = w
      BY <1>1, <1>3, <1>7
         DEF Interest, BeginInterest, NextShopper, JudgeShopper, CommitInterest, Finish, Commit
    <2> QED
      BY <1>1, <1>7, <2>1 DEF Interest, BeginInterest, NextShopper, JudgeShopper, CommitInterest
  <1>8. ASSUME NEW v \in Workers, ReadDeposits(v) \/ ReadSpent(v) \/ ReadAdjustments(v) PROVE FALSE
    BY <1>1, <1>8 DEF ReadDeposits, ReadSpent, ReadAdjustments, ReadTotal, Job
  <1>9. ASSUME NEW v \in Workers, Crash(v) PROVE FALSE
    BY <1>1, <1>9 DEF Crash, Make, LedgerInv, TypeOK, Kinds
  <1> QED
    BY <1>5, <1>6, <1>7, <1>8, <1>9 DEF Next

\* What the mails of a sale that nothing overtook are by the ledger.
LEMMA MailsByLedger ==
  ASSUME SaleInv, NEW w \in Workers, SendWarnings(w), jobs[w].fresh, NEW s \in Shoppers
  PROVE  mails'[s] - mails[s] =
           Cardinality({t \in Thresholds : Balance(Before, s) > t /\ Balance(ledger, s) < t})
  <1> DEFINE job == jobs[w]
             row == job.rows[1]
             fell == {t \in Thresholds : Balance(Before, s) > t /\ Balance(ledger, s) < t}
  <1>1. /\ job \in Job /\ SaleKnows(job) /\ job.pc = "warn" /\ job.kind = "sale"
        /\ \A i \in DOMAIN job.rows : job.rows[i].valid
        /\ ledger \in Seq(Row) /\ mails[s] \in Nat
    BY DEF SaleInv, LedgerInv, InShape, TypeOK, SendWarnings
  <1>2. /\ Len(job.rows) = 1 /\ row.kind = "sale"
        /\ s \notin job.who => row.amounts[s] = 0
        /\ ledger # <<>> /\ ledger[Len(ledger)] = row
        /\ s \in job.who => job.seen[s] = Balance(Before, s)
    BY <1>1 DEF SaleKnows
  <1>3. row.valid /\ row \in Row
    BY <1>1, <1>2 DEF Job
  <1>4. Before \in Seq(Row) /\ ledger = Append(Before, row)
    BY <1>1, <1>2 DEF Before
  <1>5. /\ Balance(Before, s) \in Int /\ row.amounts[s] \in Int
        /\ Balance(ledger, s) = Balance(Before, s) - row.amounts[s]
    BY <1>2, <1>3, <1>4, BalanceAfterSale DEF Row
  <1>6. mails'[s] = IF s \in job.who
                    THEN mails[s] + Cardinality(FallsThrough(job.seen[s], job.seen[s] - row.amounts[s]))
                    ELSE mails[s]
    BY DEF SendWarnings
  <1>7. Cardinality(fell) \in Nat
    BY ConstantsAssumption, FS_Subset, FS_CardinalityType
  <1> HIDE DEF job, row
  <1>8. ASSUME s \in job.who PROVE mails'[s] - mails[s] = Cardinality(fell)
    <2>1. FallsThrough(job.seen[s], job.seen[s] - row.amounts[s]) = fell
      BY <1>2, <1>5, <1>8 DEF FallsThrough
    <2> HIDE DEF fell
    <2> QED
      BY <1>1, <1>6, <1>7, <1>8, <2>1
  <1>9. ASSUME s \notin job.who PROVE mails'[s] - mails[s] = Cardinality(fell)
    <2>1. Balance(ledger, s) = Balance(Before, s)
      BY <1>2, <1>5, <1>9
    <2>2. ASSUME NEW t \in fell PROVE FALSE
      <3>1. t \in Int /\ Balance(Before, s) > t /\ Balance(Before, s) < t
        BY <2>1, <2>2, ConstantsAssumption
      <3> QED
        BY <1>5, <3>1
    <2>3. Cardinality(fell) = 0
      BY <2>2, FS_EmptySet
    <2> HIDE DEF fell
    <2> QED
      BY <1>1, <1>6, <1>9, <2>3
  <1> QED
    BY <1>8, <1>9

-----------------------------------------------------------------------------
(* The pages over the ledger *)

\* A step of the pages, as the ledger sees it.
OnlyBrowses ==
  UNCHANGED <<clock, settings, ledger, jobs, mails>> /\ made' \in [Kinds -> Nat]
    /\ made'["crash"] = made["crash"]

LEMMA BrowsingOnlyBrowses ==
  ASSUME TypeOK, Browsing \/ UNCHANGED <<vars, kasseVars>>
  PROVE  OnlyBrowses
  <1>1. ASSUME NEW search \in Searches, OpenSales(search[1], search[2]) PROVE OnlyBrowses
    <2>1. made' \in [Kinds -> Nat]
      BY <1>1, MadeType DEF OpenSales, Kinds
    <2> QED
      BY <1>1, <2>1 DEF OpenSales, OnlyBrowses, Make, TypeOK, Kinds
  <1>2. ASSUME UNCHANGED vars PROVE OnlyBrowses
    BY <1>2 DEF OnlyBrowses, vars, settings, TypeOK
  <1> QED
    BY <1>1, <1>2 DEF Browsing, CountSales, ShowSales, NextSales, LeaveSales

LEMMA SaleInvBrowses ==
  ASSUME SaleInv, OnlyBrowses
  PROVE  SaleInv'
  <1>1. LedgerInv'
    BY DEF OnlyBrowses, settings, SaleInv, LedgerInv, TypeOK, VoidsAreLogged
  <1> QED
    BY <1>1 DEF OnlyBrowses, settings, SaleInv, SaleKnows, Before

LEMMA SaleInvHolds == KasseSpec => []SaleInv
  <1>1. KasseInit => SaleInv
    BY SaleInit DEF KasseInit
  <1>2. SaleInv /\ [Booking \/ Browsing]_<<vars, kasseVars>> => SaleInv'
    <2> SUFFICES ASSUME SaleInv, [Booking \/ Browsing]_<<vars, kasseVars>> PROVE SaleInv'
      OBVIOUS
    <2>1. CASE Booking
      BY <2>1, SaleStep DEF Booking
    <2>2. CASE Browsing \/ UNCHANGED <<vars, kasseVars>>
      BY <2>2, BrowsingOnlyBrowses, SaleInvBrowses DEF SaleInv, LedgerInv
    <2> QED
      BY <2>1, <2>2
  <1> QED
    BY <1>1, <1>2, PTL DEF KasseSpec

\* record_purchase: when a sale that nothing overtook commits, each of its buyers may buy by the ledger,
\* though the balance it asked about was added up from three statements.
THEOREM CreditLimitAlwaysKept == KasseSpec => CreditLimitKept
  <1> DEFINE Kept ==
        \A w \in Workers :
          jobs[w].pc = "priced" /\ jobs'[w].pc = "warn" /\ jobs[w].fresh /\ limit # Null =>
            \A s \in jobs[w].who : Balance(ledger, s) >= limit
  <1>1. SaleInv => Kept
    BY DEF SaleInv, SaleKnows, LedgerInv, InShape
  <1> QED
    BY <1>1, SaleInvHolds, PTL DEF CreditLimitKept

\* send_debt_warnings: the mails of a sale that nothing overtook, which it counts from the balance it
\* read and the share, are one for each threshold that the ledger took the buyer across, and none for
\* the others.
THEOREM WarnedOnEachCrossing == KasseSpec => WarnedOnCrossing
  <1> DEFINE Warned ==
        \A w \in Workers :
          jobs[w].pc = "warn" /\ jobs'[w].pc = "idle" /\ jobs[w].fresh
               /\ made'["crash"] = made["crash"] =>
             \A s \in Shoppers :
                 mails'[s] - mails[s] =
                     Cardinality({t \in Thresholds :
                         /\ Balance(SubSeq(ledger, 1, Len(ledger) - 1), s) > t
                         /\ Balance(ledger, s) < t})
  <1>1. SaleInv /\ [Booking \/ Browsing]_<<vars, kasseVars>> => Warned
    <2> SUFFICES ASSUME SaleInv, [Booking \/ Browsing]_<<vars, kasseVars>>, NEW w \in Workers,
                        jobs[w].pc = "warn", jobs'[w].pc = "idle", jobs[w].fresh,
                        made'["crash"] = made["crash"], NEW s \in Shoppers
                 PROVE  mails'[s] - mails[s] =
                          Cardinality({t \in Thresholds : Balance(Before, s) > t /\ Balance(ledger, s) < t})
      BY DEF Before
    <2>1. LedgerInv
      BY DEF SaleInv
    <2>2. ~(Browsing \/ UNCHANGED <<vars, kasseVars>>)
      BY <2>1, BrowsingOnlyBrowses DEF OnlyBrowses, LedgerInv
    <2>3. SendWarnings(w)
      BY <2>1, <2>2, WhoMails DEF Booking
    <2> QED
      BY <2>3, MailsByLedger
  <1> QED
    BY <1>1, SaleInvHolds, PTL DEF KasseSpec, WarnedOnCrossing

-----------------------------------------------------------------------------
(***************************************************************************)
(* Salgsoverblik.  Whoever has read page n has seen all of the sales, of   *)
(* those that there were, that fewer than n * PageSize sales now precede:  *)
(* a new sale can only push the others further back.  Which sale an id is  *)
(* of stays the same, since no two draw the same id.                       *)
(***************************************************************************)

LEMMA TimesMonotone ==
  ASSUME NEW a \in Nat, NEW b \in Nat, NEW k \in Nat, a <= b
  PROVE  a * k <= b * k
  <1>1. PICK d \in Nat : b = a + d
    BY b - a \in Nat
  <1>2. b * k = a * k + d * k /\ d * k \in Nat /\ a * k \in Nat
    BY <1>1
  <1> QED
    BY <1>2

LEMMA TimesType ==
  ASSUME NEW a \in Nat
  PROVE  PageSize \in Nat \ {0} /\ a * PageSize \in Nat /\ (a = 0 => a * PageSize = 0)
  <1>1. PageSize \in Nat \ {0}
    BY KasseAssumption
  <1> QED
    BY <1>1

LEMMA DivBounds ==
  ASSUME NEW r \in Nat, NEW k \in Nat \ {0}
  PROVE  /\ r \div k \in Nat
         /\ (r \div k) * k <= r /\ r < (r \div k) * k + k
  OBVIOUS

\* Whose rank is on a page has that page.
LEMMA PageOfRank ==
  ASSUME NEW r \in Nat, NEW n \in Nat, NEW k \in Nat \ {0}, n * k <= r, r < (n + 1) * k
  PROVE  r \div k = n
  <1> DEFINE q == r \div k
  <1>1. q \in Nat /\ q * k <= r /\ r < q * k + k
    BY DivBounds
  <1> HIDE DEF q
  <1>2. ASSUME q < n PROVE FALSE
    <2>1. (q + 1) * k <= n * k
      BY <1>1, <1>2, TimesMonotone
    <2>2. (q + 1) * k = q * k + k
      BY <1>1
    <2> QED
      BY <1>1, <2>1, <2>2
  <1>3. ASSUME n < q PROVE FALSE
    <2>1. (n + 1) * k <= q * k
      BY <1>1, <1>3, TimesMonotone
    <2> QED
      BY <1>1, <2>1
  <1>4. q = n
    BY <1>1, <1>2, <1>3
  <1> QED
    BY <1>4 DEF q

\* The pages hold all that was found.
LEMMA PagesHoldAll ==
  ASSUME NEW c \in Nat, NEW k \in Nat \ {0}
  PROVE  (c + k - 1) \div k \in Nat /\ c <= ((c + k - 1) \div k) * k
  <1>1. c + k - 1 \in Nat
    OBVIOUS
  <1>2. (c + k - 1) \div k \in Nat /\ c + k - 1 < ((c + k - 1) \div k) * k + k
    BY <1>1, DivBounds
  <1>3. ((c + k - 1) \div k) * k \in Nat
    BY <1>2
  <1> QED
    BY <1>2, <1>3

LEMMA MaxOfTwo ==
  ASSUME NEW a \in Nat, NEW b \in Nat
  PROVE  Max({a, b}) = (IF a >= b THEN a ELSE b) /\ Min({a, b}) = IF a <= b THEN a ELSE b
  <1>1. \E x \in {a, b} : \A y \in {a, b} : x >= y
    BY a >= b \/ b >= a
  <1>2. \E x \in {a, b} : \A y \in {a, b} : x =< y
    BY a >= b \/ b >= a
  <1>3. Max({a, b}) \in {a, b} /\ \A y \in {a, b} : Max({a, b}) >= y
    BY <1>1 DEF Max
  <1>4. Min({a, b}) \in {a, b} /\ \A y \in {a, b} : Min({a, b}) <= y
    BY <1>2 DEF Min
  <1> QED
    BY <1>3, <1>4

\* The sales of S that precede a.
Newers(S, a) == {b \in S : Newer(b, a)}

LEMMA NewersAreFewer ==
  ASSUME NEW S, IsFiniteSet(S), NEW a \in S, a.id \in Nat
  PROVE  Cardinality(Newers(S, a)) \in Nat /\ Cardinality(Newers(S, a)) < Cardinality(S)
  <1>1. ~Newer(a, a)
    <2>1. Stamp(a) \in Nat
      BY DEF Stamp
    <2> QED
      BY <2>1 DEF Newer
  <1>2. Newers(S, a) \subseteq S \ {a}
    BY <1>1 DEF Newers
  <1>3. IsFiniteSet(S \ {a}) /\ Cardinality(S \ {a}) = Cardinality(S) - 1
    BY FS_RemoveElement
  <1>4. IsFiniteSet(Newers(S, a)) /\ Cardinality(Newers(S, a)) <= Cardinality(S \ {a})
    BY <1>2, <1>3, FS_Subset
  <1>5. Cardinality(Newers(S, a)) \in Nat /\ Cardinality(S) \in Nat
    BY <1>4, FS_CardinalityType
  <1> QED
    BY <1>3, <1>4, <1>5

LEMMA NewersAreMore ==
  ASSUME NEW S, NEW T, S \subseteq T, IsFiniteSet(T), NEW a
  PROVE  /\ Cardinality(Newers(S, a)) \in Nat /\ Cardinality(Newers(T, a)) \in Nat
         /\ Cardinality(Newers(S, a)) <= Cardinality(Newers(T, a))
  <1>1. IsFiniteSet(Newers(T, a)) /\ Newers(S, a) \subseteq Newers(T, a)
    BY FS_Subset DEF Newers
  <1> QED
    BY <1>1, FS_Subset, FS_CardinalityType

\* As many ids as sales, if no two sales have the same.
LEMMA IdsCount ==
  ASSUME NEW S, IsFiniteSet(S), \A a, b \in S : a.id = b.id => a = b
  PROVE  LET ids == {a.id : a \in S} IN IsFiniteSet(ids) /\ Cardinality(S) = Cardinality(ids)
  <1> DEFINE ids == {a.id : a \in S}
             f == [a \in S |-> a.id]
  <1>1. f \in Surjection(S, ids)
    BY DEF Surjection
  <1>2. f \in Injection(S, ids)
    BY DEF Injection, IsInjective
  <1> HIDE DEF f, ids
  <1>3. IsFiniteSet(ids) /\ Cardinality(ids) = Cardinality(S)
    BY <1>1, <1>2, FS_Surjection
  <1> QED
    BY <1>3 DEF ids

\* The sales that are asked for.
AskedSales == {sale \in Sales : Asked(sale)}

\* How many pages have been read.
Reached == IF reader.step = "shown" THEN reader.page ELSE reader.page - 1

\* No two sales draw the same id, and no id comes back.
IdsInv ==
  /\ lastId >= Migrated
  /\ \A i, j \in DOMAIN receipts : receipts[i].id # 0 =>
        /\ receipts[i].id > Migrated /\ receipts[i].id <= lastId
        /\ receipts[j].id = receipts[i].id => j = i
  /\ \A w \in Workers : jobs[w].pc = "priced" =>
        /\ Len(jobs[w].rows) = 1
        /\ drawn[w] > Migrated /\ drawn[w] <= lastId
        /\ \A v \in Workers : jobs[v].pc = "priced" /\ drawn[v] = drawn[w] => v = w
        /\ \A i \in DOMAIN receipts : receipts[i].id # drawn[w]

ReaderInv ==
  reader.step # "away" =>
    /\ reader.page >= 1 /\ reader.pages >= 1
    /\ reader.step # "count" \/ reader.page > 1 =>
          \A id \in reader.were : \E a \in AskedSales : a.id = id
    /\ \A a \in AskedSales :
          a.id \in reader.were /\ Cardinality(Newers(AskedSales, a)) < Reached * PageSize =>
             a.id \in reader.seen
    /\ reader.step = "rows" =>
          /\ reader.page <= reader.pages
          /\ reader.steady => Cardinality(AskedSales) <= reader.pages * PageSize
    /\ reader.step = "shown" /\ reader.page = reader.pages /\ reader.steady =>
          reader.were \subseteq reader.seen

KasseInv == KasseTypeOK /\ LedgerInv /\ IdsInv /\ ReaderInv

LEMMA SalesAreFinite ==
  ASSUME KasseTypeOK, IdsInv
  PROVE  /\ IsFiniteSet(Sales) /\ IsFiniteSet(AskedSales) /\ AskedSales \subseteq Sales
         /\ \A a \in Sales : a.id \in Nat
         /\ \A a, b \in Sales : a.id = b.id => a = b
  <1> DEFINE sold == {j \in DOMAIN receipts : receipts[j].id # 0}
             news == {receipts[i] : i \in sold}
             old == [n \in 1..Migrated |-> [id |-> n, price |-> 1, buyers |-> {}]]
             new == [i \in sold |-> receipts[i]]
  <1>1. Migrated \in Nat /\ receipts \in Seq(Receipt)
    BY KasseAssumption DEF KasseTypeOK
  <1>2. IsFiniteSet(1..Migrated) /\ IsFiniteSet(DOMAIN receipts)
    BY <1>1, FS_Interval
  <1>3. IsFiniteSet(OldSales)
    <2>1. old \in Surjection(1..Migrated, OldSales)
      BY DEF Surjection, OldSales
    <2> QED
      BY <1>2, <2>1, FS_Surjection
  <1>4. IsFiniteSet(news)
    <2>1. IsFiniteSet(sold)
      BY <1>2, FS_Subset
    <2>2. new \in Surjection(sold, news)
      BY DEF Surjection
    <2> QED
      BY <2>1, <2>2, FS_Surjection
  <1>5. Sales = OldSales \cup news
    BY DEF Sales
  <1> HIDE DEF news, sold
  <1>6. IsFiniteSet(Sales)
    BY <1>3, <1>4, <1>5, FS_Union
  <1>7. ASSUME NEW a \in Sales
        PROVE  \/ a \in OldSales /\ a.id \in 1..Migrated /\ a = [id |-> a.id, price |-> 1, buyers |-> {}]
               \/ \E i \in DOMAIN receipts : a = receipts[i] /\ a \in Receipt /\ a.id # 0 /\ a.id > Migrated
    <2>1. CASE a \in OldSales
      BY <2>1 DEF OldSales
    <2>2. CASE a \in news
      <3>1. PICK i \in DOMAIN receipts : a = receipts[i] /\ receipts[i].id # 0
        BY <2>2 DEF news, sold
      <3> QED
        BY <1>1, <3>1 DEF IdsInv
    <2> QED
      BY <1>5, <2>1, <2>2
  <1>8. \A a \in Sales : a.id \in Nat
    BY <1>1, <1>7 DEF Receipt
  <1>9. ASSUME NEW a \in Sales, NEW b \in Sales, a.id = b.id PROVE a = b
    <2>1. CASE a \in OldSales /\ a.id \in 1..Migrated /\ a = [id |-> a.id, price |-> 1, buyers |-> {}]
      <3>1. ~(b.id > Migrated)
        BY <1>1, <1>9, <2>1
      <3> QED
        BY <1>7, <1>9, <2>1, <3>1
    <2>2. CASE \E i \in DOMAIN receipts : a = receipts[i] /\ a \in Receipt /\ a.id # 0 /\ a.id > Migrated
      <3>1. b.id \notin 1..Migrated
        BY <1>1, <1>9, <2>2
      <3> QED
        BY <1>7, <1>9, <2>2, <3>1 DEF IdsInv
    <2> QED
      BY <1>7, <2>1, <2>2
  <1>10. IsFiniteSet(AskedSales) /\ AskedSales \subseteq Sales
    BY <1>6, FS_Subset DEF AskedSales
  <1> QED
    BY <1>6, <1>8, <1>9, <1>10

\* Everything but the reader, and what was made, stays.
LEMMA ReaderOnly ==
  ASSUME KasseInv, UNCHANGED <<lastId, drawn, receipts>>, OnlyBrowses, reader' \in Reader, ReaderInv'
  PROVE  KasseInv'
  <1>1. LedgerInv'
    BY DEF OnlyBrowses, settings, KasseInv, LedgerInv, TypeOK, VoidsAreLogged
  <1>2. KasseTypeOK'
    BY <1>1 DEF KasseInv, KasseTypeOK, LedgerInv, OnlyBrowses
  <1>3. IdsInv'
    BY DEF KasseInv, IdsInv, OnlyBrowses
  <1> QED
    BY <1>1, <1>2, <1>3 DEF KasseInv

LEMMA AskedStay ==
  ASSUME UNCHANGED receipts, reader'.people = reader.people, reader'.buyers = reader.buyers
  PROVE  AskedSales' = AskedSales
  BY DEF AskedSales, Sales, Asked

LEMMA OpenFits ==
  ASSUME KasseInv, NEW search \in Searches, OpenSales(search[1], search[2])
  PROVE  reader' \in Reader /\ ReaderInv'
  <1> DEFINE people == search[1]
             buyers == search[2]
  <1>1. people \in {Null} \cup SUBSET Shoppers /\ buyers \in {"", "none", "any"}
    BY KasseAssumption
  <1>2. reader' = [Away EXCEPT !.step = "count", !.people = people, !.buyers = buyers]
    BY DEF OpenSales
  <1> HIDE DEF people, buyers
  <1>3. reader' \in Reader
    BY <1>1, <1>2 DEF Reader, Away
  <1>4. /\ reader'.step = "count" /\ reader'.page = 1 /\ reader'.pages = 1 /\ reader'.were = {}
    BY <1>2 DEF Away
  <1> QED
    BY <1>3, <1>4 DEF ReaderInv

LEMMA CountFits ==
  ASSUME KasseInv, CountSales
  PROVE  reader' \in Reader /\ ReaderInv'
  <1> DEFINE found == {sale.id : sale \in {a \in Sales : Asked(a)}}
             pages == Max({1, (Cardinality(found) + PageSize - 1) \div PageSize})
             page == Min({reader.page, pages})
             were == IF reader.page = 1 THEN found ELSE reader.were
  <1>1. /\ reader \in Reader /\ ReaderInv /\ reader.step = "count" /\ reader.page \in Nat /\ reader.page >= 1
        /\ UNCHANGED receipts
    BY DEF KasseInv, KasseTypeOK, CountSales, ReaderInv, Reader
  <1>2. reader' = [reader EXCEPT !.step = "rows", !.pages = pages, !.page = page, !.were = were]
    BY DEF CountSales
  <1>3. /\ IsFiniteSet(AskedSales) /\ AskedSales \subseteq Sales
        /\ \A a \in Sales : a.id \in Nat /\ \A b \in Sales : a.id = b.id => a = b
    BY SalesAreFinite DEF KasseInv
  <1>4. found = {a.id : a \in AskedSales}
    BY DEF AskedSales
  <1>5. IsFiniteSet(found) /\ Cardinality(found) = Cardinality(AskedSales) /\ found \subseteq Nat
    BY <1>3, <1>4, IdsCount
  <1>6. Cardinality(AskedSales) \in Nat
    BY <1>3, FS_CardinalityType
  <1> DEFINE needed == (Cardinality(AskedSales) + PageSize - 1) \div PageSize
  <1>7. needed \in Nat /\ Cardinality(AskedSales) <= needed * PageSize
    BY <1>6, KasseAssumption, PagesHoldAll
  <1>8. pages = Max({1, needed})
    BY <1>5
  <1> HIDE DEF needed, found
  <1>9. pages \in Nat /\ pages >= 1 /\ needed <= pages
    BY <1>7, <1>8, MaxOfTwo
  <1> HIDE DEF pages
  <1>10. page \in Nat /\ page >= 1 /\ page <= pages /\ page <= reader.page
    BY <1>1, <1>9, MaxOfTwo
  <1>11. were \subseteq Nat
    BY <1>1, <1>5 DEF Reader
  <1> HIDE DEF page, were
  <1>12. reader' \in Reader
    BY <1>1, <1>2, <1>9, <1>10, <1>11 DEF Reader
  <1>13. /\ reader'.step = "rows" /\ reader'.pages = pages /\ reader'.page = page /\ reader'.were = were
         /\ reader'.people = reader.people /\ reader'.buyers = reader.buyers /\ reader'.seen = reader.seen
    BY <1>1, <1>2 DEF Reader
  <1>14. AskedSales' = AskedSales
    BY <1>1, <1>13, AskedStay
  <1>15. \A id \in were : \E a \in AskedSales : a.id = id
    BY <1>1, <1>4 DEF were, ReaderInv
  <1>16. Cardinality(AskedSales) <= pages * PageSize
    <2>1. needed * PageSize <= pages * PageSize
      BY <1>7, <1>9, KasseAssumption, TimesMonotone
    <2>2. needed * PageSize \in Nat /\ pages * PageSize \in Nat
      BY <1>7, <1>9, TimesType
    <2> QED
      BY <1>6, <1>7, <2>1, <2>2
  <1>17. ASSUME NEW a \in AskedSales, a.id \in were,
                Cardinality(Newers(AskedSales, a)) < (page - 1) * PageSize
         PROVE  a.id \in reader.seen
    <2>0. Cardinality(Newers(AskedSales, a)) \in Nat
      BY <1>3, NewersAreFewer
    <2>1. CASE reader.page = 1
      <3>1. page - 1 = 0 /\ page - 1 \in Nat
        BY <1>10, <2>1
      <3>2. (page - 1) * PageSize = 0
        BY <3>1, TimesType
      <3> QED
        BY <1>17, <2>0, <3>2
    <2>2. CASE reader.page # 1
      <3>1. a.id \in reader.were
        BY <1>17, <2>2 DEF were
      <3>0. page - 1 \in Nat /\ reader.page - 1 \in Nat /\ page - 1 <= reader.page - 1
        BY <1>1, <1>10
      <3>2. (page - 1) * PageSize <= (reader.page - 1) * PageSize
        BY <3>0, TimesType, TimesMonotone
      <3>3. (page - 1) * PageSize \in Nat /\ (reader.page - 1) * PageSize \in Nat
        BY <3>0, TimesType
      <3>4. Cardinality(Newers(AskedSales, a)) < (reader.page - 1) * PageSize
        BY <1>17, <2>0, <3>2, <3>3
      <3>5. Reached = reader.page - 1
        BY <1>1 DEF Reached
      <3> QED
        BY <1>1, <3>1, <3>4, <3>5 DEF ReaderInv
    <2> QED
      BY <2>1, <2>2
  <1>18. Reached' = page - 1
    BY <1>13 DEF Reached
  <1>19. ReaderInv'
    BY <1>9, <1>10, <1>13, <1>14, <1>15, <1>16, <1>17, <1>18 DEF ReaderInv
  <1> QED
    BY <1>12, <1>19

LEMMA ShowFits ==
  ASSUME KasseInv, ShowSales
  PROVE  reader' \in Reader /\ ReaderInv'
  <1> DEFINE seen == reader.seen \cup OnPage(reader.page)
  <1>1. /\ reader \in Reader /\ ReaderInv /\ reader.step = "rows" /\ reader.page \in Nat /\ reader.page >= 1
        /\ reader.pages >= 1 /\ reader.page <= reader.pages /\ UNCHANGED receipts
    BY DEF KasseInv, KasseTypeOK, ShowSales, ReaderInv, Reader
  <1>2. reader' = [reader EXCEPT !.step = "shown", !.seen = seen]
    BY DEF ShowSales
  <1>3. /\ IsFiniteSet(AskedSales) /\ AskedSales \subseteq Sales
        /\ \A a \in Sales : a.id \in Nat /\ \A b \in Sales : a.id = b.id => a = b
    BY SalesAreFinite DEF KasseInv
  <1>4. OnPage(reader.page) =
          {a.id : a \in {b \in AskedSales :
                           Cardinality(Newers(AskedSales, b)) \div PageSize = reader.page - 1}}
    BY DEF OnPage, AskedSales, Newers
  <1>5. seen \subseteq Nat
    BY <1>1, <1>3, <1>4 DEF Reader
  <1>6. ASSUME NEW a \in AskedSales, a.id \in reader.were,
               Cardinality(Newers(AskedSales, a)) < reader.page * PageSize
        PROVE  a.id \in seen
    <2> DEFINE rank == Cardinality(Newers(AskedSales, a))
               n == reader.page - 1
    <2>0. rank \in Nat
      BY <1>3, NewersAreFewer
    <2>1. n \in Nat /\ n * PageSize \in Nat /\ reader.page = n + 1 /\ Reached = n
      <3>1. n \in Nat /\ reader.page = n + 1 /\ Reached = n
        BY <1>1 DEF Reached
      <3> HIDE DEF n
      <3> QED
        BY <3>1, TimesType
    <2>2. CASE rank < n * PageSize
      BY <1>1, <1>6, <2>1, <2>2 DEF ReaderInv
    <2>3. CASE n * PageSize <= rank
      <3> HIDE DEF rank, n
      <3>1. rank < (n + 1) * PageSize
        BY <1>6, <2>1 DEF rank
      <3>2. rank \div PageSize = n
        BY <2>0, <2>1, <2>3, <3>1, PageOfRank, KasseAssumption
      <3> QED
        BY <1>4, <3>2 DEF rank, n
    <2> HIDE DEF rank, n
    <2> QED
      BY <2>0, <2>1, <2>2, <2>3
  <1> HIDE DEF seen
  <1>7. reader' \in Reader
    BY <1>1, <1>2, <1>5 DEF Reader
  <1>8. /\ reader'.step = "shown" /\ reader'.pages = reader.pages /\ reader'.page = reader.page
        /\ reader'.were = reader.were /\ reader'.seen = seen /\ reader'.steady = reader.steady
        /\ reader'.people = reader.people /\ reader'.buyers = reader.buyers
    BY <1>1, <1>2 DEF Reader
  <1>9. AskedSales' = AskedSales /\ Reached' = reader.page
    BY <1>1, <1>8, AskedStay DEF Reached
  <1>10. \A id \in reader.were : \E a \in AskedSales : a.id = id
    BY <1>1 DEF ReaderInv
  <1>11. ASSUME reader.page = reader.pages, reader.steady, NEW id \in reader.were PROVE id \in seen
    <2>1. PICK a \in AskedSales : a.id = id
      BY <1>10, <1>11
    <2>2. Cardinality(AskedSales) <= reader.page * PageSize
      BY <1>1, <1>11 DEF ReaderInv
    <2>3. Cardinality(Newers(AskedSales, a)) \in Nat
          /\ Cardinality(Newers(AskedSales, a)) < Cardinality(AskedSales)
      BY <1>3, NewersAreFewer
    <2>4. reader.page * PageSize \in Nat /\ Cardinality(AskedSales) \in Nat
      BY <1>1, <1>3, TimesType, FS_CardinalityType
    <2> QED
      BY <1>6, <1>11, <2>1, <2>2, <2>3, <2>4
  <1>12. ReaderInv'
    BY <1>1, <1>6, <1>8, <1>9, <1>10, <1>11 DEF ReaderInv
  <1> QED
    BY <1>7, <1>12

LEMMA NextFits ==
  ASSUME KasseInv, NextSales
  PROVE  reader' \in Reader /\ ReaderInv'
  <1>1. /\ reader \in Reader /\ ReaderInv /\ reader.step = "shown" /\ reader.page \in Nat /\ reader.page >= 1
        /\ reader.pages >= 1 /\ UNCHANGED receipts
        /\ reader' = [reader EXCEPT !.step = "count", !.page = reader.page + 1]
    BY DEF KasseInv, KasseTypeOK, NextSales, ReaderInv, Reader
  <1>2. /\ reader' \in Reader
        /\ reader'.step = "count" /\ reader'.pages = reader.pages /\ reader'.page = reader.page + 1
        /\ reader'.were = reader.were /\ reader'.seen = reader.seen
        /\ reader'.people = reader.people /\ reader'.buyers = reader.buyers
    <2> DEFINE page == reader.page + 1
    <2>1. page \in Nat /\ reader' = [reader EXCEPT !.step = "count", !.page = page]
      BY <1>1
    <2> HIDE DEF page
    <2>2. reader' \in Reader
      BY <1>1, <2>1 DEF Reader
    <2>3. /\ reader'.step = "count" /\ reader'.pages = reader.pages /\ reader'.page = page
          /\ reader'.were = reader.were /\ reader'.seen = reader.seen
          /\ reader'.people = reader.people /\ reader'.buyers = reader.buyers
      BY <1>1, <2>1 DEF Reader
    <2> QED
      BY <2>2, <2>3 DEF page
  <1>3. AskedSales' = AskedSales /\ Reached' = Reached
    BY <1>1, <1>2, AskedStay DEF Reached
  <1> QED
    BY <1>1, <1>2, <1>3 DEF ReaderInv

LEMMA BrowsingKeeps ==
  ASSUME KasseInv, Browsing \/ UNCHANGED <<vars, kasseVars>>
  PROVE  KasseInv'
  <1>1. OnlyBrowses
    BY BrowsingOnlyBrowses DEF KasseInv, KasseTypeOK
  <1>2. CASE UNCHANGED <<vars, kasseVars>>
    <2>1. UNCHANGED <<lastId, drawn, receipts>> /\ reader' = reader
      BY <1>2 DEF kasseVars
    <2>2. AskedSales' = AskedSales /\ Reached' = Reached
      BY <2>1, AskedStay DEF Reached
    <2>3. reader' \in Reader /\ ReaderInv'
      BY <2>1, <2>2 DEF KasseInv, KasseTypeOK, ReaderInv
    <2> QED
      BY <1>1, <2>1, <2>3, ReaderOnly
  <1>3. ASSUME NEW search \in Searches, OpenSales(search[1], search[2]) PROVE KasseInv'
    BY <1>1, <1>3, OpenFits, ReaderOnly DEF OpenSales
  <1>4. CASE CountSales
    BY <1>1, <1>4, CountFits, ReaderOnly DEF CountSales
  <1>5. CASE ShowSales
    BY <1>1, <1>5, ShowFits, ReaderOnly DEF ShowSales
  <1>6. CASE NextSales
    BY <1>1, <1>6, NextFits, ReaderOnly DEF NextSales
  <1>7. CASE LeaveSales
    <2>1. reader' = Away
      BY <1>7 DEF LeaveSales
    <2>2. reader' \in Reader /\ ReaderInv'
      BY <2>1 DEF Reader, Away, ReaderInv
    <2> QED
      BY <1>1, <1>7, <2>2, ReaderOnly DEF LeaveSales
  <1> QED
    BY <1>2, <1>3, <1>4, <1>5, <1>6, <1>7 DEF Browsing

Keeps(v) == jobs'[v] = jobs[v] \/ jobs'[v] = Overtaken(v)

\* What one worker's step makes of the ledger and of its job.
Acts(w) ==
  /\ \A v \in Workers \ {w} : Keeps(v)
  /\ jobs'[w].pc = "priced" => jobs[w].pc = "decide" /\ Len(jobs'[w].rows) = 1
  /\ Sells(w) => ledger' = ledger \o jobs[w].rows

LEMMA LedgerStep ==
  ASSUME LedgerInv, Next
  PROVE  /\ Len(ledger) \in Nat /\ Len(ledger') \in Nat /\ Len(ledger') >= Len(ledger)
         /\ (\A v \in Workers : Keeps(v)) \/ \E w \in Workers : Acts(w)
  <1>0. LedgerInv'
    BY StepKeeps
  <1>1. /\ ledger \in Seq(Row) /\ jobs \in [Workers -> Job] /\ ledger' \in Seq(Row)
        /\ \A w \in Workers : jobs[w] \in Job /\ jobs[w].rows \in Seq(Row)
    BY <1>0 DEF LedgerInv, TypeOK, Job
  <1>2. CASE NextMonth
    BY <1>1, <1>2 DEF NextMonth, Keeps
  <1>3. CASE Administration
    <2>1. \A v \in Workers : Keeps(v)
      BY <1>3 DEF Administration, RecordDeposit, RecordAdjustment, Book, Void, SetActive,
                  UpdatePurchasePolicy, UpdateInterest, AtOnce, Keeps
    <2>2. CASE ledger' = ledger
      BY <1>1, <2>1, <2>2
    <2>3. ASSUME NEW row, Book(row) PROVE Len(ledger') >= Len(ledger)
      BY <1>1, <2>3 DEF Book
    <2>4. ASSUME NEW i \in DOMAIN ledger, Void(i) PROVE Len(ledger') >= Len(ledger)
      BY <1>1, <2>4 DEF Void
    <2>5. Len(ledger') >= Len(ledger)
      BY <1>1, <1>3, <2>3, <2>4 DEF Administration, RecordDeposit, RecordAdjustment, SetActive,
                  UpdatePurchasePolicy, UpdateInterest
    <2> QED
      BY <1>1, <2>1, <2>5
  <1>4. ASSUME NEW w \in Workers, ledger' = ledger, \A v \in Workers \ {w} : jobs'[v] = jobs[v],
               jobs'[w].pc = "priced" => jobs[w].pc = "decide" /\ Len(jobs'[w].rows) = 1, ~Sells(w)
        PROVE  Acts(w) /\ Len(ledger') >= Len(ledger)
    BY <1>1, <1>4 DEF Acts, Keeps
  <1>5. ASSUME NEW w \in Workers, NEW new, Commit(w, new), new.pc # "priced"
        PROVE  Acts(w) /\ Len(ledger') >= Len(ledger)
    BY <1>1, <1>5 DEF Acts, Keeps, Commit
  <1>6. ASSUME NEW w \in Workers, Finish(w), ledger' = ledger
        PROVE  Acts(w) /\ Len(ledger') >= Len(ledger)
    BY <1>1, <1>4, <1>6 DEF Finish, Idle, Sells
  <1>7. ASSUME NEW w \in Workers, Till(w) PROVE Acts(w) /\ Len(ledger') >= Len(ledger)
    <2>1. ASSUME NEW chosen \in SUBSET Shoppers, NEW price \in Prices, BeginSale(w, chosen, price)
          PROVE  Acts(w) /\ Len(ledger') >= Len(ledger)
      <3>1. jobs'[w].pc = "deposits"
        BY <1>1, <2>1 DEF BeginSale, Idle
      <3> QED
        BY <1>1, <1>4, <2>1, <3>1 DEF BeginSale, Sells
    <2>2. CASE RefuseSale(w) \/ SendWarnings(w)
      BY <1>6, <2>2 DEF RefuseSale, SendWarnings
    <2>3. CASE WriteSale(w)
      <3> DEFINE rows == <<NewRow("sale", SharedOut(jobs[w].price, jobs[w].who))>>
      <3>1. jobs' = [jobs EXCEPT ![w].pc = "priced", ![w].rows = rows] /\ Len(rows) = 1
        BY <2>3 DEF WriteSale
      <3> HIDE DEF rows
      <3>2. /\ jobs'[w].pc = "priced" /\ jobs'[w].rows = rows /\ jobs[w].pc = "decide" /\ ledger' = ledger
            /\ \A v \in Workers \ {w} : jobs'[v] = jobs[v]
        BY <1>1, <2>3, <3>1 DEF WriteSale, Job
      <3> QED
        BY <1>4, <3>1, <3>2 DEF Sells
    <2>4. CASE CommitSale(w)
      <3> DEFINE new == [jobs[w] EXCEPT !.pc = "warn"]
      <3>1. new.pc = "warn" /\ Commit(w, new)
        BY <1>1, <2>4 DEF CommitSale, Job
      <3> HIDE DEF new
      <3> QED
        BY <1>5, <3>1
    <2> QED
      BY <1>7, <2>1, <2>2, <2>3, <2>4 DEF Till
  <1>8. ASSUME NEW w \in Workers, Interest(w) PROVE Acts(w) /\ Len(ledger') >= Len(ledger)
    <2>1. CASE BeginInterest(w)
      <3>1. jobs'[w].pc = "next"
        BY <1>1, <2>1 DEF BeginInterest, Idle
      <3> QED
        BY <1>1, <1>4, <2>1, <3>1 DEF BeginInterest, Sells
    <2>2. CASE NextShopper(w)
      <3>1. PICK s \in jobs[w].who :
              jobs' = [jobs EXCEPT ![w].pc = "deposits", ![w].asked = {s}, ![w].seen = Idle.seen]
        BY <2>2 DEF NextShopper
      <3>2. jobs'[w].pc = "deposits" /\ \A v \in Workers \ {w} : jobs'[v] = jobs[v]
        BY <1>1, <3>1 DEF Job
      <3> QED
        BY <1>4, <2>2, <3>2 DEF NextShopper, Sells
    <2>3. CASE JudgeShopper(w)
      <3>1. PICK s \in jobs[w].asked :
                  jobs' = [jobs EXCEPT
                      ![w].pc = "next",
                      ![w].who = @ \ {s},
                      ![w].rows = IF IsCharged(jobs[w], s)
                                  THEN Append(@, NewRow("interest", Only(s, -Charge(jobs[w].seen[s]))))
                                  ELSE @]
        BY <2>3 DEF JudgeShopper
      <3>2. jobs'[w].pc = "next" /\ \A v \in Workers \ {w} : jobs'[v] = jobs[v]
        BY <1>1, <3>1 DEF Job
      <3> QED
        BY <1>4, <2>3, <3>2 DEF JudgeShopper, Sells
    <2>4. CASE CommitInterest(w)
      <3>1. Idle.pc # "priced"
        BY DEF Idle
      <3>2. CASE jobs[w].rows = <<>>
        BY <1>6, <2>4, <3>2 DEF CommitInterest
      <3>3. CASE jobs[w].rows # <<>>
        BY <1>5, <2>4, <3>1, <3>3 DEF CommitInterest
      <3> QED
        BY <3>2, <3>3
    <2> QED
      BY <1>8, <2>1, <2>2, <2>3, <2>4 DEF Interest
  <1>9. ASSUME NEW w \in Workers, ReadDeposits(w) \/ ReadSpent(w) \/ ReadAdjustments(w)
        PROVE  Acts(w) /\ Len(ledger') >= Len(ledger)
    <2>1. /\ jobs'[w].pc \notin {"priced", "warn"} /\ ledger' = ledger
          /\ \A v \in Workers \ {w} : jobs'[v] = jobs[v]
      BY <1>1, <1>9 DEF ReadDeposits, ReadSpent, ReadAdjustments, ReadTotal, Job
    <2> QED
      BY <1>4, <2>1 DEF Sells
  <1>10. ASSUME NEW w \in Workers, Crash(w) PROVE Acts(w) /\ Len(ledger') >= Len(ledger)
    BY <1>6, <1>10 DEF Crash
  <1>11. Len(ledger) \in Nat /\ Len(ledger') \in Nat
    BY <1>1
  <1> QED
    BY <1>2, <1>3, <1>7, <1>8, <1>9, <1>10, <1>11 DEF Next

\* What a step of the ledger means for the ids.
LEMMA BookingDoes ==
  ASSUME KasseInv, Booking
  PROVE  /\ \A w \in Workers : jobs'[w].pc = "priced" =>
               \/ Inserts(w) /\ Len(jobs'[w].rows) = 1
               \/ jobs[w].pc = "priced" /\ jobs'[w].rows = jobs[w].rows
         /\ \A v, w \in Workers : Inserts(v) /\ Inserts(w) => v = w
         /\ \A v, w \in Workers : Sells(v) /\ Sells(w) => v = w
         /\ \A w \in Workers : Sells(w) => Len(ledger') = Len(ledger) + 1
         /\ Len(ledger) \in Nat /\ Len(ledger') \in Nat /\ Len(ledger') >= Len(ledger)
  <1>1. Next /\ LedgerInv
    BY DEF Booking, KasseInv
  <1>2. /\ Len(ledger) \in Nat /\ Len(ledger') \in Nat /\ Len(ledger') >= Len(ledger)
        /\ (\A v \in Workers : Keeps(v)) \/ \E w \in Workers : Acts(w)
    BY <1>1, LedgerStep
  <1>3. \A w \in Workers : jobs[w] \in Job
    BY <1>1 DEF LedgerInv, TypeOK
  <1>4. ASSUME NEW v \in Workers, Keeps(v)
        PROVE  jobs'[v].pc = jobs[v].pc /\ jobs'[v].rows = jobs[v].rows /\ ~Inserts(v) /\ ~Sells(v)
    <2>1. jobs'[v].pc = jobs[v].pc /\ jobs'[v].rows = jobs[v].rows
      BY <1>3, <1>4 DEF Keeps, Overtaken, Job
    <2> QED
      BY <2>1 DEF Inserts, Sells
  <1>5. CASE \A v \in Workers : Keeps(v)
    BY <1>2, <1>4, <1>5
  <1>6. ASSUME NEW w \in Workers, Acts(w)
        PROVE  /\ \A v \in Workers : jobs'[v].pc = "priced" =>
                    \/ Inserts(v) /\ Len(jobs'[v].rows) = 1
                    \/ jobs[v].pc = "priced" /\ jobs'[v].rows = jobs[v].rows
               /\ \A v \in Workers : Inserts(v) \/ Sells(v) => v = w
               /\ Sells(w) => Len(ledger') = Len(ledger) + 1
    <2>1. \A v \in Workers \ {w} : Keeps(v)
      BY <1>6 DEF Acts
    <2>2. jobs'[w].pc = "priced" => Inserts(w) /\ Len(jobs'[w].rows) = 1
      BY <1>6 DEF Acts, Inserts
    <2>3. Sells(w) => Len(ledger') = Len(ledger) + 1
      <3> SUFFICES ASSUME Sells(w) PROVE Len(ledger') = Len(ledger) + 1
        OBVIOUS
      <3>1. ledger' = ledger \o jobs[w].rows
        BY <1>6 DEF Acts
      <3>2. Len(jobs[w].rows) = 1
        BY DEF KasseInv, IdsInv, Sells
      <3>3. ledger \in Seq(Row) /\ jobs[w].rows \in Seq(Row)
        BY <1>1, <1>3 DEF LedgerInv, TypeOK, Job
      <3>4. Len(ledger \o jobs[w].rows) = Len(ledger) + Len(jobs[w].rows)
        BY <3>3
      <3> QED
        BY <3>1, <3>2, <3>4
    <2> QED
      BY <1>4, <2>1, <2>2, <2>3
  <1> QED
    BY <1>2, <1>5, <1>6

\* The new rows of the pages: what a sale that is committed had drawn, or nothing that is a sale.
LEMMA NewReceipts ==
  ASSUME KasseInv, Booking
  PROVE  /\ receipts \in Seq(Receipt) /\ receipts' \in Seq(Receipt) /\ Len(receipts') = Len(ledger')
         /\ Len(receipts) <= Len(receipts')
         /\ \A i \in 1..Len(receipts) : receipts'[i] = receipts[i]
         /\ \A i \in 1..Len(receipts') : i > Len(receipts) => receipts'[i] = NewReceipt
         /\ NewReceipt.id # 0 => \E w \in Workers : Sells(w) /\ NewReceipt.id = drawn[w]
         /\ \A w \in Workers : Sells(w) => Len(receipts') = Len(receipts) + 1
  <1>1. /\ receipts \in Seq(Receipt) /\ Len(receipts) = Len(ledger) /\ drawn \in [Workers -> Nat]
        /\ \A w \in Workers : jobs[w].price \in Nat /\ jobs[w].who \in SUBSET Shoppers
    BY DEF KasseInv, KasseTypeOK, TypeOK, Job
  <1>2. NewReceipt \in Receipt /\ (NewReceipt.id # 0 => \E w \in Workers : Sells(w) /\ NewReceipt.id = drawn[w])
    <2>1. CASE \E w \in Workers : Sells(w)
      <3> DEFINE w == CHOOSE w \in Workers : Sells(w)
      <3>1. w \in Workers /\ Sells(w)
        BY <2>1
      <3>2. NewReceipt = [id |-> drawn[w], price |-> jobs[w].price, buyers |-> jobs[w].who]
        BY <2>1 DEF NewReceipt
      <3> HIDE DEF w
      <3> QED
        BY <1>1, <3>1, <3>2 DEF Receipt
    <2>2. CASE ~\E w \in Workers : Sells(w)
      BY <2>2 DEF NewReceipt, NoSale, Receipt
    <2> QED
      BY <2>1, <2>2
  <1> DEFINE n == Len(ledger') - Len(ledger)
             new == [i \in 1..n |-> NewReceipt]
  <1>3. n \in Nat /\ Len(ledger) \in Nat /\ Len(ledger') \in Nat
    BY BookingDoes
  <1>4. new \in Seq(Receipt) /\ Len(new) = n /\ \A i \in 1..n : new[i] = NewReceipt
    BY <1>2, <1>3
  <1>5. receipts' = receipts \o new
    BY DEF Booking
  <1> HIDE DEF new
  <1>6. /\ receipts' \in Seq(Receipt) /\ Len(receipts') = Len(receipts) + n
        /\ \A i \in 1..Len(receipts) : receipts'[i] = receipts[i]
        /\ \A i \in 1..(Len(receipts) + n) : i > Len(receipts) => receipts'[i] = NewReceipt
    BY <1>1, <1>3, <1>4, <1>5
  <1>7. \A w \in Workers : Sells(w) => n = 1
    BY <1>3, BookingDoes
  <1> QED
    BY <1>1, <1>2, <1>3, <1>6, <1>7

LEMMA IdsStay ==
  ASSUME KasseInv, Booking
  PROVE  IdsInv'
  <1>1. /\ Migrated \in Nat /\ lastId \in Nat /\ drawn \in [Workers -> Nat] /\ lastId >= Migrated /\ IdsInv
        /\ lastId' = (IF \E w \in Workers : Inserts(w) THEN lastId + 1 ELSE lastId)
        /\ drawn' = [w \in Workers |->
                    IF Inserts(w) THEN lastId + 1 ELSE IF jobs'[w].pc = "idle" THEN 0 ELSE drawn[w]]
    BY KasseAssumption DEF KasseInv, KasseTypeOK, Booking, IdsInv
  <1>2. lastId' \in Nat /\ lastId' >= lastId
    BY <1>1
  <1>3. \A w \in Workers : IF Inserts(w) THEN drawn'[w] = lastId + 1 /\ lastId' = lastId + 1
                           ELSE jobs'[w].pc = "priced" => drawn'[w] = drawn[w]
    BY <1>1
  <1>4. \A i \in 1..Len(receipts) : receipts[i].id \in Nat
    <2>1. receipts \in Seq(Receipt)
      BY NewReceipts
    <2>2. \A i \in 1..Len(receipts) : receipts[i] \in Receipt
      BY <2>1
    <2> QED
      BY <2>2 DEF Receipt
  <1>5. ASSUME NEW i \in DOMAIN receipts', receipts'[i].id # 0
        PROVE  \/ i \in DOMAIN receipts /\ receipts'[i] = receipts[i]
               \/ \E w \in Workers : /\ Sells(w) /\ receipts'[i].id = drawn[w]
                                     /\ i = Len(receipts) + 1 /\ Len(receipts') = Len(receipts) + 1
    BY <1>5, NewReceipts
  <1>6. \A w \in Workers : Sells(w) =>
          /\ jobs[w].pc = "priced" /\ drawn[w] > Migrated /\ drawn[w] <= lastId /\ drawn[w] \in Nat
          /\ \A i \in DOMAIN receipts : receipts[i].id # drawn[w]
          /\ jobs'[w].pc # "priced"
    BY <1>1 DEF IdsInv, Sells
  <1>7. \A i, j \in DOMAIN receipts' : receipts'[i].id # 0 =>
          /\ receipts'[i].id > Migrated /\ receipts'[i].id <= lastId'
          /\ receipts'[j].id = receipts'[i].id => j = i
    <2> SUFFICES ASSUME NEW i \in DOMAIN receipts', NEW j \in DOMAIN receipts', receipts'[i].id # 0
                 PROVE  /\ receipts'[i].id > Migrated /\ receipts'[i].id <= lastId'
                        /\ receipts'[j].id = receipts'[i].id => j = i
      OBVIOUS
    <2>1. receipts'[i].id > Migrated /\ receipts'[i].id <= lastId'
      BY <1>1, <1>2, <1>4, <1>5, <1>6, NewReceipts DEF IdsInv
    <2>2. ASSUME receipts'[j].id = receipts'[i].id PROVE j = i
      <3>1. receipts'[j].id # 0
        BY <2>2
      <3>2. CASE i \in DOMAIN receipts /\ receipts'[i] = receipts[i]
                 /\ j \in DOMAIN receipts /\ receipts'[j] = receipts[j]
        BY <1>1, <2>2, <3>2 DEF IdsInv
      <3>3. CASE i \notin DOMAIN receipts /\ j \notin DOMAIN receipts
        BY <1>5, <3>1, <3>3
      <3>4. CASE i \in DOMAIN receipts /\ j \notin DOMAIN receipts
        <4>1. receipts'[i] = receipts[i]
          BY <3>4, NewReceipts
        <4> QED
          BY <1>5, <1>6, <2>2, <3>1, <3>4, <4>1
      <3>5. CASE i \notin DOMAIN receipts /\ j \in DOMAIN receipts
        <4>1. receipts'[j] = receipts[j]
          BY <3>5, NewReceipts
        <4> QED
          BY <1>5, <1>6, <2>2, <3>5, <4>1
      <3>6. (i \in DOMAIN receipts => receipts'[i] = receipts[i])
            /\ (j \in DOMAIN receipts => receipts'[j] = receipts[j])
        BY NewReceipts
      <3> QED
        BY <3>2, <3>3, <3>4, <3>5, <3>6
    <2> QED
      BY <2>1, <2>2
  <1>8. ASSUME NEW w \in Workers, jobs'[w].pc = "priced"
        PROVE  /\ Len(jobs'[w].rows) = 1
               /\ drawn'[w] > Migrated /\ drawn'[w] <= lastId'
               /\ \A v \in Workers : jobs'[v].pc = "priced" /\ drawn'[v] = drawn'[w] => v = w
               /\ \A i \in DOMAIN receipts' : receipts'[i].id # drawn'[w]
    <2>1. \A v \in Workers : jobs'[v].pc = "priced" =>
            \/ Inserts(v) /\ drawn'[v] = lastId + 1 /\ lastId' = lastId + 1 /\ Len(jobs'[v].rows) = 1
            \/ /\ jobs[v].pc = "priced" /\ drawn'[v] = drawn[v] /\ Len(jobs'[v].rows) = 1
               /\ drawn[v] > Migrated /\ drawn[v] <= lastId /\ drawn[v] \in Nat
      <3> SUFFICES ASSUME NEW v \in Workers, jobs'[v].pc = "priced"
                   PROVE  \/ Inserts(v) /\ drawn'[v] = lastId + 1 /\ lastId' = lastId + 1 /\ Len(jobs'[v].rows) = 1
                          \/ /\ jobs[v].pc = "priced" /\ drawn'[v] = drawn[v] /\ Len(jobs'[v].rows) = 1
                             /\ drawn[v] > Migrated /\ drawn[v] <= lastId /\ drawn[v] \in Nat
        OBVIOUS
      <3>1. CASE Inserts(v) /\ Len(jobs'[v].rows) = 1
        BY <1>3, <3>1
      <3>2. CASE jobs[v].pc = "priced" /\ jobs'[v].rows = jobs[v].rows
        <4>1. ~Inserts(v)
          BY <3>2 DEF Inserts
        <4>2. Len(jobs[v].rows) = 1 /\ drawn[v] > Migrated /\ drawn[v] <= lastId
          BY <1>1, <3>2 DEF IdsInv
        <4> QED
          BY <1>1, <1>3, <3>2, <4>1, <4>2
      <3> QED
        BY <3>1, <3>2, BookingDoes
    <2>2. Len(jobs'[w].rows) = 1 /\ drawn'[w] > Migrated /\ drawn'[w] <= lastId'
      BY <1>1, <1>2, <1>8, <2>1
    <2>3. ASSUME NEW v \in Workers, jobs'[v].pc = "priced", drawn'[v] = drawn'[w] PROVE v = w
      <3>1. CASE Inserts(v) /\ Inserts(w)
        BY <3>1, BookingDoes
      <3>2. CASE jobs[v].pc = "priced" /\ jobs[w].pc = "priced"
        <4>1. ~Inserts(v) /\ ~Inserts(w)
          BY <3>2 DEF Inserts
        <4>2. drawn[v] = drawn[w]
          BY <1>8, <2>1, <2>3, <4>1
        <4> QED
          BY <1>1, <3>2, <4>2 DEF IdsInv
      <3> QED
        BY <1>1, <1>8, <2>1, <2>3, <3>1, <3>2
    <2>4. ASSUME NEW i \in DOMAIN receipts', receipts'[i].id = drawn'[w] PROVE FALSE
      <3>1. receipts'[i].id # 0
        BY <1>1, <2>2, <2>4
      <3>2. receipts'[i].id <= lastId
        BY <1>1, <1>4, <1>5, <1>6, <3>1 DEF IdsInv
      <3>3. jobs[w].pc = "priced" /\ drawn'[w] = drawn[w]
        BY <1>1, <1>8, <2>1, <2>4, <3>2
      <3>4. i \notin DOMAIN receipts
        <4> SUFFICES ASSUME i \in DOMAIN receipts PROVE FALSE
          OBVIOUS
        <4>1. receipts'[i] = receipts[i]
          BY NewReceipts
        <4> QED
          BY <1>1, <2>4, <3>3, <4>1 DEF IdsInv
      <3>5. PICK v \in Workers : Sells(v) /\ receipts'[i].id = drawn[v]
        BY <1>5, <3>1, <3>4
      <3>6. v = w
        BY <1>1, <1>6, <2>4, <3>3, <3>5 DEF IdsInv
      <3> QED
        BY <1>6, <1>8, <3>5, <3>6
    <2> QED
      BY <2>2, <2>3, <2>4
  <1>9. lastId' >= Migrated
    BY <1>1, <1>2
  <1> QED
    BY <1>7, <1>8, <1>9 DEF IdsInv
LEMMA SalesAreKnown ==
  KasseTypeOK /\ IdsInv =>
    /\ IsFiniteSet(AskedSales) /\ AskedSales \subseteq Sales
    /\ \A a \in Sales : a.id \in Nat
    /\ \A a, b \in Sales : a.id = b.id => a = b
  BY SalesAreFinite

LEMMA SalesStayKnown ==
  (KasseTypeOK /\ IdsInv)' =>
    (/\ IsFiniteSet(AskedSales) /\ AskedSales \subseteq Sales
     /\ \A a \in Sales : a.id \in Nat
     /\ \A a, b \in Sales : a.id = b.id => a = b)'
  BY SalesAreKnown, PTL

LEMMA TypesStay ==
  ASSUME KasseInv, Booking
  PROVE  /\ LedgerInv' /\ KasseTypeOK'
         /\ reader'.step = reader.step /\ reader'.people = reader.people /\ reader'.buyers = reader.buyers
         /\ reader'.page = reader.page /\ reader'.pages = reader.pages
         /\ reader'.were = reader.were /\ reader'.seen = reader.seen
         /\ reader'.steady => reader.steady /\ (reader.step = "rows" => ~\E w \in Workers : Sells(w))
  <1>1. LedgerInv'
    BY StepKeeps DEF KasseInv, Booking
  <1>2. lastId' \in Nat /\ drawn' \in [Workers -> Nat]
    <2>1. lastId \in Nat /\ drawn \in [Workers -> Nat]
      BY DEF KasseInv, KasseTypeOK
    <2> QED
      BY <2>1 DEF Booking
  <1> DEFINE steady == reader.steady /\ (reader.step = "rows" => ~\E w \in Workers : Sells(w))
  <1>3. reader' = [reader EXCEPT !.steady = steady] /\ steady \in BOOLEAN /\ reader \in Reader
    BY DEF Booking, KasseInv, KasseTypeOK, Reader
  <1>4. steady => reader.steady /\ (reader.step = "rows" => ~\E w \in Workers : Sells(w))
    OBVIOUS
  <1> HIDE DEF steady
  <1>5. reader' \in Reader
    BY <1>3 DEF Reader
  <1>6. /\ reader'.step = reader.step /\ reader'.people = reader.people /\ reader'.buyers = reader.buyers
        /\ reader'.page = reader.page /\ reader'.pages = reader.pages
        /\ reader'.were = reader.were /\ reader'.seen = reader.seen /\ reader'.steady = steady
    BY <1>3 DEF Reader
  <1>7. KasseTypeOK'
    BY <1>1, <1>2, <1>5, NewReceipts DEF KasseTypeOK, LedgerInv
  <1> QED
    BY <1>1, <1>4, <1>6, <1>7

\* A sale that is committed comes on top; those that were there stay.
LEMMA AskedGrow ==
  ASSUME KasseInv, Booking
  PROVE  /\ AskedSales \subseteq AskedSales'
         /\ (~\E w \in Workers : Sells(w)) => AskedSales' = AskedSales
  <1>1. reader'.people = reader.people /\ reader'.buyers = reader.buyers
    BY TypesStay
  <1>2. ASSUME NEW a \in Sales PROVE a \in Sales'
    <2>1. CASE a \in OldSales
      BY <2>1 DEF Sales
    <2>2. CASE a \notin OldSales
      <3>1. PICK i \in DOMAIN receipts : a = receipts[i] /\ receipts[i].id # 0
        BY <1>2, <2>2 DEF Sales
      <3>2. i \in DOMAIN receipts' /\ receipts'[i] = receipts[i]
        BY NewReceipts
      <3> QED
        BY <3>1, <3>2 DEF Sales
    <2> QED
      BY <2>1, <2>2
  <1>3. ASSUME ~\E w \in Workers : Sells(w), NEW a \in Sales' PROVE a \in Sales
    <2>1. CASE a \in OldSales
      BY <2>1 DEF Sales
    <2>2. CASE a \notin OldSales
      <3>1. PICK i \in DOMAIN receipts' : a = receipts'[i] /\ receipts'[i].id # 0
        BY <1>3, <2>2 DEF Sales
      <3>2. i \in DOMAIN receipts /\ receipts'[i] = receipts[i]
        BY <1>3, <3>1, NewReceipts
      <3> QED
        BY <3>1, <3>2 DEF Sales
    <2> QED
      BY <2>1, <2>2
  <1>4. \A a : Asked(a)' <=> Asked(a)
    BY <1>1 DEF Asked
  <1> QED
    BY <1>2, <1>3, <1>4 DEF AskedSales

LEMMA BookingReader ==
  ASSUME KasseInv, Booking
  PROVE  ReaderInv'
  <1>1. reader \in Reader /\ ReaderInv
    BY DEF KasseInv, KasseTypeOK
  <1>2. /\ IsFiniteSet(AskedSales') /\ AskedSales' \subseteq Sales'
        /\ \A a, b \in Sales' : a.id = b.id => a = b
    BY TypesStay, IdsStay, SalesStayKnown
  <1>3. Reached' = Reached
    BY TypesStay DEF Reached
  <1> SUFFICES ASSUME reader.step # "away" PROVE ReaderInv'
    BY TypesStay DEF ReaderInv
  <1>4. /\ reader.page >= 1 /\ reader.pages >= 1 /\ reader.page \in Nat
        /\ \/ reader.step # "count"
           \/ reader.page > 1
           \/ reader.step = "count" /\ reader.page = 1
    <2>1. reader.page \in Nat /\ reader.page >= 1 /\ reader.pages >= 1
      BY <1>1 DEF ReaderInv, Reader
    <2>2. reader.page = 1 \/ reader.page > 1
      BY <2>1
    <2> QED
      BY <2>1, <2>2
  <1>5. reader.step # "count" \/ reader.page > 1 =>
          \A id \in reader.were : \E a \in AskedSales : a.id = id
    BY <1>1 DEF ReaderInv
  <1>6. ASSUME NEW a \in AskedSales', a.id \in reader.were,
               Cardinality(Newers(AskedSales', a)) < Reached * PageSize
        PROVE  a.id \in reader.seen
    <2>1. CASE reader.step # "count" \/ reader.page > 1
      <3>1. PICK b \in AskedSales : b.id = a.id
        BY <1>5, <1>6, <2>1
      <3>2. b = a
        BY <1>2, <3>1, AskedGrow
      <3>3. /\ Cardinality(Newers(AskedSales, a)) \in Nat /\ Cardinality(Newers(AskedSales', a)) \in Nat
            /\ Cardinality(Newers(AskedSales, a)) <= Cardinality(Newers(AskedSales', a))
        BY <1>2, AskedGrow, NewersAreMore
      <3>4. Reached * PageSize \in Nat
        <4>1. Reached \in Nat
          BY <1>4 DEF Reached
        <4> QED
          BY <4>1, TimesType
      <3>5. Cardinality(Newers(AskedSales, a)) < Reached * PageSize
        BY <1>6, <3>3, <3>4
      <3> QED
        BY <1>1, <1>6, <3>1, <3>2, <3>5 DEF ReaderInv
    <2>2. CASE reader.step = "count" /\ reader.page = 1
      <3>1. Reached = 0
        BY <2>2 DEF Reached
      <3>2. Reached * PageSize = 0
        BY <3>1, TimesType
      <3>3. Cardinality(Newers(AskedSales', a)) \in Nat
        BY <1>2, NewersAreMore
      <3> QED
        BY <1>6, <3>2, <3>3
    <2> QED
      BY <1>4, <2>1, <2>2
  <1>7. reader.step = "rows" =>
          /\ reader.page <= reader.pages
          /\ reader'.steady => Cardinality(AskedSales') <= reader.pages * PageSize
    BY <1>1, TypesStay, AskedGrow DEF ReaderInv
  <1>8. reader.step = "shown" /\ reader.page = reader.pages /\ reader'.steady => reader.were \subseteq reader.seen
    BY <1>1, TypesStay DEF ReaderInv
  <1>9. reader.step # "count" \/ reader.page > 1 =>
          \A id \in reader.were : \E a \in AskedSales' : a.id = id
    BY <1>5, AskedGrow
  <1> QED
    BY <1>3, <1>4, <1>6, <1>7, <1>8, <1>9, TypesStay DEF ReaderInv

LEMMA KasseHolds == KasseSpec => []KasseInv
  <1>1. KasseInit => KasseInv
    <2> SUFFICES ASSUME KasseInit PROVE KasseInv
      OBVIOUS
    <2>1. LedgerInv
      BY InitHolds DEF KasseInit
    <2>2. Len(ledger) \in Nat /\ receipts = [i \in 1..Len(ledger) |-> NoSale] /\ Migrated \in Nat
      <3>1. ledger \in Seq(Row)
        BY <2>1 DEF LedgerInv, TypeOK
      <3>2. Len(ledger) \in Nat
        BY <3>1
      <3> QED
        BY <3>2, KasseAssumption DEF KasseInit
    <2>3. receipts \in Seq(Receipt) /\ Len(receipts) = Len(ledger)
      BY <2>2 DEF Receipt, NoSale
    <2>4. reader \in Reader
      BY DEF KasseInit, Away, Reader
    <2>5. KasseTypeOK
      BY <2>1, <2>2, <2>3, <2>4 DEF KasseInit, KasseTypeOK, LedgerInv
    <2>6. IdsInv
      BY <2>2 DEF KasseInit, Init, IdsInv, NoSale, Idle
    <2>7. ReaderInv
      BY DEF KasseInit, Away, ReaderInv
    <2> QED
      BY <2>1, <2>5, <2>6, <2>7 DEF KasseInv
  <1>2. KasseInv /\ [Booking \/ Browsing]_<<vars, kasseVars>> => KasseInv'
    <2> SUFFICES ASSUME KasseInv, [Booking \/ Browsing]_<<vars, kasseVars>> PROVE KasseInv'
      OBVIOUS
    <2>1. CASE Booking
      BY <2>1, TypesStay, IdsStay, BookingReader DEF KasseInv
    <2>2. CASE Browsing \/ UNCHANGED <<vars, kasseVars>>
      BY <2>2, BrowsingKeeps
    <2> QED
      BY <2>1, <2>2
  <1> QED
    BY <1>1, <1>2, PTL DEF KasseSpec

\* The ledger, the ids of the sales and the reader keep their types.
THEOREM KasseTypesHold == KasseSpec => []KasseTypeOK
  <1>1. KasseInv => KasseTypeOK
    BY DEF KasseInv
  <1> QED
    BY <1>1, KasseHolds, PTL

\* all_sales: with the id as a tiebreak, whoever pages to the end of Salgsoverblik has seen each sale
\* that there was when he began, whatever the tills sold meanwhile and whatever size the pages have;
\* unless a sale came between the count of a page and its rows.
THEOREM NoSaleEverSkipped == KasseSpec => []NoSaleSkipped
  <1>1. KasseInv => NoSaleSkipped
    <2> SUFFICES ASSUME KasseInv, reader.step = "shown", reader.page = reader.pages, reader.steady
                 PROVE  reader.were \subseteq reader.seen
      BY DEF NoSaleSkipped
    <2> QED
      BY DEF KasseInv, ReaderInv
  <1> QED
    BY <1>1, KasseHolds, PTL

-----------------------------------------------------------------------------
(***************************************************************************)
(* The books.  The pages add up what the ledger has in two orders: by      *)
(* account and row, and by row and account.  That they agree rests on what *)
(* each line of the ledger is: a valid sale has shared out its price among *)
(* its buyers to the øre.                                                  *)
(***************************************************************************)

\* Running up a sequence adds up its elements.
LEMMA SumOfSequence ==
  ASSUME NEW v \in Seq(Int)
  PROVE  Sum(v) = SumFunctionOnSet(v, 1..Len(v))
  <1>1. PICK p : RunsUp(p, v, Len(v))
    BY SomethingRunsUp
  <1> DEFINE Good == {k \in Nat : k <= Len(v) => p[k] = SumFunctionOnSet(v, 1..k)}
  <1>2. 0 \in Good
    <2>1. 1..0 = {} /\ p[0] = 0
      BY <1>1 DEF RunsUp
    <2>2. SumFunctionOnSet(v, 1..0) = 0
      BY <2>1, SumOfNothing
    <2> QED
      BY <2>1, <2>2
  <1>3. ASSUME NEW k \in Nat, k \in Good PROVE k + 1 \in Good
    <2> SUFFICES ASSUME k + 1 <= Len(v) PROVE p[k + 1] = SumFunctionOnSet(v, 1..(k + 1))
      OBVIOUS
    <2>1. k <= Len(v) /\ k + 1 \in 1..Len(v) /\ \A x \in 1..Len(v) : v[x] \in Int
      OBVIOUS
    <2>2. p[k + 1] = p[k] + v[k + 1]
      BY <1>1, <2>1 DEF RunsUp
    <2>3. 1..(k + 1) = (1..k) \cup {k + 1} /\ k + 1 \notin 1..k /\ \A x \in 1..(k + 1) : x \in 1..Len(v)
      OBVIOUS
    <2>4. IsFiniteSet(1..k)
      BY FS_Interval
    <2>5. \A x \in (1..k) \cup {k + 1} : v[x] \in Int
      BY <2>1, <2>3
    <2>6. SumFunctionOnSet(v, (1..k) \cup {k + 1}) = v[k + 1] + SumFunctionOnSet(v, 1..k)
      BY <2>3, <2>4, <2>5, SumWith
    <2>7. p[k] = SumFunctionOnSet(v, 1..k) /\ p[k] \in Int
      BY <1>1, <1>3, <2>1 DEF RunsUp
    <2>8. SumFunctionOnSet(v, 1..(k + 1)) = v[k + 1] + SumFunctionOnSet(v, 1..k)
      BY <2>3, <2>6
    <2>9. v[k + 1] \in Int
      BY <2>1
    <2> QED
      BY <2>2, <2>7, <2>8, <2>9
  <1>4. Nat \subseteq Good
    <2> HIDE DEF Good
    <2> QED
      BY <1>2, <1>3, AllNumbers
  <1>5. Len(v) \in Nat
    OBVIOUS
  <1>6. p[Len(v)] = SumFunctionOnSet(v, 1..Len(v))
    BY <1>4, <1>5
  <1> QED
    BY <1>1, <1>6, SumIsRunUp

\* One aggregate, as a sum over the rows.
LEMMA TotalIsSum ==
  ASSUME NEW rows \in Seq(Row), NEW s \in Shoppers, NEW kinds,
         NEW f, \A i \in 1..Len(rows) : f[i] = Counted(rows[i], s, kinds)
  PROVE  Total(rows, s, kinds) = SumFunctionOnSet(f, 1..Len(rows))
  <1> DEFINE v == [i \in 1..Len(rows) |-> Counted(rows[i], s, kinds)]
  <1>1. \A r \in Row : Counted(r, s, kinds) \in Int
    BY DEF Counted, Row
  <1>2. Len(rows) \in Nat /\ \A i \in 1..Len(rows) : rows[i] \in Row
    OBVIOUS
  <1>3. v \in Seq(Int) /\ Len(v) = Len(rows)
    BY <1>1, <1>2
  <1>4. IsFiniteSet(1..Len(rows))
    BY <1>2, FS_Interval
  <1>5. \A i \in 1..Len(rows) : v[i] \in Int /\ f[i] = v[i]
    BY <1>1, <1>2
  <1>6. Total(rows, s, kinds) = Sum(v)
    BY DEF Total
  <1> HIDE DEF v
  <1>7. Sum(v) = SumFunctionOnSet(v, 1..Len(v))
    BY <1>3, SumOfSequence
  <1>8. SumFunctionOnSet(f, 1..Len(rows)) = SumFunctionOnSet(v, 1..Len(rows))
    BY <1>4, <1>5, SumSame
  <1> QED
    BY <1>3, <1>6, <1>7, <1>8

\* What a row does to a balance.
Moves(row, s) == IF ~row.valid THEN 0 ELSE IF row.kind = "sale" THEN -row.amounts[s] ELSE row.amounts[s]

\* A balance is the sum of what its rows do to it.
LEMMA BalanceIsSum ==
  ASSUME NEW rows \in Seq(Row), NEW s \in Shoppers,
         NEW f, \A i \in 1..Len(rows) : f[i] = Moves(rows[i], s)
  PROVE  Balance(rows, s) = SumFunctionOnSet(f, 1..Len(rows)) /\ Balance(rows, s) \in Int
  <1> DEFINE rowNos == 1..Len(rows)
             d == [i \in rowNos |-> Counted(rows[i], s, {"deposit"})]
             b == [i \in rowNos |-> Counted(rows[i], s, {"sale"})]
             minus == [i \in rowNos |-> -Counted(rows[i], s, {"sale"})]
             a == [i \in rowNos |-> Counted(rows[i], s, {"manual", "interest"})]
             da == [i \in rowNos |-> Counted(rows[i], s, {"deposit"})
                                       + Counted(rows[i], s, {"manual", "interest"})]
  <1>1. Len(rows) \in Nat /\ \A i \in rowNos : rows[i] \in Row
    OBVIOUS
  <1>2. IsFiniteSet(rowNos)
    BY <1>1, FS_Interval
  <1>3. \A r \in Row :
          /\ Counted(r, s, {"deposit"}) \in Int /\ Counted(r, s, {"sale"}) \in Int
          /\ Counted(r, s, {"manual", "interest"}) \in Int
          /\ Moves(r, s) = Counted(r, s, {"deposit"}) + Counted(r, s, {"manual", "interest"})
                             + -Counted(r, s, {"sale"})
    BY DEF Counted, Row, Moves
  <1>4. \A i \in rowNos : /\ d[i] \in Int /\ b[i] \in Int /\ a[i] \in Int /\ minus[i] \in Int /\ da[i] \in Int
                           /\ minus[i] = -b[i] /\ da[i] = d[i] + a[i] /\ f[i] = da[i] + minus[i]
    <2> TAKE i \in rowNos
    <2> DEFINE cd == Counted(rows[i], s, {"deposit"})
               cs == Counted(rows[i], s, {"sale"})
               ca == Counted(rows[i], s, {"manual", "interest"})
    <2>1. cd \in Int /\ cs \in Int /\ ca \in Int /\ f[i] = cd + ca + -cs
      BY <1>1, <1>3
    <2>2. d[i] = cd /\ b[i] = cs /\ minus[i] = -cs /\ a[i] = ca /\ da[i] = cd + ca
      OBVIOUS
    <2> HIDE DEF d, b, minus, a, da, cd, cs, ca
    <2> QED
      BY <2>1, <2>2
  <1>5. /\ Total(rows, s, {"deposit"}) = SumFunctionOnSet(d, rowNos)
        /\ Total(rows, s, {"sale"}) = SumFunctionOnSet(b, rowNos)
        /\ Total(rows, s, {"manual", "interest"}) = SumFunctionOnSet(a, rowNos)
    <2>1. \A i \in 1..Len(rows) : d[i] = Counted(rows[i], s, {"deposit"})
      OBVIOUS
    <2>2. \A i \in 1..Len(rows) : b[i] = Counted(rows[i], s, {"sale"})
      OBVIOUS
    <2>3. \A i \in 1..Len(rows) : a[i] = Counted(rows[i], s, {"manual", "interest"})
      OBVIOUS
    <2> HIDE DEF d, b, a
    <2>4. Total(rows, s, {"deposit"}) = SumFunctionOnSet(d, 1..Len(rows))
      BY <2>1, TotalIsSum
    <2>5. Total(rows, s, {"sale"}) = SumFunctionOnSet(b, 1..Len(rows))
      BY <2>2, TotalIsSum
    <2>6. Total(rows, s, {"manual", "interest"}) = SumFunctionOnSet(a, 1..Len(rows))
      BY <2>3, TotalIsSum
    <2> QED
      BY <2>4, <2>5, <2>6
  <1> HIDE DEF d, b, a, minus, da, rowNos
  <1>6. SumFunctionOnSet(f, rowNos) = SumFunctionOnSet(da, rowNos) + SumFunctionOnSet(minus, rowNos)
    BY <1>2, <1>4, SumPlus
  <1>7. SumFunctionOnSet(da, rowNos) = SumFunctionOnSet(d, rowNos) + SumFunctionOnSet(a, rowNos)
    BY <1>2, <1>4, SumPlus
  <1>8. SumFunctionOnSet(minus, rowNos) = -SumFunctionOnSet(b, rowNos)
    BY <1>2, <1>4, SumNegated
  <1>9. /\ SumFunctionOnSet(d, rowNos) \in Int /\ SumFunctionOnSet(a, rowNos) \in Int
        /\ SumFunctionOnSet(b, rowNos) \in Int
    BY <1>2, <1>4, SumIsInt
  <1>10. Balance(rows, s) = SumFunctionOnSet(d, rowNos) - SumFunctionOnSet(b, rowNos) + SumFunctionOnSet(a, rowNos)
    BY <1>5 DEF Balance
  <1> QED
    BY <1>6, <1>7, <1>8, <1>9, <1>10 DEF rowNos

-----------------------------------------------------------------------------
(* The shares of a sale *)

\* Shares are given to buyers alone, they differ by no more than one, and they add up to the price.
LEMMA SharesAddUp ==
  ASSUME NEW price \in Nat, NEW buyers \in SUBSET Shoppers, buyers # {}
  PROVE  LET shares == SharedOut(price, buyers)
             n == Cardinality(buyers)
         IN  /\ shares \in [Shoppers -> Int] /\ n \in Nat \ {0} /\ price \div n \in Nat
             /\ \A s \in Shoppers \ buyers : shares[s] = 0
             /\ \A s \in buyers : shares[s] \in {price \div n, (price \div n) + 1}
             /\ SumFunctionOnSet(shares, buyers) = price
             /\ SumFunctionOnSet(shares, Shoppers) = price
  <1> DEFINE n == Cardinality(buyers)
             low == price \div n
             rest == price % n
             rank(s) == Cardinality({r \in buyers : r < s})
             first == {s \in buyers : rank(s) < rest}
             shares == SharedOut(price, buyers)
             evenly == [s \in buyers |-> low]
             more == [s \in buyers |-> IF s \in first THEN 1 ELSE 0]
  <1>1. IsFiniteSet(buyers) /\ buyers \in SUBSET Nat /\ IsFiniteSet(Shoppers)
    BY ConstantsAssumption, FS_Subset
  <1>2. n \in Nat \ {0}
    BY <1>1, FS_CardinalityType, FS_EmptySet
  <1>3. low \in Nat /\ rest \in Nat /\ rest < n /\ price = n * low + rest
    <2> HIDE DEF n
    <2> QED
      BY <1>2
  <1>4. Cardinality(first) = rest
    <2>1. rest <= Cardinality(buyers)
      BY <1>2, <1>3
    <2> HIDE DEF n, low, rest
    <2>2. Cardinality({s \in buyers : Cardinality({r \in buyers : r < s}) < rest}) = rest
      BY <1>1, <1>3, <2>1, SomeAreFirst
    <2> QED
      BY <2>2
  <1>5. shares = [s \in Shoppers |-> IF s \notin buyers THEN 0 ELSE low + (IF rank(s) < rest THEN 1 ELSE 0)]
    BY DEF SharedOut
  <1>6. /\ \A s \in buyers : shares[s] = low + (IF s \in first THEN 1 ELSE 0)
        /\ \A s \in Shoppers \ buyers : shares[s] = 0
        /\ first \in SUBSET buyers
    BY <1>5
  <1>7. shares \in [Shoppers -> Int]
    BY SharesType
  <1> HIDE DEF n, low, rest, rank, first, shares
  <1>8. \A s \in buyers : evenly[s] \in Int /\ more[s] \in Int /\ shares[s] = evenly[s] + more[s]
    BY <1>3, <1>6
  <1>9. SumFunctionOnSet(shares, buyers) = SumFunctionOnSet(evenly, buyers) + SumFunctionOnSet(more, buyers)
    <2> HIDE DEF evenly, more
    <2>1. IsFiniteSet(buyers)
      BY <1>1
    <2> QED
      BY <1>8, <2>1, SumPlus
  <1>10. SumFunctionOnSet(more, buyers) = rest
    <2>1. \A s \in buyers : more[s] = IF s \in first THEN 1 ELSE 0
      OBVIOUS
    <2> HIDE DEF more
    <2>2. IsFiniteSet(buyers) /\ first \in SUBSET buyers
      BY <1>1, <1>6
    <2>3. SumFunctionOnSet(more, buyers) = Cardinality(first)
      BY <2>1, <2>2, SumCounts
    <2> QED
      BY <1>4, <2>3
  <1>11. SumFunctionOnSet(evenly, buyers) = n * low
    <2>1. \A s \in buyers : evenly[s] \in Int /\ low <= evenly[s] /\ evenly[s] <= low
      BY <1>3
    <2>2. low \in Int
      BY <1>3
    <2> HIDE DEF evenly
    <2>3. /\ Cardinality(buyers) * low <= SumFunctionOnSet(evenly, buyers)
          /\ SumFunctionOnSet(evenly, buyers) <= Cardinality(buyers) * low
      BY <1>1, <2>1, <2>2, SumBetween
    <2>4. SumFunctionOnSet(evenly, buyers) \in Int
      BY <1>1, <2>1, SumIsInt
    <2>5. n * low \in Int
      BY <1>2, <1>3
    <2> QED
      BY <2>3, <2>4, <2>5 DEF n
  <1>12. SumFunctionOnSet(shares, buyers) = price
    BY <1>3, <1>9, <1>10, <1>11
  <1>13. SumFunctionOnSet(shares, Shoppers) = SumFunctionOnSet(shares, buyers)
    BY <1>1, <1>6, <1>7, SumOfPart
  <1>14. \A s \in buyers : shares[s] \in {low, low + 1}
    BY <1>3, <1>6
  <1> QED
    BY <1>2, <1>3, <1>6, <1>7, <1>12, <1>13, <1>14 DEF shares, n, low

-----------------------------------------------------------------------------
(* What a request has written, and what the pages know of a row *)

\* A sale has a price and buyers, who are active as long as nothing has overtaken it; what it writes is
\* shared out among them.  A run of interest never gives.
Written(job) ==
  /\ job.kind = "sale" /\ job.pc # "idle" =>
        job.price \in Prices /\ (job.fresh => \A s \in job.who : active[s])
  /\ job.pc = "priced" =>
        /\ job.price # 0 /\ job.who # {} /\ Len(job.rows) = 1
        /\ job.rows[1].kind = "sale" /\ job.rows[1].amounts = SharedOut(job.price, job.who)
  /\ job.kind = "interest" => \A k \in DOMAIN job.rows, s \in Shoppers : job.rows[k].amounts[s] <= 0

\* The lines of the ledger that are sales are shared out as the pages say.
Receipted ==
  \A i \in DOMAIN ledger : ledger[i].kind = "sale" =>
     /\ receipts[i].price \in Prices \ {0}
     /\ receipts[i].buyers \in SUBSET Shoppers /\ receipts[i].buyers # {}
     /\ ledger[i].amounts = SharedOut(receipts[i].price, receipts[i].buyers)

WrittenInv == LedgerInv /\ \A w \in Workers : Written(jobs[w])

LEMMA IdleIsWritten == Written(Idle)
  BY DEF Written, Idle

\* A job that stays, or is overtaken.
LEMMA KeptIsWritten ==
  ASSUME WrittenInv, NEW v \in Workers, jobs'[v] = Overtaken(v) \/ (jobs'[v] = jobs[v] /\ active' = active)
  PROVE  Written(jobs[v])'
  <1>1. jobs[v] \in Job /\ Written(jobs[v])
    BY DEF WrittenInv, LedgerInv, TypeOK
  <1>2. CASE jobs'[v] = jobs[v] /\ active' = active
    BY <1>1, <1>2 DEF Written
  <1>3. CASE jobs'[v] = Overtaken(v) /\ jobs[v].pc = "idle"
    BY <1>1, <1>3 DEF Overtaken, Written
  <1>4. CASE jobs'[v] = Overtaken(v) /\ jobs[v].pc # "idle"
    <2>1. /\ jobs'[v].pc = jobs[v].pc /\ jobs'[v].kind = jobs[v].kind /\ jobs'[v].price = jobs[v].price
          /\ jobs'[v].who = jobs[v].who /\ jobs'[v].rows = jobs[v].rows /\ jobs'[v].fresh = FALSE
      BY <1>1, <1>4 DEF Overtaken, Job
    <2> QED
      BY <1>1, <2>1 DEF Written
  <1> QED
    BY <1>2, <1>3, <1>4

LEMMA OneIsWritten ==
  ASSUME WrittenInv, LedgerInv', NEW w \in Workers, Written(jobs[w])',
         \A v \in Workers \ {w} : jobs'[v] = Overtaken(v) \/ (jobs'[v] = jobs[v] /\ active' = active)
  PROVE  WrittenInv'
  BY KeptIsWritten DEF WrittenInv

\* What a step does to the ledger; the last but one is an interest run's.
Sold(w) == Sells(w) /\ ledger' = ledger \o jobs[w].rows
Booked(row) ==
  /\ row \in Row /\ row.valid /\ row.kind \in {"deposit", "manual"} /\ ledger' = Append(ledger, row)
  /\ \E s \in Shoppers, a \in Int \ {0} : row.amounts = Only(s, a)
Voided(i) ==
  /\ Voids(i)
  /\ \E n : ledger' = [ledger EXCEPT ![i].valid = FALSE, ![i].voidLines = n]
Charged(w) == jobs[w].kind = "interest" /\ jobs[w].rows # <<>> /\ ledger' = ledger \o jobs[w].rows

SomethingSold == \E w \in Workers : Sells(w)

LedgerMoves ==
  \/ ledger' = ledger /\ ~SomethingSold
  \/ \E w \in Workers : Sold(w)
  \/ ~SomethingSold /\ \E row : Booked(row)
  \/ ~SomethingSold /\ \E i \in DOMAIN ledger : Voided(i)
  \/ ~SomethingSold /\ \E w \in Workers : Charged(w)

\* Nothing is sold by those who keep their jobs.
LEMMA KeepersSellNothing ==
  ASSUME LedgerInv, NEW v \in Workers, Keeps(v)
  PROVE  ~Sells(v)
  <1>1. jobs[v] \in Job
    BY DEF LedgerInv, TypeOK
  <1>2. jobs'[v].pc = jobs[v].pc
    BY <1>1 DEF Keeps, Overtaken, Job
  <1> QED
    BY <1>2 DEF Sells

\* The steps of a worker that leave the ledger alone.
LEMMA QuietStep ==
  ASSUME WrittenInv, LedgerInv', NEW w \in Workers, NEW new, jobs' = [jobs EXCEPT ![w] = new],
         Written(new), new.pc # "warn", ledger' = ledger, active' = active
  PROVE  WrittenInv' /\ LedgerMoves
  <1>1. jobs'[w] = new /\ \A v \in Workers \ {w} : jobs'[v] = jobs[v]
    BY DEF WrittenInv, LedgerInv, TypeOK
  <1>2. Written(jobs[w])'
    BY <1>1 DEF Written
  <1>3. \A v \in Workers : ~Sells(v)
    BY <1>1, KeepersSellNothing DEF Keeps, Sells, WrittenInv
  <1> QED
    BY <1>1, <1>2, <1>3, OneIsWritten DEF LedgerMoves, SomethingSold

LEMMA TillMoves ==
  ASSUME WrittenInv, LedgerInv', NEW w \in Workers, Till(w)
  PROVE  WrittenInv' /\ LedgerMoves
  <1>1. jobs[w] \in Job /\ jobs \in [Workers -> Job] /\ Written(jobs[w]) /\ InShape(jobs[w])
    BY DEF WrittenInv, LedgerInv, TypeOK
  <1>2. ASSUME NEW chosen \in SUBSET Shoppers, NEW price \in Prices, BeginSale(w, chosen, price)
        PROVE  WrittenInv' /\ LedgerMoves
    <2> DEFINE buyers == {s \in chosen : active[s]}
               new == [Idle EXCEPT !.pc = "deposits", !.kind = "sale", !.who = buyers,
                                   !.asked = buyers, !.price = price]
    <2>1. jobs' = [jobs EXCEPT ![w] = new] /\ ledger' = ledger /\ active' = active
      BY <1>2 DEF BeginSale, settings
    <2>2. Written(new) /\ new.pc # "warn"
      BY DEF Written, Idle
    <2> HIDE DEF new
    <2> QED
      BY <2>1, <2>2, QuietStep
  <1>3. CASE RefuseSale(w) \/ SendWarnings(w)
    <2>1. jobs' = [jobs EXCEPT ![w] = Idle] /\ ledger' = ledger /\ active' = active /\ Idle.pc # "warn"
      BY <1>3 DEF RefuseSale, SendWarnings, Finish, settings, Idle
    <2> QED
      BY <2>1, IdleIsWritten, QuietStep
  <1>4. CASE WriteSale(w)
    <2> DEFINE shares == SharedOut(jobs[w].price, jobs[w].who)
               rows == <<NewRow("sale", shares)>>
               new == [jobs[w] EXCEPT !.pc = "priced", !.rows = rows]
    <2>1. Len(rows) = 1 /\ rows[1].kind = "sale" /\ rows[1].amounts = shares
      BY DEF NewRow
    <2>2. /\ jobs' = [jobs EXCEPT ![w] = new] /\ ledger' = ledger /\ active' = active
          /\ jobs[w].pc = "decide" /\ jobs[w].kind = "sale" /\ jobs[w].price > 0
      BY <1>1, <1>4 DEF WriteSale, settings
    <2>3. jobs[w].who # {} /\ jobs[w].price # 0
      BY <1>1, <2>2 DEF InShape, Job
    <2> HIDE DEF rows, shares
    <2>4. /\ new.pc = "priced" /\ new.rows = rows /\ new.kind = jobs[w].kind /\ new.price = jobs[w].price
          /\ new.who = jobs[w].who /\ new.fresh = jobs[w].fresh
      BY <1>1 DEF Job
    <2>5. Written(new)
      BY <1>1, <2>1, <2>2, <2>3, <2>4 DEF Written, shares
    <2> HIDE DEF new
    <2> QED
      BY <2>2, <2>4, <2>5, QuietStep
  <1>5. CASE CommitSale(w)
    <2> DEFINE new == [jobs[w] EXCEPT !.pc = "warn"]
    <2>1. /\ ledger' = ledger \o jobs[w].rows /\ jobs'[w] = new /\ active' = active
          /\ \A v \in Workers \ {w} : jobs'[v] = Overtaken(v)
          /\ jobs[w].pc = "priced"
      BY <1>5 DEF CommitSale, Commit, settings
    <2>2. /\ new.pc = "warn" /\ new.kind = jobs[w].kind /\ new.price = jobs[w].price
          /\ new.who = jobs[w].who /\ new.fresh = jobs[w].fresh /\ jobs[w].kind = "sale"
      BY <1>1, <2>1 DEF Job, InShape
    <2> HIDE DEF new
    <2>3. Written(jobs[w])'
      BY <1>1, <2>1, <2>2 DEF Written
    <2>4. Sold(w)
      BY <2>1, <2>2 DEF Sold, Sells
    <2> QED
      BY <2>1, <2>3, <2>4, OneIsWritten DEF LedgerMoves
  <1> QED
    BY <1>2, <1>3, <1>4, <1>5 DEF Till

LEMMA ReadMoves ==
  ASSUME WrittenInv, LedgerInv', NEW w \in Workers, ReadDeposits(w) \/ ReadSpent(w) \/ ReadAdjustments(w)
  PROVE  WrittenInv' /\ LedgerMoves
  <1>1. jobs[w] \in Job /\ jobs \in [Workers -> Job] /\ Written(jobs[w])
    BY DEF WrittenInv, LedgerInv, TypeOK
  <1>2. ASSUME NEW from \in {"deposits", "spent", "adjustments"}, NEW to \in {"spent", "adjustments", "decide"},
               NEW sign, NEW kinds, ReadTotal(w, from, sign, kinds, to)
        PROVE  WrittenInv' /\ LedgerMoves
    <2> DEFINE seen == [s \in Shoppers |-> IF s \in jobs[w].asked
                                           THEN jobs[w].seen[s] + sign * Total(ledger, s, kinds)
                                           ELSE jobs[w].seen[s]]
               new == [jobs[w] EXCEPT !.pc = to, !.seen = seen]
    <2>1. /\ jobs' = [jobs EXCEPT ![w] = new] /\ ledger' = ledger /\ active' = active
          /\ jobs[w].pc = from
      BY <1>1, <1>2 DEF ReadTotal, settings
    <2> HIDE DEF seen
    <2>2. /\ new.pc = to /\ new.rows = jobs[w].rows /\ new.kind = jobs[w].kind /\ new.price = jobs[w].price
          /\ new.who = jobs[w].who /\ new.fresh = jobs[w].fresh
      BY <1>1 DEF Job
    <2>3. Written(new) /\ new.pc # "warn"
      BY <1>1, <2>1, <2>2 DEF Written
    <2> HIDE DEF new
    <2> QED
      BY <2>1, <2>3, QuietStep
  <1> QED
    BY <1>2 DEF ReadDeposits, ReadSpent, ReadAdjustments

LEMMA JudgedIsWritten ==
  ASSUME WrittenInv, LedgerInv', NEW w \in Workers, JudgeShopper(w)
  PROVE  WrittenInv' /\ LedgerMoves
  <1>1. /\ jobs[w] \in Job /\ Written(jobs[w]) /\ jobs[w].kind = "interest" /\ jobs[w].rows \in Seq(Row)
        /\ ledger' = ledger /\ active' = active
    BY DEF WrittenInv, LedgerInv, TypeOK, JudgeShopper, Job, settings
  <1>2. PICK s \in Shoppers, row \in Row :
            /\ s \in jobs[w].asked
            /\ row = NewRow("interest", Only(s, -Charge(jobs[w].seen[s])))
            /\ jobs' = [jobs EXCEPT ![w] = [jobs[w] EXCEPT
                           !.pc = "next", !.who = @ \ {s},
                           !.rows = IF IsCharged(jobs[w], s) THEN Append(@, row) ELSE @]]
    BY JudgedRows DEF WrittenInv
  <1> DEFINE more == Append(jobs[w].rows, row)
             rows == IF IsCharged(jobs[w], s) THEN more ELSE jobs[w].rows
             who == jobs[w].who \ {s}
             new == [jobs[w] EXCEPT !.pc = "next", !.who = who, !.rows = rows]
  <1>3. jobs' = [jobs EXCEPT ![w] = new]
    BY <1>2
  <1>4. \A k \in DOMAIN jobs[w].rows, r \in Shoppers : jobs[w].rows[k].amounts[r] <= 0
    BY <1>1 DEF Written
  <1>5. IsCharged(jobs[w], s) => \A r \in Shoppers : row.amounts[r] <= 0
    <2>1. jobs[w].seen[s] \in Int
      BY <1>1 DEF Job
    <2>2. Charge(jobs[w].seen[s]) \in Int
      BY <2>1, ChargeType
    <2>3. row.amounts = Only(s, -Charge(jobs[w].seen[s]))
      BY <1>2 DEF NewRow
    <2> HIDE DEF who, rows
    <2> QED
      BY <2>2, <2>3 DEF IsCharged, Only
  <1>6. \A k \in DOMAIN rows, r \in Shoppers : rows[k].amounts[r] <= 0
    <2>1. CASE ~IsCharged(jobs[w], s)
      BY <1>4, <2>1
    <2>2. CASE IsCharged(jobs[w], s)
      <3>1. /\ DOMAIN more = 1..(Len(jobs[w].rows) + 1) /\ Len(jobs[w].rows) \in Nat
            /\ DOMAIN jobs[w].rows = 1..Len(jobs[w].rows)
            /\ more[Len(jobs[w].rows) + 1] = row
            /\ \A k \in 1..Len(jobs[w].rows) : more[k] = jobs[w].rows[k]
        BY <1>1
      <3> HIDE DEF more
      <3>2. rows = more
        BY <2>2
      <3>3. ASSUME NEW k \in DOMAIN more, NEW r \in Shoppers PROVE more[k].amounts[r] <= 0
        <4>1. k \in DOMAIN jobs[w].rows \/ k = Len(jobs[w].rows) + 1
          BY <3>1
        <4> QED
          BY <1>4, <1>5, <2>2, <3>1, <4>1
      <3> QED
        BY <3>2, <3>3
    <2> QED
      BY <2>1, <2>2
  <1> HIDE DEF rows, who
  <1>7. new.pc = "next" /\ new.kind = "interest" /\ new.rows = rows
    BY <1>1 DEF Job
  <1>8. Written(new) /\ new.pc # "warn"
    BY <1>6, <1>7 DEF Written
  <1> HIDE DEF new
  <1> QED
    BY <1>1, <1>3, <1>8, QuietStep

LEMMA InterestMoves ==
  ASSUME WrittenInv, LedgerInv', NEW w \in Workers, Interest(w)
  PROVE  WrittenInv' /\ LedgerMoves
  <1>1. jobs[w] \in Job /\ jobs \in [Workers -> Job] /\ Written(jobs[w]) /\ InShape(jobs[w])
    BY DEF WrittenInv, LedgerInv, TypeOK
  <1>2. CASE BeginInterest(w)
    <2> DEFINE who == {s \in Shoppers : active[s]}
               month == Calendar[clock].utc
               new == [Idle EXCEPT !.pc = "next", !.kind = "interest", !.who = who, !.month = month,
                                   !.since = Len(ledger)]
    <2>1. jobs' = [jobs EXCEPT ![w] = new] /\ ledger' = ledger /\ active' = active
      BY <1>2 DEF BeginInterest, settings
    <2> HIDE DEF who, month
    <2>2. Written(new) /\ new.pc # "warn"
      BY DEF Written, Idle
    <2> HIDE DEF new
    <2> QED
      BY <2>1, <2>2, QuietStep
  <1>3. CASE NextShopper(w)
    <2>1. PICK s \in jobs[w].who :
            jobs' = [jobs EXCEPT ![w].pc = "deposits", ![w].asked = {s}, ![w].seen = Idle.seen]
      BY <1>3 DEF NextShopper
    <2> DEFINE new == [jobs[w] EXCEPT !.pc = "deposits", !.asked = {s}, !.seen = Idle.seen]
    <2>2. jobs' = [jobs EXCEPT ![w] = new] /\ ledger' = ledger /\ active' = active /\ jobs[w].pc = "next"
      BY <1>1, <1>3, <2>1 DEF NextShopper, settings
    <2>3. /\ new.pc = "deposits" /\ new.kind = jobs[w].kind /\ new.rows = jobs[w].rows
          /\ new.price = jobs[w].price /\ new.who = jobs[w].who /\ new.fresh = jobs[w].fresh
      BY <1>1 DEF Job
    <2>4. Written(new) /\ new.pc # "warn"
      BY <1>1, <2>2, <2>3 DEF Written
    <2> HIDE DEF new
    <2> QED
      BY <2>2, <2>4, QuietStep
  <1>4. CASE JudgeShopper(w)
    BY <1>4, JudgedIsWritten
  <1>5. CASE CommitInterest(w) /\ jobs[w].rows = <<>>
    <2>1. jobs' = [jobs EXCEPT ![w] = Idle] /\ ledger' = ledger /\ active' = active /\ Idle.pc # "warn"
      BY <1>5 DEF CommitInterest, Finish, settings, Idle
    <2> QED
      BY <2>1, IdleIsWritten, QuietStep
  <1>6. CASE CommitInterest(w) /\ jobs[w].rows # <<>>
    <2>1. /\ ledger' = ledger \o jobs[w].rows /\ jobs'[w] = Idle /\ active' = active
          /\ \A v \in Workers \ {w} : jobs'[v] = Overtaken(v)
          /\ jobs[w].pc = "next" /\ jobs[w].kind = "interest"
      BY <1>1, <1>6 DEF CommitInterest, Commit, settings, InShape
    <2>2. Written(jobs[w])'
      BY <2>1 DEF Written, Idle
    <2>3. ~SomethingSold
      BY <2>1, KeepersSellNothing DEF SomethingSold, Sells, Keeps, WrittenInv
    <2>4. WrittenInv'
      BY <2>1, <2>2, OneIsWritten
    <2> QED
      BY <1>6, <2>1, <2>3, <2>4 DEF LedgerMoves, Charged
  <1> QED
    BY <1>2, <1>3, <1>4, <1>5, <1>6 DEF Interest

LEMMA AdministrationMoves ==
  ASSUME WrittenInv, LedgerInv', Administration
  PROVE  WrittenInv' /\ LedgerMoves
  <1>1. \A v \in Workers : jobs'[v] = Overtaken(v)
    BY DEF Administration, RecordDeposit, RecordAdjustment, Book, Void, SetActive,
           UpdatePurchasePolicy, UpdateInterest, AtOnce
  <1>2. WrittenInv'
    BY <1>1, KeptIsWritten DEF WrittenInv
  <1>3. ~SomethingSold
    BY <1>1, KeepersSellNothing DEF SomethingSold, Keeps, WrittenInv
  <1>4. ASSUME NEW s \in Shoppers, NEW amount \in Amounts,
               RecordDeposit(s, amount) \/ RecordAdjustment(s, amount)
        PROVE  LedgerMoves
    <2>1. amount \in Int \ {0} /\ amount \in Int
      BY <1>4, ConstantsAssumption DEF RecordDeposit, RecordAdjustment, IsDeposit
    <2> DEFINE amounts == Only(s, amount)
    <2>2. amounts \in [Shoppers -> Int] /\ (amount >= 0 => \A r \in Shoppers : amounts[r] >= 0)
      BY <2>1, OnlyType
    <2> HIDE DEF amounts
    <2>3. CASE RecordDeposit(s, amount)
      <3> DEFINE row == NewRow("deposit", amounts)
      <3>1. row \in Row /\ row.kind = "deposit" /\ row.valid
        BY <2>1, <2>2, <2>3, NewRowType DEF RecordDeposit, IsDeposit, WrittenInv, LedgerInv
      <3>2. ledger' = Append(ledger, row) /\ row.amounts = Only(s, amount)
        BY <2>3 DEF RecordDeposit, Book, amounts, NewRow
      <3> HIDE DEF row
      <3>3. Booked(row)
        BY <2>1, <3>1, <3>2 DEF Booked
      <3> QED
        BY <1>3, <3>3 DEF LedgerMoves
    <2>4. CASE RecordAdjustment(s, amount)
      <3> DEFINE row == NewRow("manual", amounts)
      <3>1. row \in Row /\ row.kind = "manual" /\ row.valid
        BY <2>1, <2>2, NewRowType DEF WrittenInv, LedgerInv
      <3>2. ledger' = Append(ledger, row) /\ row.amounts = Only(s, amount)
        BY <2>4 DEF RecordAdjustment, Book, amounts, NewRow
      <3> HIDE DEF row
      <3>3. Booked(row)
        BY <2>1, <3>1, <3>2 DEF Booked
      <3> QED
        BY <1>3, <3>3 DEF LedgerMoves
    <2> QED
      BY <1>4, <2>3, <2>4
  <1>5. ASSUME NEW i \in DOMAIN ledger, Void(i) PROVE LedgerMoves
    <2>1. Voided(i)
      BY <1>5 DEF Void, Voided
    <2> QED
      BY <1>3, <2>1 DEF LedgerMoves
  <1>6. ledger' = ledger => LedgerMoves
    BY <1>3 DEF LedgerMoves
  <1>7. LedgerMoves
    BY <1>4, <1>5, <1>6 DEF Administration, SetActive, UpdatePurchasePolicy, UpdateInterest
  <1> QED
    BY <1>2, <1>7

LEMMA StepMoves ==
  ASSUME WrittenInv, Next
  PROVE  WrittenInv' /\ LedgerMoves
  <1>1. LedgerInv'
    BY StepKeeps DEF WrittenInv
  <1>2. CASE NextMonth
    <2>1. jobs' = jobs /\ ledger' = ledger /\ active' = active
      BY <1>2 DEF NextMonth, settings
    <2>2. \A v \in Workers : Keeps(v) /\ Written(jobs[v])'
      BY <2>1, KeptIsWritten DEF Keeps
    <2>3. ~SomethingSold
      BY <2>2, KeepersSellNothing DEF SomethingSold, WrittenInv
    <2> QED
      BY <1>1, <2>1, <2>2, <2>3 DEF WrittenInv, LedgerMoves
  <1>3. ASSUME NEW w \in Workers, Crash(w) PROVE WrittenInv' /\ LedgerMoves
    <2>1. jobs' = [jobs EXCEPT ![w] = Idle] /\ ledger' = ledger /\ active' = active /\ Idle.pc # "warn"
      BY <1>3 DEF Crash, Finish, settings, Idle
    <2> QED
      BY <1>1, <2>1, IdleIsWritten, QuietStep
  <1> QED
    BY <1>1, <1>2, <1>3, AdministrationMoves, TillMoves, InterestMoves, ReadMoves DEF Next

-----------------------------------------------------------------------------
(* The pages agree with the ledger *)

BooksInv == KasseInv /\ SaleInv /\ WrittenInv /\ Receipted

LEMMA ReceiptedStays ==
  ASSUME BooksInv, Booking
  PROVE  WrittenInv' /\ Receipted'
  <1>1. WrittenInv' /\ LedgerMoves
    BY StepMoves DEF BooksInv, Booking
  <1>2. /\ receipts \in Seq(Receipt) /\ receipts' \in Seq(Receipt) /\ Len(receipts') = Len(ledger')
        /\ Len(receipts) = Len(ledger) /\ ledger \in Seq(Row) /\ ledger' \in Seq(Row)
        /\ \A i \in 1..Len(receipts) : receipts'[i] = receipts[i]
        /\ \A i \in 1..Len(receipts') : i > Len(receipts) => receipts'[i] = NewReceipt
    BY <1>1, NewReceipts DEF BooksInv, KasseInv, KasseTypeOK, WrittenInv, LedgerInv, TypeOK
  <1> DEFINE Fits(row, receipt) ==
        row.kind = "sale" =>
          /\ receipt.price \in Prices \ {0}
          /\ receipt.buyers \in SUBSET Shoppers /\ receipt.buyers # {}
          /\ row.amounts = SharedOut(receipt.price, receipt.buyers)
  <1>3. \A i \in 1..Len(ledger) : Fits(ledger[i], receipts[i])
    BY <1>2 DEF BooksInv, Receipted
  <1>4. (\A i \in 1..Len(ledger') : Fits(ledger'[i], receipts'[i])) => Receipted'
    BY <1>2 DEF Receipted
  <1> HIDE DEF Fits
  <1>5. ledger' = ledger => Receipted'
    BY <1>2, <1>3, <1>4
  <1>6. ASSUME NEW i \in DOMAIN ledger, Voided(i) PROVE Receipted'
    <2>1. /\ Len(ledger') = Len(ledger)
          /\ \A k \in 1..Len(ledger) : ledger'[k].kind = ledger[k].kind /\ ledger'[k].amounts = ledger[k].amounts
      <3>1. PICK n : ledger' = [ledger EXCEPT ![i].valid = FALSE, ![i].voidLines = n]
        BY <1>6 DEF Voided
      <3>2. ledger[i] \in Row
        BY <1>2
      <3> QED
        BY <1>2, <3>1, <3>2 DEF Row
    <2> QED
      BY <1>2, <1>3, <1>4, <2>1 DEF Fits
  <1>7. ASSUME NEW rows \in Seq(Row), ledger' = ledger \o rows,
               \A k \in 1..Len(rows) : Fits(rows[k], NewReceipt)
        PROVE  Receipted'
    <2>1. ASSUME NEW i \in 1..Len(ledger') PROVE Fits(ledger'[i], receipts'[i])
      <3>1. CASE i <= Len(ledger)
        <4>1. i \in 1..Len(ledger) /\ ledger'[i] = ledger[i] /\ receipts'[i] = receipts[i]
          BY <1>2, <1>7, <3>1
        <4> QED
          BY <1>3, <4>1
      <3>2. CASE i > Len(ledger)
        <4>1. /\ i - Len(ledger) \in 1..Len(rows) /\ ledger'[i] = rows[i - Len(ledger)]
              /\ receipts'[i] = NewReceipt
          BY <1>2, <1>7, <3>2
        <4> QED
          BY <1>7, <4>1
      <3> QED
        BY <1>2, <3>1, <3>2
    <2> QED
      BY <1>4, <2>1
  <1>8. ASSUME NEW row, Booked(row) PROVE Receipted'
    <2>1. ledger' = ledger \o <<row>> /\ <<row>> \in Seq(Row) /\ row.kind # "sale"
      BY <1>2, <1>8 DEF Booked
    <2>2. \A k \in 1..Len(<<row>>) : Fits(<<row>>[k], NewReceipt)
      BY <2>1 DEF Fits
    <2> QED
      BY <1>7, <2>1, <2>2
  <1>9. ASSUME NEW w \in Workers, Charged(w) PROVE Receipted'
    <2>1. jobs[w].rows \in Seq(Row) /\ \A k \in DOMAIN jobs[w].rows : jobs[w].rows[k].kind = "interest"
      BY <1>9 DEF BooksInv, WrittenInv, LedgerInv, TypeOK, Job, InShape, Charged
    <2>2. \A k \in 1..Len(jobs[w].rows) : Fits(jobs[w].rows[k], NewReceipt)
      BY <2>1 DEF Fits
    <2> QED
      BY <1>7, <1>9, <2>1, <2>2 DEF Charged
  <1>10. ASSUME NEW w \in Workers, Sold(w) PROVE Receipted'
    <2>1. /\ jobs[w] \in Job /\ Written(jobs[w]) /\ jobs[w].pc = "priced" /\ jobs[w].kind = "sale"
          /\ jobs[w].rows \in Seq(Row) /\ Sells(w)
      BY <1>10 DEF BooksInv, WrittenInv, LedgerInv, TypeOK, Job, InShape, Sold, Sells
    <2>2. NewReceipt = [id |-> drawn[w], price |-> jobs[w].price, buyers |-> jobs[w].who]
      <3>1. \A v \in Workers : Sells(v) => v = w
        BY <2>1, BookingDoes DEF BooksInv
      <3> QED
        BY <2>1, <3>1 DEF NewReceipt
    <2>3. /\ jobs[w].price \in Prices \ {0} /\ jobs[w].who \in SUBSET Shoppers /\ jobs[w].who # {}
          /\ Len(jobs[w].rows) = 1 /\ jobs[w].rows[1].amounts = SharedOut(jobs[w].price, jobs[w].who)
      BY <2>1 DEF Written, Job
    <2>4. \A k \in 1..Len(jobs[w].rows) : Fits(jobs[w].rows[k], NewReceipt)
      BY <2>2, <2>3 DEF Fits
    <2> QED
      BY <1>7, <1>10, <2>1, <2>4 DEF Sold
  <1> QED
    BY <1>1, <1>5, <1>6, <1>8, <1>9, <1>10 DEF LedgerMoves

LEMMA BooksHold == KasseSpec => []BooksInv
  <1>1. KasseInit => WrittenInv /\ Receipted
    <2> SUFFICES ASSUME KasseInit PROVE WrittenInv /\ Receipted
      OBVIOUS
    <2>1. LedgerInv /\ \A w \in Workers : Written(jobs[w])
      BY InitHolds, IdleIsWritten DEF KasseInit, Init
    <2>2. \A i \in DOMAIN ledger : ledger[i].kind = "manual"
      BY DEF KasseInit, Init, NewRow
    <2> QED
      BY <2>1, <2>2 DEF WrittenInv, Receipted
  <1>2. KasseInv /\ SaleInv /\ WrittenInv /\ Receipted /\ [Booking \/ Browsing]_<<vars, kasseVars>>
          => (WrittenInv /\ Receipted)'
    <2> SUFFICES ASSUME KasseInv, SaleInv, WrittenInv, Receipted, [Booking \/ Browsing]_<<vars, kasseVars>>
                 PROVE  WrittenInv' /\ Receipted'
      OBVIOUS
    <2>1. CASE Booking
      BY <2>1, ReceiptedStays DEF BooksInv
    <2>2. CASE Browsing \/ UNCHANGED <<vars, kasseVars>>
      <3>1. OnlyBrowses
        BY <2>2, BrowsingOnlyBrowses DEF KasseInv, KasseTypeOK
      <3>2. receipts' = receipts
        BY <2>2 DEF Browsing, OpenSales, CountSales, ShowSales, NextSales, LeaveSales, kasseVars
      <3>3. LedgerInv'
        BY <3>1 DEF OnlyBrowses, settings, WrittenInv, LedgerInv, TypeOK, VoidsAreLogged
      <3> QED
        BY <3>1, <3>2, <3>3 DEF OnlyBrowses, settings, WrittenInv, Written, Receipted
    <2> QED
      BY <2>1, <2>2
  <1> QED
    BY <1>1, <1>2, KasseHolds, SaleInvHolds, PTL DEF KasseSpec, BooksInv

LEMMA RowsAreRows ==
  ASSUME NEW rows \in Seq(Row), NEW i \in DOMAIN rows
  PROVE  rows[i] \in Row /\ rows[i].amounts \in [Shoppers -> Int]
  <1>1. rows[i] \in Row
    OBVIOUS
  <1> QED
    BY <1>1 DEF Row

\* What an account is shown to have had adds up to its balance.
LEMMA ListedIsBalance ==
  ASSUME LedgerInv, NEW s \in Shoppers
  PROVE  Listed(s) = Balance(ledger, s) /\ Balance(ledger, s) \in Int
  <1> DEFINE lines == [i \in DOMAIN ledger |-> EntryOre(i, s)]
             moves == [i \in DOMAIN ledger |-> Moves(ledger[i], s)]
  <1>1. ledger \in Seq(Row)
    BY DEF LedgerInv, TypeOK
  <1>2. /\ DOMAIN ledger = 1..Len(ledger) /\ Len(ledger) \in Nat
        /\ \A i \in DOMAIN ledger : ledger[i] \in Row /\ ledger[i].amounts[s] \in Int
    BY <1>1, RowsAreRows
  <1>3. IsFiniteSet(DOMAIN ledger)
    BY <1>2, FS_Interval
  <1>4. Entries(s) \in SUBSET DOMAIN ledger
    BY DEF Entries
  <1>5. \A i \in DOMAIN ledger : moves[i] \in Int /\ lines[i] \in Int
    BY <1>2 DEF Moves, EntryOre
  <1>6. \A i \in DOMAIN ledger \ Entries(s) : moves[i] = 0
    BY DEF Moves, Entries
  <1>7. \A i \in Entries(s) : moves[i] \in Int /\ lines[i] = moves[i]
    BY <1>5 DEF Moves, Entries, EntryOre
  <1>8. \A i \in 1..Len(ledger) : moves[i] = Moves(ledger[i], s)
    BY <1>2
  <1>9. Listed(s) = SumFunctionOnSet(lines, Entries(s))
    BY DEF Listed
  <1> HIDE DEF lines, moves
  <1>10. IsFiniteSet(Entries(s))
    BY <1>3, <1>4, FS_Subset
  <1>11. SumFunctionOnSet(moves, DOMAIN ledger) = SumFunctionOnSet(moves, Entries(s))
    BY <1>3, <1>4, <1>5, <1>6, SumOfPart
  <1>12. SumFunctionOnSet(lines, Entries(s)) = SumFunctionOnSet(moves, Entries(s))
    BY <1>7, <1>10, SumSame
  <1>13. Balance(ledger, s) = SumFunctionOnSet(moves, 1..Len(ledger)) /\ Balance(ledger, s) \in Int
    BY <1>1, <1>8, BalanceIsSum
  <1> QED
    BY <1>2, <1>9, <1>11, <1>12, <1>13

LEMMA StatementsAgree ==
  ASSUME LedgerInv, NEW accounts \in SUBSET Shoppers
  PROVE  Statement(accounts) = ShownBalance(accounts)
  <1> DEFINE listed == [s \in Shoppers |-> Listed(s)]
             shown == [s \in Shoppers |-> Balance(ledger, s)]
  <1>1. IsFiniteSet(accounts)
    BY ConstantsAssumption, FS_Subset
  <1>2. \A s \in accounts : shown[s] \in Int /\ listed[s] = shown[s]
    BY ListedIsBalance
  <1>3. Statement(accounts) = SumFunctionOnSet(listed, accounts)
        /\ ShownBalance(accounts) = SumFunctionOnSet(shown, accounts)
    BY DEF Statement, ShownBalance
  <1> HIDE DEF listed, shown
  <1> QED
    BY <1>1, <1>2, <1>3, SumSame

\* The lines of a sale, row by row, and what the buyers were charged, account by account.
LEMMA SoldIsCharged ==
  ASSUME LedgerInv, KasseTypeOK, Receipted
  PROVE  SoldOre = SumFunction([s \in Shoppers |-> Total(ledger, s, {"sale"})])
  <1> DEFINE prices == [i \in DOMAIN receipts |-> receipts[i].price]
             charged == [s \in Shoppers |-> Total(ledger, s, {"sale"})]
             shares == [i \in ValidSales |-> ledger[i].amounts]
             counted(s) == [i \in DOMAIN ledger |-> Counted(ledger[i], s, {"sale"})]
             column == [s \in Shoppers |-> [i \in ValidSales |-> shares[i][s]]]
  <1>1. /\ ledger \in Seq(Row) /\ DOMAIN ledger = 1..Len(ledger) /\ Len(ledger) \in Nat
        /\ DOMAIN receipts = DOMAIN ledger
    BY DEF LedgerInv, TypeOK, KasseTypeOK
  <1>2. ValidSales \in SUBSET DOMAIN ledger /\ IsFiniteSet(DOMAIN ledger) /\ IsFiniteSet(ValidSales)
    BY <1>1, FS_Interval, FS_Subset DEF ValidSales
  <1>3. \A i \in DOMAIN ledger : ledger[i] \in Row /\ ledger[i].amounts \in [Shoppers -> Int]
    BY <1>1, RowsAreRows
  <1>4. \A i \in ValidSales, s \in Shoppers : shares[i][s] \in Int
    BY <1>2, <1>3
  <1>5. ASSUME NEW i \in ValidSales PROVE prices[i] = SumFunctionOnSet(shares[i], Shoppers)
    <2>1. /\ receipts[i].price \in Nat /\ receipts[i].buyers \in SUBSET Shoppers /\ receipts[i].buyers # {}
          /\ ledger[i].amounts = SharedOut(receipts[i].price, receipts[i].buyers)
      BY <1>2, <1>5, ConstantsAssumption DEF Receipted, ValidSales
    <2>2. SumFunctionOnSet(SharedOut(receipts[i].price, receipts[i].buyers), Shoppers) = receipts[i].price
      BY <2>1, SharesAddUp
    <2>3. shares[i] = ledger[i].amounts /\ prices[i] = receipts[i].price
      BY <1>1, <1>2, <1>5
    <2> HIDE DEF shares, prices
    <2> QED
      BY <2>1, <2>2, <2>3
  <1>6. ASSUME NEW s \in Shoppers PROVE charged[s] = SumFunctionOnSet(column[s], ValidSales)
    <2>1. \A i \in 1..Len(ledger) : counted(s)[i] = Counted(ledger[i], s, {"sale"})
      BY <1>1
    <2>2. \A i \in DOMAIN ledger : counted(s)[i] \in Int
      BY <1>3 DEF Counted
    <2>3. \A i \in DOMAIN ledger \ ValidSales : counted(s)[i] = 0
      BY DEF Counted, ValidSales
    <2>4. \A i \in ValidSales : counted(s)[i] \in Int /\ column[s][i] = counted(s)[i]
      BY <1>2, <1>6, <2>2 DEF Counted, ValidSales
    <2>5. charged[s] = Total(ledger, s, {"sale"})
      BY <1>6
    <2> HIDE DEF counted, column, charged
    <2>6. Total(ledger, s, {"sale"}) = SumFunctionOnSet(counted(s), 1..Len(ledger))
      BY <1>1, <2>1, TotalIsSum
    <2>7. SumFunctionOnSet(counted(s), DOMAIN ledger) = SumFunctionOnSet(counted(s), ValidSales)
      BY <1>2, <2>2, <2>3, SumOfPart
    <2>8. SumFunctionOnSet(column[s], ValidSales) = SumFunctionOnSet(counted(s), ValidSales)
      BY <1>2, <2>4, SumSame
    <2> QED
      BY <1>1, <2>5, <2>6, <2>7, <2>8
  <1>7. DOMAIN charged = Shoppers /\ IsFiniteSet(Shoppers)
    BY ConstantsAssumption
  <1>8. \A s \in Shoppers, i \in ValidSales : column[s][i] = shares[i][s]
    OBVIOUS
  <1> HIDE DEF prices, charged, shares, column
  <1>9. SumFunctionOnSet(prices, ValidSales) = SumFunctionOnSet(charged, Shoppers)
    <2>1. IsFiniteSet(ValidSales) /\ IsFiniteSet(Shoppers)
      BY <1>2, <1>7
    <2>2. \A i \in ValidSales : prices[i] = SumFunctionOnSet(shares[i], Shoppers)
      BY <1>5
    <2>3. \A s \in Shoppers : charged[s] = SumFunctionOnSet(column[s], ValidSales)
      BY <1>6
    <2>4. Table(shares, ValidSales, prices, column, Shoppers, charged)
      BY <1>4, <1>8, <2>1, <2>2, <2>3 DEF Table
    <2> QED
      BY <2>4, SumSwap
  <1>10. SoldOre = SumFunctionOnSet(prices, ValidSales)
    BY DEF SoldOre, prices
  <1>11. SumFunction(charged) = SumFunctionOnSet(charged, Shoppers)
    BY <1>7 DEF SumFunction
  <1> QED
    BY <1>9, <1>10, <1>11 DEF charged

\* The line of a sale: the least and the greatest share.
LEMMA LinesAgree ==
  ASSUME LedgerInv, KasseTypeOK, Receipted, NEW i \in ValidSales
  PROVE  LET low == PerPerson(i)[1]
             high == PerPerson(i)[2]
             n == Cardinality(receipts[i].buyers)
         IN  high <= low + 1 /\ n * low <= receipts[i].price /\ receipts[i].price <= n * high
  <1> DEFINE price == receipts[i].price
             buyers == receipts[i].buyers
             n == Cardinality(buyers)
             even == price \div n
             amounts == ledger[i].amounts
             shares == {amounts[s] : s \in buyers}
             low == Min(shares)
             high == Max(shares)
  <1>1. /\ price \in Nat /\ buyers \in SUBSET Shoppers /\ buyers # {}
        /\ amounts = SharedOut(price, buyers)
    BY ConstantsAssumption DEF Receipted, ValidSales
  <1> HIDE DEF price, buyers, amounts
  <1>2. /\ amounts \in [Shoppers -> Int] /\ n \in Nat \ {0} /\ even \in Nat
        /\ \A s \in buyers : amounts[s] \in {even, even + 1}
        /\ SumFunctionOnSet(amounts, buyers) = price
    BY <1>1, SharesAddUp
  <1> HIDE DEF n, even
  <1>3. shares \subseteq {even, even + 1} /\ shares # {}
    BY <1>1, <1>2
  <1>4. /\ low \in shares /\ high \in shares /\ \A x \in shares : low <= x /\ x <= high
    <2> HIDE DEF shares
    <2>0. even <= even + 1 /\ even <= even /\ even + 1 <= even + 1
      BY <1>2
    <2>1. \E x \in shares : \A y \in shares : x <= y
      <3>1. CASE even \in shares
        BY <1>3, <2>0, <3>1
      <3>2. CASE even \notin shares
        BY <1>3, <2>0, <3>2
      <3> QED
        BY <3>1, <3>2
    <2>2. \E x \in shares : \A y \in shares : x >= y
      <3>1. CASE even + 1 \in shares
        BY <1>2, <1>3, <2>0, <3>1
      <3>2. CASE even + 1 \notin shares
        BY <1>2, <1>3, <2>0, <3>2
      <3> QED
        BY <3>1, <3>2
    <2>3. low \in shares /\ \A y \in shares : low <= y
      BY <2>1 DEF Min
    <2>4. high \in shares /\ \A y \in shares : high >= y
      BY <2>2 DEF Max
    <2> QED
      BY <1>2, <1>3, <2>3, <2>4
  <1>5. low \in Int /\ high \in Int /\ high <= low + 1
    <2> HIDE DEF shares, low, high
    <2> QED
      BY <1>2, <1>3, <1>4
  <1>6. \A s \in buyers : amounts[s] \in Int /\ low <= amounts[s] /\ amounts[s] <= high
    <2>1. \A s \in buyers : amounts[s] \in shares
      OBVIOUS
    <2> HIDE DEF shares, low, high
    <2> QED
      BY <1>1, <1>2, <1>4, <2>1
  <1>7. IsFiniteSet(buyers)
    BY <1>1, ConstantsAssumption, FS_Subset
  <1> HIDE DEF low, high, shares
  <1>8. n * low <= price /\ price <= n * high
    <2>1. /\ Cardinality(buyers) * low <= SumFunctionOnSet(amounts, buyers)
          /\ SumFunctionOnSet(amounts, buyers) <= Cardinality(buyers) * high
      BY <1>5, <1>6, <1>7, SumBetween
    <2> QED
      BY <1>2, <2>1 DEF n
  <1>9. PerPerson(i)[1] = low /\ PerPerson(i)[2] = high
    BY DEF PerPerson, low, high, shares, amounts, buyers
  <1> QED
    BY <1>5, <1>8, <1>9 DEF price, n, buyers

\* views.py: whatever has been sold, voided, corrected and charged, for any number of accounts, buyers and
\* tills, a statement adds up to the balance, the report of the sales to what the buyers were charged, a
\* line to its shares, and the till marks those whom a sale that nothing overtook is refused for.
THEOREM BooksAlwaysAgree == KasseSpec => []BooksAgree
  <1>1. BooksInv => BooksAgree
    <2> SUFFICES ASSUME BooksInv PROVE BooksAgree
      OBVIOUS
    <2>1. LedgerInv /\ KasseTypeOK /\ Receipted /\ SaleInv /\ WrittenInv
      BY DEF BooksInv, KasseInv, WrittenInv
    <2>2. ASSUME NEW w \in Workers, jobs[w].pc = "decide", jobs[w].kind = "sale", jobs[w].fresh
          PROVE  SomeoneBlocked(w) <=> \E s \in jobs[w].who : Marked(s)
      <3>1. \A s \in jobs[w].who : jobs[w].seen[s] = Balance(ledger, s) /\ active[s]
        BY <2>1, <2>2 DEF SaleInv, SaleKnows, WrittenInv, Written
      <3> QED
        BY <3>1 DEF SomeoneBlocked, Marked
    <2> QED
      BY <2>1, <2>2, StatementsAgree, SoldIsCharged, LinesAgree DEF BooksAgree
  <1> QED
    BY <1>1, BooksHold, PTL

-----------------------------------------------------------------------------
(***************************************************************************)
(* The ledger as a saldo.  What a step appends to the ledger, or voids in  *)
(* it, is what it takes from the balances derived from it: so each step is *)
(* a step of Saldo, or nothing.                                            *)
(***************************************************************************)

LEMMA BalanceOfNothing ==
  ASSUME NEW s \in Shoppers
  PROVE  Balance(<<>>, s) = 0
  <1> DEFINE f == [i \in 1..0 |-> 0]
  <1>1. <<>> \in Seq(Row) /\ Len(<<>>) = 0 /\ 1..0 = {} /\ \A i \in 1..Len(<<>>) : f[i] = Moves(<<>>[i], s)
    OBVIOUS
  <1> HIDE DEF f
  <1>2. Balance(<<>>, s) = SumFunctionOnSet(f, 1..Len(<<>>))
    BY <1>1, BalanceIsSum
  <1> QED
    BY <1>1, <1>2, SumOfNothing

LEMMA BalanceAfter ==
  ASSUME NEW rows \in Seq(Row), NEW row \in Row, NEW s \in Shoppers
  PROVE  /\ Balance(rows, s) \in Int /\ Moves(row, s) \in Int
         /\ Balance(Append(rows, row), s) = Balance(rows, s) + Moves(row, s)
  <1>1. \A kinds : /\ Total(rows, s, kinds) \in Int
                   /\ Total(Append(rows, row), s, kinds) = Total(rows, s, kinds) + Counted(row, s, kinds)
    BY TotalType, TotalAppend
  <1>2. /\ Counted(row, s, {"deposit"}) \in Int /\ Counted(row, s, {"sale"}) \in Int
        /\ Counted(row, s, {"manual", "interest"}) \in Int /\ Moves(row, s) \in Int
        /\ Moves(row, s) = Counted(row, s, {"deposit"}) + Counted(row, s, {"manual", "interest"})
                             + -Counted(row, s, {"sale"})
    BY DEF Counted, Row, Moves
  <1> QED
    BY <1>1, <1>2 DEF Balance

\* Rows that give nothing leave no more.
LEMMA BalanceAfterCharges ==
  ASSUME NEW rows \in Seq(Row), NEW more \in Seq(Row), NEW s \in Shoppers,
         \A k \in 1..Len(more) : Moves(more[k], s) <= 0
  PROVE  Balance(rows \o more, s) <= Balance(rows, s)
  <1> DEFINE n == Len(rows)
             all == rows \o more
             upTo(k) == SubSeq(all, 1, n + k)
             Good == {k \in Nat : k <= Len(more) => Balance(upTo(k), s) <= Balance(rows, s)}
  <1>1. /\ n \in Nat /\ Len(more) \in Nat /\ all \in Seq(Row) /\ Len(all) = n + Len(more)
        /\ upTo(0) = rows /\ upTo(Len(more)) = all
    OBVIOUS
  <1>2. ASSUME NEW k \in Nat, k + 1 <= Len(more)
        PROVE  upTo(k) \in Seq(Row) /\ more[k + 1] \in Row /\ upTo(k + 1) = Append(upTo(k), more[k + 1])
    <2>1. k + 1 \in 1..Len(more) /\ all[n + (k + 1)] = more[k + 1] /\ more[k + 1] \in Row
      BY <1>1, <1>2
    <2> HIDE DEF all
    <2>2. upTo(k) \in Seq(Row)
      BY <1>1, <1>2
    <2>3. upTo(k + 1) = Append(upTo(k), all[n + (k + 1)])
      BY <1>1, <1>2
    <2> QED
      BY <2>1, <2>2, <2>3
  <1> HIDE DEF upTo, all
  <1>3. 0 \in Good
    <2>1. Balance(rows, s) \in Int
      <3> DEFINE f == [i \in 1..Len(rows) |-> Moves(rows[i], s)]
      <3>1. \A i \in 1..Len(rows) : f[i] = Moves(rows[i], s)
        OBVIOUS
      <3> HIDE DEF f
      <3> QED
        BY <3>1, BalanceIsSum
    <2> QED
      BY <1>1, <2>1
  <1>4. ASSUME NEW k \in Nat, k \in Good PROVE k + 1 \in Good
    <2> SUFFICES ASSUME k + 1 <= Len(more) PROVE Balance(upTo(k + 1), s) <= Balance(rows, s)
      OBVIOUS
    <2>1. Balance(upTo(k), s) <= Balance(rows, s)
      BY <1>1, <1>4
    <2>2. upTo(k) \in Seq(Row) /\ more[k + 1] \in Row /\ upTo(k + 1) = Append(upTo(k), more[k + 1])
      BY <1>2
    <2>3. /\ Balance(upTo(k), s) \in Int /\ Moves(more[k + 1], s) \in Int
          /\ Balance(upTo(k + 1), s) = Balance(upTo(k), s) + Moves(more[k + 1], s)
      BY <2>2, BalanceAfter
    <2>4. Balance(rows, s) \in Int /\ Moves(more[k + 1], s) <= 0
      BY <1>1, <2>2, BalanceAfter
    <2> QED
      BY <2>1, <2>3, <2>4
  <1>5. Nat \subseteq Good
    <2> HIDE DEF Good
    <2> QED
      BY <1>3, <1>4, AllNumbers
  <1>6. Balance(upTo(Len(more)), s) <= Balance(rows, s)
    BY <1>1, <1>5
  <1> QED
    BY <1>1, <1>6 DEF all

\* A row that is voided no longer counts.
LEMMA BalanceAfterVoid ==
  ASSUME NEW rows \in Seq(Row), NEW more \in Seq(Row), NEW i \in 1..Len(rows), Len(more) = Len(rows),
         ~more[i].valid, \A k \in 1..Len(rows) : k # i => more[k] = rows[k], NEW s \in Shoppers
  PROVE  /\ Balance(rows, s) \in Int /\ Moves(rows[i], s) \in Int
         /\ Balance(more, s) = Balance(rows, s) - Moves(rows[i], s)
  <1> DEFINE f == [k \in 1..Len(rows) |-> Moves(rows[k], s)]
             g == [k \in 1..Len(rows) |-> Moves(more[k], s)]
             others == (1..Len(rows)) \ {i}
  <1>1. \A row \in Row : Moves(row, s) \in Int
    BY DEF Moves, Row
  <1>2. \A k \in 1..Len(rows) : rows[k] \in Row /\ more[k] \in Row
    OBVIOUS
  <1>3. /\ \A k \in 1..Len(rows) : /\ f[k] \in Int /\ f[k] = Moves(rows[k], s)
                                   /\ g[k] \in Int /\ g[k] = Moves(more[k], s)
        /\ \A k \in others : f[k] \in Int /\ g[k] = f[k]
        /\ g[i] = 0
    BY <1>1, <1>2 DEF Moves
  <1> HIDE DEF f, g
  <1>4. IsFiniteSet(1..Len(rows)) /\ IsFiniteSet(others)
    <2>1. Len(rows) \in Nat
      OBVIOUS
    <2>2. IsFiniteSet(1..Len(rows))
      BY <2>1, FS_Interval
    <2> QED
      BY <2>2, FS_Subset
  <1>5. Balance(rows, s) = SumFunctionOnSet(f, 1..Len(rows)) /\ Balance(rows, s) \in Int
    BY <1>3, BalanceIsSum
  <1>6. Balance(more, s) = SumFunctionOnSet(g, 1..Len(rows))
    <2>1. \A k \in 1..Len(more) : g[k] = Moves(more[k], s)
      BY <1>3
    <2> QED
      BY <2>1, BalanceIsSum
  <1>7. SumFunctionOnSet(f, 1..Len(rows)) = f[i] + SumFunctionOnSet(f, others)
    BY <1>3, <1>4, SumWithout
  <1>8. SumFunctionOnSet(g, 1..Len(rows)) = g[i] + SumFunctionOnSet(g, others)
    BY <1>3, <1>4, SumWithout
  <1>9. SumFunctionOnSet(g, others) = SumFunctionOnSet(f, others)
    BY <1>3, <1>4, SumSame
  <1>10. SumFunctionOnSet(f, others) \in Int
    BY <1>3, <1>4, SumIsInt
  <1> QED
    BY <1>3, <1>5, <1>6, <1>7, <1>8, <1>9, <1>10

\* What is paid is what the balances lose.
LEMMA PaidIs ==
  ASSUME NEW paid \in [Shoppers -> Int],
         \A s \in Shoppers : Balance(ledger, s) \in Int /\ Balance(ledger', s) = Balance(ledger, s) - paid[s]
  PROVE  Promise!Paid = paid
  <1>1. Promise!Paid = [s \in Shoppers |-> Balance(ledger, s) - Balance(ledger', s)]
    BY DEF Promise!Paid
  <1>2. \A s \in Shoppers : Balance(ledger, s) - Balance(ledger', s) = paid[s]
    <2> TAKE s \in Shoppers
    <2>1. paid[s] \in Int
      OBVIOUS
    <2> QED
      BY <2>1
  <1> QED
    BY <1>1, <1>2

Bills == [i \in DOMAIN ledger |-> PaidFor(ledger[i])]

LEMMA BillFor ==
  ASSUME NEW row \in Row
  PROVE  /\ PaidFor(row) \in [Shoppers -> Int]
         /\ \A s \in Shoppers :
              PaidFor(row)[s] = IF row.kind = "interest" THEN 0 ELSE -Moves(row, s)
  BY DEF PaidFor, Moves, Row

LEMMA BillsGrow ==
  ASSUME ledger \in Seq(Row), NEW more \in Seq(Row), ledger' = ledger \o more
  PROVE  Bills' = Bills \o [i \in 1..Len(more) |-> PaidFor(more[i])]
  <1> DEFINE new == [i \in 1..Len(more) |-> PaidFor(more[i])]
             n == Len(ledger)
  <1>1. /\ n \in Nat /\ Len(more) \in Nat /\ DOMAIN ledger = 1..n /\ DOMAIN ledger' = 1..(n + Len(more))
        /\ \A i \in 1..n : ledger'[i] = ledger[i]
        /\ \A i \in 1..(n + Len(more)) : i > n => i - n \in 1..Len(more) /\ ledger'[i] = more[i - n]
    OBVIOUS
  <1>2. /\ Bills \in Seq([Shoppers -> Int]) /\ Len(Bills) = n /\ \A i \in 1..n : Bills[i] = PaidFor(ledger[i])
    <2>1. \A i \in 1..n : ledger[i] \in Row
      OBVIOUS
    <2>2. \A i \in 1..n : PaidFor(ledger[i]) \in [Shoppers -> Int]
      BY <2>1, BillFor
    <2> HIDE DEF n
    <2> QED
      BY <1>1, <2>2 DEF Bills
  <1>3. new \in Seq([Shoppers -> Int]) /\ Len(new) = Len(more) /\ \A i \in 1..Len(more) : new[i] = PaidFor(more[i])
    <2>1. \A i \in 1..Len(more) : more[i] \in Row
      OBVIOUS
    <2>2. \A i \in 1..Len(more) : PaidFor(more[i]) \in [Shoppers -> Int]
      BY <2>1, BillFor
    <2> QED
      BY <1>1, <2>2
  <1>4. Bills' = [i \in 1..(n + Len(more)) |-> PaidFor(ledger'[i])]
    BY <1>1 DEF Bills
  <1> HIDE DEF new, n
  <1>5. /\ Bills \o new \in Seq([Shoppers -> Int]) /\ Len(Bills \o new) = n + Len(more)
        /\ \A i \in 1..(n + Len(more)) : (Bills \o new)[i] = IF i <= n THEN Bills[i] ELSE new[i - n]
    <2> DEFINE T == [Shoppers -> Int]
    <2>1. Bills \in Seq(T) /\ new \in Seq(T) /\ Len(Bills) = n /\ Len(new) = Len(more)
      BY <1>2, <1>3
    <2> HIDE DEF T
    <2>2. /\ Bills \o new \in Seq(T) /\ Len(Bills \o new) = Len(Bills) + Len(new)
          /\ \A i \in 1..(Len(Bills) + Len(new)) :
                (Bills \o new)[i] = IF i <= Len(Bills) THEN Bills[i] ELSE new[i - Len(Bills)]
      BY <2>1, ConcatProperties
    <2> QED
      BY <2>1, <2>2 DEF T
  <1>6. ASSUME NEW i \in 1..(n + Len(more))
        PROVE  PaidFor(ledger'[i]) = IF i <= n THEN Bills[i] ELSE new[i - n]
    <2>1. CASE i <= n
      <3>1. i \in 1..n
        BY <1>1, <2>1
      <3> QED
        BY <1>1, <1>2, <2>1, <3>1
    <2>2. CASE ~(i <= n)
      <3>1. i > n
        BY <1>1, <2>2
      <3>2. i - n \in 1..Len(more) /\ ledger'[i] = more[i - n]
        BY <1>1, <3>1
      <3> QED
        BY <1>3, <2>2, <3>2
    <2> QED
      BY <2>1, <2>2
  <1>7. Bills' \in Seq([Shoppers -> Int]) /\ Len(Bills') = n + Len(more)
    <2>1. \A i \in 1..(n + Len(more)) : PaidFor(ledger'[i]) \in [Shoppers -> Int]
      <3>1. \A i \in 1..(n + Len(more)) : ledger'[i] \in Row
        BY <1>1
      <3> QED
        BY <3>1, BillFor
    <2> QED
      BY <1>1, <1>4, <2>1
  <1>8. \A i \in 1..Len(Bills') : Bills'[i] = (Bills \o new)[i]
    BY <1>4, <1>5, <1>6, <1>7
  <1>9. Bills' = Bills \o new
    BY <1>5, <1>7, <1>8, SeqEqual
  <1> QED
    BY <1>9 DEF new

\* A sale: the buyers pay.
LEMMA SoldIsSell ==
  ASSUME BooksInv, LedgerInv', NEW w \in Workers, Sold(w)
  PROVE  Promise!Sell
  <1> DEFINE rows == jobs[w].rows
             row == jobs[w].rows[1]
             price == jobs[w].price
             buyers == jobs[w].who
             paid == SharedOut(price, buyers)
  <1>1. /\ jobs[w] \in Job /\ rows \in Seq(Row) /\ Written(jobs[w]) /\ jobs[w].pc = "priced"
        /\ jobs[w].kind = "sale" /\ ledger \in Seq(Row) /\ ledger' = ledger \o rows
        /\ \A k \in DOMAIN rows : rows[k].valid
    BY DEF BooksInv, WrittenInv, LedgerInv, TypeOK, Job, InShape, Sold, Sells
  <1>2. /\ price \in Nat /\ price \in Prices \ {0} /\ buyers \in SUBSET Shoppers /\ buyers # {}
        /\ Len(rows) = 1 /\ row.kind = "sale" /\ row.amounts = paid
    BY <1>1, ConstantsAssumption DEF Written, Job
  <1>3. row \in Row /\ row.valid /\ rows = <<row>> /\ ledger' = Append(ledger, row)
    BY <1>1, <1>2
  <1> HIDE DEF row, rows, price, buyers
  <1>4. /\ paid \in [Shoppers -> Int] /\ price \div Cardinality(buyers) \in Nat
        /\ \A s \in Shoppers \ buyers : paid[s] = 0
        /\ \A s \in buyers : paid[s] \in {price \div Cardinality(buyers), (price \div Cardinality(buyers)) + 1}
        /\ SumFunctionOnSet(paid, Shoppers) = price
    BY <1>2, SharesAddUp
  <1>5. \A s \in Shoppers : Balance(ledger, s) \in Int /\ Balance(ledger', s) = Balance(ledger, s) - paid[s]
    <2> TAKE s \in Shoppers
    <2>1. Moves(row, s) = -paid[s] /\ paid[s] \in Int
      BY <1>2, <1>3, <1>4 DEF Moves
    <2>2. Balance(ledger, s) \in Int /\ Balance(ledger', s) = Balance(ledger, s) + Moves(row, s)
      BY <1>1, <1>3, BalanceAfter
    <2> HIDE DEF paid
    <2> QED
      BY <2>1, <2>2
  <1> HIDE DEF paid
  <1>6. Promise!Paid = paid
    BY <1>4, <1>5, PaidIs
  <1>7. PaidFor(row) = paid
    <2>1. \A s \in Shoppers : PaidFor(row)[s] = paid[s]
      BY <1>2, <1>3, <1>4 DEF PaidFor
    <2> QED
      BY <1>3, <1>4, <2>1, BillFor
  <1>8. Bills' = Append(Bills, paid)
    <2>1. Bills' = Bills \o [i \in 1..Len(<<row>>) |-> PaidFor(<<row>>[i])]
      BY <1>1, <1>3, BillsGrow
    <2>2. [i \in 1..Len(<<row>>) |-> PaidFor(<<row>>[i])] = <<paid>>
      BY <1>7
    <2> QED
      BY <2>1, <2>2
  <1>9. \A s, r \in buyers : paid[s] >= 0 /\ paid[s] <= paid[r] + 1
    <2> DEFINE low == price \div Cardinality(buyers)
    <2>1. low \in Nat /\ \A s \in buyers : paid[s] \in {low, low + 1}
      BY <1>4
    <2> HIDE DEF low
    <2> QED
      BY <2>1
  <1>10. Promise!SumFunction(paid) = price
    <2>1. SumFunction(paid) = price
      BY <1>4 DEF SumFunction
    <2>2. Promise!SumFunction(paid) = SumFunction(paid)
      BY Zenon DEF SumFunction, SumFunctionOnSet, FoldFunctionOnSet, MapThenFoldSet, Promise!SumFunction,
         Promise!SumFunctionOnSet, Promise!FoldFunctionOnSet, Promise!MapThenFoldSet
    <2> QED
      BY <2>1, <2>2
  <1>11. {s \in Shoppers : paid[s] # 0} \subseteq buyers
    BY <1>4
  <1> QED
    BY <1>2, <1>6, <1>8, <1>9, <1>10, <1>11 DEF Promise!Sell, Promise!Payers, Bills

\* A deposit or a correction.
LEMMA BookedIsSettle ==
  ASSUME BooksInv, LedgerInv', NEW row, Booked(row)
  PROVE  Promise!Settle
  <1>1. /\ ledger \in Seq(Row) /\ row \in Row /\ row.valid /\ row.kind \in {"deposit", "manual"}
        /\ ledger' = Append(ledger, row)
    BY DEF BooksInv, WrittenInv, LedgerInv, TypeOK, Booked
  <1>2. PICK s \in Shoppers, a \in Int \ {0} : row.amounts = Only(s, a)
    BY DEF Booked
  <1> DEFINE paid == [r \in Shoppers |-> IF r = s THEN -a ELSE 0]
  <1>3. paid \in [Shoppers -> Int] /\ \A r \in Shoppers : Moves(row, r) = -paid[r]
    BY <1>1, <1>2 DEF Moves, Only
  <1>4. {r \in Shoppers : paid[r] # 0} = {s}
    BY <1>2
  <1> HIDE DEF paid
  <1>5. \A r \in Shoppers : Balance(ledger, r) \in Int /\ Balance(ledger', r) = Balance(ledger, r) - paid[r]
    <2> TAKE r \in Shoppers
    <2>1. Balance(ledger, r) \in Int /\ Balance(ledger', r) = Balance(ledger, r) + Moves(row, r)
      BY <1>1, BalanceAfter
    <2>2. paid[r] \in Int /\ Moves(row, r) = -paid[r]
      BY <1>3
    <2> QED
      BY <2>1, <2>2
  <1>6. Promise!Paid = paid
    BY <1>3, <1>5, PaidIs
  <1>7. PaidFor(row) = paid
    <2>1. \A r \in Shoppers : PaidFor(row)[r] = paid[r]
      <3> TAKE r \in Shoppers
      <3>1. PaidFor(row)[r] = -Moves(row, r)
        BY <1>1, BillFor
      <3>2. paid[r] \in Int /\ Moves(row, r) = -paid[r]
        BY <1>3
      <3> QED
        BY <3>1, <3>2
    <2> QED
      BY <1>1, <1>3, <2>1, BillFor
  <1>8. Bills' = Append(Bills, paid)
    <2>1. ledger' = ledger \o <<row>> /\ <<row>> \in Seq(Row)
      BY <1>1
    <2>2. Bills' = Bills \o [i \in 1..Len(<<row>>) |-> PaidFor(<<row>>[i])]
      BY <1>1, <2>1, BillsGrow
    <2>3. [i \in 1..Len(<<row>>) |-> PaidFor(<<row>>[i])] = <<paid>>
      BY <1>7
    <2> QED
      BY <2>2, <2>3
  <1> QED
    BY <1>4, <1>6, <1>8 DEF Promise!Settle, Promise!Payers, Bills

\* A void.
LEMMA VoidedIsUndo ==
  ASSUME BooksInv, LedgerInv', NEW i \in DOMAIN ledger, Voided(i)
  PROVE  Promise!Undo
  <1>1. ledger \in Seq(Row) /\ ledger' \in Seq(Row) /\ Voids(i)
    BY DEF BooksInv, WrittenInv, LedgerInv, TypeOK, Voided
  <1>2. PICK n : ledger' = [ledger EXCEPT ![i].valid = FALSE, ![i].voidLines = n]
    BY DEF Voided
  <1>3. /\ DOMAIN ledger = 1..Len(ledger) /\ DOMAIN ledger' = DOMAIN ledger /\ Len(ledger') = Len(ledger)
        /\ ~ledger'[i].valid /\ \A k \in DOMAIN ledger : k # i => ledger'[k] = ledger[k]
        /\ ledger[i] \in Row /\ \A k \in DOMAIN ledger : ledger[k] \in Row /\ ledger'[k] \in Row
    <2>1. ledger[i] \in Row
      BY <1>1
    <2>2. DOMAIN ledger = 1..Len(ledger) /\ DOMAIN ledger' = 1..Len(ledger')
      BY <1>1
    <2>3. DOMAIN ledger' = DOMAIN ledger /\ \A k \in DOMAIN ledger : k # i => ledger'[k] = ledger[k]
      BY <1>2
    <2>4. Len(ledger') = Len(ledger)
      <3>1. Len(ledger) \in Nat /\ Len(ledger') \in Nat
        BY <1>1
      <3>2. \A k \in Nat \ {0} : k \in DOMAIN ledger <=> k <= Len(ledger)
        BY <2>2, <3>1
      <3>3. \A k \in Nat \ {0} : k \in DOMAIN ledger' <=> k <= Len(ledger')
        BY <2>2, <3>1
      <3>4. \A k \in Nat \ {0} : k <= Len(ledger) <=> k <= Len(ledger')
        BY <2>3, <3>2, <3>3
      <3> HIDE DEF Row
      <3>5. ~(Len(ledger) < Len(ledger'))
        BY <3>1, <3>4
      <3>6. ~(Len(ledger') < Len(ledger))
        BY <3>1, <3>4
      <3> QED
        BY <3>1, <3>5, <3>6
    <2>5. ~ledger'[i].valid
      BY <1>2, <2>1 DEF Row
    <2>6. \A k \in DOMAIN ledger : ledger[k] \in Row /\ ledger'[k] \in Row
      BY <1>1, <2>2, <2>4
    <2> QED
      BY <2>1, <2>2, <2>3, <2>4, <2>5, <2>6
  <1> DEFINE paid == [s \in Shoppers |-> Moves(ledger[i], s)]
  <1>4. paid \in [Shoppers -> Int]
    BY <1>3 DEF Moves, Row
  <1>5. \A s \in Shoppers : paid[s] = -PaidFor(ledger[i])[s]
    <2> TAKE s \in Shoppers
    <2>1. PaidFor(ledger[i])[s] = -Moves(ledger[i], s)
      BY <1>1, <1>3, BillFor DEF Voids
    <2>2. paid[s] \in Int /\ paid[s] = Moves(ledger[i], s)
      BY <1>4
    <2> HIDE DEF paid
    <2> QED
      BY <2>1, <2>2
  <1>6. \A s \in Shoppers : Balance(ledger, s) \in Int /\ Balance(ledger', s) = Balance(ledger, s) - paid[s]
    <2> TAKE s \in Shoppers
    <2>1. paid[s] = Moves(ledger[i], s)
      OBVIOUS
    <2> HIDE DEF paid
    <2>2. i \in 1..Len(ledger) /\ \A k \in 1..Len(ledger) : k # i => ledger'[k] = ledger[k]
      BY <1>3
    <2>3. /\ Balance(ledger, s) \in Int
          /\ Balance(ledger', s) = Balance(ledger, s) - Moves(ledger[i], s)
      BY <1>1, <1>3, <2>2, BalanceAfterVoid
    <2> QED
      BY <2>1, <2>3
  <1> HIDE DEF paid
  <1>7. Promise!Paid = paid
    BY <1>4, <1>6, PaidIs
  <1>8. PaidFor(ledger'[i]) = Promise!Blank
    BY <1>3 DEF PaidFor, Promise!Blank
  <1>9. Bills' = [Bills EXCEPT ![i] = Promise!Blank]
    <2>1. Bills' = [k \in DOMAIN ledger |-> PaidFor(ledger'[k])]
      BY <1>3 DEF Bills
    <2> QED
      BY <1>3, <1>8, <2>1 DEF Bills
  <1>10. i \in DOMAIN Bills /\ Bills[i] = PaidFor(ledger[i])
    BY DEF Bills
  <1> QED
    BY <1>5, <1>7, <1>9, <1>10 DEF Promise!Undo, Bills

\* A run of interest.
LEMMA ChargedIsChargeInterest ==
  ASSUME BooksInv, LedgerInv', NEW w \in Workers, Charged(w)
  PROVE  Promise!ChargeInterest
  <1> DEFINE more == jobs[w].rows
             m == Len(more)
             paid == [s \in Shoppers |-> Balance(ledger, s) - Balance(ledger', s)]
  <1>1. /\ ledger \in Seq(Row) /\ ledger' \in Seq(Row) /\ more \in Seq(Row) /\ more # <<>> /\ ledger' = ledger \o more
        /\ \A k \in DOMAIN more : /\ more[k].valid /\ more[k].kind = "interest"
                                  /\ \A s \in Shoppers : more[k].amounts[s] <= 0
    BY DEF BooksInv, WrittenInv, LedgerInv, TypeOK, Job, InShape, Written, Charged
  <1>2. m \in Nat /\ m >= 1 /\ DOMAIN more = 1..m /\ \A k \in 1..m : more[k] \in Row
    BY <1>1
  <1> HIDE DEF more
  <1>3. \A s \in Shoppers, k \in 1..m : Moves(more[k], s) <= 0
    BY <1>1, <1>2 DEF Moves
  <1>4. \A k \in 1..m : PaidFor(more[k]) = Promise!Blank
    BY <1>1, <1>2 DEF PaidFor, Promise!Blank
  <1>5. ASSUME NEW s \in Shoppers
        PROVE  /\ Balance(ledger, s) \in Int /\ Balance(ledger', s) \in Int
               /\ Balance(ledger', s) <= Balance(ledger, s)
    <2>1. \A rows \in Seq(Row) : Balance(rows, s) \in Int
      <3> TAKE rows \in Seq(Row)
      <3> DEFINE f == [i \in 1..Len(rows) |-> Moves(rows[i], s)]
      <3>1. \A i \in 1..Len(rows) : f[i] = Moves(rows[i], s)
        OBVIOUS
      <3> HIDE DEF f
      <3> QED
        BY <3>1, BalanceIsSum
    <2>2. Balance(ledger \o more, s) <= Balance(ledger, s)
      BY <1>1, <1>3, BalanceAfterCharges
    <2> QED
      BY <1>1, <2>1, <2>2
  <1>6. paid \in [Shoppers -> Int] /\ \A s \in Shoppers : paid[s] >= 0
    BY <1>5
  <1>7. \A s \in Shoppers : Balance(ledger, s) \in Int /\ Balance(ledger', s) = Balance(ledger, s) - paid[s]
    <2> TAKE s \in Shoppers
    <2>1. paid[s] = Balance(ledger, s) - Balance(ledger', s)
      OBVIOUS
    <2> HIDE DEF paid
    <2> QED
      BY <1>5, <2>1
  <1> HIDE DEF paid
  <1>8. Promise!Paid = paid
    BY <1>6, <1>7, PaidIs
  <1>9. Bills' = Bills \o [i \in 1..m |-> PaidFor(more[i])]
    BY <1>1, BillsGrow
  <1>10. [i \in 1..m |-> PaidFor(more[i])] = [i \in 1..m |-> Promise!Blank]
    BY <1>4
  <1>11. Bills' = Bills \o [i \in 1..m |-> Promise!Blank]
    BY <1>9, <1>10
  <1>12. m \in 1..Len(Bills')
    <2>1. DOMAIN Bills' = DOMAIN ledger' /\ Len(ledger') >= m /\ DOMAIN ledger' = 1..Len(ledger') /\ Len(ledger') \in Nat
      BY <1>1, <1>2 DEF Bills
    <2>2. Bills' = [i \in 1..Len(ledger') |-> PaidFor(ledger'[i])]
      BY <2>1 DEF Bills
    <2>3. Len(Bills') = Len(ledger')
      BY <2>1, <2>2
    <2> QED
      BY <1>2, <2>1, <2>3
  <1>13. \A s \in {r \in Shoppers : paid[r] # 0} : paid[s] > 0
    BY <1>6
  <1> HIDE DEF m
  <1> QED
    BY <1>8, <1>11, <1>12, <1>13 DEF Promise!ChargeInterest, Promise!Payers, Bills

\* The refinement: however requests read, decide, commit and die, balances that are derived from the rows
\* change as if each were a saldo that is changed in one step, and what was undone was paid, once.
THEOREM LedgerImplementsSaldo == KasseSpec => ImplementsSaldo
  <1>1. KasseInit => Promise!Init
    <2> SUFFICES ASSUME KasseInit PROVE Promise!Init
      OBVIOUS
    <2>1. LedgerInv /\ ledger \in Seq(Row)
      BY InitHolds DEF KasseInit, LedgerInv, TypeOK
    <2> DEFINE saldo == [s \in Shoppers |-> Balance(ledger, s)]
    <2>2. saldo \in [Shoppers -> Int]
      BY <2>1, ListedIsBalance
    <2>3. CASE ledger = <<>>
      <3>1. Bills = <<>>
        BY <2>3 DEF Bills
      <3> QED
        BY <2>2, <3>1 DEF Promise!Init, Bills
    <2>4. ASSUME NEW s \in Shoppers, NEW b \in Openings, ledger = <<NewRow("manual", Only(s, b))>>
          PROVE  Promise!Init
      <3> DEFINE row == NewRow("manual", Only(s, b))
      <3>1. row \in Row /\ row.valid /\ row.kind = "manual" /\ ledger = <<row>>
        BY <2>1, <2>4 DEF NewRow
      <3> HIDE DEF row
      <3>2. ASSUME NEW r \in Shoppers PROVE PaidFor(row)[r] = -saldo[r] /\ saldo[r] \in Int
        <4>1. ledger = Append(<<>>, row) /\ <<>> \in Seq(Row)
          BY <3>1
        <4>2. /\ Balance(ledger, r) = Balance(<<>>, r) + Moves(row, r) /\ Moves(row, r) \in Int
              /\ Balance(<<>>, r) = 0
          BY <3>1, <4>1, BalanceAfter, BalanceOfNothing
        <4>3. PaidFor(row)[r] = -Moves(row, r)
          BY <3>1, BillFor
        <4>4. saldo[r] = Balance(ledger, r)
          OBVIOUS
        <4> HIDE DEF saldo
        <4> QED
          BY <4>2, <4>3, <4>4
      <3>3. PaidFor(row) = [r \in Shoppers |-> -saldo[r]]
        <4> HIDE DEF saldo
        <4> QED
          BY <3>1, <3>2, BillFor
      <3>4. Bills = <<PaidFor(row)>>
        BY <3>1 DEF Bills
      <3>5. Bills = <<[r \in Shoppers |-> -saldo[r]]>>
        BY <3>3, <3>4
      <3> QED
        BY <2>2, <3>5 DEF Promise!Init, Bills
    <2> QED
      BY <2>3, <2>4 DEF KasseInit, Init
  <1>2. BooksInv /\ [Booking \/ Browsing]_<<vars, kasseVars>> => [Promise!Next]_(Promise!vars)
    <2> SUFFICES ASSUME BooksInv, [Booking \/ Browsing]_<<vars, kasseVars>>
                 PROVE  Promise!Next \/ Promise!vars' = Promise!vars
      OBVIOUS
    <2>1. ledger' = ledger => Promise!vars' = Promise!vars
      BY DEF Promise!vars
    <2>2. CASE Booking
      <3>1. LedgerMoves /\ LedgerInv'
        BY <2>2, StepMoves DEF BooksInv, Booking, WrittenInv
      <3> QED
        BY <2>1, <3>1, SoldIsSell, BookedIsSettle, VoidedIsUndo, ChargedIsChargeInterest
           DEF LedgerMoves, Promise!Next
    <2>3. CASE Browsing \/ UNCHANGED <<vars, kasseVars>>
      <3>1. ledger' = ledger
        BY <2>3, BrowsingOnlyBrowses DEF OnlyBrowses, BooksInv, KasseInv, KasseTypeOK
      <3> QED
        BY <2>1, <3>1
    <2> QED
      BY <2>2, <2>3
  <1> QED
    BY <1>1, <1>2, BooksHold, PTL DEF KasseSpec, ImplementsSaldo, Promise!Spec

=============================================================================
