------------------------------ MODULE Oelkaelder ------------------------------
(***************************************************************************)
(* The ledger of the beer cellar (src/app/oelkaelder): sales at the till,  *)
(* deposits, corrections, the monthly interest, and their soft deletes.    *)
(*                                                                         *)
(* A balance is derived, never stored: valid deposits - shares of valid    *)
(* sales + valid adjustments, three aggregates that are read one after the *)
(* other.  A sale and an interest run read, decide and commit in separate  *)
(* steps at READ COMMITTED; every other request decides within the one     *)
(* statement that writes.  jobs[w] is what a worker's request has in       *)
(* memory and has written without committing.                              *)
(*                                                                         *)
(* A job is `fresh' until another request commits, and `since' is how much *)
(* of the ledger there was when an interest run began: they are history,   *)
(* of which the code knows nothing.                                        *)
(***************************************************************************)
EXTENDS Integers, FiniteSets, Sequences

CONSTANTS
    Shoppers,         \* the accounts, by their primary keys
    Workers,          \* requests that read before they write, in flight at once
    Calendar,         \* the months that follow each other, on the UTC and the local clock
    Openings,         \* the corrections that are in the ledger at the start
    Prices,           \* what a basket may come to; 0 is a basket without a price
    Amounts,          \* amounts that deposits and corrections are given
    Limits,           \* values of PurchasePolicy.block_below_ore; Null: not active
    Thresholds,       \* threshold_ore of the active warnings
    RatePercent,      \* InterestPolicy.rate_percent
    InterestBelow,    \* InterestPolicy.threshold_ore
    Mixes,            \* bound: the mixes of requests, months and crashes that happen
    Null

Kinds == {"sale", "deposit", "correct", "void", "interest", "setting", "month", "crash",
          "browse"}

ASSUME ConstantsAssumption ==
    /\ Shoppers \subseteq Nat /\ IsFiniteSet(Shoppers) /\ IsFiniteSet(Workers)
    /\ Calendar \in Seq([utc: Nat, local: Nat]) /\ Calendar # <<>>
    /\ Openings \subseteq Int /\ Amounts \subseteq Int /\ Prices \subseteq Nat
    /\ Thresholds \subseteq Int /\ IsFiniteSet(Thresholds)
    /\ Null \notin Int /\ Limits \subseteq Int \cup {Null}
    /\ RatePercent \in Nat /\ InterestBelow \in Int
    /\ Mixes \subseteq [Kinds -> Nat]

VARIABLES
    clock,        \* where in the Calendar the time is
    active,       \* Shopper.active
    limit,        \* the PurchasePolicy
    interestOn,   \* InterestPolicy.active
    ledger,       \* the committed rows, in the order of their commits
    jobs,         \* what each worker's request has in memory
    mails,        \* how many debt warnings each shopper has been sent
    made          \* how many requests, months and crashes there have been

vars == <<clock, active, limit, interestOn, ledger, jobs, mails, made>>
settings == <<active, limit, interestOn>>

-----------------------------------------------------------------------------
(* The rows *)

\* A Deposit, an Adjustment (manual or interest), or a Transaction with its shares.
\* voidLines counts the log lines that say the row was voided.
Row == [kind: {"deposit", "sale", "manual", "interest"}, amounts: [Shoppers -> Int],
        month: Nat, valid: BOOLEAN, voidLines: Nat]

NewRow(kind, amounts) ==
    [kind |-> kind, amounts |-> amounts, month |-> Calendar[clock].local,
     valid |-> TRUE, voidLines |-> 0]

\* amount for s, and nothing for anybody else.
Only(s, amount) == [r \in Shoppers |-> IF r = s THEN amount ELSE 0]

\* The sum of a sequence of integers.
Sum(v) ==
    LET sum[i \in 0..Len(v)] == IF i = 0 THEN 0 ELSE sum[i - 1] + v[i]
    IN  sum[Len(v)]

\* What a row adds to the aggregate over the valid rows of these kinds.
Counted(row, s, kinds) == IF row.valid /\ row.kind \in kinds THEN row.amounts[s] ELSE 0

\* One aggregate: SELECT SUM ... WHERE is_valid.
Total(rows, s, kinds) == Sum([i \in 1..Len(rows) |-> Counted(rows[i], s, kinds)])

\* Shopper.balance_ore
Balance(rows, s) ==
    Total(rows, s, {"deposit"}) - Total(rows, s, {"sale"})
        + Total(rows, s, {"manual", "interest"})

Job == [pc: {"idle", "deposits", "spent", "adjustments", "decide", "priced", "warn", "next"},
        kind: {"sale", "interest"}, who: SUBSET Shoppers, asked: SUBSET Shoppers,
        seen: [Shoppers -> Int], price: Nat, month: Nat, since: Nat, rows: Seq(Row),
        fresh: BOOLEAN]

Idle == [pc |-> "idle", kind |-> "sale", who |-> {}, asked |-> {},
         seen |-> [s \in Shoppers |-> 0], price |-> 0, month |-> 0, since |-> 0,
         rows |-> <<>>, fresh |-> TRUE]

\* PositiveIntegerField: what a deposit and a share may hold.
AmountsFit(row) ==
    row.kind \in {"deposit", "sale"} => \A s \in Shoppers : row.amounts[s] >= 0

TypeOK ==
    /\ clock \in 1..Len(Calendar)
    /\ active \in [Shoppers -> BOOLEAN]
    /\ limit \in Limits
    /\ interestOn \in BOOLEAN
    /\ ledger \in Seq(Row)
    /\ \A i \in DOMAIN ledger : AmountsFit(ledger[i])
    /\ jobs \in [Workers -> Job]
    /\ \A w \in Workers : \A i \in DOMAIN jobs[w].rows : AmountsFit(jobs[w].rows[i])
    /\ mails \in [Shoppers -> Nat]
    /\ made \in [Kinds -> Nat]

-----------------------------------------------------------------------------
(* What the code computes *)

\* Mutant: the remainder goes to one shopper too many.
SharedOutTooWell(price, buyers) ==
    LET n == Cardinality(buyers)
        rank(s) == Cardinality({r \in buyers : r < s})
    IN  [s \in Shoppers |->
            IF s \notin buyers THEN 0
            ELSE (price \div n) + (IF rank(s) <= price % n THEN 1 ELSE 0)]

\* services.largest_remainder, dealt out in the order of the shoppers' keys.
SharedOut(price, buyers) ==
    LET n == Cardinality(buyers)
        rank(s) == Cardinality({r \in buyers : r < s})
    IN  [s \in Shoppers |->
            IF s \notin buyers THEN 0
            ELSE (price \div n) + (IF rank(s) < price % n THEN 1 ELSE 0)]

\* apply_interest: RatePercent of the debt, ROUND_HALF_UP.
Charge(balance) == (-balance * RatePercent + 50) \div 100

\* Mutant: a sale is refused only if all of its buyers are blocked.
AllBlocked(w) ==
    limit # Null /\ \A s \in jobs[w].who : jobs[w].seen[s] < limit

\* PurchasePolicy.blocks, for some buyer of the sale.
SomeoneBlocked(w) ==
    limit # Null /\ \E s \in jobs[w].who : jobs[w].seen[s] < limit

\* Mutant: the old balance may be on the threshold already.
FallsFrom(old, new) == {t \in Thresholds : old >= t /\ new < t}

\* send_debt_warnings: the thresholds a balance falls through.
FallsThrough(old, new) == {t \in Thresholds : old > t /\ new < t}

\* Mutant: the month is not looked at.
NeverCharged(s, month) == FALSE

\* apply_interest: the shopper has interest created in this month.  The filter on
\* created_at__month converts to the local time zone.
AlreadyCharged(s, month) ==
    \E i \in DOMAIN ledger :
        /\ ledger[i].kind = "interest"
        /\ ledger[i].amounts[s] # 0
        /\ ledger[i].month = month

-----------------------------------------------------------------------------
(* Requests *)

Make(k) ==
    /\ made' = [made EXCEPT ![k] = @ + 1]
    /\ \E m \in Mixes : \A j \in Kinds : made'[j] <= m[j]

\* The jobs after a commit that was not theirs.
Overtaken(v) == IF jobs[v].pc = "idle" THEN jobs[v] ELSE [jobs[v] EXCEPT !.fresh = FALSE]

\* A request that reads nothing before the statement that writes commits.
AtOnce == jobs' = [v \in Workers |-> Overtaken(v)]

\* Worker w's transaction commits, and w goes on as job.
Commit(w, job) ==
    /\ ledger' = ledger \o jobs[w].rows
    /\ jobs' = [v \in Workers |-> IF v = w THEN job ELSE Overtaken(v)]

Finish(w) == jobs' = [jobs EXCEPT ![w] = Idle]

Init ==
    /\ clock = 1
    /\ active = [s \in Shoppers |-> TRUE]
    /\ limit \in Limits
    /\ interestOn \in BOOLEAN
    \* An account may come with a balance.
    /\ \/ ledger = <<>>
       \/ \E s \in Shoppers, b \in Openings : ledger = <<NewRow("manual", Only(s, b))>>
    /\ jobs = [w \in Workers |-> Idle]
    /\ mails = [s \in Shoppers |-> 0]
    /\ made = [k \in Kinds |-> 0]

\* The calendar moves on.
NextMonth ==
    /\ Make("month")
    /\ clock < Len(Calendar)
    /\ clock' = clock + 1
    /\ UNCHANGED <<settings, ledger, jobs, mails>>

-----------------------------------------------------------------------------
(* balance_ore and bulk_balances: three aggregates, each its own statement *)

ReadTotal(w, from, sign, kinds, to) ==
    /\ jobs[w].pc = from
    /\ jobs' = [jobs EXCEPT
                   ![w].pc = to,
                   ![w].seen = [s \in Shoppers |->
                                   IF s \in jobs[w].asked
                                   THEN @[s] + sign * Total(ledger, s, kinds) ELSE @[s]]]
    /\ UNCHANGED <<clock, settings, ledger, mails, made>>

ReadDeposits(w) == ReadTotal(w, "deposits", 1, {"deposit"}, "spent")
ReadSpent(w) == ReadTotal(w, "spent", -1, {"sale"}, "adjustments")
ReadAdjustments(w) == ReadTotal(w, "adjustments", 1, {"manual", "interest"}, "decide")

-----------------------------------------------------------------------------
(* services.record_purchase *)

\* The chosen shoppers that are inactive are left out; a sale needs one that is not.
BeginSale(w, chosen, price) ==
    LET buyers == {s \in chosen : active[s]}
    IN  /\ jobs[w].pc = "idle"
        /\ buyers # {}
        /\ Make("sale")
        /\ jobs' = [jobs EXCEPT ![w] =
                       [Idle EXCEPT !.pc = "deposits", !.kind = "sale", !.who = buyers,
                                    !.asked = buyers, !.price = price]]
        /\ UNCHANGED <<clock, settings, ledger, mails>>

\* A buyer over the limit, or an empty basket: everything is rolled back.
RefuseSale(w) ==
    /\ jobs[w].pc = "decide" /\ jobs[w].kind = "sale"
    /\ SomeoneBlocked(w) \/ jobs[w].price = 0
    /\ Finish(w)
    /\ UNCHANGED <<clock, settings, ledger, mails, made>>

\* The transaction, its items and the shares are written.
WriteSale(w) ==
    /\ jobs[w].pc = "decide" /\ jobs[w].kind = "sale"
    /\ ~SomeoneBlocked(w) /\ jobs[w].price > 0
    /\ jobs' = [jobs EXCEPT ![w].pc = "priced",
                   ![w].rows = <<NewRow("sale", SharedOut(jobs[w].price, jobs[w].who))>>]
    /\ UNCHANGED <<clock, settings, ledger, mails, made>>

CommitSale(w) ==
    /\ jobs[w].pc = "priced"
    /\ Commit(w, [jobs[w] EXCEPT !.pc = "warn"])
    /\ UNCHANGED <<clock, settings, mails, made>>

\* on_commit: the warnings compare the balance read before the sale with the same
\* balance less the share.
SendWarnings(w) ==
    /\ jobs[w].pc = "warn"
    /\ mails' = [s \in Shoppers |->
                    LET old == jobs[w].seen[s]
                        share == jobs[w].rows[1].amounts[s]
                    IN  IF s \in jobs[w].who
                        THEN mails[s] + Cardinality(FallsThrough(old, old - share))
                        ELSE mails[s]]
    /\ Finish(w)
    /\ UNCHANGED <<clock, settings, ledger, made>>

-----------------------------------------------------------------------------
(* services.apply_interest *)

\* The policy, the month on the UTC clock, and the active shoppers are read first.
BeginInterest(w) ==
    /\ jobs[w].pc = "idle"
    /\ interestOn
    /\ Make("interest")
    /\ jobs' = [jobs EXCEPT ![w] =
                   [Idle EXCEPT !.pc = "next", !.kind = "interest",
                                !.who = {s \in Shoppers : active[s]},
                                !.month = Calendar[clock].utc, !.since = Len(ledger)]]
    /\ UNCHANGED <<clock, settings, ledger, mails>>

NextShopper(w) ==
    /\ jobs[w].pc = "next"
    /\ \E s \in jobs[w].who :
          jobs' = [jobs EXCEPT ![w].pc = "deposits", ![w].asked = {s}, ![w].seen = Idle.seen]
    /\ UNCHANGED <<clock, settings, ledger, mails, made>>

IsCharged(job, s) ==
    /\ job.seen[s] < InterestBelow
    /\ ~AlreadyCharged(s, job.month)
    /\ Charge(job.seen[s]) > 0

\* One round of the loop: the shopper is charged, or passed over.
JudgeShopper(w) ==
    /\ jobs[w].pc = "decide" /\ jobs[w].kind = "interest"
    /\ \E s \in jobs[w].asked :
          jobs' = [jobs EXCEPT
                      ![w].pc = "next",
                      ![w].who = @ \ {s},
                      ![w].rows = IF IsCharged(jobs[w], s)
                                  THEN Append(@, NewRow("interest", Only(s, -Charge(jobs[w].seen[s]))))
                                  ELSE @]
    /\ UNCHANGED <<clock, settings, ledger, mails, made>>

CommitInterest(w) ==
    /\ jobs[w].pc = "next"
    /\ jobs[w].who = {}
    /\ IF jobs[w].rows = <<>> THEN Finish(w) /\ UNCHANGED ledger ELSE Commit(w, Idle)
    /\ UNCHANGED <<clock, settings, mails, made>>

\* The worker dies; what it has not committed is rolled back, what it has not sent is lost.
Crash(w) ==
    /\ jobs[w].pc # "idle"
    /\ Make("crash")
    /\ Finish(w)
    /\ UNCHANGED <<clock, settings, ledger, mails>>

-----------------------------------------------------------------------------
(* The requests of the administration *)

Book(row) ==
    /\ ledger' = Append(ledger, row)
    /\ AtOnce
    /\ UNCHANGED <<clock, settings, mails>>

\* Mutant: any amount is deposited.
IsAnyAmount(amount) == TRUE

\* services.record_deposit refuses what is not positive.
IsDeposit(amount) == amount > 0

RecordDeposit(s, amount) ==
    /\ IsDeposit(amount)
    /\ Make("deposit")
    /\ Book(NewRow("deposit", Only(s, amount)))

RecordAdjustment(s, amount) ==
    /\ amount # 0
    /\ Make("correct")
    /\ Book(NewRow("manual", Only(s, amount)))

\* The WHERE clause of the UPDATE that voids: the row is still valid, and no interest.
Voids(i) == ledger[i].valid /\ ledger[i].kind # "interest"

\* void_purchase and void_adjustment, one conditional UPDATE and its log line, and the
\* void_deposit of the views, which leaves no line.
Void(i) ==
    /\ Voids(i)
    /\ Make("void")
    /\ ledger' = [ledger EXCEPT ![i].valid = FALSE,
                     ![i].voidLines = IF ledger[i].kind = "deposit" THEN @ ELSE @ + 1]
    /\ AtOnce
    /\ UNCHANGED <<clock, settings, mails>>

SetActive(s) ==
    /\ Make("setting")
    /\ active' = [active EXCEPT ![s] = ~@]
    /\ AtOnce
    /\ UNCHANGED <<clock, limit, interestOn, ledger, mails>>

UpdatePurchasePolicy(l) ==
    /\ Make("setting")
    /\ limit' = l
    /\ AtOnce
    /\ UNCHANGED <<clock, active, interestOn, ledger, mails>>

UpdateInterest ==
    /\ Make("setting")
    /\ interestOn' = ~interestOn
    /\ AtOnce
    /\ UNCHANGED <<clock, active, limit, ledger, mails>>

-----------------------------------------------------------------------------
Till(w) ==
    \/ \E chosen \in SUBSET Shoppers, price \in Prices : BeginSale(w, chosen, price)
    \/ RefuseSale(w)
    \/ WriteSale(w)
    \/ CommitSale(w)
    \/ SendWarnings(w)

Interest(w) ==
    \/ BeginInterest(w)
    \/ NextShopper(w)
    \/ JudgeShopper(w)
    \/ CommitInterest(w)

Administration ==
    \/ \E s \in Shoppers, amount \in Amounts :
          RecordDeposit(s, amount) \/ RecordAdjustment(s, amount)
    \/ \E i \in DOMAIN ledger : Void(i)
    \/ \E s \in Shoppers : SetActive(s)
    \/ \E l \in Limits : UpdatePurchasePolicy(l)
    \/ UpdateInterest

Next ==
    \/ NextMonth
    \/ Administration
    \/ \E w \in Workers :
          Till(w) \/ Interest(w) \/ ReadDeposits(w) \/ ReadSpent(w) \/ ReadAdjustments(w) \/ Crash(w)

Spec == Init /\ [][Next]_vars

-----------------------------------------------------------------------------
(* Properties *)

\* "A double-submit cannot write a second log line", and no void goes unlogged, except
\* that of a deposit: the log tells of each row once what became of it.
VoidsAreLogged ==
    \A i \in DOMAIN ledger : ledger[i].kind # "deposit" =>
        ledger[i].voidLines = IF ledger[i].valid THEN 0 ELSE 1

\* What a row charges s as interest of month m.
Interested(row, s, m) == row.kind = "interest" /\ row.amounts[s] # 0 /\ row.month = m

\* A run of apply_interest charges nobody who had interest of the month that it asks for when it
\* began, whatever sells, voids, charges or turns the month meanwhile: two charges in one month are of
\* runs that overlapped, or of one that asked for a month other than the one it charged in.
NeverChargedAgain ==
    [][\A w \in Workers :
         jobs[w].kind = "interest" /\ jobs[w].pc = "next" /\ jobs'[w].pc = "idle" =>
            \A i \in 1..jobs[w].since, j \in DOMAIN ledger' \ DOMAIN ledger, s \in Shoppers :
                ~ /\ Interested(ledger[i], s, jobs[w].month)
                  /\ Interested(ledger'[j], s, jobs[w].month)]_vars

\* "Idempotent per calendar month": nobody has two charges in one month.
InterestOncePerMonth ==
    \A s \in Shoppers : \A i, j \in DOMAIN ledger : \A m \in {Calendar[k].local : k \in DOMAIN Calendar} :
        Interested(ledger[i], s, m) /\ Interested(ledger[j], s, m) => i = j

\* The credit limit cannot be sidestepped: when a sale commits that nothing overtook, the
\* ledger itself says of every buyer, the inactive ones left out, that they may buy.
CreditLimitKept ==
    [][\A w \in Workers :
         jobs[w].pc = "priced" /\ jobs'[w].pc = "warn" /\ jobs[w].fresh /\ limit # Null =>
            \A s \in jobs[w].who : Balance(ledger, s) >= limit]_vars

\* The buyers whom a sale takes from above a threshold to below it are mailed, once for
\* each threshold, and nobody else is; by the ledger, not by what the sale has read.
WarnedOnCrossing ==
    [][\A w \in Workers :
         jobs[w].pc = "warn" /\ jobs'[w].pc = "idle" /\ jobs[w].fresh
              /\ made'["crash"] = made["crash"] =>
            \A s \in Shoppers :
                mails'[s] - mails[s] =
                    Cardinality({t \in Thresholds :
                        /\ Balance(SubSeq(ledger, 1, Len(ledger) - 1), s) > t
                        /\ Balance(ledger, s) < t})]_vars
=============================================================================
