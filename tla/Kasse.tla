--------------------------------- MODULE Kasse ---------------------------------
(***************************************************************************)
(* What the pages of the beer cellar (src/app/oelkaelder/views.py) show of *)
(* the ledger: the till, a resident's statement, the report of the sales,  *)
(* and Salgsoverblik, which lists every sale, the newest first, a page at  *)
(* a time, while the till goes on selling.                                 *)
(*                                                                         *)
(* The ledger has no ids: here each sale is given the one that its row     *)
(* draws when it is inserted, which may be long before it is committed.    *)
(* The sales of the old site have lost their buyers and are dated to the   *)
(* minute: all of them, here, in the same one.                             *)
(***************************************************************************)
EXTENDS Oelkaelder, Functions, FiniteSetsExt

CONSTANTS
    Migrated,     \* how many sales the old site has left
    PageSize,     \* PAGE_SIZE
    Searches      \* bound: what somebody asks for, of the people or Null, and of the buyers or ""

ASSUME KasseAssumption ==
    /\ Migrated \in Nat /\ PageSize \in Nat \ {0}
    /\ Searches \subseteq ({Null} \cup SUBSET Shoppers) \X {"", "none", "any"}

VARIABLES
    lastId,       \* the sequence behind the ids of the sales
    drawn,        \* the id that each worker's sale has drawn; 0: none
    receipts,     \* of each row of the ledger, what the pages know of it besides
    reader        \* somebody from the ØK who pages through Salgsoverblik

kasseVars == <<lastId, drawn, receipts, reader>>

\* The Transaction, the total of its items, and whose its shares are; id 0: the row is no sale.
Receipt == [id: Nat, price: Nat, buyers: SUBSET Shoppers]
NoSale == [id |-> 0, price |-> 0, buyers |-> {}]

OldSales == {[id |-> n, price |-> 1, buyers |-> {}] : n \in 1..Migrated}

\* What is asked for, the page and of how many, the request's next query, the sales that there were at
\* the start and those seen since, and whether no sale came between the two queries of a request.
Reader == [step: {"away", "count", "rows", "shown"}, people: {Null} \cup SUBSET Shoppers,
           buyers: {"", "none", "any"}, page: Nat, pages: Nat,
           were: SUBSET Nat, seen: SUBSET Nat, steady: BOOLEAN]

Away == [step |-> "away", people |-> Null, buyers |-> "", page |-> 1, pages |-> 1,
         were |-> {}, seen |-> {}, steady |-> TRUE]

KasseTypeOK ==
    /\ TypeOK
    /\ lastId \in Nat
    /\ drawn \in [Workers -> Nat]
    /\ receipts \in Seq(Receipt) /\ Len(receipts) = Len(ledger)
    /\ reader \in Reader

KasseInit ==
    /\ Init
    /\ lastId = Migrated
    /\ drawn = [w \in Workers |-> 0]
    /\ receipts = [i \in 1..Len(ledger) |-> NoSale]
    /\ reader = Away

-----------------------------------------------------------------------------
(* The ledger, and the ids *)

Inserts(w) == jobs[w].pc = "decide" /\ jobs'[w].pc = "priced"
Sells(w) == jobs[w].pc = "priced" /\ jobs'[w].pc = "warn"

NewReceipt ==
    IF \E w \in Workers : Sells(w)
    THEN LET w == CHOOSE w \in Workers : Sells(w)
         IN  [id |-> drawn[w], price |-> jobs[w].price, buyers |-> jobs[w].who]
    ELSE NoSale

\* A step of the ledger.  A sequence does not go back when a transaction does.
Booking ==
    /\ Next
    /\ lastId' = IF \E w \in Workers : Inserts(w) THEN lastId + 1 ELSE lastId
    /\ drawn' = [w \in Workers |->
                    IF Inserts(w) THEN lastId + 1 ELSE IF jobs'[w].pc = "idle" THEN 0 ELSE drawn[w]]
    /\ receipts' = receipts \o [i \in 1..(Len(ledger') - Len(ledger)) |-> NewReceipt]
    /\ reader' = [reader EXCEPT !.steady = @ /\ (reader.step = "rows" => ~\E w \in Workers : Sells(w))]

-----------------------------------------------------------------------------
(* Salgsoverblik *)

Sales == OldSales \cup {receipts[i] : i \in {j \in DOMAIN receipts : receipts[j].id # 0}}

\* _sales_queryset: somebody among the buyers is who was asked for; with buyers, or without.  The voided
\* ones are listed too.
Asked(sale) ==
    /\ reader.people # Null => sale.buyers \cap reader.people # {}
    /\ reader.buyers = "none" => sale.buyers = {}
    /\ reader.buyers = "any" => sale.buyers # {}

\* created_at
Stamp(sale) == IF sale.id <= Migrated THEN 0 ELSE sale.id

\* Mutant: sales of the same minute come as the planner has it, for each page anew.
ByStamp(a, b) ==
    \/ Stamp(a) > Stamp(b)
    \/ Stamp(a) = Stamp(b) /\ (IF reader.page % 2 = 0 THEN a.id > b.id ELSE a.id < b.id)

\* Transaction.Meta.ordering
Newer(a, b) == Stamp(a) > Stamp(b) \/ (Stamp(a) = Stamp(b) /\ a.id > b.id)

\* OFFSET and LIMIT.
OnPage(n) ==
    LET asked == {sale \in Sales : Asked(sale)}
        rank(a) == Cardinality({b \in asked : Newer(b, a)})
    IN  {sale.id : sale \in {a \in asked : rank(a) \div PageSize = n - 1}}

\* all_sales, for the first page.
OpenSales(people, buyers) ==
    /\ Make("browse")
    /\ reader.step = "away"
    /\ reader' = [Away EXCEPT !.step = "count", !.people = people, !.buyers = buyers]
    /\ UNCHANGED <<clock, settings, ledger, jobs, mails, lastId, drawn, receipts>>

\* Paginator.get_page counts; a page beyond the last is the last.
CountSales ==
    /\ reader.step = "count"
    /\ LET found == {sale.id : sale \in {a \in Sales : Asked(a)}}
           pages == Max({1, (Cardinality(found) + PageSize - 1) \div PageSize})
       IN  reader' = [reader EXCEPT
                         !.step = "rows", !.pages = pages, !.page = Min({@, pages}),
                         !.were = IF reader.page = 1 THEN found ELSE @]
    /\ UNCHANGED <<vars, lastId, drawn, receipts>>

\* The page is read, in a statement of its own, and shown.
ShowSales ==
    /\ reader.step = "rows"
    /\ reader' = [reader EXCEPT !.step = "shown", !.seen = @ \cup OnPage(reader.page)]
    /\ UNCHANGED <<vars, lastId, drawn, receipts>>

\* The link to the next page, which the last one does not have.
NextSales ==
    /\ reader.step = "shown"
    /\ reader.page < reader.pages
    /\ reader' = [reader EXCEPT !.step = "count", !.page = @ + 1]
    /\ UNCHANGED <<vars, lastId, drawn, receipts>>

LeaveSales ==
    /\ reader.step = "shown"
    /\ reader' = Away
    /\ UNCHANGED <<vars, lastId, drawn, receipts>>

Browsing ==
    \/ \E search \in Searches : OpenSales(search[1], search[2])
    \/ CountSales \/ ShowSales \/ NextSales \/ LeaveSales

KasseSpec == KasseInit /\ [][Booking \/ Browsing]_<<vars, kasseVars>>

-----------------------------------------------------------------------------
(* The other pages, each taken at one moment *)

\* Mutant: the statement lists the voided sales too.
OfEveryRow(s) == {i \in DOMAIN ledger : ledger[i].kind = "sale" \/ ledger[i].valid}

\* _account_entries: the rows that the statement of an account lists...
Entries(s) == {i \in DOMAIN ledger : ledger[i].valid}

\* ...a share of a sale as a debit, deposits and adjustments as credits.
EntryOre(i, s) == IF ledger[i].kind = "sale" THEN -ledger[i].amounts[s] ELSE ledger[i].amounts[s]

\* my_balance, person_history: all the accounts of a resident, and one list of their entries.
Listed(s) == SumFunctionOnSet([i \in DOMAIN ledger |-> EntryOre(i, s)], Entries(s))
Statement(accounts) == SumFunctionOnSet([s \in Shoppers |-> Listed(s)], accounts)
ShownBalance(accounts) == SumFunctionOnSet([s \in Shoppers |-> Balance(ledger, s)], accounts)

ValidSales == {i \in DOMAIN ledger : ledger[i].kind = "sale" /\ ledger[i].valid}

\* report_sales: the items of the valid sales.
SoldOre == SumFunctionOnSet([i \in DOMAIN receipts |-> receipts[i].price], ValidSales)

\* _per_person: the least and the greatest of the shares.
PerPerson(i) ==
    LET shares == {ledger[i].amounts[s] : s \in receipts[i].buyers} IN <<Min(shares), Max(shares)>>

\* shop: whom the till shows as unable to buy.
Marked(s) == active[s] /\ limit # Null /\ Balance(ledger, s) < limit

-----------------------------------------------------------------------------
(* Properties *)

\* "The two can never disagree about what someone owes": whatever has been sold, voided and corrected,
\* the statement of a resident's accounts, one or more, adds up to their balance; the sales report to
\* what its buyers were charged; each buyer of a sale paid what its line says, to within an øre; and the
\* till marks just those for whom a sale that nothing overtakes is refused.
BooksAgree ==
    /\ \A accounts \in SUBSET Shoppers : Statement(accounts) = ShownBalance(accounts)
    /\ SoldOre = SumFunction([s \in Shoppers |-> Total(ledger, s, {"sale"})])
    /\ \A i \in ValidSales :
          LET low == PerPerson(i)[1]
              high == PerPerson(i)[2]
              n == Cardinality(receipts[i].buyers)
          IN  high <= low + 1 /\ n * low <= receipts[i].price /\ receipts[i].price <= n * high
    /\ \A w \in Workers :
          jobs[w].pc = "decide" /\ jobs[w].kind = "sale" /\ jobs[w].fresh =>
              (SomeoneBlocked(w) <=> \E s \in jobs[w].who : Marked(s))

\* "The -id tiebreak is load-bearing": whoever pages through Salgsoverblik to the end has seen every
\* sale that there was when he began, whatever the tills have sold between the pages; but not always if
\* a sale comes between the two queries of a page, its count and its rows.
NoSaleSkipped ==
    reader.step = "shown" /\ reader.page = reader.pages /\ reader.steady => reader.were \subseteq reader.seen

-----------------------------------------------------------------------------
(* The ledger as a saldo *)

\* What a shopper paid for a row, if there is something to be undone in it.
PaidFor(row) ==
    [s \in Shoppers |->
        CASE ~row.valid \/ row.kind = "interest" -> 0
          [] row.valid /\ row.kind = "sale" -> row.amounts[s]
          [] row.valid /\ row.kind \in {"deposit", "manual"} -> -row.amounts[s]]

Promise == INSTANCE Saldo
    WITH Totals <- Prices \ {0},
         saldo <- [s \in Shoppers |-> Balance(ledger, s)],
         bills <- [i \in DOMAIN ledger |-> PaidFor(ledger[i])]

\* "There is no mutable saldo to corrupt": whatever interleaves and whoever dies, the
\* balances change as if each were a saldo that is changed in one step, by equal shares
\* that add up to the price, and a void gives back what was paid, once.
ImplementsSaldo == Promise!Spec
================================================================================
