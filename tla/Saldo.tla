-------------------------------- MODULE Saldo --------------------------------
(***************************************************************************)
(* What a ledger promises: an account per shopper that is changed in one   *)
(* step, as the mutable saldo of the legacy till was meant to be.          *)
(* A bill says what each shopper paid for something that can be undone; a  *)
(* bill that was undone, once and in full, is blank, and so are those of   *)
(* interest, in which there is nothing to undo.                            *)
(***************************************************************************)
EXTENDS Integers, Functions, Sequences

CONSTANTS Shoppers, Totals

VARIABLES saldo, bills

vars == <<saldo, bills>>

Blank == [s \in Shoppers |-> 0]

\* What each shopper pays in a step, negative for what they are given.
Paid == [s \in Shoppers |-> saldo[s] - saldo'[s]]

Payers == {s \in Shoppers : Paid[s] # 0}

Init ==
    /\ saldo \in [Shoppers -> Int]
    /\ bills \in {<<>>} \cup {<<[s \in Shoppers |-> -saldo[s]]>>}

\* The buyers pay the whole of the price between them, each the same to within one.
Sell ==
    /\ \E buyers \in SUBSET Shoppers :
          /\ Payers \subseteq buyers
          /\ \A s, r \in buyers : Paid[s] >= 0 /\ Paid[s] <= Paid[r] + 1
    /\ SumFunction(Paid) \in Totals
    /\ bills' = Append(bills, Paid)

\* A deposit or a correction concerns one shopper.
Settle ==
    /\ \E s \in Shoppers : Payers = {s}
    /\ bills' = Append(bills, Paid)

\* Interest is always paid, by whom and how many it may be, and it is not undone.
ChargeInterest ==
    /\ \A s \in Payers : Paid[s] > 0
    /\ \E n \in 1..Len(bills') : bills' = bills \o [i \in 1..n |-> Blank]

Undo ==
    \E i \in DOMAIN bills :
        /\ \A s \in Shoppers : Paid[s] = -bills[i][s]
        /\ bills' = [bills EXCEPT ![i] = Blank]

Next == Sell \/ Settle \/ ChargeInterest \/ Undo

Spec == Init /\ [][Next]_vars
=============================================================================
