----------------------------- MODULE MCOelkaelder -----------------------------
(* Instances of Oelkaelder and Kasse for TLC. *)
EXTENDS Kasse, TLC

CONSTANTS w1, w2

Mix(sales, deposits, corrections, voids, interests, changes, months, crashes) ==
    [sale |-> sales, deposit |-> deposits, correct |-> corrections, void |-> voids,
     interest |-> interests, setting |-> changes, month |-> months, crash |-> crashes,
     browse |-> 0]

Browsed(mix) == [mix EXCEPT !.browse = 1]

OneWorker == {w1}
TwoWorkers == {w1, w2}
EitherWorker == Permutations(TwoWorkers)

\* The clocks of UTC and of Copenhagen turn the month together, or an hour apart.
TurnTogether == <<[utc |-> 0, local |-> 0], [utc |-> 1, local |-> 1]>>
TurnApart == <<[utc |-> 0, local |-> 0], [utc |-> 0, local |-> 1], [utc |-> 1, local |-> 1]>>

TwoShoppers == {1, 2}
InDebt == {-3}
Baskets == {0, 3}
GivenOrTaken == {-1, 2}
NoLimitOrOne == {Null, -2}
OneThreshold == {-4}
NoSearch == {<<Null, "">>}
ASearchOrNone == NoSearch \cup {<<{1}, "any">>}

LedgerMixes ==
    {Mix(2, 0, 0, 1, 0, 0, 0, 0),   \* sales at two tills, and a void
     Mix(1, 0, 0, 1, 1, 0, 0, 0),   \* interest on a sale that is voided meanwhile
     Mix(1, 1, 0, 1, 0, 0, 0, 1),   \* a deposit, voided, and a worker that dies
     Mix(2, 0, 0, 0, 0, 1, 0, 0),   \* sales while the rules change
     Mix(1, 0, 1, 2, 0, 0, 0, 0),   \* two voids, of a correction, a sale or the opening
     Mix(0, 0, 1, 0, 2, 0, 0, 0),   \* two clicks on the interest
     Mix(0, 0, 0, 0, 2, 1, 1, 0),   \* interest in two months
     Browsed(Mix(2, 0, 0, 0, 0, 0, 0, 0)),   \* Salgsoverblik, while two tills sell,
     Browsed(Mix(1, 0, 0, 1, 0, 0, 0, 0))}   \* or a sale is voided
InterestMixes == {Mix(1, 0, 0, 0, 2, 0, 2, 0)}
=============================================================================
