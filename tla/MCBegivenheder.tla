---------------------------- MODULE MCBegivenheder ----------------------------
(* Instances of Begivenheder for TLC. *)
EXTENDS Begivenheder, TLC

CONSTANTS r1, r2, r3, w1, w2

Mix(answers, edits, cancels, deletes, sweeps, reminds, crashes, ticks) ==
    [answer |-> answers, edit |-> edits, cancel |-> cancels, delete |-> deletes,
     sweep |-> sweeps, remind |-> reminds, crash |-> crashes, tick |-> ticks,
     address |-> 0, fetch |-> 0, download |-> 0]

TwoResidents == {r1, r2}
ThreeResidents == {r1, r2, r3}
OneWorker == {w1}
TwoWorkers == {w1, w2}

OneOrTwoSeats == {1, 2}
OneSeatOrNoLimit == {1, Null}
OneSeat == {1}
AnyResident == Permutations({r1, r2, r3})
EarlyOrLate == {2, 3}
OneTick == {1}
OneTickBefore == {1, Null}

AnswerMixes == {Mix(2, 0, 0, 0, 0, 0, 0, 0)}
EditAndCancelMixes == {Mix(0, 1, 1, 0, 0, 0, 0, 0)}
OverlapMixes ==
    {Mix(3, 0, 0, 0, 0, 0, 0, 0),   \* answers that wait for each other's rows
     Mix(2, 0, 0, 1, 0, 0, 0, 0),   \* answers against a delete
     Mix(1, 1, 0, 1, 0, 0, 0, 0),   \* an edit against a delete
     Mix(1, 1, 1, 0, 1, 0, 0, 3),   \* a cancelled event, edited and purged
     Mix(0, 1, 1, 0, 0, 2, 1, 1)}   \* two reminders and an edit

=============================================================================
