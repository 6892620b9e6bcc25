----------------------------- MODULE WaitingList -----------------------------
(***************************************************************************)
(* What an event with limited seats promises its residents: one queue,     *)
(* served in order, whose head has the seats; nobody who was told of a     *)
(* seat loses it to another, and whoever moves up into a seat is told.     *)
(* What was called off stays so, as it was, until it is over; and what     *)
(* somebody wants to come to is not taken away before.                     *)
(***************************************************************************)
EXTENDS Naturals, Sequences

CONSTANTS Guests, Sizes, Unlimited

VARIABLES
    queue,      \* who wants to come, first come first
    size,       \* the number of seats
    informed,   \* who was last told of a seat
    off,        \* whether it was called off
    over        \* whether it is long enough past

vars == <<queue, size, informed, off, over>>

Seats(q, n) == {q[i] : i \in {i \in DOMAIN q : n = Unlimited \/ i <= n}}

\* The places of g in the queue.
Places(g) == {i \in DOMAIN queue : queue[i] = g}

\* What g hears when the panel is shown to them.
Hears(g, q) == IF g \in Seats(q, size) THEN informed \cup {g} ELSE informed \ {g}

Init ==
    /\ queue \in Seq(Guests)
    /\ \A g \in Guests : \A i, j \in Places(g) : i = j
    /\ size \in Sizes
    /\ informed = Seats(queue, size)
    /\ off = FALSE
    /\ over \in BOOLEAN

\* A newcomer joins at the end.
Join(g) ==
    /\ ~off
    /\ Places(g) = {}
    /\ queue' = Append(queue, g)
    /\ informed' = Hears(g, queue')
    /\ UNCHANGED <<size, off, over>>

\* Whoever leaves frees their place, and the first it lets in is told.
Leave(g) ==
    /\ ~off
    /\ \E i \in Places(g) :
          queue' = [k \in 1..(Len(queue) - 1) |-> IF k < i THEN queue[k] ELSE queue[k + 1]]
    /\ informed' = Hears(g, queue') \cup (Seats(queue', size) \ Seats(queue, size))
    /\ UNCHANGED <<size, off, over>>

\* Somebody who answers what they had answered hears where they stand.
Look(g) ==
    /\ ~off
    /\ informed' = Hears(g, queue)
    /\ UNCHANGED <<queue, size, off, over>>

\* The number of seats changes, but nobody loses the seat they have; the day may be moved with it.
Resize(n) ==
    /\ ~off
    /\ Seats(queue, size) \subseteq Seats(queue, n)
    /\ size' = n
    /\ over' \in BOOLEAN
    /\ UNCHANGED <<queue, informed, off>>

\* It is called off, once, and frozen as it is.
CallOff ==
    /\ ~off
    /\ off' = TRUE
    /\ over' \in BOOLEAN
    /\ UNCHANGED <<queue, size, informed>>

\* Time passes.
Pass ==
    /\ ~over
    /\ over' = TRUE
    /\ UNCHANGED <<queue, size, informed, off>>

\* What nobody wants to come to, or what is over, goes.
Dissolve ==
    /\ queue = <<>> \/ over
    /\ queue' = <<>>
    /\ UNCHANGED <<size, informed, off, over>>

Next ==
    \/ \E g \in Guests : Join(g) \/ Leave(g) \/ Look(g)
    \/ \E n \in Sizes : Resize(n)
    \/ CallOff \/ Pass \/ Dissolve

Spec == Init /\ [][Next]_vars
=============================================================================
