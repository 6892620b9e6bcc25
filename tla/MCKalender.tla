------------------------------ MODULE MCKalender ------------------------------
(* Instances of Kalender for TLC. *)
EXTENDS Kalender, MCBegivenheder

Subscribed(mix, asked, files) == [mix EXCEPT !.address = 1, !.fetch = asked, !.download = files]

SerialMixes ==
    {Mix(3, 1, 1, 1, 1, 1, 0, 4),                     \* an event from its first answer to its purge
     Subscribed(Mix(1, 1, 1, 0, 0, 0, 0, 0), 2, 0),   \* a calendar that asks while it changes
     Subscribed(Mix(0, 1, 1, 0, 1, 0, 0, 2), 1, 2),   \* or is given files of it
     [Subscribed(Mix(0, 0, 1, 0, 0, 0, 0, 0), 2, 0) EXCEPT !.address = 2]}   \* a changed address
===============================================================================
