----------------------------- MODULE Vaerelsestjek -----------------------------
(***************************************************************************)
(* The reports on the rooms (src/app/rooms/views.py): everybody may write  *)
(* one, the newest is the room's current one, the others are its history.  *)
(*                                                                         *)
(* A submission is one transaction: an UPDATE that takes the flag from the *)
(* reports it finds, then the new report.  Another one may commit between. *)
(***************************************************************************)
EXTENDS Maanedsliste

CONSTANTS
    Numbers,      \* bound: the ids of reports
    Dates         \* bound: the dates on which reports were written on the old site

\* A RoomCondition: one of the old site has its date, a new one is later than those.
RoomReport == [room: Rooms, by: Residents \cup {Null}, date: Dates \cup {Null}, current: BOOLEAN]

ASSUME TjekAssumption ==
    /\ "check" \in Kinds
    /\ Numbers \subseteq Nat
    /\ Null \notin Dates /\ Null \notin RoomReport

VARIABLES
    reports,      \* RoomCondition by id
    lastReport,   \* the sequence behind the ids
    checks        \* the submissions under way, with the reports they take the flag from

tjekVars == <<reports, lastReport, checks>>

Submission == [n: Nat, room: Rooms, by: Residents, seen: SUBSET Numbers, alone: BOOLEAN]

TjekTypeOK ==
    /\ reports \in [Numbers -> RoomReport \cup {Null}]
    /\ lastReport \in Nat
    /\ checks \subseteq Submission

TjekInit ==
    /\ reports = [i \in Numbers |-> Null]
    /\ lastReport = 0
    /\ checks = {}

Filed == {i \in Numbers : reports[i] # Null}
CurrentOf(room) == {i \in Filed : reports[i].room = room /\ reports[i].current}

\* besvar, its UPDATE.  One that waits for the row of another finds afterwards that the flag is gone
\* from it and never sees the report that the other has written: the same as if it had not waited.
BeginReport(r, room) ==
    /\ Make("check")
    /\ r \in accounts
    /\ checks' = {[c EXCEPT !.alone = @ /\ c.room # room] : c \in checks} \cup
          {[n |-> made'["check"], room |-> room, by |-> r, seen |-> CurrentOf(room),
            alone |-> \A c \in checks : c.room # room]}
    /\ UNCHANGED <<reports, lastReport>>

\* Mutant: the report is the current one beside the one it follows.
BesideTheOld(c) == reports

\* The reports without the flag that the new one takes over.
Superseded(c) ==
    [i \in Numbers |->
        IF i \in c.seen /\ reports[i] # Null THEN [reports[i] EXCEPT !.current = FALSE]
        ELSE reports[i]]

\* besvar, the new report and the commit.
EndReport(c) ==
    LET id == lastReport + 1
    IN  /\ id \in Numbers /\ reports[id] = Null
        /\ reports' = [Superseded(c) EXCEPT ![id] =
              [room |-> c.room, by |-> c.by, date |-> Null, current |-> TRUE]]
        /\ lastReport' = id
        /\ checks' = checks \ {c}
        /\ UNCHANGED made

TjekStep ==
    /\ \/ \E r \in Residents, room \in Rooms : BeginReport(r, room)
       \/ \E c \in checks : EndReport(c)
    /\ UNCHANGED <<listVars, mix>>

-----------------------------------------------------------------------------
(* Properties *)

\* "Submitting always creates a NEW current report": overlapping submissions leave a room with two
\* current reports, which every page then picks from as it likes; but the next one that nothing
\* overtakes takes the flag from all of them, and its own is the only one.
NextReportHeals ==
    [][\A c \in checks :
          c.alone /\ (\A e \in checks' : e.n # c.n) =>
              \E i \in Numbers : CurrentOf(c.room)' = {i} /\ reports'[i].by = c.by]_tjekVars

================================================================================
