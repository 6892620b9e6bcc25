------------------------------ MODULE Admissions ------------------------------
(***************************************************************************)
(* Applications to the kollegium (src/app/admissions): anybody may send    *)
(* one, Indstillingen marks it received or discards it, and a command      *)
(* deletes what is a year old.  The mail that answers an application is    *)
(* sent after it has been saved; a refused one is logged, and nothing      *)
(* depends on which it was.                                                *)
(*                                                                         *)
(* A mark reads the application first and writes its own columns later.    *)
(***************************************************************************)
EXTENDS Maanedsliste

CONSTANTS
    Letters,      \* bound: the applications there may be, numbered from 1
    KeepFor,      \* how long they are kept: a year, in whatever unit
    LastSeason    \* bound: the last moment there is

ASSUME AdmissionsAssumption ==
    /\ {"letter", "mark"} \subseteq Kinds
    /\ Letters \subseteq Nat \ {0} /\ KeepFor \in Nat /\ LastSeason \in Nat
    /\ Null \notin [sent: Nat, received: Residents \cup {Null}, discarded: Residents \cup {Null}]

VARIABLES
    season,
    letters,     \* Application: submitted_at, received_by, discarded_by
    marking      \* the marks that have read their application

admVars == <<season, letters, marking>>

Letter == [sent: Nat, received: Residents \cup {Null}, discarded: Residents \cup {Null}]

\* What a request has read; n tells requests apart.
Mark == [kind: {"receive", "discard", "undo"}, n: Nat, who: Residents, letter: Letters,
         copy: Letter]

AdmTypeOK ==
    /\ season \in 0..LastSeason
    /\ letters \in [Letters -> Letter \cup {Null}]
    /\ marking \subseteq Mark

AdmInit ==
    /\ season = 0
    /\ letters = [l \in Letters |-> Null]
    /\ marking = {}

NextSeason ==
    /\ Make("season")
    /\ season < LastSeason
    /\ season' = season + 1
    /\ UNCHANGED <<letters, marking>>

\* ansoeg and fremlej
SendLetter ==
    LET l == made["letter"] + 1
    IN  /\ Make("letter")
        /\ l \in Letters
        /\ letters' = [letters EXCEPT ![l] =
              [sent |-> season, received |-> Null, discarded |-> Null]]
        /\ UNCHANGED <<season, marking>>

\* mark_received and toggle_discarded: what there is to do is read off the application.
BeginMark(r, l) ==
    /\ Make("mark")
    /\ letters[l] # Null
    /\ MayEdit(r)
    /\ \E kind \in {"receive", "discard", "undo"} :
        /\ kind = "receive" => letters[l].received = Null
        /\ kind = "discard" => letters[l].discarded = Null
        /\ kind = "undo" => letters[l].discarded # Null
        /\ marking' = marking \cup
              {[kind |-> kind, n |-> made'["mark"], who |-> r, letter |-> l, copy |-> letters[l]]}
    /\ UNCHANGED <<season, letters>>

\* What a mark makes of an application.
Marked(letter, q) ==
    CASE q.kind = "receive" -> [letter EXCEPT !.received = q.who]
      [] q.kind = "discard" -> [letter EXCEPT !.discarded = q.who]
      [] q.kind = "undo"    -> [letter EXCEPT !.discarded = Null]

\* update_fields: the mark's own columns, of the row as it is by now.
OwnColumns(q) == Marked(letters[q.letter], q)

\* The save fails if the application is gone.
EndMark(q) ==
    /\ marking' = marking \ {q}
    /\ letters' = IF letters[q.letter] = Null THEN letters
                  ELSE [letters EXCEPT ![q.letter] = OwnColumns(q)]
    /\ UNCHANGED <<season, made>>

Old(l) == letters[l] # Null /\ letters[l].sent + KeepFor < season

\* purge_applications
PurgeLetters ==
    /\ \E l \in Letters : Old(l)
    /\ letters' = [l \in Letters |-> IF Old(l) THEN Null ELSE letters[l]]
    /\ UNCHANGED <<season, marking, made>>

AdmStep ==
    /\ \/ NextSeason \/ SendLetter \/ PurgeLetters
       \/ \E r \in Residents, l \in Letters : BeginMark(r, l)
       \/ \E q \in marking : EndMark(q)
    /\ UNCHANGED <<listVars, mix>>

-----------------------------------------------------------------------------
(* Properties *)

\* Two officers may mark an application at once, and neither mark undoes the other's: one that has
\* been received stays received, and what is not a year old stays, though a discarding or its undoing
\* had read it before.  Who received it may change: the later of two marks wins.
ReceivedStays ==
    [][\A l \in Letters : letters[l] # Null /\ letters[l].received # Null =>
          \/ letters'[l] # Null /\ letters'[l].received # Null
          \/ letters'[l] = Null /\ letters[l].sent + KeepFor < season]_<<listVars, admVars>>

==============================================================================
