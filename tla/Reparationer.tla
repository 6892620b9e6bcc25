----------------------------- MODULE Reparationer -----------------------------
(***************************************************************************)
(* The repair board: the tickets on the server (src/app/reparationer), the *)
(* sweep that archives them, and a board in a browser on which cards are   *)
(* dragged (src/frontend/src/reparationer.ts).                             *)
(*                                                                         *)
(* A board moves the card at once, tells the server, and puts the card     *)
(* back where it was taken up if the answer is no.  The roles that a board *)
(* was rendered for are those of that moment; the server looks again.      *)
(***************************************************************************)
EXTENDS Maanedsliste

CONSTANTS
    Tickets,
    Statuses,       \* RepairTask.Status
    Boards,         \* residents who have a board open
    ArchiveAfter,   \* ARCHIVE_AFTER_DAYS
    LastDay         \* bound: the last day there is

Days == 0..LastDay
Ticket == [status: Statuses, responsible: {"vicevaert", "repper"}, updated: Days,
           archived: Days \cup {Null}]

ManagerOnly == {"ak_projekt", "faerdig"} \cap Statuses

ASSUME ReparationerAssumption ==
    /\ {"ny", "faerdig"} \subseteq Statuses /\ Null \notin Statuses \cup Int \cup Ticket
    /\ Boards \subseteq Residents
    /\ ArchiveAfter \in Nat /\ LastDay \in Nat

VARIABLES
    day,
    tickets,    \* RepairTask: its status, who is responsible, updated_at, archived_at
    notes,      \* RepairComment: who has a note on a ticket
    done,       \* history: the day on which a ticket last became faerdig
    board,      \* a browser's board: where each card is, and the moves without an answer
    astray      \* history: the cards that a board can not be expected to show as they are

repVars == <<day, tickets, notes, done, board, astray>>

\* commit(): a move, from the column where the card was picked up; here: by the page that is open.
Move == [ticket: Tickets, from: Statuses, to: Statuses, here: BOOLEAN,
         answer: {"none", "moved", "refused", "lost"}]
Board == [manage: BOOLEAN, shown: [Tickets -> Statuses \cup {Null}], moves: SUBSET Move]

RepTypeOK ==
    /\ day \in Days
    /\ tickets \in [Tickets -> Ticket \cup {Null}]
    /\ notes \in [Tickets -> SUBSET Residents]
    /\ done \in [Tickets -> Days]
    /\ board \in [Boards -> Board \cup {Null}]
    /\ astray \in [Boards -> SUBSET Tickets]

RepInit ==
    /\ day = 0
    /\ tickets = [t \in Tickets |-> Null]
    /\ notes = [t \in Tickets |-> {}]
    /\ done = [t \in Tickets |-> 0]
    /\ board = [p \in Boards |-> Null]
    /\ astray = [p \in Boards |-> {}]

\* MANAGE_ROLES and MOVE_ROLES, of the month in effect.
Manages(r) == roles[Active][r] \cap {"repper", "inspektion", "administrator"} # {}
Moves(r) == Manages(r) \/ "vicevaert" \in roles[Active][r]

NextDay ==
    /\ Make("day")
    /\ day < LastDay
    /\ day' = day + 1
    /\ UNCHANGED <<tickets, notes, done, board, astray>>

-----------------------------------------------------------------------------
(* The server *)

\* The boards on which the card of t is no longer where it was.
Strayed(t, p) == [q \in Boards |-> IF q = p THEN astray[q] ELSE astray[q] \cup {t}]

Report(t) ==
    /\ Make("report")
    /\ tickets[t] = Null
    /\ tickets' = [tickets EXCEPT ![t] =
          [status |-> "ny", responsible |-> "vicevaert", updated |-> day, archived |-> Null]]
    /\ astray' = Strayed(t, Null)
    /\ UNCHANGED <<day, notes, done, board>>

MayMove(r, status) == Moves(r) /\ (status \in ManagerOnly => Manages(r))

\* set_status on a ticket that is there, archived or not.
WithStatus(t, status) == [tickets EXCEPT ![t].status = status, ![t].updated = day]

\* What set_status does; p is the board that asked for it, if one did.
SetStatus(t, status, p) ==
    /\ tickets' = WithStatus(t, status)
    /\ done' = IF status = "faerdig" /\ tickets[t].status # "faerdig"
               THEN [done EXCEPT ![t] = day] ELSE done
    /\ astray' = Strayed(t, p)

\* A form on the page of the ticket.
MoveByForm(r, t, status) ==
    /\ Make("form")
    /\ tickets[t] # Null /\ MayMove(r, status)
    /\ SetStatus(t, status, Null)
    /\ UNCHANGED <<day, notes, board>>

\* set_responsible
HandOver(r, t) ==
    /\ Make("form")
    /\ tickets[t] # Null /\ Moves(r)
    /\ tickets' = [tickets EXCEPT ![t].updated = day,
          ![t].responsible = IF @ = "repper" THEN "vicevaert" ELSE "repper"]
    /\ UNCHANGED <<day, notes, done, board, astray>>

Delete(r, t) ==
    /\ Make("form")
    /\ tickets[t] # Null /\ Manages(r)
    /\ tickets' = [tickets EXCEPT ![t] = Null]
    /\ notes' = [notes EXCEPT ![t] = {}]
    /\ astray' = Strayed(t, Null)
    /\ UNCHANGED <<day, done, board>>

\* create_comment, and delete_comment by its author or a manager.
AddNote(r, t) ==
    /\ Make("note")
    /\ r \in accounts /\ tickets[t] # Null
    /\ notes' = [notes EXCEPT ![t] = @ \cup {r}]
    /\ UNCHANGED <<day, tickets, done, board, astray>>

DeleteNote(me, r, t) ==
    /\ Make("note")
    /\ r \in notes[t] /\ (me = r \/ Manages(me))
    /\ notes' = [notes EXCEPT ![t] = @ \ {r}]
    /\ UNCHANGED <<day, tickets, done, board, astray>>

ArchiveNow(r, t) ==
    /\ Make("form")
    /\ tickets[t] # Null /\ Manages(r)
    /\ tickets[t].status = "faerdig" /\ tickets[t].archived = Null
    /\ tickets' = [tickets EXCEPT ![t].archived = day]
    /\ astray' = Strayed(t, Null)
    /\ UNCHANGED <<day, notes, done, board>>

Unarchive(r, t) ==
    /\ Make("form")
    /\ tickets[t] # Null /\ Manages(r) /\ tickets[t].archived # Null
    /\ tickets' = [tickets EXCEPT ![t].archived = Null]
    /\ astray' = Strayed(t, Null)
    /\ UNCHANGED <<day, notes, done, board>>

\* due_for_archive
Due(t) ==
    /\ tickets[t] # Null
    /\ tickets[t].status = "faerdig" /\ tickets[t].archived = Null
    /\ tickets[t].updated + ArchiveAfter < day

\* archive_finished_repairs
Sweep ==
    /\ \E t \in Tickets : Due(t)
    /\ tickets' = [t \in Tickets |-> IF Due(t) THEN [tickets[t] EXCEPT !.archived = day]
                                     ELSE tickets[t]]
    /\ astray' = [p \in Boards |-> astray[p] \cup {t \in Tickets : Due(t)}]
    /\ UNCHANGED <<day, notes, done, board, made>>

-----------------------------------------------------------------------------
(* A board in a browser *)

\* The requests that the page before has sent, and that the server does not have yet.
Underway(p) ==
    IF board[p] = Null THEN {} ELSE {m \in board[p].moves : m.answer = "none"}

Load(p) ==
    /\ Make("load")
    /\ Moves(p)
    /\ board' = [board EXCEPT ![p] = [manage |-> Manages(p),
          moves |-> {[m EXCEPT !.here = FALSE] : m \in Underway(p)},
          shown |-> [t \in Tickets |-> IF tickets[t] # Null /\ tickets[t].archived = Null
                                       THEN tickets[t].status ELSE Null]]]
    /\ astray' = [astray EXCEPT ![p] = {m.ticket : m \in Underway(p)}]
    /\ UNCHANGED <<day, tickets, notes, done>>

InFlight(p, t) == {m \in board[p].moves : m.ticket = t}

\* finish(): the card is put into the column, and the server is told.
Drag(p, t, column) ==
    /\ Make("drag")
    /\ board[p] # Null /\ board[p].shown[t] \notin {Null, column}
    /\ column \in ManagerOnly => board[p].manage
    /\ board' = [board EXCEPT ![p].shown[t] = column, ![p].moves = @ \cup
          {[ticket |-> t, from |-> board[p].shown[t], to |-> column, here |-> TRUE,
            answer |-> "none"]}]
    /\ astray' = [astray EXCEPT ![p] = IF InFlight(p, t) = {} THEN @ ELSE @ \cup {t}]
    /\ UNCHANGED <<day, tickets, notes, done>>

Answered(p, m, answer) ==
    board' = [board EXCEPT ![p].moves = (@ \ {m}) \cup {[m EXCEPT !.answer = answer]}]

\* set_status takes the move.
AcceptMove(p, m) ==
    /\ m.answer = "none"
    /\ tickets[m.ticket] # Null /\ MayMove(p, m.to)
    /\ SetStatus(m.ticket, m.to, p)
    /\ Answered(p, m, "moved")
    /\ UNCHANGED <<day, notes, made>>

\* It is gone, or p's roles are not what the board was rendered for: 404, 403, or ok: false.
RefuseMove(p, m) ==
    /\ m.answer = "none"
    /\ tickets[m.ticket] = Null \/ ~MayMove(p, m.to)
    /\ Answered(p, m, "refused")
    /\ UNCHANGED <<day, tickets, notes, done, astray, made>>

\* The connection breaks, before the server has the request or after.
LoseMove(p, m) ==
    /\ Make("lose")
    /\ m.answer \in {"none", "moved"}
    /\ Answered(p, m, "lost")
    /\ astray' = [astray EXCEPT ![p] = IF m.answer = "moved" THEN @ \cup {m.ticket} ELSE @]
    /\ UNCHANGED <<day, tickets, notes, done>>

\* Mutant: a refusal that comes with status 200 is not looked at.
LeftThere(p, m) == board[p].shown[m.ticket]

\* commit() after the answer: where the card is then.
PutAt(p, m) == IF m.answer = "moved" \/ ~m.here THEN board[p].shown[m.ticket] ELSE m.from

Settle(p, m) ==
    /\ m.answer # "none"
    /\ board' = [board EXCEPT ![p].moves = @ \ {m}, ![p].shown[m.ticket] = PutAt(p, m)]
    /\ UNCHANGED <<day, tickets, notes, done, astray, made>>

-----------------------------------------------------------------------------

RepStep ==
    /\ \/ NextDay
       \/ \E t \in Tickets : Report(t)
       \/ \E r \in Residents, t \in Tickets :
            \/ \E status \in Statuses : MoveByForm(r, t, status)
            \/ HandOver(r, t) \/ Delete(r, t) \/ ArchiveNow(r, t) \/ Unarchive(r, t)
            \/ AddNote(r, t) \/ \E me \in Residents : DeleteNote(me, r, t)
       \/ Sweep
       \/ \E p \in Boards :
            \/ Load(p)
            \/ \E t \in Tickets, column \in Statuses : Drag(p, t, column)
            \/ \E m \in (IF board[p] = Null THEN {} ELSE board[p].moves) :
                 AcceptMove(p, m) \/ RefuseMove(p, m) \/ LoseMove(p, m) \/ Settle(p, m)
    /\ UNCHANGED <<listVars, mix>>

-----------------------------------------------------------------------------
(* Properties *)

\* A board at rest shows a card where the server has the ticket, whatever was refused on the way:
\* unless somebody else moved it, the card was dragged again before the answer to the last time, or
\* an answer was lost after the server had moved it.  In those three cases it may not.
BoardInStep ==
    \A p \in Boards, t \in Tickets :
        board[p] # Null /\ t \notin astray[p] /\ InFlight(p, t) = {} =>
            board[p].shown[t] =
                IF tickets[t] = Null \/ tickets[t].archived # Null THEN Null ELSE tickets[t].status

\* The sweep takes updated_at for the day on which the ticket became faerdig, and every request that
\* moves a ticket has to set it: what it archives has been faerdig for longer than ArchiveAfter.
RestedBeforeArchive ==
    [][Sweep => \A t \in Tickets : tickets'[t] # tickets[t] => done[t] + ArchiveAfter < day]_repVars

==============================================================================
