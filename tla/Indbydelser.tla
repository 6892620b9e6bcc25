------------------------------- MODULE Indbydelser -------------------------------
(***************************************************************************)
(* Who may see an event and who is told of it (src/app/events/access.py,   *)
(* services.py and core/push.py): open events, events for those invited,   *)
(* and the guest list, which a form reconciles after it has saved the      *)
(* event, in a transaction of its own.                                     *)
(*                                                                         *)
(* A notification goes out in a thread of its own once the page has        *)
(* committed, and asks the database only then whom to tell; the event it   *)
(* asks about is the one the page had in memory.  A reminder goes out of   *)
(* the page or the command that sends it, one event after the other.       *)
(*                                                                         *)
(* Deadlines, capacities that change, deletions, answers that overlap and  *)
(* the claim of a reminder are those of Begivenheder.                      *)
(***************************************************************************)
EXTENDS Maanedsliste

CONSTANTS
    Parties,       \* the ids of events
    Seats,         \* Event.capacity, of every event; Null: no limit
    MinInvitees,   \* MIN_INVITEES
    FormsAtOnce,   \* bound: how many forms are being saved at once
    AccessRoles    \* ACCESS_ROLES: whose role opens the feature during a trial; Null: everybody

\* An Event: its organiser, its co-organisers, whether it is for those invited only, whether it is off.
Party == [organiser: Residents, with: SUBSET Residents, private: BOOLEAN, cancelled: BOOLEAN]

ASSUME FestAssumption ==
    /\ {"party", "draft", "change", "ja", "host", "cancel", "nudge"} \subseteq Kinds
    /\ Parties \subseteq Nat /\ MinInvitees \in Nat /\ FormsAtOnce \in Nat
    /\ Seats = Null \/ Seats \in Nat
    /\ AccessRoles = Null \/ AccessRoles \subseteq Roles
    /\ Null \notin Party

VARIABLES
    parties,      \* Event
    invites,      \* EventInvite: the id of each resident's invitation; 0: there is none
    lastInvite,   \* the sequence behind the ids
    coming,       \* Rsvp: when each resident's ja was given; 0: he has said none
    declined,     \* Rsvp: who has said nej
    drafts,       \* the forms being saved
    cancels,      \* the cancellations under way, each as what it will tell
    dues,         \* the events that are still to be reminded of
    sends         \* notifications on their way: threads, and the reminder that a round is at

festVars == <<parties, invites, lastInvite, coming, declined, drafts, cancels, dues, sends>>

GuestList == [Residents -> Nat]
Nobody == [r \in Residents |-> 0]

\* A form: whether it makes the event, or changes what people planned around, or neither; the
\* visibility, the guests and the cancellation that it saves; the invitations when it began and when
\* it read them; who could see the event as it saved it; and whether no other form of the event has
\* been under way meanwhile.
Draft == [n: Nat, of: Parties, what: {"new", "changed", "kept"}, private: BOOLEAN,
          guests: SUBSET Residents, cancelled: BOOLEAN, step: {"save", "read", "write"},
          before: GuestList, seen: GuestList, could: SUBSET Residents, alone: BOOLEAN]

\* A notification: the visibility of the event that is in memory; who could see the event when it was
\* read or saved, and when it was looked up whom to tell, if that is before it goes out, and who that
\* is.  n numbers those of a kind; of reminders, the round.
Send == [what: {"new", "changed", "cancelled", "promoted", "reminder"}, n: Nat, of: Parties,
         private: BOOLEAN, could: SUBSET Residents, asked: SUBSET Residents, to: SUBSET Residents]

FestTypeOK ==
    /\ parties \in [Parties -> Party \cup {Null}]
    /\ invites \in [Parties -> GuestList]
    /\ lastInvite \in Nat
    /\ coming \in [Parties -> GuestList]
    /\ declined \in [Parties -> SUBSET Residents]
    /\ drafts \subseteq Draft
    /\ cancels \subseteq Send /\ dues \subseteq Send /\ sends \subseteq Send

FestInit ==
    /\ parties = [p \in Parties |-> Null]
    /\ invites = [p \in Parties |-> Nobody]
    /\ lastInvite = 0
    /\ coming = [p \in Parties |-> Nobody]
    /\ declined = [p \in Parties |-> {}]
    /\ drafts = {} /\ cancels = {} /\ dues = {} /\ sends = {}

-----------------------------------------------------------------------------
(* access.py *)

\* Gate: the effective roles, in the month that is in effect.
MayUse(r) == AccessRoles # Null => roles[Active][r] \cap AccessRoles # {}

Invited(p) == {r \in Residents : invites[p][r] # 0}
Hosts(p) == {parties[p].organiser} \cup parties[p].with

\* visible_to
VisibleTo(p) == IF parties[p].private THEN Hosts(p) \cup Invited(p) ELSE Residents
MayOpen(r, p) == parties[p] # Null /\ r \in accounts /\ MayUse(r) /\ r \in VisibleTo(p)

\* can_edit, can_cancel, of an event that the page has found.
MayManage(r, p) == MayOpen(r, p) /\ r \in Hosts(p) /\ ~parties[p].cancelled

\* invitable_residents: who lives here this month, but the organiser.
Invitable(organiser) == OnList(Active) \ {organiser}

\* EventForm.clean, on create and on edit alike.
GuestsAreEnough(private, guests) == private => Cardinality(guests) >= MinInvitees

-----------------------------------------------------------------------------
(* Who is told; everybody is taken to have a device *)

Coming(p) == {r \in Residents : coming[p][r] # 0}

\* Mutant: the house is told, as of an open event.
TheHouse(s) == {r \in Residents : MayUse(r)}

\* _audience, of the event as it is in memory.
Audience(s) == {r \in Residents : MayUse(r) /\ (s.private => r \in Invited(s.of))}

\* notify_new_event, notify_changed, notify_cancelled: whom the thread finds; send_deadline_reminder:
\* those it has looked up whose role still opens the feature; notify_promoted: one resident.
Told(s) ==
    CASE s.what = "new"       -> Audience(s) \ {parties[s.of].organiser}
      [] s.what = "changed"   -> (Audience(s) \cap Coming(s.of)) \ {parties[s.of].organiser}
      [] s.what = "cancelled" -> Audience(s) \cap Coming(s.of)
      [] s.what = "reminder"  -> {r \in s.to : MayUse(r)}
      [] s.what = "promoted"  -> s.to

\* _dispatch: Told(s) are told.
Deliver(s) ==
    /\ sends' = sends \ {s}
    /\ UNCHANGED <<parties, invites, lastInvite, coming, declined, drafts, cancels, dues, made>>

\* What a thread will ask the database for.
Query(what, n, p, private, could) ==
    [what |-> what, n |-> n, of |-> p, private |-> private, could |-> could,
     asked |-> {}, to |-> {}]

-----------------------------------------------------------------------------
(* create and edit *)

\* The forms saved so far: the number of the last.
Saves == made["party"] + made["draft"] + made["change"]

OthersOf(p) == {d \in drafts : d.of = p}

\* create: the event is there before its guest list is.
CreateParty(p, me, private, guests) ==
    /\ Make("party") /\ Cardinality(drafts) < FormsAtOnce
    /\ parties[p] = Null /\ \A q \in Parties : q < p => parties[q] # Null
    /\ me \in accounts /\ MayUse(me)
    /\ guests \subseteq Invitable(me) /\ GuestsAreEnough(private, guests)
    /\ UNCHANGED <<invites, lastInvite, coming, declined, cancels, dues, sends>>
    /\ parties' = [parties EXCEPT ![p] =
          [organiser |-> me, with |-> {}, private |-> private, cancelled |-> FALSE]]
    /\ drafts' = drafts \cup
          {[n |-> Saves', of |-> p, what |-> "new", private |-> private, guests |-> guests,
            cancelled |-> FALSE, step |-> "read", before |-> invites[p], seen |-> Nobody,
            could |-> VisibleTo(p)', alone |-> TRUE]}

\* edit: the event is read, and the form is valid.
BeginDraft(p, me, private, guests, matters) ==
    /\ Make(IF matters THEN "change" ELSE "draft") /\ Cardinality(drafts) < FormsAtOnce
    /\ MayManage(me, p)
    /\ guests \subseteq Invitable(parties[p].organiser) /\ GuestsAreEnough(private, guests)
    /\ drafts' = {[d EXCEPT !.alone = @ /\ d.of # p] : d \in drafts} \cup
          {[n |-> Saves', of |-> p, what |-> IF matters THEN "changed" ELSE "kept",
            private |-> private, guests |-> guests, cancelled |-> parties[p].cancelled,
            step |-> "save", before |-> invites[p], seen |-> Nobody, could |-> {},
            alone |-> OthersOf(p) = {}]}
    /\ UNCHANGED <<parties, invites, lastInvite, coming, declined, cancels, dues, sends>>

\* updated.save(), a transaction of its own and of every column: a cancellation since then is undone
\* (of the organiser's and the co-organisers an edit changes nothing).  notify_changed starts its
\* thread before sync_invites.
SaveDraft(d) ==
    /\ d.step = "save"
    /\ UNCHANGED <<invites, lastInvite, coming, declined, cancels, dues, made>>
    /\ parties' = [parties EXCEPT ![d.of] = [@ EXCEPT !.private = d.private, !.cancelled = d.cancelled]]
    /\ drafts' = (drafts \ {d}) \cup {[d EXCEPT !.step = "read", !.could = VisibleTo(d.of)']}
    /\ sends' = IF d.what = "changed"
                THEN sends \cup {Query("changed", d.n, d.of, d.private, VisibleTo(d.of)')}
                ELSE sends

\* sync_invites reads the invitations,
ReadGuests(d) ==
    /\ d.step = "read"
    /\ drafts' = (drafts \ {d}) \cup {[d EXCEPT !.step = "write", !.seen = invites[d.of]]}
    /\ UNCHANGED <<parties, invites, lastInvite, coming, declined, cancels, dues, sends, made>>

\* Mutant: the guest list is cleared and written again.
Rewritten(d) == [r \in Residents |-> IF r \in d.guests THEN lastInvite + 1 ELSE 0]

\* deletes those it has read of residents who are not wanted, and makes those that it has not.
Reconciled(d) ==
    [r \in Residents |->
        CASE r \in d.guests /\ d.seen[r] = 0 -> lastInvite + 1
          [] r \notin d.guests /\ d.seen[r] = invites[d.of][r] -> 0
          [] OTHER -> invites[d.of][r]]

\* uniq_event_invite: another form has invited the same resident meanwhile.
AlreadyInvited(d) == \E r \in d.guests : d.seen[r] = 0 /\ r \in Invited(d.of)

\* All in a transaction: with such a clash the page ends in an error, the event saved and its guest
\* list as it was, and nobody hears of a new event.
WriteGuests(d) ==
    /\ d.step = "write"
    /\ invites' = IF AlreadyInvited(d) THEN invites ELSE [invites EXCEPT ![d.of] = Reconciled(d)]
    /\ lastInvite' = lastInvite + 1
    /\ drafts' = drafts \ {d}
    /\ sends' = IF d.what = "new" /\ ~AlreadyInvited(d)
                THEN sends \cup {Query("new", d.n, d.of, d.private, d.could)} ELSE sends
    /\ UNCHANGED <<parties, coming, declined, cancels, dues, made>>

-----------------------------------------------------------------------------
(* The other pages *)

\* In the admin: nothing else makes a co-organiser.
AppointHost(p, r) ==
    /\ Make("host")
    /\ parties[p] # Null
    /\ parties' = [parties EXCEPT ![p].with = @ \cup {r}]
    /\ UNCHANGED <<invites, lastInvite, coming, declined, drafts, cancels, dues, sends>>

\* cancel: the event is read,
BeginCancel(p, me) ==
    /\ Make("cancel")
    /\ MayManage(me, p)
    /\ cancels' = cancels \cup
          {Query("cancelled", made'["cancel"], p, parties[p].private, VisibleTo(p))}
    /\ UNCHANGED <<parties, invites, lastInvite, coming, declined, drafts, dues, sends>>

\* and the columns of a cancellation are saved.
SaveCancel(c) ==
    /\ parties' = [parties EXCEPT ![c.of].cancelled = TRUE]
    /\ cancels' = cancels \ {c}
    /\ sends' = sends \cup {c}
    /\ UNCHANGED <<invites, lastInvite, coming, declined, drafts, dues, made>>

\* seated: the first who said ja, as many as there are seats.
Seated(p) ==
    {r \in Coming(p) :
        Seats # Null => Cardinality({q \in Coming(p) : coming[p][q] < coming[p][r]}) < Seats}

\* set_answer: an answer that is another takes its place in the queue; whoever thereby moves up from
\* the waiting list is told, of the feature's roles and the guest list nobody asks.
Answer(p, r, yes) ==
    /\ Make("ja")
    /\ MayOpen(r, p) /\ ~parties[p].cancelled
    /\ coming' = [coming EXCEPT ![p][r] =
          CASE ~yes -> 0 [] yes /\ @ = 0 -> made'["ja"] [] OTHER -> @]
    /\ declined' = [declined EXCEPT ![p] = IF yes THEN @ \ {r} ELSE @ \cup {r}]
    /\ sends' = sends \cup
          {[what |-> "promoted", n |-> made'["ja"], of |-> p, private |-> parties[p].private,
            could |-> VisibleTo(p), asked |-> VisibleTo(p), to |-> {q}] :
              q \in (Seated(p)' \ Seated(p)) \ {r}}
    /\ UNCHANGED <<parties, invites, lastInvite, drafts, cancels, dues>>

-----------------------------------------------------------------------------
(* Reminders *)

\* events_needing_reminder: the events that are due, all read at once; which of those that are on they
\* are is for Begivenheder to say.
BeginNudge(due) ==
    /\ Make("nudge")
    /\ due # {} /\ \A p \in due : parties[p] # Null /\ ~parties[p].cancelled
    /\ dues' = dues \cup
          {Query("reminder", made'["nudge"], p, parties[p].private, VisibleTo(p)) : p \in due}
    /\ UNCHANGED <<parties, invites, lastInvite, coming, declined, drafts, cancels, sends>>

\* deadline_reminder_audience: of the event as it was read, and of who has answered and who hosts it now.
Undecided(d) ==
    (IF d.private THEN Invited(d.of) ELSE OnList(Active))
        \ (Coming(d.of) \cup declined[d.of] \cup Hosts(d.of))

\* send_deadline_reminder: one event after the other, each when the one before has gone out.
AskWhom(d) ==
    /\ ~\E s \in sends : s.what = "reminder" /\ s.n = d.n
    /\ dues' = dues \ {d}
    /\ sends' = sends \cup {[d EXCEPT !.asked = VisibleTo(d.of), !.to = Undecided(d)]}
    /\ UNCHANGED <<parties, invites, lastInvite, coming, declined, drafts, cancels, made>>

FestStep ==
    /\ \/ /\ Within("party") \/ Within("draft") \/ Within("change")
          /\ \E p \in Parties, me \in Residents, private \in BOOLEAN, guests \in SUBSET Residents :
                \/ CreateParty(p, me, private, guests)
                \/ \E matters \in BOOLEAN : BeginDraft(p, me, private, guests, matters)
       \/ \E p \in Parties, r \in Residents :
             AppointHost(p, r) \/ BeginCancel(p, r) \/ \E yes \in BOOLEAN : Answer(p, r, yes)
       \/ \E due \in SUBSET Parties : BeginNudge(due)
       \/ \E d \in drafts : SaveDraft(d) \/ ReadGuests(d) \/ WriteGuests(d)
       \/ \E c \in cancels : SaveCancel(c)
       \/ \E d \in dues : AskWhom(d)
       \/ \E s \in sends : Deliver(s)
    /\ UNCHANGED <<listVars, mix>>

-----------------------------------------------------------------------------
(* Properties *)

\* "Make the guest list match", "reconciled rather than cleared-and-rewritten", "the four-invitee
\* minimum, on create and on edit alike": a form that no other of the event overlaps ends with its own
\* guest list, everybody who stays on it keeps the invitation he had, and an event for those invited
\* has guests enough; whatever forms that did overlap have left behind before it.
EditTakesHold ==
    [][\A d \in drafts :
          d.step = "write" /\ d.alone /\ (\A e \in drafts' : e.n # d.n) =>
              /\ Invited(d.of)' = d.guests
              /\ \A r \in d.guests : d.before[r] # 0 => invites'[d.of][r] = d.before[r]
              /\ GuestsAreEnough(parties'[d.of].private, Invited(d.of)')]_festVars

\* "The invite list is literally the audience", though threads ask for it late, forms overlap and a
\* round of reminders goes by what it read before its first: whomever a notification of a new, changed,
\* cancelled or due event tells as it goes out now can open the event, or could when it was looked up
\* whom to tell, or when the page that tells him read or saved the event.  Of a seat nothing is promised:
\* whoever is taken off the guest list while he waits keeps his place in the queue, and notify_promoted
\* asks nobody who may come.
ToldMayCome ==
    \A s \in sends :
        s.what # "promoted" => Told(s) \subseteq s.could \cup s.asked \cup VisibleTo(s.of)

=================================================================================
