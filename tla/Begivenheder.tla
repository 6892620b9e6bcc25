---------------------------- MODULE Begivenheder ----------------------------
(***************************************************************************)
(* One event of src/app/events: its row, the residents' answers to it, and *)
(* the gunicorn workers and cron commands that read and write both.        *)
(*                                                                         *)
(* Seating is derived, never stored: the first `capacity' ja rows in the   *)
(* order of answered_at hold the seats.  Every request runs against        *)
(* PostgreSQL at READ COMMITTED without a lock of its own, so a request is *)
(* modelled as the steps between which another request's commit can land:  *)
(* what it reads, what it writes uncommitted (jobs[w] holds it), and its   *)
(* commit.  Within one step the order of the code is kept.                 *)
(*                                                                         *)
(* Time is counted in ticks; answered_at is a separate counter, because    *)
(* only its order matters and two readings of a microsecond clock differ.  *)
(***************************************************************************)
EXTENDS Integers, FiniteSets

CONSTANTS
    Residents,        \* the residents who may answer
    Workers,          \* requests in flight at once: gunicorn workers and cron
    StartTimes,       \* values an organiser gives starts_at
    Deadlines,        \* values of rsvp_deadline_at, Null included
    Capacities,       \* values of capacity, Null included
    Mixes,            \* bound: the mixes of requests, ticks and crashes that happen
    ReminderLead,     \* REMINDER_LEAD, in ticks
    Retention,        \* RETENTION_AFTER_END, in ticks
    CancelledGrace,   \* CANCELLED_GRACE, in ticks
    Null              \* SQL NULL

Kinds == {"answer", "edit", "cancel", "delete", "sweep", "remind", "crash", "tick",
          "address", "fetch", "download"}

ASSUME ConstantsAssumption ==
    /\ IsFiniteSet(Residents) /\ IsFiniteSet(Workers)
    /\ Null \notin Nat \cup Residents
    /\ StartTimes \subseteq Nat
    /\ Deadlines \subseteq Nat \cup {Null}
    /\ Capacities \subseteq Nat \cup {Null}
    /\ {ReminderLead, Retention, CancelledGrace} \subseteq Nat
    /\ Mixes \subseteq [Kinds -> Nat]

VARIABLES
    now,        \* core.clock.current_datetime(), in ticks
    event,      \* the row of the event; event.live says whether it exists
    rsvps,      \* the committed answer of each resident
    stamp,      \* the latest answered_at any request has read off the clock
    jobs,       \* what each worker's request has in memory
    told,       \* residents whose latest word from the system was "you have a seat"
    reminders,  \* how often the deadline reminder went out
    made        \* how many requests, ticks and crashes there have been

vars == <<now, event, rsvps, stamp, jobs, told, reminders, made>>

-----------------------------------------------------------------------------
(* The rows *)

Answers == {"none", "ja", "nej"}      \* "none": the resident has no row

Event == [live: BOOLEAN, starts: Nat, deadline: Nat \cup {Null},
          capacity: Nat \cup {Null}, cancelledAt: Nat \cup {Null},
          sequence: Nat, reminded: BOOLEAN]

Rsvp == [answer: Answers, at: Nat]
NoAnswer == [answer |-> "none", at |-> 0]

Job == [pc: {"idle", "read", "wrote", "chosen", "editing", "cancelling",
             "deleting", "emptied", "due", "claimed"},
        seen: Event, resident: Residents \cup {Null}, answer: Answers,
        found: Answers, at: Nat, before: SUBSET Residents, changed: BOOLEAN,
        promoted: Residents \cup {Null}, rows: SUBSET Residents]

Idle == [pc |-> "idle",
         seen |-> [live |-> FALSE, starts |-> 0, deadline |-> Null, capacity |-> Null,
                   cancelledAt |-> Null, sequence |-> 0, reminded |-> FALSE],
         resident |-> Null, answer |-> "none", found |-> "none", at |-> 0,
         before |-> {}, changed |-> FALSE, promoted |-> Null, rows |-> {}]

TypeOK ==
    /\ now \in Nat
    /\ event \in Event
    /\ rsvps \in [Residents -> Rsvp]
    /\ stamp \in Nat
    /\ jobs \in [Workers -> Job]
    /\ told \in SUBSET Residents
    /\ reminders \in Nat
    /\ made \in [Kinds -> Nat]

-----------------------------------------------------------------------------
(* What the code derives from the rows *)

IsCancelled(e) == e.cancelledAt # Null

AnswersClose(e) == IF e.deadline = Null THEN e.starts ELSE e.deadline

AnswersLocked(e, t) == IsCancelled(e) \/ AnswersClose(e) <= t

Committed(rows) == {r \in Residents : rows[r].answer = "ja"}

Ahead(rows, r) == {s \in Committed(rows) : rows[s].at < rows[r].at}

\* services.seated: the first `capacity' of the committed, all of them without a cap.
Seated(rows, capacity) ==
    {r \in Committed(rows) :
        capacity = Null \/ Cardinality(Ahead(rows, r)) < capacity}

Expired(e, t) ==
    \/ ~IsCancelled(e) /\ e.starts + Retention < t
    \/ IsCancelled(e) /\ e.cancelledAt + CancelledGrace < t

NeedsReminder(e, t) ==
    /\ ~IsCancelled(e)
    /\ ~e.reminded
    /\ e.deadline # Null
    /\ e.deadline > t
    /\ e.deadline <= t + ReminderLead

-----------------------------------------------------------------------------
(* Requests *)

Make(k) ==
    /\ made' = [made EXCEPT ![k] = @ + 1]
    /\ \E m \in Mixes : \A j \in Kinds : made'[j] <= m[j]

\* A worker takes on a request of kind k.
Accepts(w, k) ==
    /\ jobs[w].pc = "idle"
    /\ Make(k)

Finish(w) == jobs' = [jobs EXCEPT ![w] = Idle]

\* The row lock that an uncommitted INSERT, UPDATE or DELETE of r's answer takes.
Holds(w, r) ==
    \/ jobs[w].pc \in {"wrote", "chosen"} /\ jobs[w].changed /\ jobs[w].resident = r
    \/ jobs[w].pc = "emptied" /\ r \in jobs[w].rows

RowFree(w, r) == \A v \in Workers \ {w} : ~Holds(v, r)

\* What w's own statements see: the committed rows and its own write.
View(w) ==
    IF jobs[w].changed
    THEN [rsvps EXCEPT ![jobs[w].resident] = [answer |-> jobs[w].answer, at |-> jobs[w].at]]
    ELSE rsvps

Init ==
    /\ now = 0
    /\ \E s \in StartTimes, d \in Deadlines, c \in Capacities :
        /\ d # Null => d <= s
        /\ event = [live |-> TRUE, starts |-> s, deadline |-> d, capacity |-> c,
                    cancelledAt |-> Null, sequence |-> 0, reminded |-> FALSE]
    \* The event may already have collected answers, in any order.
    /\ \E yes \in SUBSET Residents : \E at \in [yes -> 1..Cardinality(yes)] :
        /\ \A r, s \in yes : r # s => at[r] # at[s]
        /\ rsvps = [r \in Residents |-> IF r \in yes THEN [answer |-> "ja", at |-> at[r]]
                                                     ELSE NoAnswer]
        /\ stamp = Cardinality(yes)
    /\ jobs = [w \in Workers |-> Idle]
    /\ told = Seated(rsvps, event.capacity)
    /\ reminders = 0
    /\ made = [k \in Kinds |-> 0]

Tick ==
    /\ Make("tick")
    /\ now' = now + 1
    /\ UNCHANGED <<event, rsvps, stamp, jobs, told, reminders>>

-----------------------------------------------------------------------------
(* services.set_answer, in the transaction that views.answer opens *)

\* The reads the transaction opens with: the event and its deadline, who is
\* seated, the clock, and the resident's own row.
BeginAnswer(w, r, a) ==
    /\ event.live
    /\ ~AnswersLocked(event, now)
    /\ Accepts(w, "answer")
    /\ stamp' = stamp + 1
    /\ jobs' = [jobs EXCEPT ![w] =
                   [Idle EXCEPT !.pc = "read", !.seen = event, !.resident = r, !.answer = a,
                                !.found = rsvps[r].answer, !.at = stamp + 1,
                                !.before = Seated(rsvps, event.capacity)]]
    /\ UNCHANGED <<now, event, rsvps, told, reminders>>

\* Whether the answer is written: get_or_create's INSERT (or, if another request has
\* created the row since, its second SELECT), or the UPDATE of a row whose answer was
\* read to be another.
Changes(w) ==
    IF jobs[w].found = "none" THEN rsvps[jobs[w].resident].answer # jobs[w].answer
                              ELSE jobs[w].found # jobs[w].answer

\* save(update_fields=...) of a row deleted since it was read.
RowVanished(w) ==
    /\ jobs[w].found # "none"
    /\ Changes(w)
    /\ rsvps[jobs[w].resident].answer = "none"

WriteAnswer(w) ==
    /\ jobs[w].pc = "read"
    /\ ~RowVanished(w)
    /\ Changes(w) => RowFree(w, jobs[w].resident)
    /\ jobs' = [jobs EXCEPT ![w].pc = "wrote", ![w].changed = Changes(w)]
    /\ UNCHANGED <<now, event, rsvps, stamp, told, reminders, made>>

\* Mutant: the test on the resident the wrong way round.
CrossedOneself(w) ==
    (Seated(View(w), jobs[w].seen.capacity) \ jobs[w].before) \cap {jobs[w].resident}

\* Who, other than the resident, crossed the line because of this answer.
Crossed(w) ==
    (Seated(View(w), jobs[w].seen.capacity) \ jobs[w].before) \ {jobs[w].resident}

\* The first of them is promoted, then `break'.
ChoosePromoted(w) ==
    /\ jobs[w].pc = "wrote"
    /\ \/ /\ Crossed(w) = {}
          /\ jobs' = [jobs EXCEPT ![w].pc = "chosen"]
       \/ \E p \in Crossed(w) :
          /\ \A r \in Crossed(w) : View(w)[p].at <= View(w)[r].at
          /\ jobs' = [jobs EXCEPT ![w].pc = "chosen", ![w].promoted = p]
    /\ UNCHANGED <<now, event, rsvps, stamp, told, reminders, made>>

\* The row whose promoted_at is to be saved was deleted since it was read.
PromotedVanished(w) ==
    jobs[w].promoted # Null /\ rsvps[jobs[w].promoted].answer = "none"

\* The UPDATE of promoted_at, which waits for the row; the commit, which checks the
\* foreign key; then the promotion push and the panel the view renders from a fresh read.
CommitAnswer(w) ==
    LET job == jobs[w]
        panel == IF job.resident \in Seated(View(w), event.capacity)
                 THEN told \cup {job.resident} ELSE told \ {job.resident}
    IN  /\ job.pc = "chosen"
        /\ event.live
        /\ job.promoted # Null => RowFree(w, job.promoted)
        /\ ~PromotedVanished(w)
        /\ rsvps' = View(w)
        /\ told' = IF job.promoted = Null THEN panel ELSE panel \cup {job.promoted}
        /\ Finish(w)
        /\ UNCHANGED <<now, event, stamp, reminders, made>>

\* w waits for a row that v has written.
WaitsFor(w, v) ==
    /\ jobs[w].pc = "chosen"
    /\ jobs[w].promoted # Null
    /\ w # v
    /\ Holds(v, jobs[w].promoted)

\* PostgreSQL aborts a transaction on a cycle of waits.
Deadlocked(w) ==
    \E S \in SUBSET Workers :
        /\ w \in S
        /\ \A u \in S : (\E v \in S : WaitsFor(u, v)) /\ (\E v \in S : WaitsFor(v, u))

\* Mutant: what the database refuses is tried again from the write on, with the rows read before.
TriesAgain(w) ==
    /\ \/ jobs[w].pc = "read" /\ RowVanished(w)
       \/ jobs[w].pc = "chosen" /\ (~event.live \/ PromotedVanished(w))
       \/ Deadlocked(w)
    /\ jobs' = [jobs EXCEPT ![w].pc = "read"]
    /\ UNCHANGED <<now, event, rsvps, stamp, told, reminders, made>>

\* The transaction is rolled back: a row it meant to update or the event it
\* refers to is gone, or it is the victim of a deadlock.
AbortAnswer(w) ==
    /\ \/ jobs[w].pc = "read" /\ RowVanished(w)
       \/ jobs[w].pc = "chosen" /\ (~event.live \/ PromotedVanished(w))
       \/ Deadlocked(w)
    /\ Finish(w)
    /\ UNCHANGED <<now, event, rsvps, stamp, told, reminders, made>>

-----------------------------------------------------------------------------
(* views.edit, views.cancel and views.delete *)

\* EventForm: a deadline after the start, and a capacity under the number of
\* seats already taken, are refused.
FormIsValid(s, d, c) ==
    /\ d # Null => d <= s
    /\ c # Null => c >= Cardinality(Seated(rsvps, event.capacity))

\* The start stands for every field somebody planned around.
SignificantChange(e, s) == s # e.starts

\* The form changes the instance in memory.
BeginEdit(w, s, d, c) ==
    /\ event.live
    /\ ~IsCancelled(event)
    /\ FormIsValid(s, d, c)
    /\ Accepts(w, "edit")
    /\ jobs' = [jobs EXCEPT ![w] =
                   [Idle EXCEPT !.pc = "editing",
                                !.seen = [event EXCEPT !.starts = s, !.deadline = d,
                                             !.capacity = c,
                                             !.sequence = IF SignificantChange(event, s)
                                                          THEN @ + 1 ELSE @]]]
    /\ UNCHANGED <<now, event, rsvps, stamp, told, reminders>>

\* updated.save(): every column, as this request read or set it; a row that has
\* been deleted meanwhile is inserted again.
SaveEdit(w) ==
    /\ jobs[w].pc = "editing"
    /\ event' = jobs[w].seen
    /\ Finish(w)
    /\ UNCHANGED <<now, rsvps, stamp, told, reminders, made>>

\* Mutant: the SEQUENCE counts down, and below zero.
CancelledCountingDown(e, t) == [e EXCEPT !.cancelledAt = t, !.sequence = @ - 1]

\* Mutant: a cancellation that no SEQUENCE announces.
CancelledQuietly(e, t) == [e EXCEPT !.cancelledAt = t]

\* What services.cancel makes of the instance in memory.
Cancelled(e, t) == [e EXCEPT !.cancelledAt = t, !.sequence = @ + 1]

BeginCancel(w) ==
    /\ event.live
    /\ ~IsCancelled(event)
    /\ Accepts(w, "cancel")
    /\ jobs' = [jobs EXCEPT ![w] =
                   [Idle EXCEPT !.pc = "cancelling", !.seen = Cancelled(event, now)]]
    /\ UNCHANGED <<now, event, rsvps, stamp, told, reminders>>

\* save(update_fields=...): nothing but these columns, and an error if the row is gone.
SaveCancel(w) ==
    /\ jobs[w].pc = "cancelling"
    /\ event' = IF event.live
                THEN [event EXCEPT !.cancelledAt = jobs[w].seen.cancelledAt,
                                   !.sequence = jobs[w].seen.sequence]
                ELSE event
    /\ Finish(w)
    /\ UNCHANGED <<now, rsvps, stamp, told, reminders, made>>

\* access.can_delete: nobody has said ja.
CanDelete == Committed(rsvps) = {}

BeginDelete(w) ==
    /\ event.live
    /\ CanDelete
    /\ Accepts(w, "delete")
    /\ jobs' = [jobs EXCEPT ![w] = [Idle EXCEPT !.pc = "deleting"]]
    /\ UNCHANGED <<now, event, rsvps, stamp, told, reminders>>

\* EventQuerySet.purge_expired: the SELECT of what retention is done with.
BeginSweep(w) ==
    /\ event.live
    /\ Expired(event, now)
    /\ Accepts(w, "sweep")
    /\ jobs' = [jobs EXCEPT ![w] = [Idle EXCEPT !.pc = "deleting"]]
    /\ UNCHANGED <<now, event, rsvps, stamp, told, reminders>>

Rows == {r \in Residents : rsvps[r].answer # "none"}

\* The transaction of Model.delete and of QuerySet.delete opens with one DELETE of the
\* event's answers, uncommitted.  It waits for the rows others hold, and it does not see
\* an answer that is inserted and not yet committed.
DeleteAnswers(w) ==
    /\ jobs[w].pc = "deleting"
    /\ \A r \in Rows : RowFree(w, r)
    /\ jobs' = [jobs EXCEPT ![w].pc = "emptied", ![w].rows = Rows]
    /\ UNCHANGED <<now, event, rsvps, stamp, told, reminders, made>>

\* Mutant: a foreign key the database does not enforce.
NothingChecked(w) == TRUE

\* The foreign key, checked at the commit: no answer has come that was not deleted.
NothingLeftBehind(w) == Rows \subseteq jobs[w].rows

\* The DELETE of the event and the commit; if the foreign key fails, all is rolled back.
RemoveEvent(w) ==
    /\ jobs[w].pc = "emptied"
    /\ IF NothingLeftBehind(w)
       THEN /\ event' = [event EXCEPT !.live = FALSE]
            /\ rsvps' = [r \in Residents |-> IF r \in jobs[w].rows THEN NoAnswer ELSE rsvps[r]]
       ELSE UNCHANGED <<event, rsvps>>
    /\ Finish(w)
    /\ UNCHANGED <<now, stamp, told, reminders, made>>

-----------------------------------------------------------------------------
(* services.send_deadline_reminder, from cron or from the events list *)

BeginReminder(w) ==
    /\ event.live
    /\ NeedsReminder(event, now)
    /\ Accepts(w, "remind")
    /\ jobs' = [jobs EXCEPT ![w] = [Idle EXCEPT !.pc = "due"]]
    /\ UNCHANGED <<now, event, rsvps, stamp, told, reminders>>

\* Mutant: an UPDATE without its condition.
ClaimableAlways == event.live

Claimable == event.live /\ ~event.reminded

\* The conditional UPDATE whose row count decides who sends.
ClaimReminder(w) ==
    /\ jobs[w].pc = "due"
    /\ IF Claimable
       THEN /\ event' = [event EXCEPT !.reminded = TRUE]
            /\ jobs' = [jobs EXCEPT ![w].pc = "claimed"]
       ELSE /\ UNCHANGED event
            /\ Finish(w)
    /\ UNCHANGED <<now, rsvps, stamp, told, reminders, made>>

SendReminder(w) ==
    /\ jobs[w].pc = "claimed"
    /\ reminders' = reminders + 1
    /\ Finish(w)
    /\ UNCHANGED <<now, event, rsvps, stamp, told, made>>

\* A worker dies (a deploy, gunicorn's 60 s timeout, an exception): what it had
\* not committed is gone.
Crash(w) ==
    /\ jobs[w].pc # "idle"
    /\ Make("crash")
    /\ Finish(w)
    /\ UNCHANGED <<now, event, rsvps, stamp, told, reminders>>

-----------------------------------------------------------------------------

Arrive(w) ==
    \/ \E r \in Residents, a \in {"ja", "nej"} : BeginAnswer(w, r, a)
    \/ \E s \in StartTimes, d \in Deadlines, c \in Capacities : BeginEdit(w, s, d, c)
    \/ BeginCancel(w)
    \/ BeginDelete(w)
    \/ BeginSweep(w)
    \/ BeginReminder(w)

Advance(w) ==
    \/ WriteAnswer(w)
    \/ ChoosePromoted(w)
    \/ CommitAnswer(w)
    \/ AbortAnswer(w)
    \/ SaveEdit(w)
    \/ SaveCancel(w)
    \/ DeleteAnswers(w)
    \/ RemoveEvent(w)
    \/ ClaimReminder(w)
    \/ SendReminder(w)

Next == Tick \/ \E w \in Workers : Arrive(w) \/ Advance(w) \/ Crash(w)

Spec == Init /\ [][Next]_vars

\* The server keeps running the requests it has taken on.
FairSpec == Spec /\ \A w \in Workers : WF_vars(Advance(w))

-----------------------------------------------------------------------------
(* Properties of every interleaving *)

\* An answer never outlives its event: whichever way an answer and a delete or a
\* purge interleave, no row is left pointing at an event that is gone.
NoOrphans == ~event.live => Rows = {}

\* The claim on the reminder is a compare-and-swap: only an edit, whose save writes
\* back the column as it read it, can make a second reminder possible, and one
\* edit makes at most one.
Claimants == {w \in Workers : jobs[w].pc = "claimed"}
RemindersPerEdit ==
    reminders + Cardinality(Claimants) <= 1 + made["edit"]

\* Every request the server takes on ends, although answers wait for each other's rows.
RequestsFinish == \A w \in Workers : jobs[w].pc # "idle" ~> jobs[w].pc = "idle"

-----------------------------------------------------------------------------
(* Properties the code has when requests do not overlap *)

\* "A list that does not shuffle under people after they were told they were in":
\* who was told of a seat and has not withdrawn has it.
SeatKept ==
    event.live =>
        \A r \in told : rsvps[r].answer = "ja" => r \in Seated(rsvps, event.capacity)

\* A cancelled event is frozen: it keeps its row and its answers until the purge takes it.
CancelledStaysFrozen ==
    [][event.live /\ IsCancelled(event) =>
         ~event'.live \/ (event' = event /\ rsvps' = rsvps)]_vars

-----------------------------------------------------------------------------
(* The event as a waiting list *)

\* services._committed: those who said ja, in the order of answered_at.
InOrder(rows) ==
    [i \in 1..Cardinality(Committed(rows)) |->
        CHOOSE r \in Committed(rows) : Cardinality(Ahead(rows, r)) = i - 1]

Promise == INSTANCE WaitingList
    WITH Guests <- Residents, Sizes <- Capacities, Unlimited <- Null,
         queue <- InOrder(rsvps), size <- event.capacity, informed <- told,
         off <- IsCancelled(event), over <- Expired(event, now)

\* "Every ja, in the order the queue is served": with requests that do not overlap, an event is one
\* queue, whose head has the seats; whoever moves up is told, nobody who was told is overtaken, what
\* is cancelled stays as it is, and what somebody said ja to is not deleted before it is over.
ImplementsWaitingList == Promise!Spec
=============================================================================
