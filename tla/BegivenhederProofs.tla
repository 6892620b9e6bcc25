------------------------- MODULE BegivenhederProofs -------------------------
(* What Begivenheder guarantees for every set of residents and workers. *)
EXTENDS Kalender, FiniteSetTheorems, Sequences, TLAPS

-----------------------------------------------------------------------------
(* Types *)

LEMMA IdleIsJob == Idle \in Job
  BY DEF Idle, Job, Event, Answers

\* Seats and promotions are given to residents, whatever the rows say.
LEMMA SeatedAreResidents ==
  ASSUME NEW rows, NEW capacity
  PROVE  Seated(rows, capacity) \subseteq Residents
  BY DEF Seated, Committed

LEMMA ViewIsRsvps ==
  ASSUME TypeOK, NEW w \in Workers
  PROVE  View(w) \in [Residents -> Rsvp]
  BY DEF TypeOK, View, Job, Rsvp, Answers

\* Counting one more request keeps the counters' type.
LEMMA MakeKeepsType ==
  ASSUME TypeOK, NEW k \in Kinds, Make(k)
  PROVE  made' \in [Kinds -> Nat]
  BY DEF TypeOK, Make

LEMMA ArriveKeepsType ==
  ASSUME TypeOK, NEW w \in Workers, Arrive(w)
  PROVE  TypeOK'
  <1> USE DEF ConstantsAssumption
  <1> USE ConstantsAssumption
  <1>1. ASSUME NEW r \in Residents, NEW a \in {"ja", "nej"}, BeginAnswer(w, r, a)
        PROVE  TypeOK'
    <2> DEFINE job == [Idle EXCEPT !.pc = "read", !.seen = event, !.resident = r, !.answer = a,
                                   !.found = rsvps[r].answer, !.at = stamp + 1,
                                   !.before = Seated(rsvps, event.capacity)]
    <2>1. job \in Job
      <3>1. event \in Event /\ stamp + 1 \in Nat
        BY DEF TypeOK
      <3>2. rsvps[r].answer \in Answers
        BY DEF TypeOK, Rsvp
      <3>3. Seated(rsvps, event.capacity) \in SUBSET Residents
        BY SeatedAreResidents
      <3> QED
        BY <3>1, <3>2, <3>3 DEF Job, Idle, Answers
    <2>2. jobs' \in [Workers -> Job]
      BY <1>1, <2>1 DEF BeginAnswer, TypeOK
    <2>3. made' \in [Kinds -> Nat]
      BY <1>1, MakeKeepsType DEF BeginAnswer, Accepts, Kinds
    <2>4. UNCHANGED <<now, event, rsvps, told, reminders>> /\ stamp' = stamp + 1
      BY <1>1 DEF BeginAnswer
    <2> QED
      BY <2>2, <2>3, <2>4 DEF TypeOK
  <1>2. ASSUME NEW s \in StartTimes, NEW d \in Deadlines, NEW c \in Capacities,
               BeginEdit(w, s, d, c)
        PROVE  TypeOK'
    <2> DEFINE row == [event EXCEPT !.starts = s, !.deadline = d, !.capacity = c,
                                    !.sequence = IF SignificantChange(event, s) THEN @ + 1 ELSE @]
               job == [Idle EXCEPT !.pc = "editing", !.seen = row]
    <2>0. s \in Nat /\ d \in Nat \cup {Null} /\ c \in Nat \cup {Null}
      OBVIOUS
    <2>1. row \in Event
      <3>1. event \in Event
        BY DEF TypeOK
      <3>2. (IF SignificantChange(event, s) THEN event.sequence + 1 ELSE event.sequence) \in Nat
        BY <3>1 DEF Event
      <3> QED
        BY <2>0, <3>1, <3>2 DEF Event
    <2>2. job \in Job
      BY <2>1 DEF Job, Idle, Answers
    <2>3. jobs' \in [Workers -> Job]
      BY <1>2, <2>2 DEF BeginEdit, TypeOK
    <2>4. made' \in [Kinds -> Nat]
      BY <1>2, MakeKeepsType DEF BeginEdit, Accepts, Kinds
    <2>5. UNCHANGED <<now, event, rsvps, stamp, told, reminders>>
      BY <1>2 DEF BeginEdit
    <2> QED
      BY <2>3, <2>4, <2>5 DEF TypeOK
  <1>3. ASSUME BeginCancel(w) PROVE TypeOK'
    <2>1. Cancelled(event, now) \in Event
      <3>1. event \in Event /\ now \in Nat \cup {Null}
        BY DEF TypeOK
      <3>2. event.sequence + 1 \in Nat
        BY <3>1 DEF Event
      <3> QED
        BY <3>1, <3>2 DEF Event, Cancelled
    <2>2. [Idle EXCEPT !.pc = "cancelling", !.seen = Cancelled(event, now)] \in Job
      BY <2>1 DEF Job, Idle, Answers
    <2>3. jobs' \in [Workers -> Job]
      BY <1>3, <2>2 DEF BeginCancel, TypeOK
    <2>4. made' \in [Kinds -> Nat]
      BY <1>3, MakeKeepsType DEF BeginCancel, Accepts, Kinds
    <2>5. UNCHANGED <<now, event, rsvps, stamp, told, reminders>>
      BY <1>3 DEF BeginCancel
    <2> QED
      BY <2>3, <2>4, <2>5 DEF TypeOK
  <1>4. ASSUME BeginDelete(w) \/ BeginSweep(w) \/ BeginReminder(w) PROVE TypeOK'
    <2>1. /\ [Idle EXCEPT !.pc = "deleting"] \in Job
          /\ [Idle EXCEPT !.pc = "due"] \in Job
      BY DEF Job, Idle, Event, Answers
    <2>2. jobs' \in [Workers -> Job]
      BY <1>4, <2>1 DEF BeginDelete, BeginSweep, BeginReminder, TypeOK
    <2>3. made' \in [Kinds -> Nat]
      BY <1>4, MakeKeepsType DEF BeginDelete, BeginSweep, BeginReminder, Accepts, Kinds
    <2> QED
      BY <1>4, <2>2, <2>3 DEF BeginDelete, BeginSweep, BeginReminder, TypeOK
  <1> QED
    BY <1>1, <1>2, <1>3, <1>4 DEF Arrive

\* A request that ends, or goes on to its next step, is still a request.
LEMMA FinishKeepsType ==
  ASSUME TypeOK, NEW w \in Workers, Finish(w)
  PROVE  jobs' \in [Workers -> Job]
  BY IdleIsJob DEF TypeOK, Finish

LEMMA AdvanceKeepsType ==
  ASSUME TypeOK, NEW w \in Workers, Advance(w)
  PROVE  TypeOK'
  <1>1. CASE WriteAnswer(w)
    <2>1. Changes(w) \in BOOLEAN
      BY DEF Changes
    <2>2. [jobs[w] EXCEPT !.pc = "wrote", !.changed = Changes(w)] \in Job
      BY <2>1 DEF TypeOK, Job
    <2> QED
      BY <1>1, <2>2 DEF WriteAnswer, TypeOK
  <1>2. CASE ChoosePromoted(w)
    <2>1. Crossed(w) \subseteq Residents
      BY SeatedAreResidents DEF Crossed
    <2>2. [jobs[w] EXCEPT !.pc = "chosen"] \in Job
      BY DEF TypeOK, Job
    <2>3. \A p \in Crossed(w) : [jobs[w] EXCEPT !.pc = "chosen", !.promoted = p] \in Job
      BY <2>1 DEF TypeOK, Job
    <2> QED
      BY <1>2, <2>2, <2>3 DEF ChoosePromoted, TypeOK
  <1>3. CASE CommitAnswer(w)
    <2>1. rsvps' \in [Residents -> Rsvp]
      BY <1>3, ViewIsRsvps DEF CommitAnswer
    <2>2. told' \in SUBSET Residents
      <3>1. Seated(View(w), event.capacity) \subseteq Residents
        BY SeatedAreResidents
      <3>2. jobs[w].promoted \in Residents \cup {Null}
        BY DEF TypeOK, Job
      <3> QED
        BY <1>3, <3>1, <3>2 DEF CommitAnswer, TypeOK
    <2>3. jobs' \in [Workers -> Job]
      BY <1>3, FinishKeepsType DEF CommitAnswer
    <2> QED
      BY <1>3, <2>1, <2>2, <2>3 DEF CommitAnswer, TypeOK
  <1>4. CASE AbortAnswer(w)
    BY <1>4, FinishKeepsType DEF AbortAnswer, TypeOK
  <1>5. CASE SaveEdit(w)
    <2>1. jobs[w].seen \in Event
      BY DEF TypeOK, Job
    <2> QED
      BY <1>5, <2>1, FinishKeepsType DEF SaveEdit, TypeOK
  <1>6. CASE SaveCancel(w)
    <2>1. jobs[w].seen \in Event
      BY DEF TypeOK, Job
    <2>2. event' \in Event
      BY <1>6, <2>1 DEF SaveCancel, TypeOK, Event
    <2> QED
      BY <1>6, <2>2, FinishKeepsType DEF SaveCancel, TypeOK
  <1>7. CASE DeleteAnswers(w)
    <2>1. [jobs[w] EXCEPT !.pc = "emptied", !.rows = Rows] \in Job
      BY DEF TypeOK, Job, Rows
    <2> QED
      BY <1>7, <2>1 DEF DeleteAnswers, TypeOK
  <1>8. CASE RemoveEvent(w)
    <2>1. NoAnswer \in Rsvp
      BY DEF NoAnswer, Rsvp, Answers
    <2>2. rsvps' \in [Residents -> Rsvp]
      BY <1>8, <2>1 DEF RemoveEvent, TypeOK
    <2>3. event' \in Event
      BY <1>8 DEF RemoveEvent, TypeOK, Event
    <2> QED
      BY <1>8, <2>2, <2>3, FinishKeepsType DEF RemoveEvent, TypeOK
  <1>9. CASE ClaimReminder(w)
    <2>1. [jobs[w] EXCEPT !.pc = "claimed"] \in Job
      BY DEF TypeOK, Job
    <2>2. jobs' \in [Workers -> Job]
      BY <1>9, <2>1, FinishKeepsType DEF ClaimReminder, TypeOK
    <2>3. event' \in Event
      BY <1>9 DEF ClaimReminder, TypeOK, Event
    <2> QED
      BY <1>9, <2>2, <2>3 DEF ClaimReminder, TypeOK
  <1>10. CASE SendReminder(w)
    BY <1>10, FinishKeepsType DEF SendReminder, TypeOK
  <1> QED
    BY <1>1, <1>2, <1>3, <1>4, <1>5, <1>6, <1>7, <1>8, <1>9, <1>10 DEF Advance

LEMMA InitIsTyped == Init => TypeOK
  <1> SUFFICES ASSUME Init PROVE TypeOK
    OBVIOUS
  <1> USE ConstantsAssumption
  <1>1. event \in Event
    BY DEF Init, Event
  <1>2. rsvps \in [Residents -> Rsvp] /\ stamp \in Nat
    <2> DEFINE Start(yes, at) ==
                 /\ rsvps = [r \in Residents |-> IF r \in yes THEN [answer |-> "ja", at |-> at[r]]
                                                              ELSE NoAnswer]
                 /\ stamp = Cardinality(yes)
    <2>0. PICK yes \in SUBSET Residents : \E at \in [yes -> 1..Cardinality(yes)] : Start(yes, at)
      BY DEF Init
    <2>1. PICK at \in [yes -> 1..Cardinality(yes)] : Start(yes, at)
      BY <2>0
    <2>2. Cardinality(yes) \in Nat
      BY FS_Subset, FS_CardinalityType
    <2>3. \A r \in yes : at[r] \in Nat
      BY <2>2
    <2> QED
      BY <2>1, <2>2, <2>3 DEF Rsvp, Answers, NoAnswer
  <1>3. jobs \in [Workers -> Job]
    BY IdleIsJob DEF Init
  <1>4. told \in SUBSET Residents
    BY SeatedAreResidents DEF Init
  <1> QED
    BY <1>1, <1>2, <1>3, <1>4 DEF Init, TypeOK, Kinds

LEMMA TypeStep == TypeOK /\ [Next]_vars => TypeOK'
  <1> SUFFICES ASSUME TypeOK, [Next]_vars PROVE TypeOK'
    OBVIOUS
  <1>1. CASE Tick
    BY <1>1, MakeKeepsType DEF Tick, TypeOK, Kinds
  <1>2. ASSUME NEW w \in Workers, Arrive(w) PROVE TypeOK'
    BY <1>2, ArriveKeepsType
  <1>3. ASSUME NEW w \in Workers, Advance(w) PROVE TypeOK'
    BY <1>3, AdvanceKeepsType
  <1>4. ASSUME NEW w \in Workers, Crash(w) PROVE TypeOK'
    <2>1. made' \in [Kinds -> Nat]
      BY <1>4, MakeKeepsType DEF Crash, Kinds
    <2> QED
      BY <1>4, <2>1, FinishKeepsType DEF Crash, TypeOK
  <1>5. CASE UNCHANGED vars
    BY <1>5 DEF vars, TypeOK
  <1> QED
    BY <1>1, <1>2, <1>3, <1>4, <1>5 DEF Next

\* Every variable keeps its type: the rows, the requests in memory, the counters.
THEOREM TypeCorrect == Spec => []TypeOK
  BY InitIsTyped, TypeStep, PTL DEF Spec

-----------------------------------------------------------------------------
(* No answer outlives its event *)

\* What an edit writes back is a row that existed, so only a removal ends it.
EditsAreOfLiveRows == \A w \in Workers : jobs[w].pc = "editing" => jobs[w].seen.live

OrphanInv == TypeOK /\ EditsAreOfLiveRows /\ NoOrphans

LEMMA OrphanInvStep == OrphanInv /\ TypeOK' /\ [Next]_vars => OrphanInv'
  <1> SUFFICES ASSUME OrphanInv, TypeOK', [Next]_vars
               PROVE  EditsAreOfLiveRows' /\ NoOrphans'
    BY DEF OrphanInv
  <1> USE DEF OrphanInv
  \* A step that leaves the rows alone and lets no other request begin to edit.
  <1>1. ASSUME NEW w \in Workers, NEW job, jobs' = [jobs EXCEPT ![w] = job],
               job.pc # "editing", event'.live = event.live, UNCHANGED rsvps
        PROVE  EditsAreOfLiveRows' /\ NoOrphans'
    BY <1>1 DEF EditsAreOfLiveRows, NoOrphans, Rows, TypeOK
  <1>2. ASSUME NEW w \in Workers, NEW job, jobs' = [jobs EXCEPT ![w] = job],
               job.pc # "editing", event'.live
        PROVE  EditsAreOfLiveRows' /\ NoOrphans'
    BY <1>2 DEF EditsAreOfLiveRows, NoOrphans, TypeOK
  <1>3. Idle.pc # "editing"
    BY DEF Idle
  <1>4. CASE Tick
    BY <1>4 DEF Tick, EditsAreOfLiveRows, NoOrphans, Rows
  <1>5. ASSUME NEW w \in Workers, Arrive(w) PROVE EditsAreOfLiveRows' /\ NoOrphans'
    <2>1. ASSUME NEW r \in Residents, NEW a \in {"ja", "nej"}, BeginAnswer(w, r, a)
          PROVE  EditsAreOfLiveRows' /\ NoOrphans'
      <3> DEFINE job == [Idle EXCEPT !.pc = "read", !.seen = event, !.resident = r,
                                     !.answer = a, !.found = rsvps[r].answer, !.at = stamp + 1,
                                     !.before = Seated(rsvps, event.capacity)]
      <3>1. job.pc # "editing"
        BY DEF Idle
      <3> QED
        BY <1>1, <2>1, <3>1 DEF BeginAnswer
    <2>2. ASSUME NEW s \in StartTimes, NEW d \in Deadlines, NEW c \in Capacities,
                 BeginEdit(w, s, d, c)
          PROVE  EditsAreOfLiveRows' /\ NoOrphans'
      <3> DEFINE row == [event EXCEPT !.starts = s, !.deadline = d, !.capacity = c,
                                      !.sequence = IF SignificantChange(event, s) THEN @ + 1 ELSE @]
                 job == [Idle EXCEPT !.pc = "editing", !.seen = row]
      <3>1. row.live = event.live
        BY DEF TypeOK, Event
      <3>2. job.seen = row
        BY DEF Idle
      <3>3. jobs' = [jobs EXCEPT ![w] = job] /\ event.live /\ UNCHANGED <<event, rsvps>>
        BY <2>2 DEF BeginEdit
      <3> HIDE DEF row, job
      <3>4. EditsAreOfLiveRows'
        BY <3>1, <3>2, <3>3 DEF EditsAreOfLiveRows, TypeOK
      <3> QED
        BY <3>3, <3>4 DEF NoOrphans
    <2>3. CASE BeginCancel(w)
      <3>1. [Idle EXCEPT !.pc = "cancelling", !.seen = Cancelled(event, now)].pc # "editing"
        BY DEF Idle
      <3> QED
        BY <1>1, <2>3, <3>1 DEF BeginCancel
    <2>4. CASE BeginDelete(w)
      <3>1. [Idle EXCEPT !.pc = "deleting"].pc # "editing"
        BY DEF Idle
      <3> QED
        BY <1>1, <2>4, <3>1 DEF BeginDelete
    <2>5. CASE BeginSweep(w)
      <3>1. [Idle EXCEPT !.pc = "deleting"].pc # "editing"
        BY DEF Idle
      <3> QED
        BY <1>1, <2>5, <3>1 DEF BeginSweep
    <2>6. CASE BeginReminder(w)
      <3>1. [Idle EXCEPT !.pc = "due"].pc # "editing"
        BY DEF Idle
      <3> QED
        BY <1>1, <2>6, <3>1 DEF BeginReminder
    <2> QED
      BY <1>5, <2>1, <2>2, <2>3, <2>4, <2>5, <2>6 DEF Arrive
  <1>6. ASSUME NEW w \in Workers, Advance(w) PROVE EditsAreOfLiveRows' /\ NoOrphans'
    <2>1. CASE WriteAnswer(w) \/ ChoosePromoted(w) \/ DeleteAnswers(w)
      BY <2>1 DEF WriteAnswer, ChoosePromoted, DeleteAnswers, EditsAreOfLiveRows, NoOrphans,
                  Rows, TypeOK, Job
    <2>2. CASE CommitAnswer(w)
      BY <1>2, <1>3, <2>2 DEF CommitAnswer, Finish
    <2>3. CASE AbortAnswer(w) \/ SendReminder(w)
      BY <1>1, <1>3, <2>3 DEF AbortAnswer, SendReminder, Finish
    <2>4. CASE SaveEdit(w)
      BY <1>2, <1>3, <2>4 DEF SaveEdit, Finish, EditsAreOfLiveRows
    <2>5. CASE SaveCancel(w)
      <3>1. event'.live = event.live
        BY <2>5 DEF SaveCancel, TypeOK, Event
      <3> QED
        BY <1>1, <1>3, <2>5, <3>1 DEF SaveCancel, Finish
    <2>6. CASE RemoveEvent(w)
      <3>1. CASE NothingLeftBehind(w)
        <4>1. Rows' = {}
          BY <2>6, <3>1 DEF RemoveEvent, NothingLeftBehind, Rows, NoAnswer, TypeOK
        <4>2. EditsAreOfLiveRows'
          BY <1>3, <2>6 DEF RemoveEvent, Finish, EditsAreOfLiveRows, TypeOK
        <4> QED
          BY <4>1, <4>2 DEF NoOrphans
      <3>2. CASE ~NothingLeftBehind(w)
        BY <1>1, <1>3, <2>6, <3>2 DEF RemoveEvent, Finish
      <3> QED
        BY <3>1, <3>2
    <2>7. CASE ClaimReminder(w)
      <3>1. event'.live = event.live
        BY <2>7 DEF ClaimReminder, TypeOK, Event
      <3> QED
        BY <2>7, <3>1, <1>3 DEF ClaimReminder, Finish, EditsAreOfLiveRows, NoOrphans, Rows,
                                TypeOK, Job
    <2> QED
      BY <1>6, <2>1, <2>2, <2>3, <2>4, <2>5, <2>6, <2>7 DEF Advance
  <1>7. ASSUME NEW w \in Workers, Crash(w) PROVE EditsAreOfLiveRows' /\ NoOrphans'
    BY <1>1, <1>3, <1>7 DEF Crash, Finish
  <1>8. CASE UNCHANGED vars
    BY <1>8 DEF vars, EditsAreOfLiveRows, NoOrphans, Rows
  <1> QED
    BY <1>4, <1>5, <1>6, <1>7, <1>8 DEF Next

\* However answers, edits, deletes and purges interleave, no answer is left behind by
\* an event that is gone: the foreign key and the row locks suffice.
THEOREM OrphansNever == Spec => []NoOrphans
  <1>1. Init => OrphanInv
    <2> SUFFICES ASSUME Init PROVE OrphanInv
      OBVIOUS
    <2>1. event.live
      BY DEF Init
    <2>2. EditsAreOfLiveRows
      BY DEF Init, Idle, EditsAreOfLiveRows
    <2> QED
      BY <2>1, <2>2, InitIsTyped DEF OrphanInv, NoOrphans
  <1>2. OrphanInv => NoOrphans
    BY DEF OrphanInv
  <1> QED
    BY <1>1, <1>2, TypeCorrect, OrphanInvStep, PTL DEF Spec

-----------------------------------------------------------------------------
(* The deadline reminder *)

\* An edit in flight may yet write the claim back, a claimant may yet send.
Pending == {w \in Workers : jobs[w].pc \in {"editing", "claimed"}}

Weight(job) == IF job.pc \in {"editing", "claimed"} THEN 1 ELSE 0

Unclaimed == IF event.reminded THEN 0 ELSE 1

\* RemindersPerEdit is not inductive: an edit in flight may yet write the claim back.
\* What is: every reminder still to come is accounted for by the free claim, by a
\* claimant, or by an edit in flight.
ReminderInv == reminders + Cardinality(Pending) + Unclaimed <= 1 + made["edit"]

LEMMA WorkerSetsAreFinite ==
  /\ IsFiniteSet(Claimants) /\ Cardinality(Claimants) \in Nat
  /\ IsFiniteSet(Pending) /\ Cardinality(Pending) \in Nat
  /\ Cardinality(Claimants) <= Cardinality(Pending)
  <1>1. IsFiniteSet(Pending) /\ Claimants \subseteq Pending
    BY ConstantsAssumption, FS_Subset DEF ConstantsAssumption, Claimants, Pending
  <1> QED
    BY <1>1, FS_Subset, FS_CardinalityType

\* One worker's step moves at most that worker into, or out of, Pending.
LEMMA OneWorkerMoves ==
  ASSUME TypeOK, NEW w \in Workers, NEW job, jobs' = [jobs EXCEPT ![w] = job]
  PROVE  Cardinality(Pending') = Cardinality(Pending) + Weight(job) - Weight(jobs[w])
  <1> DEFINE P == Pending \ {w}
  <1>1. /\ Pending = IF jobs[w].pc \in {"editing", "claimed"} THEN P \cup {w} ELSE P
        /\ Pending' = IF job.pc \in {"editing", "claimed"} THEN P \cup {w} ELSE P
    BY DEF Pending, TypeOK
  <1>2. IsFiniteSet(P)
    BY WorkerSetsAreFinite, FS_Subset
  <1>3. Cardinality(P) \in Nat
    BY <1>2, FS_CardinalityType
  <1>4. Cardinality(P \cup {w}) = Cardinality(P) + 1
    BY <1>2, FS_AddElement
  <1> HIDE DEF P
  <1> QED
    BY <1>1, <1>3, <1>4 DEF Weight

\* The reminders sent and still to come, against the edits made.
LEMMA NoMorePending ==
  ASSUME TypeOK, TypeOK', ReminderInv, NEW w \in Workers, NEW job,
         jobs' = [jobs EXCEPT ![w] = job],
         reminders' + Weight(job) + Unclaimed' + made["edit"]
            <= reminders + Weight(jobs[w]) + Unclaimed + made'["edit"]
  PROVE  ReminderInv'
  <1>1. Cardinality(Pending') = Cardinality(Pending) + Weight(job) - Weight(jobs[w])
    BY OneWorkerMoves
  <1>2. Cardinality(Pending) \in Nat
    BY WorkerSetsAreFinite
  <1>3. /\ reminders \in Nat /\ reminders' \in Nat
        /\ made["edit"] \in Nat /\ made'["edit"] \in Nat
    BY DEF TypeOK, Kinds
  <1>4. /\ Unclaimed \in {0, 1} /\ Unclaimed' \in {0, 1}
        /\ Weight(job) \in {0, 1} /\ Weight(jobs[w]) \in {0, 1}
    BY DEF Unclaimed, Weight
  <1>5. reminders + Cardinality(Pending) + Unclaimed <= 1 + made["edit"]
    BY DEF ReminderInv
  <1>6. reminders' + Cardinality(Pending') + Unclaimed' <= 1 + made'["edit"]
    BY <1>1, <1>2, <1>3, <1>4, <1>5
  <1> QED
    BY <1>6 DEF ReminderInv

LEMMA ReminderInvStep == TypeOK /\ TypeOK' /\ ReminderInv /\ [Next]_vars => ReminderInv'
  <1> SUFFICES ASSUME TypeOK, TypeOK', ReminderInv, [Next]_vars
               PROVE  ReminderInv'
    OBVIOUS
  <1>0. /\ reminders \in Nat /\ made["edit"] \in Nat /\ made'["edit"] \in Nat
        /\ event.reminded \in BOOLEAN
    BY DEF TypeOK, Kinds, Event
  \* Counting requests never takes an edit back.
  <1>1. ASSUME NEW k \in Kinds, Make(k)
        PROVE  made'["edit"] = made["edit"] + (IF k = "edit" THEN 1 ELSE 0)
    BY <1>1 DEF Make, TypeOK, Kinds
  \* A step that has nothing to do with the reminder.
  <1>2. ASSUME NEW w \in Workers, NEW job, jobs' = [jobs EXCEPT ![w] = job],
               Weight(job) = 0, event'.reminded = event.reminded,
               made'["edit"] = made["edit"], reminders' = reminders
        PROVE  ReminderInv'
    <2>1. Unclaimed' = Unclaimed /\ Unclaimed \in {0, 1} /\ Weight(jobs[w]) \in {0, 1}
      BY <1>2 DEF Unclaimed, Weight
    <2>2. reminders' + Weight(job) + Unclaimed' + made["edit"]
            <= reminders + Weight(jobs[w]) + Unclaimed + made'["edit"]
      BY <1>0, <1>2, <2>1
    <2> QED
      BY <1>2, <2>2, NoMorePending
  <1>3. Weight(Idle) = 0
    BY DEF Idle, Weight
  <1>4. CASE Tick
    <2>1. made'["edit"] = made["edit"]
      BY <1>0, <1>1, <1>4 DEF Tick, Kinds
    <2>2. Pending' = Pending /\ Unclaimed' = Unclaimed /\ reminders' = reminders
      BY <1>4 DEF Tick, Pending, Unclaimed
    <2> QED
      BY <2>1, <2>2 DEF ReminderInv
  <1>5. ASSUME NEW w \in Workers, Arrive(w) PROVE ReminderInv'
    <2>1. ASSUME NEW r \in Residents, NEW a \in {"ja", "nej"}, BeginAnswer(w, r, a)
          PROVE  ReminderInv'
      <3> DEFINE job == [Idle EXCEPT !.pc = "read", !.seen = event, !.resident = r,
                                     !.answer = a, !.found = rsvps[r].answer, !.at = stamp + 1,
                                     !.before = Seated(rsvps, event.capacity)]
      <3>1. Weight(job) = 0
        BY DEF Idle, Weight
      <3>2. made'["edit"] = made["edit"]
        BY <1>0, <1>1, <2>1 DEF BeginAnswer, Accepts, Kinds
      <3>3. jobs' = [jobs EXCEPT ![w] = job] /\ event' = event /\ reminders' = reminders
        BY <2>1 DEF BeginAnswer
      <3> HIDE DEF job
      <3> QED
        BY <1>2, <3>1, <3>2, <3>3
    <2>2. ASSUME NEW s \in StartTimes, NEW d \in Deadlines, NEW c \in Capacities,
                 BeginEdit(w, s, d, c)
          PROVE  ReminderInv'
      <3> DEFINE row == [event EXCEPT !.starts = s, !.deadline = d, !.capacity = c,
                                      !.sequence = IF SignificantChange(event, s) THEN @ + 1 ELSE @]
                 job == [Idle EXCEPT !.pc = "editing", !.seen = row]
      <3>1. Weight(job) = 1
        BY DEF Idle, Weight
      <3>2. made'["edit"] = made["edit"] + 1
        BY <1>1, <2>2 DEF BeginEdit, Accepts, Kinds
      <3>3. jobs' = [jobs EXCEPT ![w] = job] /\ event' = event /\ reminders' = reminders
        BY <2>2 DEF BeginEdit
      <3>4. Unclaimed' = Unclaimed /\ Unclaimed \in {0, 1} /\ Weight(jobs[w]) \in {0, 1}
        BY <3>3 DEF Unclaimed, Weight
      <3> HIDE DEF row, job
      <3>5. reminders' + Weight(job) + Unclaimed' + made["edit"]
              <= reminders + Weight(jobs[w]) + Unclaimed + made'["edit"]
        BY <1>0, <3>1, <3>2, <3>3, <3>4
      <3> QED
        BY <3>3, <3>5, NoMorePending
    <2>3. ASSUME BeginCancel(w) \/ BeginDelete(w) \/ BeginSweep(w) \/ BeginReminder(w)
          PROVE  ReminderInv'
      <3>1. /\ Weight([Idle EXCEPT !.pc = "cancelling", !.seen = Cancelled(event, now)]) = 0
            /\ Weight([Idle EXCEPT !.pc = "deleting"]) = 0
            /\ Weight([Idle EXCEPT !.pc = "due"]) = 0
        BY DEF Idle, Weight
      <3>2. made'["edit"] = made["edit"]
        BY <1>0, <1>1, <2>3 DEF BeginCancel, BeginDelete, BeginSweep, BeginReminder, Accepts, Kinds
      <3>3. PICK job : jobs' = [jobs EXCEPT ![w] = job] /\ Weight(job) = 0
        BY <2>3, <3>1 DEF BeginCancel, BeginDelete, BeginSweep, BeginReminder
      <3>4. event' = event /\ reminders' = reminders
        BY <2>3 DEF BeginCancel, BeginDelete, BeginSweep, BeginReminder
      <3> QED
        BY <1>2, <3>2, <3>3, <3>4
    <2> QED
      BY <1>5, <2>1, <2>2, <2>3 DEF Arrive
  <1>6. ASSUME NEW w \in Workers, Advance(w) PROVE ReminderInv'
    <2>1. ASSUME WriteAnswer(w) \/ ChoosePromoted(w) \/ DeleteAnswers(w) PROVE ReminderInv'
      <3>1. /\ Weight([jobs[w] EXCEPT !.pc = "wrote", !.changed = Changes(w)]) = 0
            /\ Weight([jobs[w] EXCEPT !.pc = "chosen"]) = 0
            /\ \A p : Weight([jobs[w] EXCEPT !.pc = "chosen", !.promoted = p]) = 0
            /\ Weight([jobs[w] EXCEPT !.pc = "emptied", !.rows = Rows]) = 0
        BY DEF TypeOK, Job, Weight
      <3>2. PICK job : jobs' = [jobs EXCEPT ![w] = job] /\ Weight(job) = 0
        <4>1. CASE WriteAnswer(w)
          BY <3>1, <4>1 DEF WriteAnswer, TypeOK
        <4>2. CASE ChoosePromoted(w)
          BY <3>1, <4>2 DEF ChoosePromoted, TypeOK
        <4>3. CASE DeleteAnswers(w)
          BY <3>1, <4>3 DEF DeleteAnswers, TypeOK
        <4> QED
          BY <2>1, <4>1, <4>2, <4>3
      <3>3. event' = event /\ reminders' = reminders /\ made' = made
        BY <2>1 DEF WriteAnswer, ChoosePromoted, DeleteAnswers
      <3> QED
        BY <1>2, <3>2, <3>3
    <2>2. ASSUME CommitAnswer(w) \/ AbortAnswer(w) PROVE ReminderInv'
      <3>1. event' = event /\ reminders' = reminders /\ made' = made
        BY <2>2 DEF CommitAnswer, AbortAnswer
      <3>2. jobs' = [jobs EXCEPT ![w] = Idle]
        BY <2>2 DEF CommitAnswer, AbortAnswer, Finish
      <3> QED
        BY <1>2, <1>3, <3>1, <3>2
    <2>3. ASSUME SaveCancel(w) \/ RemoveEvent(w) PROVE ReminderInv'
      <3>1. event'.reminded = event.reminded
        BY <2>3 DEF SaveCancel, RemoveEvent, TypeOK, Event
      <3>2. jobs' = [jobs EXCEPT ![w] = Idle] /\ reminders' = reminders /\ made' = made
        BY <2>3 DEF SaveCancel, RemoveEvent, Finish
      <3> QED
        BY <1>2, <1>3, <3>1, <3>2
    \* The claim may be written back, and the edit no longer counts.
    <2>4. ASSUME SaveEdit(w) PROVE ReminderInv'
      <3>1. jobs' = [jobs EXCEPT ![w] = Idle] /\ reminders' = reminders /\ made' = made
        BY <2>4 DEF SaveEdit, Finish
      <3>2. Unclaimed \in {0, 1} /\ Unclaimed' \in {0, 1} /\ Weight(jobs[w]) = 1
        BY <2>4 DEF SaveEdit, Unclaimed, Weight
      <3>3. reminders' + Weight(Idle) + Unclaimed' + made["edit"]
              <= reminders + Weight(jobs[w]) + Unclaimed + made'["edit"]
        BY <1>0, <1>3, <3>1, <3>2
      <3> QED
        BY <3>1, <3>3, NoMorePending
    \* The conditional UPDATE turns the free claim into a claimant.
    <2>5. ASSUME ClaimReminder(w), Claimable PROVE ReminderInv'
      <3> DEFINE job == [jobs[w] EXCEPT !.pc = "claimed"]
      <3>1. event' = [event EXCEPT !.reminded = TRUE] /\ ~event.reminded
        BY <2>5 DEF ClaimReminder, Claimable
      <3>2. Unclaimed = 1 /\ Unclaimed' = 0
        BY <3>1 DEF Unclaimed, TypeOK, Event
      <3>3. jobs' = [jobs EXCEPT ![w] = job] /\ reminders' = reminders /\ made' = made
        BY <2>5 DEF ClaimReminder, TypeOK
      <3>4. Weight(job) = 1 /\ Weight(jobs[w]) = 0
        BY <2>5 DEF TypeOK, Job, Weight, ClaimReminder
      <3> HIDE DEF job
      <3>5. reminders' + Weight(job) + Unclaimed' + made["edit"]
              <= reminders + Weight(jobs[w]) + Unclaimed + made'["edit"]
        BY <1>0, <3>2, <3>3, <3>4
      <3> QED
        BY <3>3, <3>5, NoMorePending
    <2>6. ASSUME ClaimReminder(w), ~Claimable PROVE ReminderInv'
      <3>1. event' = event /\ reminders' = reminders /\ made' = made
        BY <2>6 DEF ClaimReminder
      <3>2. jobs' = [jobs EXCEPT ![w] = Idle]
        BY <2>6 DEF ClaimReminder, Finish
      <3> QED
        BY <1>2, <1>3, <3>1, <3>2
    \* A claimant becomes a reminder.
    <2>7. ASSUME SendReminder(w) PROVE ReminderInv'
      <3>1. jobs' = [jobs EXCEPT ![w] = Idle] /\ reminders' = reminders + 1 /\ made' = made
        BY <2>7 DEF SendReminder, Finish
      <3>2. Unclaimed' = Unclaimed /\ Unclaimed \in {0, 1} /\ Weight(jobs[w]) = 1
        BY <2>7 DEF SendReminder, Unclaimed, Weight
      <3>3. reminders' + Weight(Idle) + Unclaimed' + made["edit"]
              <= reminders + Weight(jobs[w]) + Unclaimed + made'["edit"]
        BY <1>0, <1>3, <3>1, <3>2
      <3> QED
        BY <3>1, <3>3, NoMorePending
    <2> QED
      BY <1>6, <2>1, <2>2, <2>3, <2>4, <2>5, <2>6, <2>7 DEF Advance
  <1>7. ASSUME NEW w \in Workers, Crash(w) PROVE ReminderInv'
    <2>1. made'["edit"] = made["edit"]
      BY <1>0, <1>1, <1>7 DEF Crash, Kinds
    <2>2. jobs' = [jobs EXCEPT ![w] = Idle] /\ event' = event /\ reminders' = reminders
      BY <1>7 DEF Crash, Finish
    <2> QED
      BY <1>2, <1>3, <2>1, <2>2
  <1>8. CASE UNCHANGED vars
    <2>1. Pending' = Pending /\ Unclaimed' = Unclaimed /\ reminders' = reminders /\ made' = made
      BY <1>8 DEF vars, Pending, Unclaimed
    <2> QED
      BY <2>1 DEF ReminderInv
  <1> QED
    BY <1>4, <1>5, <1>6, <1>7, <1>8 DEF Next

\* The claim is a compare-and-swap: however many runners overlap, and whatever crashes,
\* the reminder goes out at most once more than there were edits of the event.
THEOREM RemindersAreClaimed == Spec => []RemindersPerEdit
  <1>1. Init => ReminderInv
    <2> SUFFICES ASSUME Init PROVE ReminderInv
      OBVIOUS
    <2>1. Pending = {}
      BY DEF Init, Idle, Pending
    <2>2. Cardinality(Pending) = 0
      BY <2>1, FS_EmptySet
    <2>3. reminders = 0 /\ made["edit"] = 0 /\ Unclaimed = 1
      <3>1. event.reminded = FALSE
        BY DEF Init
      <3> QED
        BY <3>1 DEF Init, Kinds, Unclaimed
    <2> QED
      BY <2>2, <2>3 DEF ReminderInv
  <1>2. TypeOK /\ ReminderInv => RemindersPerEdit
    <2> SUFFICES ASSUME TypeOK, ReminderInv PROVE RemindersPerEdit
      OBVIOUS
    <2>1. reminders \in Nat /\ made["edit"] \in Nat /\ Unclaimed \in {0, 1}
      BY DEF TypeOK, Kinds, Unclaimed
    <2> QED
      BY <2>1, WorkerSetsAreFinite DEF ReminderInv, RemindersPerEdit
  <1> QED
    BY <1>1, <1>2, TypeCorrect, ReminderInvStep, PTL DEF Spec
-----------------------------------------------------------------------------
(***************************************************************************)
(* The calendars.  When requests do not overlap, the row of the event is   *)
(* never given other times, or called off, without a higher SEQUENCE: what *)
(* an edit or a cancellation in flight will write is counted from the row  *)
(* as it still is.  So a copy with the SEQUENCE of the row shows the row.  *)
(***************************************************************************)

LEMMA KalenderInitIsTyped == KalenderInit => KalenderTypeOK
  BY InitIsTyped DEF KalenderInit, KalenderTypeOK, Phone

LEMMA EmittedIsVEvent ==
  ASSUME TypeOK, NEW tentative \in BOOLEAN
  PROVE  Emitted(tentative) \in VEvent /\ Emitted(tentative) # Null /\ Shows(Emitted(tentative))
         /\ Emitted(tentative).sequence = event.sequence
  <1>1. Emitted(tentative) \in VEvent
    BY DEF TypeOK, Event, Emitted, VEvent
  <1> QED
    BY <1>1, KalenderAssumption DEF Emitted, Shows

LEMMA TakenIsVEvent ==
  ASSUME NEW copy \in VEvent \cup {Null}, NEW new \in VEvent
  PROVE  Taken(copy, new) \in VEvent
  BY DEF Taken

LEMMA KalenderStepKeepsType ==
  ASSUME KalenderTypeOK, KalenderStep
  PROVE  KalenderTypeOK'
  <1>1. made \in [Kinds -> Nat] /\ TypeOK /\ phone \in Phone /\ minted \in Nat
        /\ addresses \in [Residents -> Nat]
    BY DEF KalenderTypeOK, TypeOK
  <1>2. ASSUME NEW k \in Kinds, Make(k) PROVE TypeOK'
    <2>1. made' \in [Kinds -> Nat]
      BY <1>1, <1>2, MakeKeepsType
    <2> QED
      BY <1>1, <2>1 DEF KalenderStep, TypeOK
  <1>3. ASSUME NEW r \in Residents, Subscribe(r) PROVE KalenderTypeOK'
    <2>1. Made(r) \in Nat
      BY <1>1 DEF Made
    <2>2. phone' \in Phone
      BY <1>1, <1>3, <2>1 DEF Subscribe, Phone
    <2>3. addresses' \in [Residents -> Nat] /\ minted' \in Nat
      BY <1>1, <1>3, <2>1 DEF Subscribe
    <2> QED
      BY <1>2, <1>3, <2>2, <2>3 DEF KalenderTypeOK, Subscribe, Kinds
  <1>4. ASSUME NEW r \in Residents, Rotate(r) PROVE KalenderTypeOK'
    BY <1>1, <1>2, <1>4 DEF KalenderTypeOK, Rotate, Kinds
  <1>5. CASE Fetch
    <2> DEFINE new == Emitted(Waits(phone.of))
               feed == IF addresses[phone.of] # phone.url THEN phone.feed
                       ELSE IF InFeed(phone.of) THEN Taken(phone.feed, new) ELSE Null
    <2>1. new \in VEvent
      BY <1>1, EmittedIsVEvent DEF Waits
    <2>2. feed \in VEvent \cup {Null}
      <3>1. phone.feed \in VEvent \cup {Null}
        BY <1>1 DEF Phone
      <3> QED
        BY <2>1, <3>1, TakenIsVEvent
    <2>3. phone' = [phone EXCEPT !.feed = feed]
      BY <1>1, <1>5 DEF Fetch, Phone
    <2> HIDE DEF feed
    <2>4. phone' \in Phone
      BY <1>1, <2>2, <2>3 DEF Phone
    <2> QED
      BY <1>1, <1>2, <1>5, <2>4 DEF KalenderTypeOK, Fetch, Kinds
  <1>6. CASE Download
    <2> DEFINE file == Taken(phone.file, Emitted(FALSE))
    <2>1. file \in VEvent
      <3>1. phone.file \in VEvent \cup {Null}
        BY <1>1 DEF Phone
      <3> QED
        BY <1>1, <3>1, EmittedIsVEvent, TakenIsVEvent
    <2>2. phone' = [phone EXCEPT !.file = file]
      BY <1>1, <1>6 DEF Download, Phone
    <2> HIDE DEF file
    <2>3. phone' \in Phone
      BY <1>1, <2>1, <2>2 DEF Phone
    <2> QED
      BY <1>1, <1>2, <1>6, <2>3 DEF KalenderTypeOK, Download, Kinds
  <1> QED
    BY <1>3, <1>4, <1>5, <1>6 DEF KalenderStep

LEMMA KalenderTypeStep == KalenderTypeOK /\ [KalenderNext]_<<vars, kalenderVars>> => KalenderTypeOK'
  <1> SUFFICES ASSUME KalenderTypeOK, [KalenderNext]_<<vars, kalenderVars>> PROVE KalenderTypeOK'
    OBVIOUS
  <1>1. ASSUME [Next]_vars, UNCHANGED kalenderVars PROVE KalenderTypeOK'
    BY <1>1, TypeStep DEF KalenderTypeOK, kalenderVars
  <1> QED
    BY <1>1, KalenderStepKeepsType DEF KalenderNext

\* The addresses and the copies keep their types too.
THEOREM KalenderTypesHold == KalenderSpec => []KalenderTypeOK
  BY KalenderInitIsTyped, KalenderTypeStep, PTL DEF KalenderSpec

\* What the requests in flight are about to write, against the row.
JobsFit ==
  \A w \in Workers :
    LET seen == jobs[w].seen
    IN  /\ jobs[w].pc = "editing" =>
             /\ ~IsCancelled(event) /\ ~IsCancelled(seen)
             /\ \/ seen.sequence = event.sequence /\ seen.starts = event.starts
                \/ seen.sequence = event.sequence + 1
        /\ jobs[w].pc = "cancelling" => seen.sequence = event.sequence + 1

\* What a calendar holds, against the row.
Follows(copy) ==
  copy # Null => copy.sequence <= event.sequence /\ (copy.sequence = event.sequence => Shows(copy))

CalendarInv == KalenderTypeOK /\ JobsFit /\ Follows(phone.feed) /\ Follows(phone.file)

\* A request that begins, goes on or ends, and is no edit or cancellation that has yet to write.
LEMMA NothingToWrite ==
  ASSUME \A v, w \in Workers : v = w, TypeOK,
         NEW w \in Workers, NEW job, jobs' = [jobs EXCEPT ![w] = job], job.pc \notin {"editing", "cancelling"}
  PROVE  JobsFit'
  BY DEF JobsFit, TypeOK

\* The row stays as the calendars show it, or its SEQUENCE rises.
RowMoves ==
  \/ event'.starts = event.starts /\ event'.cancelledAt = event.cancelledAt
        /\ event'.sequence = event.sequence
  \/ event'.sequence > event.sequence

LEMMA RowMovesUp ==
  ASSUME \A v, w \in Workers : v = w, CalendarInv, Next
  PROVE  JobsFit' /\ RowMoves /\ made'["download"] = made["download"] /\ made'["fetch"] = made["fetch"]
  <1>1. TypeOK /\ JobsFit /\ event \in Event /\ event.sequence \in Nat /\ jobs \in [Workers -> Job]
        /\ made \in [Kinds -> Nat] /\ {"download", "fetch"} \subseteq Kinds
    BY DEF CalendarInv, KalenderTypeOK, TypeOK, Event, Kinds
  <1>2. ASSUME NEW k \in Kinds \ {"download", "fetch"}, Make(k)
        PROVE  made'["download"] = made["download"] /\ made'["fetch"] = made["fetch"]
    BY <1>1, <1>2 DEF Make
  <1>3. CASE Tick
    BY <1>1, <1>2, <1>3 DEF Tick, JobsFit, RowMoves, Kinds
  <1>4. ASSUME NEW w \in Workers, Arrive(w)
        PROVE  JobsFit' /\ RowMoves /\ made'["download"] = made["download"] /\ made'["fetch"] = made["fetch"]
    <2>1. event' = event /\ RowMoves
      BY <1>4 DEF Arrive, BeginAnswer, BeginEdit, BeginCancel, BeginDelete, BeginSweep, BeginReminder, RowMoves
    <2>2. made'["download"] = made["download"] /\ made'["fetch"] = made["fetch"]
      BY <1>2, <1>4 DEF Arrive, BeginAnswer, BeginEdit, BeginCancel, BeginDelete, BeginSweep, BeginReminder,
                        Accepts, Kinds
    <2>3. ASSUME NEW r \in Residents, NEW a \in {"ja", "nej"}, BeginAnswer(w, r, a) PROVE JobsFit'
      BY <1>1, <2>3, NothingToWrite DEF BeginAnswer, Idle
    <2>4. ASSUME NEW s \in StartTimes, NEW d \in Deadlines, NEW c \in Capacities, BeginEdit(w, s, d, c)
          PROVE  JobsFit'
      <3> DEFINE sequence == IF SignificantChange(event, s) THEN event.sequence + 1 ELSE event.sequence
                 seen == [event EXCEPT !.starts = s, !.deadline = d, !.capacity = c, !.sequence = sequence]
      <3>1. jobs' = [jobs EXCEPT ![w] = [Idle EXCEPT !.pc = "editing", !.seen = seen]]
        BY <2>4 DEF BeginEdit
      <3>2. /\ seen.cancelledAt = event.cancelledAt /\ seen.starts = s /\ seen.sequence = sequence
            /\ ~IsCancelled(event) /\ ~IsCancelled(seen)
        BY <1>1, <2>4 DEF Event, BeginEdit, IsCancelled
      <3>3. \/ seen.sequence = event.sequence /\ seen.starts = event.starts
            \/ seen.sequence = event.sequence + 1
        BY <3>2 DEF SignificantChange
      <3> HIDE DEF seen
      <3>4. jobs'[w].pc = "editing" /\ jobs'[w].seen = seen
        BY <1>1, <3>1 DEF Idle
      <3> QED
        BY <2>1, <2>2, <3>2, <3>3, <3>4 DEF JobsFit
    <2>5. CASE BeginCancel(w)
      <3> DEFINE seen == Cancelled(event, now)
      <3>1. jobs' = [jobs EXCEPT ![w] = [Idle EXCEPT !.pc = "cancelling", !.seen = seen]]
        BY <2>5 DEF BeginCancel
      <3>2. seen.sequence = event.sequence + 1
        BY <1>1 DEF Event, Cancelled
      <3> HIDE DEF seen
      <3>3. jobs'[w].pc = "cancelling" /\ jobs'[w].seen = seen
        BY <1>1, <3>1 DEF Idle
      <3>4. \A v \in Workers : v = w
        OBVIOUS
      <3> QED
        BY <2>1, <2>2, <3>2, <3>3, <3>4 DEF JobsFit
    <2>6. CASE BeginDelete(w) \/ BeginSweep(w) \/ BeginReminder(w)
      <3>1. PICK pc \in {"deleting", "due"} : jobs' = [jobs EXCEPT ![w] = [Idle EXCEPT !.pc = pc]]
        BY <2>6 DEF BeginDelete, BeginSweep, BeginReminder
      <3> DEFINE job == [Idle EXCEPT !.pc = pc]
      <3>2. job.pc \notin {"editing", "cancelling"}
        BY <3>1 DEF Idle
      <3> HIDE DEF job
      <3> QED
        BY <1>1, <2>1, <2>2, <3>1, <3>2, NothingToWrite DEF job
    <2> QED
      BY <1>4, <2>1, <2>2, <2>3, <2>4, <2>5, <2>6 DEF Arrive
  <1>5. ASSUME NEW w \in Workers, Finish(w) PROVE JobsFit'
    BY <1>1, <1>5, NothingToWrite DEF Finish, Idle
  <1>6. ASSUME NEW w \in Workers, Advance(w)
        PROVE  JobsFit' /\ RowMoves /\ made' = made
    <2>1. CASE WriteAnswer(w) \/ ChoosePromoted(w) \/ DeleteAnswers(w)
      <3>1. PICK job : jobs' = [jobs EXCEPT ![w] = job] /\ job.pc \notin {"editing", "cancelling"}
        <4>1. ASSUME NEW job, jobs' = [jobs EXCEPT ![w] = job], job.pc \in {"wrote", "chosen", "emptied"}
              PROVE  \E j : jobs' = [jobs EXCEPT ![w] = j] /\ j.pc \notin {"editing", "cancelling"}
          BY <4>1
        <4>2. CASE WriteAnswer(w)
          <5> DEFINE job == [jobs[w] EXCEPT !.pc = "wrote", !.changed = Changes(w)]
          <5>1. jobs' = [jobs EXCEPT ![w] = job] /\ job.pc = "wrote"
            BY <1>1, <4>2 DEF WriteAnswer, Job
          <5> HIDE DEF job
          <5> QED
            BY <4>1, <5>1
        <4>3. CASE ChoosePromoted(w)
          <5>1. CASE jobs' = [jobs EXCEPT ![w].pc = "chosen"]
            <6> DEFINE job == [jobs[w] EXCEPT !.pc = "chosen"]
            <6>1. jobs' = [jobs EXCEPT ![w] = job] /\ job.pc = "chosen"
              BY <1>1, <5>1 DEF Job
            <6> HIDE DEF job
            <6> QED
              BY <4>1, <6>1
          <5>2. ASSUME NEW p, jobs' = [jobs EXCEPT ![w].pc = "chosen", ![w].promoted = p]
                PROVE  \E j : jobs' = [jobs EXCEPT ![w] = j] /\ j.pc \notin {"editing", "cancelling"}
            <6> DEFINE job == [jobs[w] EXCEPT !.pc = "chosen", !.promoted = p]
            <6>1. jobs' = [jobs EXCEPT ![w] = job] /\ job.pc = "chosen"
              BY <1>1, <5>2 DEF Job
            <6> HIDE DEF job
            <6> QED
              BY <4>1, <6>1
          <5> QED
            BY <4>3, <5>1, <5>2 DEF ChoosePromoted
        <4>4. CASE DeleteAnswers(w)
          <5> DEFINE job == [jobs[w] EXCEPT !.pc = "emptied", !.rows = Rows]
          <5>1. jobs' = [jobs EXCEPT ![w] = job] /\ job.pc = "emptied"
            BY <1>1, <4>4 DEF DeleteAnswers, Job
          <5> HIDE DEF job
          <5> QED
            BY <4>1, <5>1
        <4> QED
          BY <2>1, <4>2, <4>3, <4>4
      <3>2. JobsFit'
        BY <1>1, <3>1, NothingToWrite
      <3> QED
        BY <2>1, <3>2 DEF WriteAnswer, ChoosePromoted, DeleteAnswers, RowMoves
    <2>2. CASE CommitAnswer(w) \/ AbortAnswer(w) \/ SendReminder(w)
      BY <1>5, <2>2 DEF CommitAnswer, AbortAnswer, SendReminder, RowMoves
    <2>3. CASE SaveEdit(w)
      BY <1>1, <1>5, <2>3 DEF SaveEdit, RowMoves, JobsFit, IsCancelled
    <2>4. CASE SaveCancel(w)
      <3>1. event' = event \/ event'.sequence = event.sequence + 1
        BY <1>1, <2>4 DEF SaveCancel, JobsFit, Event
      <3>2. RowMoves
        BY <1>1, <3>1 DEF RowMoves
      <3> QED
        BY <1>5, <2>4, <3>2 DEF SaveCancel
    <2>5. CASE RemoveEvent(w)
      BY <1>1, <1>5, <2>5 DEF RemoveEvent, RowMoves, Event
    <2>6. CASE ClaimReminder(w)
      <3>1. RowMoves /\ made' = made
        BY <1>1, <2>6 DEF ClaimReminder, RowMoves, Event
      <3>2. CASE Claimable
        <4> DEFINE job == [jobs[w] EXCEPT !.pc = "claimed"]
        <4>1. jobs' = [jobs EXCEPT ![w] = job] /\ job.pc = "claimed"
          BY <1>1, <2>6, <3>2 DEF ClaimReminder, Job
        <4> HIDE DEF job
        <4> QED
          BY <1>1, <3>1, <4>1, NothingToWrite
      <3>3. CASE ~Claimable
        BY <1>5, <2>6, <3>1, <3>3 DEF ClaimReminder
      <3> QED
        BY <3>2, <3>3
    <2> QED
      BY <1>6, <2>1, <2>2, <2>3, <2>4, <2>5, <2>6 DEF Advance
  <1>7. ASSUME NEW w \in Workers, Crash(w)
        PROVE  JobsFit' /\ RowMoves /\ made'["download"] = made["download"] /\ made'["fetch"] = made["fetch"]
    BY <1>2, <1>5, <1>7 DEF Crash, RowMoves, Kinds
  <1> QED
    BY <1>3, <1>4, <1>6, <1>7 DEF Next

LEMMA CopiesFollow ==
  ASSUME TypeOK, RowMoves, NEW copy \in VEvent \cup {Null}, Follows(copy), TypeOK'
  PROVE  Follows(copy)'
  <1>1. event.sequence \in Nat /\ event'.sequence \in Nat /\ (copy # Null => copy.sequence \in Nat)
    BY DEF TypeOK, Event, VEvent
  <1> QED
    BY <1>1 DEF RowMoves, Follows, Shows, IsCancelled

\* A copy that is asked for, or taken from a file, while the row stays as it is.
LEMMA TakenFollows ==
  ASSUME TypeOK, NEW copy \in VEvent \cup {Null}, Follows(copy), NEW tentative \in BOOLEAN
  PROVE  /\ Follows(Taken(copy, Emitted(tentative))) /\ Taken(copy, Emitted(tentative)) # Null
         /\ Shows(Taken(copy, Emitted(tentative)))
  <1> DEFINE new == Emitted(tentative)
  <1>1. new \in VEvent /\ new # Null /\ Shows(new) /\ new.sequence = event.sequence
    BY EmittedIsVEvent
  <1>2. event.sequence \in Nat /\ (copy # Null => copy.sequence \in Nat)
    BY DEF TypeOK, Event, VEvent
  <1> HIDE DEF new
  <1> QED
    BY <1>1, <1>2 DEF Taken, Follows, new

LEMMA CalendarAsks ==
  ASSUME \A v, w \in Workers : v = w, CalendarInv, KalenderStep
  PROVE  /\ CalendarInv'
         /\ Asks("download") => Shows(phone'.file)
         /\ Asks("fetch") /\ addresses[phone.of] = phone.url =>
              IF InFeed(phone.of) THEN phone'.feed # Null /\ Shows(phone'.feed) ELSE phone'.feed = Null
  <1>1. /\ TypeOK /\ phone \in Phone /\ phone.feed \in VEvent \cup {Null} /\ phone.file \in VEvent \cup {Null}
        /\ made \in [Kinds -> Nat] /\ {"download", "fetch", "address"} \subseteq Kinds
    BY DEF CalendarInv, KalenderTypeOK, TypeOK, Phone, Kinds
  <1>2. KalenderTypeOK'
    BY KalenderStepKeepsType DEF CalendarInv
  <1>3. JobsFit' /\ event' = event
    BY DEF CalendarInv, JobsFit, KalenderStep
  <1>4. \A copy : Follows(copy) => Follows(copy)'
    BY <1>3 DEF Follows, Shows
  <1>5. \A k, j \in Kinds : Make(k) /\ j # k => ~Asks(j)
    BY <1>1 DEF Make, Asks
  <1>6. ASSUME NEW r \in Residents, Subscribe(r) \/ Rotate(r)
        PROVE  ~Asks("download") /\ ~Asks("fetch") /\ CalendarInv'
    <2>1. phone'.feed = phone.feed /\ phone'.file = phone.file
      BY <1>1, <1>6 DEF Subscribe, Rotate, Phone
    <2> QED
      BY <1>1, <1>2, <1>3, <1>4, <1>5, <1>6, <2>1 DEF Subscribe, Rotate, CalendarInv
  <1>7. ASSUME Fetch
        PROVE  /\ ~Asks("download") /\ CalendarInv'
               /\ addresses[phone.of] = phone.url =>
                     IF InFeed(phone.of) THEN phone'.feed # Null /\ Shows(phone'.feed) ELSE phone'.feed = Null
    <2> DEFINE taken == Taken(phone.feed, Emitted(Waits(phone.of)))
               feed == IF addresses[phone.of] # phone.url THEN phone.feed
                       ELSE IF InFeed(phone.of) THEN taken ELSE Null
    <2>1. phone' = [phone EXCEPT !.feed = feed]
      BY <1>1, <1>7 DEF Fetch, Phone
    <2>2. Follows(taken) /\ taken # Null /\ Shows(taken)
      BY <1>1, TakenFollows DEF CalendarInv, Waits
    <2> HIDE DEF taken
    <2>3. Follows(feed)
      BY <2>2 DEF CalendarInv, Follows
    <2>4. phone'.feed = feed /\ phone'.file = phone.file
      BY <1>1, <2>1 DEF Phone
    <2>5. CalendarInv'
      BY <1>2, <1>3, <1>4, <2>3, <2>4 DEF CalendarInv
    <2> QED
      BY <1>1, <1>5, <1>7, <2>2, <2>4, <2>5 DEF Fetch
  <1>8. ASSUME Download
        PROVE  ~Asks("fetch") /\ CalendarInv' /\ Shows(phone'.file)
    <2> DEFINE taken == Taken(phone.file, Emitted(FALSE))
    <2>1. phone' = [phone EXCEPT !.file = taken]
      BY <1>1, <1>8 DEF Download, Phone
    <2>2. Follows(taken) /\ Shows(taken)
      BY <1>1, TakenFollows DEF CalendarInv
    <2> HIDE DEF taken
    <2>3. phone'.file = taken /\ phone'.feed = phone.feed
      BY <1>1, <2>1 DEF Phone
    <2>4. CalendarInv'
      BY <1>2, <1>3, <1>4, <2>2, <2>3 DEF CalendarInv
    <2> QED
      BY <1>1, <1>5, <1>8, <2>2, <2>3, <2>4 DEF Download
  <1> QED
    BY <1>6, <1>7, <1>8 DEF KalenderStep

\* event_ics and calendar_feed, for whichever events, answers and edits: if requests do not overlap, a
\* calendar that has asked, or taken a file, shows the event as it is, however strictly it goes by
\* SEQUENCE and however much it has missed.
THEOREM CalendarAlwaysFollows ==
  ASSUME \A v, w \in Workers : v = w
  PROVE  KalenderSpec => CalendarFollows
  <1> DEFINE Shown ==
        /\ Asks("download") => Shows(phone'.file)
        /\ Asks("fetch") /\ addresses[phone.of] = phone.url =>
              IF InFeed(phone.of) THEN phone'.feed # Null /\ Shows(phone'.feed) ELSE phone'.feed = Null
  <1>1. KalenderInit => CalendarInv
    <2> SUFFICES ASSUME KalenderInit PROVE CalendarInv
      OBVIOUS
    <2>1. \A w \in Workers : jobs[w].pc = "idle"
      BY DEF KalenderInit, Init, Idle
    <2>2. phone.feed = Null /\ phone.file = Null
      BY DEF KalenderInit
    <2> QED
      BY <2>1, <2>2, KalenderInitIsTyped DEF CalendarInv, JobsFit, Follows
  <1>2. CalendarInv /\ [KalenderNext]_<<vars, kalenderVars>> => CalendarInv' /\ [Shown]_<<vars, kalenderVars>>
    <2> SUFFICES ASSUME CalendarInv, [KalenderNext]_<<vars, kalenderVars>>
                 PROVE  CalendarInv' /\ [Shown]_<<vars, kalenderVars>>
      OBVIOUS
    <2>0. /\ TypeOK /\ phone.feed \in VEvent \cup {Null} /\ phone.file \in VEvent \cup {Null}
          /\ made \in [Kinds -> Nat] /\ {"download", "fetch"} \subseteq Kinds
      BY DEF CalendarInv, KalenderTypeOK, TypeOK, Phone, Kinds
    <2>1. CASE Next /\ UNCHANGED kalenderVars
      <3>1. KalenderTypeOK'
        BY <2>1, KalenderTypeStep DEF CalendarInv, KalenderNext
      <3>2. JobsFit' /\ RowMoves /\ made'["download"] = made["download"] /\ made'["fetch"] = made["fetch"]
        BY <2>1, RowMovesUp
      <3>3. Follows(phone.feed)' /\ Follows(phone.file)'
        <4>1. phone' = phone /\ TypeOK'
          BY <2>1, <3>1 DEF kalenderVars, KalenderTypeOK
        <4>2. \A copy \in VEvent \cup {Null} : Follows(copy) => Follows(copy)'
          BY <2>0, <3>2, <4>1, CopiesFollow
        <4> QED
          BY <2>0, <4>1, <4>2 DEF CalendarInv, Follows
      <3>4. ~Asks("download") /\ ~Asks("fetch")
        BY <2>0, <3>2 DEF Asks
      <3> QED
        BY <3>1, <3>2, <3>3, <3>4 DEF CalendarInv
    <2>2. CASE KalenderStep
      BY <2>2, CalendarAsks
    <2>3. CASE UNCHANGED <<vars, kalenderVars>>
      BY <2>3, KalenderTypeStep DEF CalendarInv, JobsFit, Follows, Shows, vars, kalenderVars
    <2> QED
      BY <2>1, <2>2, <2>3 DEF KalenderNext
  <1> QED
    BY <1>1, <1>2, PTL DEF KalenderSpec, CalendarFollows
-----------------------------------------------------------------------------
(***************************************************************************)
(* Seats, when requests do not overlap.  A request in flight still has the *)
(* row before it as it read it, and the time of its answer is the latest:  *)
(* so an answer seats nobody before those who were told, and an edit never *)
(* leaves fewer seats than are taken.                                      *)
(***************************************************************************)

RequestsFit ==
  \A w \in Workers :
    LET job == jobs[w]
    IN  /\ job.pc \in {"read", "wrote", "chosen"} =>
             /\ ~IsCancelled(event)
             /\ job.seen = event
             /\ job.resident \in Residents
             /\ job.at <= stamp /\ \A r \in Residents : rsvps[r].at < job.at
        /\ job.pc \in {"read", "wrote"} => job.promoted = Null
        /\ job.pc = "chosen" /\ job.promoted # Null => job.promoted \in Seated(View(w), event.capacity)
        /\ job.pc = "editing" =>
             /\ ~IsCancelled(event)
             /\ job.seen.capacity # Null =>
                    Cardinality(Seated(rsvps, event.capacity)) <= job.seen.capacity
        /\ job.pc \in {"cancelling", "due"} => ~IsCancelled(event)

ToldAreSeated == \A r \in told : rsvps[r].answer = "ja" => r \in Seated(rsvps, event.capacity)

SeatInv ==
  /\ TypeOK
  /\ RequestsFit
  /\ \A r \in Residents : rsvps[r].at <= stamp
  /\ ToldAreSeated

LEMMA AheadIsFinite ==
  ASSUME NEW rows, NEW r
  PROVE  IsFiniteSet(Ahead(rows, r)) /\ Cardinality(Ahead(rows, r)) \in Nat
  <1>1. Ahead(rows, r) \subseteq Residents
    BY DEF Ahead, Committed
  <1> QED
    BY <1>1, ConstantsAssumption, FS_Subset, FS_CardinalityType

\* Who has fewer before them keeps the seat.
LEMMA FewerAhead ==
  ASSUME NEW rows, NEW new, NEW capacity \in Nat \cup {Null}, NEW r \in Seated(rows, capacity),
         new[r].answer = "ja", Ahead(new, r) \subseteq Ahead(rows, r)
  PROVE  r \in Seated(new, capacity)
  <1>1. Cardinality(Ahead(new, r)) <= Cardinality(Ahead(rows, r)) /\ Cardinality(Ahead(new, r)) \in Nat
        /\ Cardinality(Ahead(rows, r)) \in Nat
    BY AheadIsFinite, FS_Subset
  <1>2. r \in Residents /\ (capacity = Null \/ Cardinality(Ahead(rows, r)) < capacity)
    BY DEF Seated, Committed
  <1>3. capacity = Null \/ Cardinality(Ahead(new, r)) < capacity
    BY <1>1, <1>2
  <1> QED
    BY <1>2, <1>3 DEF Seated, Committed

\* An answer later than the others' leaves them the seats they had.
LEMMA AnswersKeepSeats ==
  ASSUME SeatInv, NEW w \in Workers, jobs[w].pc \in {"read", "wrote", "chosen"},
         NEW r \in Seated(rsvps, event.capacity), r # jobs[w].resident
  PROVE  r \in Seated(View(w), event.capacity)
  <1>1. /\ rsvps \in [Residents -> Rsvp] /\ event.capacity \in Nat \cup {Null} /\ r \in Residents
        /\ jobs[w].resident \in Residents /\ jobs[w].at \in Nat
        /\ \A s \in Residents : rsvps[s].at < jobs[w].at /\ rsvps[s].at \in Nat
        /\ rsvps[r].answer = "ja"
    BY DEF SeatInv, TypeOK, RequestsFit, Event, Job, Rsvp, Seated, Committed
  <1>2. View(w)[r] = rsvps[r]
    BY <1>1 DEF View
  <1>3. ASSUME NEW s \in Ahead(View(w), r) PROVE s \in Ahead(rsvps, r)
    <2>1. s \in Residents /\ View(w)[s].answer = "ja" /\ View(w)[s].at < View(w)[r].at
      BY <1>3 DEF Ahead, Committed
    <2>2. CASE View(w)[s] = rsvps[s]
      BY <1>2, <2>1, <2>2 DEF Ahead, Committed
    <2>3. CASE View(w)[s] # rsvps[s]
      <3>1. View(w)[s].at = jobs[w].at
        BY <1>1, <2>1, <2>3 DEF View
      <3>2. jobs[w].at < rsvps[r].at
        BY <1>2, <2>1, <3>1
      <3> QED
        BY <1>1, <3>2
    <2> QED
      BY <2>2, <2>3
  <1> QED
    BY <1>1, <1>2, <1>3, FewerAhead

\* As many seats as are taken are enough for who has one.
LEMMA ResizingKeepsSeats ==
  ASSUME TypeOK, NEW old \in Nat \cup {Null}, NEW new \in Nat \cup {Null},
         new # Null => Cardinality(Seated(rsvps, old)) <= new, NEW r \in Seated(rsvps, old)
  PROVE  r \in Seated(rsvps, new)
  <1>1. r \in Committed(rsvps) /\ r \in Residents
    BY DEF Seated, Committed
  <1>2. ASSUME NEW s \in Ahead(rsvps, r) PROVE s \in Seated(rsvps, old)
    <2>1. Ahead(rsvps, s) \subseteq Ahead(rsvps, r)
      <3>1. \A t \in Residents : rsvps[t].at \in Nat
        BY DEF TypeOK, Rsvp
      <3> QED
        BY <1>1, <1>2, <3>1 DEF Ahead, Committed
    <2>2. rsvps[s].answer = "ja"
      BY <1>2 DEF Ahead, Committed
    <2>3. s \in Residents
      BY <1>2 DEF Ahead, Committed
    <2>4. Cardinality(Ahead(rsvps, s)) <= Cardinality(Ahead(rsvps, r))
          /\ Cardinality(Ahead(rsvps, s)) \in Nat /\ Cardinality(Ahead(rsvps, r)) \in Nat
      BY <2>1, AheadIsFinite, FS_Subset
    <2>5. old = Null \/ Cardinality(Ahead(rsvps, r)) < old
      BY DEF Seated
    <2>6. old = Null \/ Cardinality(Ahead(rsvps, s)) < old
      BY <2>4, <2>5
    <2> QED
      BY <2>2, <2>3, <2>6 DEF Seated, Committed
  <1> DEFINE ahead == Ahead(rsvps, r)
             seats == Seated(rsvps, old)
  <1>3. ahead \cup {r} \subseteq seats /\ r \notin ahead
    <2>1. rsvps[r].at \in Nat
      BY <1>1 DEF TypeOK, Rsvp
    <2> QED
      BY <1>2, <2>1 DEF Ahead
  <1>4. IsFiniteSet(seats) /\ IsFiniteSet(ahead) /\ Cardinality(ahead) \in Nat
    BY SeatedAreResidents, ConstantsAssumption, FS_Subset, AheadIsFinite
  <1> HIDE DEF ahead, seats
  <1>5. Cardinality(ahead \cup {r}) = Cardinality(ahead) + 1
    BY <1>3, <1>4, FS_AddElement
  <1>6. Cardinality(ahead \cup {r}) <= Cardinality(seats) /\ Cardinality(seats) \in Nat
    BY <1>3, <1>4, FS_Subset, FS_CardinalityType
  <1>7. new = Null \/ Cardinality(ahead) < new
    BY <1>4, <1>5, <1>6 DEF seats
  <1> QED
    BY <1>1, <1>7 DEF Seated, ahead

\* A request that begins, or ends, or is none of these.
LEMMA NothingInFlight ==
  ASSUME \A v, w \in Workers : v = w, TypeOK, NEW w \in Workers, NEW job, jobs' = [jobs EXCEPT ![w] = job],
         job.pc \in {"idle", "deleting", "emptied", "claimed"}
  PROVE  RequestsFit'
  <1>1. \A v \in Workers : jobs'[v] = job
    BY DEF TypeOK
  <1> QED
    BY <1>1 DEF RequestsFit

LEMMA SeatsArrive ==
  ASSUME \A v, w \in Workers : v = w, SeatInv, NEW w \in Workers, Arrive(w)
  PROVE  /\ RequestsFit' /\ event' = event /\ rsvps' = rsvps
         /\ (\A r \in Residents : rsvps[r].at <= stamp)' /\ ToldAreSeated'
  <1>1. /\ event' = event /\ rsvps' = rsvps /\ told' = told /\ stamp \in Nat
        /\ stamp' = stamp \/ stamp' = stamp + 1
        /\ TypeOK /\ jobs \in [Workers -> Job] /\ event \in Event
        /\ \A r \in Residents : rsvps[r].at \in Nat /\ rsvps[r].at <= stamp
    BY DEF SeatInv, TypeOK, Rsvp, Arrive, BeginAnswer, BeginEdit, BeginCancel, BeginDelete, BeginSweep,
           BeginReminder
  <1>2. (\A r \in Residents : rsvps[r].at <= stamp)' /\ ToldAreSeated'
    <2>1. ToldAreSeated'
      BY <1>1 DEF SeatInv, ToldAreSeated
    <2>2. stamp <= stamp'
      BY <1>1
    <2>3. \A r \in Residents : rsvps'[r].at <= stamp'
      BY <1>1, <2>2
    <2> QED
      BY <2>1, <2>3
  <1>3. ASSUME NEW r \in Residents, NEW a \in {"ja", "nej"}, BeginAnswer(w, r, a) PROVE RequestsFit'
    <2> DEFINE job == [Idle EXCEPT !.pc = "read", !.seen = event, !.resident = r, !.answer = a,
                                   !.found = rsvps[r].answer, !.at = stamp + 1,
                                   !.before = Seated(rsvps, event.capacity)]
    <2>1. jobs' = [jobs EXCEPT ![w] = job] /\ ~IsCancelled(event) /\ stamp' = stamp + 1
      BY <1>3 DEF BeginAnswer, AnswersLocked
    <2>2. /\ job.pc = "read" /\ job.seen = event /\ job.resident = r /\ job.at = stamp + 1
          /\ job.promoted = Null
      BY DEF Idle
    <2> HIDE DEF job
    <2>3. \A v \in Workers : jobs'[v] = job
      BY <1>1, <2>1
    <2>4. stamp + 1 <= stamp' /\ \A s \in Residents : rsvps[s].at < stamp + 1
      BY <1>1, <2>1
    <2> QED
      BY <1>1, <2>1, <2>2, <2>3, <2>4 DEF RequestsFit, IsCancelled
  <1>4. ASSUME NEW s \in StartTimes, NEW d \in Deadlines, NEW c \in Capacities, BeginEdit(w, s, d, c)
        PROVE  RequestsFit'
    <2> DEFINE sequence == IF SignificantChange(event, s) THEN event.sequence + 1 ELSE event.sequence
               seen == [event EXCEPT !.starts = s, !.deadline = d, !.capacity = c, !.sequence = sequence]
               job == [Idle EXCEPT !.pc = "editing", !.seen = seen]
    <2>1. jobs' = [jobs EXCEPT ![w] = job] /\ ~IsCancelled(event)
          /\ (c # Null => c >= Cardinality(Seated(rsvps, event.capacity)))
      BY <1>4 DEF BeginEdit, FormIsValid
    <2>2. seen.capacity = c
      BY <1>1 DEF Event
    <2> HIDE DEF seen
    <2>3. job.pc = "editing" /\ job.seen.capacity = c
      BY <2>2 DEF Idle
    <2> HIDE DEF job
    <2>4. \A v \in Workers : jobs'[v] = job
      BY <1>1, <2>1
    <2>5. c # Null => Cardinality(Seated(rsvps, event.capacity)) <= c
      <3>1. c # Null => c \in Nat
        BY ConstantsAssumption
      <3>2. Cardinality(Seated(rsvps, event.capacity)) \in Nat
        BY SeatedAreResidents, ConstantsAssumption, FS_Subset, FS_CardinalityType
      <3> QED
        BY <2>1, <3>1, <3>2
    <2> QED
      BY <1>1, <2>1, <2>3, <2>4, <2>5 DEF RequestsFit, IsCancelled
  <1>5. ASSUME NEW job, jobs' = [jobs EXCEPT ![w] = job], ~IsCancelled(event), job.pc \in {"cancelling", "due"}
        PROVE  RequestsFit'
    <2>1. \A v \in Workers : jobs'[v] = job
      BY <1>1, <1>5
    <2> QED
      BY <1>1, <1>5, <2>1 DEF RequestsFit, IsCancelled
  <1>6. CASE BeginCancel(w)
    <2> DEFINE job == [Idle EXCEPT !.pc = "cancelling", !.seen = Cancelled(event, now)]
    <2>1. jobs' = [jobs EXCEPT ![w] = job] /\ job.pc = "cancelling" /\ ~IsCancelled(event)
      BY <1>6 DEF BeginCancel, Idle
    <2> HIDE DEF job
    <2> QED
      BY <1>1, <1>2, <1>5, <2>1
  <1>7. CASE BeginReminder(w)
    <2> DEFINE job == [Idle EXCEPT !.pc = "due"]
    <2>1. jobs' = [jobs EXCEPT ![w] = job] /\ job.pc = "due" /\ ~IsCancelled(event)
      BY <1>7 DEF BeginReminder, NeedsReminder, Idle
    <2> HIDE DEF job
    <2> QED
      BY <1>1, <1>2, <1>5, <2>1
  <1>8. CASE BeginDelete(w) \/ BeginSweep(w)
    <2> DEFINE job == [Idle EXCEPT !.pc = "deleting"]
    <2>1. jobs' = [jobs EXCEPT ![w] = job] /\ job.pc = "deleting"
      BY <1>8 DEF BeginDelete, BeginSweep, Idle
    <2> HIDE DEF job
    <2> QED
      BY <1>1, <1>2, <2>1, NothingInFlight
  <1> QED
    BY <1>1, <1>2, <1>3, <1>4, <1>6, <1>7, <1>8 DEF Arrive

\* What a step makes of a cancelled row and its answers.
Frozen == event.live /\ IsCancelled(event) => ~event'.live \/ (event' = event /\ rsvps' = rsvps)

LEMMA SeatsAdvance ==
  ASSUME \A v, w \in Workers : v = w, SeatInv, NEW w \in Workers, Advance(w)
  PROVE  /\ RequestsFit' /\ Frozen
         /\ (\A r \in Residents : rsvps[r].at <= stamp)' /\ ToldAreSeated'
  <1>1. /\ TypeOK /\ RequestsFit /\ jobs \in [Workers -> Job] /\ jobs[w] \in Job /\ event \in Event
        /\ rsvps \in [Residents -> Rsvp] /\ stamp \in Nat /\ event.capacity \in Nat \cup {Null}
        /\ stamp' = stamp /\ told \subseteq Residents
        /\ \A r \in Residents : rsvps[r].at \in Nat /\ rsvps[r].at <= stamp
    BY DEF SeatInv, TypeOK, Rsvp, Event, Advance, WriteAnswer, ChoosePromoted, CommitAnswer, AbortAnswer,
           SaveEdit, SaveCancel, DeleteAnswers, RemoveEvent, ClaimReminder, SendReminder
  <1>2. ASSUME UNCHANGED <<event, rsvps, told>>
        PROVE  Frozen /\ (\A r \in Residents : rsvps[r].at <= stamp)' /\ ToldAreSeated'
    BY <1>1, <1>2 DEF SeatInv, ToldAreSeated, Frozen
  <1>3. ASSUME Finish(w) PROVE RequestsFit'
    BY <1>1, <1>3, NothingInFlight DEF Finish, Idle
  <1>4. CASE WriteAnswer(w)
    <2> DEFINE job == [jobs[w] EXCEPT !.pc = "wrote", !.changed = Changes(w)]
    <2>1. jobs' = [jobs EXCEPT ![w] = job]
      BY <1>1, <1>4 DEF WriteAnswer, Job
    <2>2. /\ job.pc = "wrote" /\ job.seen = jobs[w].seen /\ job.resident = jobs[w].resident
          /\ job.at = jobs[w].at /\ job.promoted = jobs[w].promoted
      BY <1>1 DEF Job
    <2> HIDE DEF job
    <2>3. \A v \in Workers : jobs'[v] = job
      BY <1>1, <2>1
    <2>4. RequestsFit'
      BY <1>1, <1>4, <2>2, <2>3 DEF RequestsFit, WriteAnswer, IsCancelled
    <2> QED
      BY <1>2, <1>4, <2>4 DEF WriteAnswer
  <1>5. CASE ChoosePromoted(w)
    <2>1. PICK p : /\ jobs' = [jobs EXCEPT ![w] = [jobs[w] EXCEPT !.pc = "chosen", !.promoted = p]]
                   /\ p = jobs[w].promoted \/ p \in Crossed(w)
      <3>1. CASE jobs' = [jobs EXCEPT ![w].pc = "chosen"]
        <4>1. [jobs[w] EXCEPT !.pc = "chosen"] = [jobs[w] EXCEPT !.pc = "chosen", !.promoted = jobs[w].promoted]
          BY <1>1 DEF Job
        <4> QED
          BY <1>1, <3>1, <4>1
      <3>2. ASSUME NEW p \in Crossed(w), jobs' = [jobs EXCEPT ![w].pc = "chosen", ![w].promoted = p]
            PROVE  jobs' = [jobs EXCEPT ![w] = [jobs[w] EXCEPT !.pc = "chosen", !.promoted = p]]
        BY <1>1, <3>2
      <3> QED
        BY <1>5, <3>1, <3>2 DEF ChoosePromoted
    <2> DEFINE job == [jobs[w] EXCEPT !.pc = "chosen", !.promoted = p]
    <2>2. /\ job.pc = "chosen" /\ job.seen = jobs[w].seen /\ job.resident = jobs[w].resident
          /\ job.at = jobs[w].at /\ job.promoted = p /\ job.changed = jobs[w].changed
          /\ job.answer = jobs[w].answer
      BY <1>1 DEF Job
    <2> HIDE DEF job
    <2>3. \A v \in Workers : jobs'[v] = job
      BY <1>1, <2>1 DEF job
    <2>4. rsvps' = rsvps /\ event' = event /\ jobs[w].pc = "wrote" /\ jobs[w].seen = event
      BY <1>1, <1>5 DEF ChoosePromoted, RequestsFit
    <2>5. View(w)' = View(w)
      BY <2>2, <2>3, <2>4 DEF View
    <2> QED
      <3>1. p \in Crossed(w) => p \in Seated(View(w), event.capacity)
        BY <2>4 DEF Crossed
      <3>2. /\ ~IsCancelled(event) /\ jobs[w].resident \in Residents /\ jobs[w].at <= stamp
            /\ \A r \in Residents : rsvps[r].at < jobs[w].at
            /\ jobs[w].promoted # Null /\ jobs[w].pc = "chosen" =>
                  jobs[w].promoted \in Seated(View(w), event.capacity)
        BY <1>1, <2>4 DEF RequestsFit
      <3>3. jobs[w].promoted = Null
        BY <1>1, <2>4 DEF RequestsFit
      <3>4. p # Null => p \in Seated(View(w), event.capacity)'
        BY <2>1, <2>4, <2>5, <3>1, <3>3
      <3>5. \A v \in Workers : v = w
        OBVIOUS
      <3>6. RequestsFit'
        BY <1>1, <2>2, <2>3, <2>4, <3>2, <3>4, <3>5 DEF RequestsFit, IsCancelled
      <3> QED
        BY <1>2, <1>5, <3>6 DEF ChoosePromoted
  <1>6. CASE CommitAnswer(w)
    <2>1. /\ jobs[w].pc = "chosen" /\ rsvps' = View(w) /\ event' = event /\ ~IsCancelled(event)
          /\ jobs[w].resident \in Residents /\ jobs[w].at <= stamp
          /\ jobs[w].promoted # Null => jobs[w].promoted \in Seated(View(w), event.capacity)
          /\ Finish(w)
      BY <1>1, <1>6 DEF CommitAnswer, RequestsFit
    <2>2. told' \subseteq told \cup {jobs[w].resident} \cup ({jobs[w].promoted} \ {Null})
          /\ (jobs[w].resident \in told' => \/ jobs[w].resident \in Seated(View(w), event.capacity)
                                            \/ jobs[w].resident = jobs[w].promoted)
      BY <1>6 DEF CommitAnswer
    <2>3. ASSUME NEW r \in told', View(w)[r].answer = "ja" PROVE r \in Seated(View(w), event.capacity)
      <3>1. CASE r = jobs[w].promoted
        BY <1>1, <2>1, <2>2, <2>3, <3>1, ConstantsAssumption
      <3>2. CASE r = jobs[w].resident
        BY <2>1, <2>2, <2>3, <3>2, ConstantsAssumption
      <3>3. CASE r \in told /\ r # jobs[w].resident
        <4>1. r \in Residents /\ View(w)[r] = rsvps[r]
          BY <1>1, <2>1, <3>3 DEF View
        <4>2. r \in Seated(rsvps, event.capacity)
          BY <2>3, <3>3, <4>1 DEF SeatInv, ToldAreSeated
        <4> QED
          BY <2>1, <3>3, <4>2, AnswersKeepSeats
      <3> QED
        BY <2>2, <2>3, <3>1, <3>2, <3>3
    <2>4. \A r \in Residents : View(w)[r].at <= stamp
      BY <1>1, <2>1 DEF View
    <2> QED
      BY <1>1, <1>3, <2>1, <2>3, <2>4 DEF ToldAreSeated, Frozen
  <1>7. CASE AbortAnswer(w) \/ SendReminder(w)
    BY <1>2, <1>3, <1>7 DEF AbortAnswer, SendReminder
  <1>8. CASE SaveEdit(w)
    <2>1. /\ event' = jobs[w].seen /\ rsvps' = rsvps /\ told' = told /\ ~IsCancelled(event) /\ Finish(w)
          /\ event'.capacity # Null => Cardinality(Seated(rsvps, event.capacity)) <= event'.capacity
          /\ event'.capacity \in Nat \cup {Null}
      BY <1>1, <1>8 DEF SaveEdit, RequestsFit, Job, Event
    <2>2. ToldAreSeated'
      BY <1>1, <2>1, ResizingKeepsSeats DEF SeatInv, ToldAreSeated
    <2> QED
      BY <1>1, <1>3, <2>1, <2>2 DEF Frozen
  <1>9. CASE SaveCancel(w)
    <2>1. event'.capacity = event.capacity /\ rsvps' = rsvps /\ told' = told /\ ~IsCancelled(event) /\ Finish(w)
      BY <1>1, <1>9 DEF SaveCancel, RequestsFit, Event
    <2> QED
      BY <1>1, <1>3, <2>1 DEF SeatInv, ToldAreSeated, Frozen
  <1>10. CASE DeleteAnswers(w)
    <2> DEFINE job == [jobs[w] EXCEPT !.pc = "emptied", !.rows = Rows]
    <2>1. jobs' = [jobs EXCEPT ![w] = job] /\ job.pc = "emptied"
      BY <1>1, <1>10 DEF DeleteAnswers, Job
    <2> HIDE DEF job
    <2> QED
      BY <1>1, <1>2, <1>10, <2>1, NothingInFlight DEF DeleteAnswers
  <1>11. CASE RemoveEvent(w)
    <2>1. CASE NothingLeftBehind(w)
      <3>1. /\ event' = [event EXCEPT !.live = FALSE] /\ told' = told
            /\ rsvps' = [r \in Residents |-> IF r \in jobs[w].rows THEN NoAnswer ELSE rsvps[r]]
        BY <1>11, <2>1 DEF RemoveEvent
      <3>2. \A r \in Residents : rsvps'[r].answer # "ja" /\ rsvps'[r].at <= stamp
        BY <1>1, <2>1, <3>1 DEF NothingLeftBehind, Rows, NoAnswer
      <3>3. event'.live = FALSE
        BY <1>1, <3>1 DEF Event
      <3> QED
        BY <1>1, <1>3, <1>11, <3>1, <3>2, <3>3 DEF RemoveEvent, ToldAreSeated, Frozen
    <2>2. CASE ~NothingLeftBehind(w)
      BY <1>2, <1>3, <1>11, <2>2 DEF RemoveEvent
    <2> QED
      BY <2>1, <2>2
  <1>12. CASE ClaimReminder(w)
    <2>1. /\ ~IsCancelled(event) /\ rsvps' = rsvps /\ told' = told /\ event'.capacity = event.capacity
      BY <1>1, <1>12 DEF ClaimReminder, RequestsFit, Event
    <2>2. RequestsFit'
      <3>1. CASE Claimable
        <4> DEFINE job == [jobs[w] EXCEPT !.pc = "claimed"]
        <4>1. jobs' = [jobs EXCEPT ![w] = job] /\ job.pc = "claimed"
          BY <1>1, <1>12, <3>1 DEF ClaimReminder, Job
        <4> HIDE DEF job
        <4> QED
          BY <1>1, <4>1, NothingInFlight
      <3>2. CASE ~Claimable
        BY <1>3, <1>12, <3>2 DEF ClaimReminder
      <3> QED
        BY <3>1, <3>2
    <2> QED
      BY <1>1, <2>1, <2>2 DEF SeatInv, ToldAreSeated, Frozen
  <1> QED
    BY <1>4, <1>5, <1>6, <1>7, <1>8, <1>9, <1>10, <1>11, <1>12 DEF Advance

LEMMA SeatsInit == Init => SeatInv
  <1> SUFFICES ASSUME Init PROVE SeatInv
    OBVIOUS
  <1>1. TypeOK
    BY InitIsTyped
  <1>2. RequestsFit
    <2>1. \A w \in Workers : jobs[w].pc = "idle"
      BY DEF Init, Idle
    <2> QED
      BY <2>1 DEF RequestsFit
  <1>3. \A r \in Residents : rsvps[r].at <= stamp
    <2> DEFINE Start(yes, at) ==
                 /\ rsvps = [r \in Residents |-> IF r \in yes THEN [answer |-> "ja", at |-> at[r]]
                                                              ELSE NoAnswer]
                 /\ stamp = Cardinality(yes)
    <2>1. PICK yes \in SUBSET Residents : \E at \in [yes -> 1..Cardinality(yes)] : Start(yes, at)
      BY DEF Init
    <2>2. PICK at \in [yes -> 1..Cardinality(yes)] : Start(yes, at)
      BY <2>1
    <2>3. Cardinality(yes) \in Nat
      BY ConstantsAssumption, FS_Subset, FS_CardinalityType
    <2>4. \A r \in yes : at[r] <= stamp
      BY <2>2, <2>3
    <2> QED
      BY <2>2, <2>3, <2>4 DEF NoAnswer
  <1>4. ToldAreSeated
    BY DEF Init, ToldAreSeated
  <1> QED
    BY <1>1, <1>2, <1>3, <1>4 DEF SeatInv

LEMMA SeatsStep ==
  ASSUME \A v, w \in Workers : v = w, SeatInv, [Next]_vars
  PROVE  SeatInv' /\ [Frozen]_vars
  <1>1. TypeOK'
    BY TypeStep DEF SeatInv
  <1>2. CASE Tick \/ UNCHANGED vars
    <2>1. UNCHANGED <<event, rsvps, stamp, jobs, told>>
      BY <1>2 DEF Tick, vars
    <2>2. \A w \in Workers : View(w)' = View(w)
      BY <2>1 DEF View
    <2>3. RequestsFit'
      BY <2>1, <2>2 DEF SeatInv, RequestsFit
    <2> QED
      BY <1>1, <2>1, <2>3 DEF SeatInv, ToldAreSeated, Frozen
  <1>3. ASSUME NEW w \in Workers, Arrive(w) PROVE SeatInv' /\ Frozen
    BY <1>1, <1>3, SeatsArrive DEF SeatInv, Frozen
  <1>4. ASSUME NEW w \in Workers, Advance(w) PROVE SeatInv' /\ Frozen
    BY <1>1, <1>4, SeatsAdvance DEF SeatInv
  <1>5. ASSUME NEW w \in Workers, Crash(w) PROVE SeatInv' /\ Frozen
    <2>1. RequestsFit'
      BY <1>5, NothingInFlight DEF Crash, Finish, Idle, SeatInv
    <2> QED
      BY <1>1, <1>5, <2>1 DEF Crash, SeatInv, ToldAreSeated, Frozen
  <1> QED
    BY <1>2, <1>3, <1>4, <1>5 DEF Next

\* services.seated, for every capacity and any number of residents: when requests do not overlap, who was
\* told of a seat and has not withdrawn has it, whoever else answers, leaves, or changes the capacity.
THEOREM SeatsAreKept ==
  ASSUME \A v, w \in Workers : v = w
  PROVE  Spec => []SeatKept
  <1>1. SeatInv => SeatKept
    BY DEF SeatInv, ToldAreSeated, SeatKept
  <1>2. SeatInv /\ [Next]_vars => SeatInv'
    BY SeatsStep
  <1> QED
    BY <1>1, <1>2, SeatsInit, PTL DEF Spec

\* services.cancel: when requests do not overlap, a cancelled event keeps its row and its answers until
\* it is purged.
THEOREM CancelledEventsAreFrozen ==
  ASSUME \A v, w \in Workers : v = w
  PROVE  Spec => CancelledStaysFrozen
  <1>1. SeatInv /\ [Next]_vars => SeatInv' /\ [Frozen]_vars
    BY SeatsStep
  <1> QED
    BY <1>1, SeatsInit, PTL DEF Spec, CancelledStaysFrozen, Frozen

-----------------------------------------------------------------------------
(***************************************************************************)
(* The event as a waiting list.  The place of a ja in the queue is the     *)
(* number of those ahead of it; if no two answers have the same time,      *)
(* every place is taken, once.                                             *)
(***************************************************************************)

Rank(rows, r) == Cardinality(Ahead(rows, r))

NoTies(rows) == \A r, s \in Committed(rows) : rows[r].at = rows[s].at => r = s

LEMMA CommittedIsFinite ==
  ASSUME NEW rows
  PROVE  /\ Committed(rows) \subseteq Residents /\ IsFiniteSet(Committed(rows))
         /\ Cardinality(Committed(rows)) \in Nat
  <1>1. Committed(rows) \subseteq Residents
    BY DEF Committed
  <1> QED
    BY <1>1, ConstantsAssumption, FS_Subset, FS_CardinalityType

\* Who answered later has more before them.
LEMMA RanksAreOrdered ==
  ASSUME NEW rows \in [Residents -> Rsvp], NEW r \in Committed(rows), NEW s \in Committed(rows),
         rows[r].at < rows[s].at
  PROVE  Rank(rows, r) < Rank(rows, s)
  <1>1. \A t \in Committed(rows) : rows[t].at \in Nat
    BY DEF Committed, Rsvp
  <1>2. Ahead(rows, r) \cup {r} \subseteq Ahead(rows, s) /\ r \notin Ahead(rows, r)
    BY <1>1 DEF Ahead
  <1>3. Cardinality(Ahead(rows, r) \cup {r}) = Rank(rows, r) + 1
    BY <1>2, AheadIsFinite, FS_AddElement DEF Rank
  <1>4. Rank(rows, r) + 1 <= Rank(rows, s) /\ Rank(rows, r) \in Nat /\ Rank(rows, s) \in Nat
    BY <1>2, <1>3, AheadIsFinite, FS_Subset DEF Rank
  <1> QED
    BY <1>4

LEMMA RanksDiffer ==
  ASSUME NEW rows \in [Residents -> Rsvp], NoTies(rows), NEW r \in Committed(rows), NEW s \in Committed(rows),
         Rank(rows, r) = Rank(rows, s)
  PROVE  r = s
  <1>1. rows[r].at \in Nat /\ rows[s].at \in Nat /\ Rank(rows, r) \in Nat /\ Rank(rows, s) \in Nat
    BY AheadIsFinite DEF Committed, Rsvp, Rank
  <1>2. ~(rows[r].at < rows[s].at) /\ ~(rows[s].at < rows[r].at)
    BY <1>1, RanksAreOrdered
  <1>3. rows[r].at = rows[s].at
    BY <1>1, <1>2
  <1> QED
    BY <1>3 DEF NoTies

\* Every place in the queue is somebody's.
LEMMA PlacesAreTaken ==
  ASSUME NEW rows \in [Residents -> Rsvp], NoTies(rows)
  PROVE  /\ \A r \in Committed(rows) : Rank(rows, r) + 1 \in 1..Cardinality(Committed(rows))
         /\ \A i \in 1..Cardinality(Committed(rows)) : \E r \in Committed(rows) : Rank(rows, r) = i - 1
  <1> DEFINE n == Cardinality(Committed(rows))
             place == [r \in Committed(rows) |-> Rank(rows, r) + 1]
  <1>1. IsFiniteSet(Committed(rows)) /\ n \in Nat /\ IsFiniteSet(1..n) /\ Cardinality(1..n) = n
    BY CommittedIsFinite, FS_Interval
  <1>2. ASSUME NEW r \in Committed(rows) PROVE Rank(rows, r) + 1 \in 1..n /\ Rank(rows, r) \in Nat
    <2>1. rows[r].at \in Nat
      BY DEF Committed, Rsvp
    <2>2. Ahead(rows, r) \subseteq Committed(rows) \ {r}
      BY <2>1 DEF Ahead
    <2>3. Cardinality(Committed(rows) \ {r}) = n - 1 /\ IsFiniteSet(Committed(rows) \ {r})
      BY <1>1, FS_RemoveElement
    <2>4. Rank(rows, r) <= n - 1 /\ Rank(rows, r) \in Nat
      BY <2>2, <2>3, FS_Subset, AheadIsFinite DEF Rank
    <2> QED
      BY <1>1, <2>4
  <1>3. place \in [Committed(rows) -> 1..n]
    BY <1>2
  <1>4. \A r, s \in Committed(rows) : place[r] = place[s] => r = s
    BY <1>2, RanksDiffer
  <1>5. place \in Injection(Committed(rows), 1..n)
    BY <1>3, <1>4 DEF Injection, IsInjective
  <1>6. place \in Surjection(Committed(rows), 1..n)
    BY <1>1, <1>5, FS_Injection
  <1>7. \A i \in 1..n : \E r \in Committed(rows) : place[r] = i
    BY <1>6 DEF Surjection
  <1>8. ASSUME NEW i \in 1..n PROVE \E r \in Committed(rows) : Rank(rows, r) = i - 1
    <2>1. PICK r \in Committed(rows) : place[r] = i
      BY <1>7
    <2>2. Rank(rows, r) = i - 1
      BY <1>1, <1>2, <2>1
    <2> QED
      BY <2>2
  <1> QED
    BY <1>2, <1>8

\* Who stands where.
LEMMA InLine ==
  ASSUME NEW rows \in [Residents -> Rsvp], NoTies(rows)
  PROVE  /\ InOrder(rows) \in Seq(Residents)
         /\ DOMAIN InOrder(rows) = 1..Cardinality(Committed(rows))
         /\ Len(InOrder(rows)) = Cardinality(Committed(rows))
         /\ \A i \in 1..Cardinality(Committed(rows)) :
               InOrder(rows)[i] \in Committed(rows) /\ Rank(rows, InOrder(rows)[i]) = i - 1
         /\ \A r \in Committed(rows) :
               /\ Rank(rows, r) + 1 \in 1..Cardinality(Committed(rows))
               /\ InOrder(rows)[Rank(rows, r) + 1] = r
  <1> DEFINE n == Cardinality(Committed(rows))
             q == InOrder(rows)
  <1>1. n \in Nat /\ Committed(rows) \subseteq Residents
    BY CommittedIsFinite
  <1>2. DOMAIN q = 1..n /\ q = [i \in 1..n |-> q[i]]
    BY DEF InOrder
  <1>3. ASSUME NEW i \in 1..n PROVE q[i] \in Committed(rows) /\ Rank(rows, q[i]) = i - 1
    <2>1. q[i] = CHOOSE r \in Committed(rows) : Rank(rows, r) = i - 1
      BY DEF InOrder, Rank
    <2>2. \E r \in Committed(rows) : Rank(rows, r) = i - 1
      BY PlacesAreTaken
    <2> QED
      BY <2>1, <2>2
  <1>4. ASSUME NEW r \in Committed(rows)
        PROVE  Rank(rows, r) + 1 \in 1..n /\ q[Rank(rows, r) + 1] = r
    <2>1. Rank(rows, r) + 1 \in 1..n /\ Rank(rows, r) \in Nat
      BY PlacesAreTaken, AheadIsFinite DEF Rank
    <2>2. q[Rank(rows, r) + 1] \in Committed(rows) /\ Rank(rows, q[Rank(rows, r) + 1]) = (Rank(rows, r) + 1) - 1
      BY <1>3, <2>1
    <2>3. Rank(rows, q[Rank(rows, r) + 1]) = Rank(rows, r)
      BY <2>1, <2>2
    <2> QED
      BY <2>1, <2>2, <2>3, RanksDiffer
  <1> HIDE DEF q, n
  <1>5. q \in Seq(Residents) /\ Len(q) = n
    <2>1. q \in [1..n -> Residents]
      BY <1>1, <1>2, <1>3
    <2> QED
      BY <1>1, <2>1
  <1> QED
    BY <1>2, <1>3, <1>4, <1>5 DEF q, n

\* The only such queue.
LEMMA TheOnlyLine ==
  ASSUME NEW rows \in [Residents -> Rsvp], NoTies(rows), NEW q,
         q = [i \in 1..Cardinality(Committed(rows)) |-> q[i]],
         \A i \in 1..Cardinality(Committed(rows)) : q[i] \in Committed(rows) /\ Rank(rows, q[i]) = i - 1
  PROVE  InOrder(rows) = q
  <1> DEFINE n == Cardinality(Committed(rows))
             line == InOrder(rows)
  <1>1. \A i \in 1..n : line[i] \in Committed(rows) /\ Rank(rows, line[i]) = i - 1
    BY InLine
  <1>2. \A i \in 1..n : line[i] = q[i]
    BY <1>1, RanksDiffer
  <1>3. line = [i \in 1..n |-> line[i]]
    BY DEF InOrder
  <1> HIDE DEF line
  <1> QED
    BY <1>2, <1>3 DEF line

\* The head of the queue has the seats.
LEMMA TheHeadIsSeated ==
  ASSUME NEW rows \in [Residents -> Rsvp], NoTies(rows), NEW n \in Nat \cup {Null}
  PROVE  Promise!Seats(InOrder(rows), n) = Seated(rows, n)
  <1> DEFINE q == InOrder(rows)
  <1>0. \A r \in Committed(rows) : Rank(rows, r) \in Nat
    BY AheadIsFinite DEF Rank
  <1>1. ASSUME NEW i \in DOMAIN q, n = Null \/ i <= n PROVE q[i] \in Seated(rows, n)
    <2>1. q[i] \in Committed(rows) /\ Rank(rows, q[i]) = i - 1 /\ i \in Nat /\ q[i] \in Residents
      BY InLine, CommittedIsFinite
    <2>2. n = Null \/ Rank(rows, q[i]) < n
      BY <1>1, <2>1
    <2> QED
      BY <2>1, <2>2 DEF Seated, Rank
  <1>2. ASSUME NEW r \in Seated(rows, n) PROVE \E i \in DOMAIN q : (n = Null \/ i <= n) /\ q[i] = r
    <2>1. r \in Committed(rows) /\ (n = Null \/ Rank(rows, r) < n)
      BY DEF Seated, Rank
    <2>2. Rank(rows, r) + 1 \in DOMAIN q /\ q[Rank(rows, r) + 1] = r
      BY <2>1, InLine
    <2>3. n = Null \/ Rank(rows, r) + 1 <= n
      BY <1>0, <2>1
    <2> QED
      BY <2>2, <2>3
  <1> HIDE DEF q
  <1>3. Promise!Seats(q, n) = {q[i] : i \in {i \in DOMAIN q : n = Null \/ i <= n}}
    BY DEF Promise!Seats
  <1> QED
    BY <1>1, <1>2, <1>3 DEF q

\* Who is in the queue, and where.
LEMMA PlacesInLine ==
  ASSUME TypeOK, NoTies(rsvps), NEW r
  PROVE  Promise!Places(r) = IF r \in Committed(rsvps) THEN {Rank(rsvps, r) + 1} ELSE {}
  <1>0. rsvps \in [Residents -> Rsvp]
    BY DEF TypeOK
  <1> DEFINE q == InOrder(rsvps)
             n == Cardinality(Committed(rsvps))
  <1>1. Promise!Places(r) = {i \in DOMAIN q : q[i] = r}
    BY DEF Promise!Places
  <1>2. /\ DOMAIN q = 1..n /\ n \in Nat
        /\ \A i \in 1..n : q[i] \in Committed(rsvps) /\ Rank(rsvps, q[i]) = i - 1
        /\ r \in Committed(rsvps) => Rank(rsvps, r) + 1 \in 1..n /\ q[Rank(rsvps, r) + 1] = r
    BY <1>0, InLine, CommittedIsFinite
  <1> HIDE DEF q, n
  <1>3. \A i \in 1..n : q[i] = r => r \in Committed(rsvps) /\ i = Rank(rsvps, r) + 1
    BY <1>2
  <1> QED
    BY <1>1, <1>2, <1>3

\* Without a ja that comes or goes, the queue is the same.
LEMMA LineStays ==
  ASSUME NEW rows, NEW new, Committed(new) = Committed(rows),
         \A r \in Committed(rows) : new[r].at = rows[r].at
  PROVE  InOrder(new) = InOrder(rows) /\ (NoTies(rows) => NoTies(new))
         /\ \A n : Seated(new, n) = Seated(rows, n)
  <1>1. \A r \in Committed(rows) : Ahead(new, r) = Ahead(rows, r)
    BY DEF Ahead
  <1>2. \A i : (CHOOSE r \in Committed(new) : Cardinality(Ahead(new, r)) = i - 1)
                 = CHOOSE r \in Committed(rows) : Cardinality(Ahead(rows, r)) = i - 1
    <2> TAKE i
    <2>1. \A r : r \in Committed(new) /\ Cardinality(Ahead(new, r)) = i - 1
                   <=> r \in Committed(rows) /\ Cardinality(Ahead(rows, r)) = i - 1
      BY <1>1
    <2> QED
      BY <2>1
  <1>3. InOrder(new) = InOrder(rows)
    <2> DEFINE who(line, i) == CHOOSE r \in Committed(line) : Cardinality(Ahead(line, r)) = i - 1
    <2>1. /\ InOrder(new) = [i \in 1..Cardinality(Committed(new)) |-> who(new, i)]
          /\ InOrder(rows) = [i \in 1..Cardinality(Committed(rows)) |-> who(rows, i)]
      BY DEF InOrder
    <2>2. \A i : who(new, i) = who(rows, i)
      BY <1>2
    <2> HIDE DEF who
    <2> QED
      BY <2>1, <2>2
  <1>4. NoTies(rows) => NoTies(new)
    BY DEF NoTies
  <1>5. \A n : Seated(new, n) = Seated(rows, n)
    BY <1>1 DEF Seated
  <1> QED
    BY <1>3, <1>4, <1>5

\* A ja later than the others comes last.
LEMMA Joins ==
  ASSUME NEW rows \in [Residents -> Rsvp], NoTies(rows), NEW g \in Residents, g \notin Committed(rows),
         NEW new \in [Residents -> Rsvp], new[g].answer = "ja",
         \A r \in Residents \ {g} : new[r] = rows[r] /\ rows[r].at < new[g].at
  PROVE  /\ NoTies(new) /\ InOrder(new) = Append(InOrder(rows), g)
         /\ \A n \in Nat \cup {Null} : Seated(new, n) \subseteq Seated(rows, n) \cup {g}
                                         /\ Seated(rows, n) \subseteq Seated(new, n)
  <1> DEFINE m == Cardinality(Committed(rows))
             q == InOrder(rows)
             last == Append(q, g)
  <1>1. new[g].at \in Nat /\ \A r \in Residents : rows[r].at \in Nat
    BY DEF Rsvp
  <1>2. Committed(new) = Committed(rows) \cup {g} /\ Committed(rows) \subseteq Residents
    BY DEF Committed
  <1>3. m \in Nat /\ Cardinality(Committed(new)) = m + 1
    BY <1>2, CommittedIsFinite, FS_AddElement
  <1>0. \A r \in Committed(rows) : new[r] = rows[r] /\ rows[r].at \in Nat /\ rows[r].at < new[g].at
    BY <1>1, <1>2
  <1>4. \A r \in Committed(rows) : Ahead(new, r) = Ahead(rows, r)
    <2> TAKE r \in Committed(rows)
    <2>1. \A s \in Committed(rows) : new[s].at < new[r].at <=> rows[s].at < rows[r].at
      BY <1>0
    <2>2. ~(new[g].at < new[r].at)
      BY <1>1, <1>0
    <2> QED
      BY <1>2, <2>1, <2>2 DEF Ahead
  <1>5. Ahead(new, g) = Committed(rows)
    <2>1. \A s \in Committed(rows) : new[s].at < new[g].at
      BY <1>1, <1>0
    <2>2. ~(new[g].at < new[g].at)
      BY <1>1
    <2> QED
      BY <1>2, <2>1, <2>2 DEF Ahead
  <1>6. NoTies(new)
    <2> SUFFICES ASSUME NEW r \in Committed(new), NEW s \in Committed(new), new[r].at = new[s].at
                 PROVE  r = s
      BY DEF NoTies
    <2>1. CASE r = g \/ s = g
      <3>1. \A t \in Committed(rows) : new[t].at # new[g].at
        BY <1>1, <1>0
      <3> QED
        BY <1>2, <2>1, <3>1
    <2>2. CASE r # g /\ s # g
      BY <1>0, <1>2, <2>2 DEF NoTies
    <2> QED
      BY <2>1, <2>2
  <1>7. /\ DOMAIN q = 1..m /\ Len(q) = m /\ q \in Seq(Residents)
        /\ \A i \in 1..m : q[i] \in Committed(rows) /\ Rank(rows, q[i]) = i - 1
    BY InLine
  <1> HIDE DEF q, m
  <1>8. last = [i \in 1..(m + 1) |-> last[i]] /\ last[m + 1] = g /\ \A i \in 1..m : last[i] = q[i]
    <2>1. m \in Nat
      BY <1>3
    <2>2. last \in Seq(Residents) /\ Len(last) = m + 1
      BY <1>7, <2>1
    <2>3. last = [i \in 1..(m + 1) |-> last[i]]
      <3> HIDE DEF last
      <3>1. last \in [1..(m + 1) -> Residents]
        BY <2>1, <2>2
      <3> QED
        BY <3>1
    <2>4. last[m + 1] = g /\ \A i \in 1..m : last[i] = q[i]
      BY <1>7, <2>1
    <2> QED
      BY <2>3, <2>4
  <1>9. ASSUME NEW i \in 1..(m + 1) PROVE last[i] \in Committed(new) /\ Rank(new, last[i]) = i - 1
    <2>1. CASE i = m + 1
      <3>1. last[i] = g /\ Rank(new, g) = m /\ m \in Nat
        BY <1>3, <1>5, <1>8, <2>1 DEF Rank, m
      <3> HIDE DEF last
      <3>2. i - 1 = m
        BY <2>1, <3>1
      <3> QED
        BY <1>2, <3>1, <3>2
    <2>2. CASE i # m + 1
      <3>1. i \in 1..m
        BY <1>3, <2>2
      <3>2. q[i] \in Committed(rows) /\ Rank(rows, q[i]) = i - 1 /\ last[i] = q[i]
        BY <1>7, <1>8, <3>1
      <3> QED
        BY <1>2, <1>4, <3>2 DEF Rank
    <2> QED
      BY <2>1, <2>2
  <1> HIDE DEF last
  <1>10. InOrder(new) = last
    <2> DEFINE k == Cardinality(Committed(new))
    <2>1. k = m + 1
      BY <1>3 DEF m
    <2>2. last = [i \in 1..k |-> last[i]] /\ \A i \in 1..k : last[i] \in Committed(new) /\ Rank(new, last[i]) = i - 1
      BY <1>8, <1>9, <2>1
    <2> QED
      BY <1>1, <1>6, <2>2, TheOnlyLine
  <1>11. \A n \in Nat \cup {Null} : Seated(new, n) \subseteq Seated(rows, n) \cup {g}
                                      /\ Seated(rows, n) \subseteq Seated(new, n)
    BY <1>2, <1>4 DEF Seated
  <1> QED
    BY <1>6, <1>10, <1>11 DEF last, q

\* A ja that goes frees its place; those behind it move up, and at most one of them into a seat.
LEMMA Leaves ==
  ASSUME NEW rows \in [Residents -> Rsvp], NoTies(rows), NEW g \in Committed(rows),
         NEW new \in [Residents -> Rsvp], new[g].answer # "ja",
         \A r \in Residents \ {g} : new[r] = rows[r]
  PROVE  /\ NoTies(new)
         /\ InOrder(new) = [k \in 1..(Len(InOrder(rows)) - 1) |->
                              IF k < Rank(rows, g) + 1 THEN InOrder(rows)[k] ELSE InOrder(rows)[k + 1]]
         /\ \A n \in Nat \cup {Null} :
               \A x, y \in Seated(new, n) \ Seated(rows, n) : x = y
  <1> DEFINE m == Cardinality(Committed(rows))
             q == InOrder(rows)
             at(r) == Rank(rows, r)
             rest == [k \in 1..(m - 1) |-> IF k < at(g) + 1 THEN q[k] ELSE q[k + 1]]
  <1>1. Committed(new) = Committed(rows) \ {g} /\ Committed(rows) \subseteq Residents /\ g \in Residents
    BY DEF Committed
  <1>2. m \in Nat \ {0} /\ Cardinality(Committed(new)) = m - 1
    <2>1. m \in Nat /\ IsFiniteSet(Committed(rows))
      BY CommittedIsFinite
    <2>2. Cardinality(Committed(rows) \ {g}) = m - 1
      BY <2>1, FS_RemoveElement
    <2>3. m - 1 \in Nat
      BY <1>1, <2>2, CommittedIsFinite
    <2> QED
      BY <1>1, <2>1, <2>2, <2>3
  <1>3. \A r \in Committed(new) : Ahead(new, r) = Ahead(rows, r) \ {g}
    BY <1>1 DEF Ahead
  <1>4. ASSUME NEW r \in Committed(new)
        PROVE  /\ at(r) \in Nat /\ at(g) \in Nat /\ at(r) # at(g)
               /\ Rank(new, r) = IF at(g) < at(r) THEN at(r) - 1 ELSE at(r)
    <2>1. at(r) \in Nat /\ at(g) \in Nat /\ r # g /\ r \in Committed(rows) /\ IsFiniteSet(Ahead(rows, r))
      BY <1>1, AheadIsFinite DEF Rank
    <2>2. at(r) # at(g)
      BY <2>1, RanksDiffer
    <2>3. Rank(new, r) = IF g \in Ahead(rows, r) THEN at(r) - 1 ELSE at(r)
      BY <1>3, <2>1, FS_RemoveElement DEF Rank
    <2>4. rows[r].at \in Nat /\ rows[g].at \in Nat
      BY <1>1, <2>1 DEF Rsvp
    <2>5. g \in Ahead(rows, r) <=> rows[g].at < rows[r].at
      BY DEF Ahead
    <2>6. CASE rows[g].at < rows[r].at
      <3>1. at(g) < at(r)
        BY <2>1, <2>6, RanksAreOrdered
      <3> QED
        BY <2>1, <2>2, <2>3, <2>5, <2>6, <3>1
    <2>7. CASE ~(rows[g].at < rows[r].at)
      <3>1. rows[r].at # rows[g].at
        BY <2>1 DEF NoTies
      <3>2. at(r) < at(g)
        BY <2>1, <2>4, <2>7, <3>1, RanksAreOrdered
      <3>3. ~(at(g) < at(r))
        BY <2>1, <3>2
      <3> QED
        BY <2>1, <2>2, <2>3, <2>5, <2>7, <3>3
    <2> QED
      BY <2>6, <2>7
  <1>5. NoTies(new)
    BY <1>1 DEF NoTies
  <1>6. /\ Len(q) = m /\ at(g) + 1 \in 1..m /\ at(g) \in Nat
        /\ \A i \in 1..m : q[i] \in Committed(rows) /\ at(q[i]) = i - 1
    BY InLine, AheadIsFinite DEF Rank
  <1>7. ASSUME NEW k \in 1..(m - 1) PROVE rest[k] \in Committed(new) /\ Rank(new, rest[k]) = k - 1
    <2> HIDE DEF q, m, at
    <2>1. CASE k < at(g) + 1
      <3>1. rest[k] = q[k] /\ k \in 1..m
        BY <1>2, <2>1
      <3>2. q[k] \in Committed(rows) /\ at(q[k]) = k - 1
        BY <1>6, <3>1
      <3>3. at(q[k]) < at(g)
        BY <1>6, <2>1, <3>2
      <3>4. q[k] \in Committed(new)
        BY <1>1, <1>6, <3>2, <3>3
      <3>5. Rank(new, q[k]) = at(q[k])
        BY <1>4, <3>3, <3>4
      <3> QED
        BY <3>1, <3>2, <3>4, <3>5
    <2>2. CASE ~(k < at(g) + 1)
      <3>1. rest[k] = q[k + 1] /\ k + 1 \in 1..m
        BY <1>2, <2>2
      <3>2. q[k + 1] \in Committed(rows) /\ at(q[k + 1]) = k
        BY <1>6, <3>1
      <3>3. at(g) < at(q[k + 1])
        BY <1>6, <2>2, <3>2
      <3>4. q[k + 1] \in Committed(new)
        BY <1>1, <1>6, <3>2, <3>3
      <3>5. Rank(new, q[k + 1]) = at(q[k + 1]) - 1
        BY <1>4, <3>3, <3>4
      <3> QED
        BY <3>1, <3>2, <3>4, <3>5
    <2> QED
      BY <2>1, <2>2
  <1>8. InOrder(new) = rest
    <2> DEFINE k == Cardinality(Committed(new))
    <2>1. k = m - 1 /\ rest = [i \in 1..(m - 1) |-> rest[i]]
      BY <1>2
    <2> HIDE DEF rest
    <2>2. rest = [i \in 1..k |-> rest[i]] /\ \A i \in 1..k : rest[i] \in Committed(new) /\ Rank(new, rest[i]) = i - 1
      BY <1>7, <2>1
    <2> QED
      BY <1>5, <2>2, TheOnlyLine
  <1>9. ASSUME NEW n \in Nat \cup {Null}, NEW x \in Seated(new, n) \ Seated(rows, n),
               NEW y \in Seated(new, n) \ Seated(rows, n)
        PROVE  x = y
    <2>1. /\ x \in Committed(new) /\ y \in Committed(new) /\ x \in Committed(rows) /\ y \in Committed(rows)
          /\ n # Null /\ Rank(new, x) < n /\ Rank(new, y) < n /\ ~(at(x) < n) /\ ~(at(y) < n)
      BY <1>1 DEF Seated, Rank
    <2> HIDE DEF at
    <2>2. at(x) = n /\ at(y) = n
      BY <1>4, <2>1
    <2> QED
      BY <2>1, <2>2, RanksDiffer DEF at
  <1> QED
    BY <1>5, <1>6, <1>8, <1>9

\* What the request in flight has read and chosen, when there is no other.
QueueFits ==
  \A w \in Workers :
    LET job == jobs[w]
    IN  /\ job.pc \in {"read", "wrote", "chosen"} =>
             /\ event.live
             /\ job.answer \in {"ja", "nej"}
             /\ job.found = rsvps[job.resident].answer
             /\ job.before = Seated(rsvps, event.capacity)
        /\ job.pc \in {"wrote", "chosen"} => job.changed = (job.found # job.answer)
        /\ job.pc = "chosen" =>
             IF job.promoted = Null THEN Crossed(w) = {} ELSE job.promoted \in Crossed(w)
        /\ job.pc = "editing" => ~IsCancelled(job.seen) /\ job.seen.capacity \in Capacities
        /\ job.pc = "cancelling" => IsCancelled(job.seen)
        /\ job.pc \in {"deleting", "emptied"} => Committed(rsvps) = {} \/ Expired(event, now)
        /\ job.pc = "emptied" => job.rows = Rows

QueueInv == SeatInv /\ NoTies(rsvps) /\ QueueFits

\* A step of the waiting list, or none.
Serves == Promise!Next \/ Promise!vars' = Promise!vars

\* What concerns neither the answers, the row nor the time.
LEMMA QueueStays ==
  ASSUME NoTies(rsvps), UNCHANGED <<now, event, rsvps, told>>
  PROVE  NoTies(rsvps)' /\ Serves
  BY DEF NoTies, Serves, Promise!vars

LEMMA NothingToServe ==
  ASSUME \A v, w \in Workers : v = w, TypeOK, NEW w \in Workers, NEW job, jobs' = [jobs EXCEPT ![w] = job],
         job.pc \in {"idle", "due", "claimed"}
  PROVE  QueueFits'
  <1>1. \A v \in Workers : jobs'[v] = job
    BY DEF TypeOK
  <1> QED
    BY <1>1 DEF QueueFits

LEMMA ExpiredStaysSo ==
  ASSUME TypeOK, Expired(event, now)
  PROVE  Expired(event, now + 1)
  <1>1. /\ now \in Nat /\ event.starts \in Nat /\ event.cancelledAt \in Nat \cup {Null}
        /\ Retention \in Nat /\ CancelledGrace \in Nat
    BY ConstantsAssumption DEF TypeOK, Event
  <1> QED
    BY <1>1 DEF Expired, IsCancelled

\* A request that begins.
LEMMA QueueArrive ==
  ASSUME \A v, w \in Workers : v = w, QueueInv, NEW w \in Workers, Arrive(w)
  PROVE  QueueFits' /\ NoTies(rsvps)' /\ Serves
  <1>1. /\ UNCHANGED <<now, event, rsvps, told>>
        /\ TypeOK /\ jobs \in [Workers -> Job] /\ event \in Event /\ now \in Nat
    BY DEF QueueInv, SeatInv, TypeOK, Arrive, BeginAnswer, BeginEdit, BeginCancel, BeginDelete, BeginSweep,
           BeginReminder
  <1>2. NoTies(rsvps)' /\ Serves
    BY <1>1, QueueStays DEF QueueInv
  <1>3. ASSUME NEW r \in Residents, NEW a \in {"ja", "nej"}, BeginAnswer(w, r, a) PROVE QueueFits'
    <2> DEFINE job == [Idle EXCEPT !.pc = "read", !.seen = event, !.resident = r, !.answer = a,
                                   !.found = rsvps[r].answer, !.at = stamp + 1,
                                   !.before = Seated(rsvps, event.capacity)]
    <2>1. jobs' = [jobs EXCEPT ![w] = job] /\ event.live
      BY <1>3 DEF BeginAnswer
    <2>2. /\ job.pc = "read" /\ job.resident = r /\ job.answer = a /\ job.found = rsvps[r].answer
          /\ job.before = Seated(rsvps, event.capacity)
      BY DEF Idle
    <2> HIDE DEF job
    <2>3. \A v \in Workers : jobs'[v] = job
      BY <1>1, <2>1
    <2> QED
      BY <1>1, <2>1, <2>2, <2>3 DEF QueueFits
  <1>4. ASSUME NEW s \in StartTimes, NEW d \in Deadlines, NEW c \in Capacities, BeginEdit(w, s, d, c)
        PROVE  QueueFits'
    <2> DEFINE sequence == IF SignificantChange(event, s) THEN event.sequence + 1 ELSE event.sequence
               seen == [event EXCEPT !.starts = s, !.deadline = d, !.capacity = c, !.sequence = sequence]
               job == [Idle EXCEPT !.pc = "editing", !.seen = seen]
    <2>1. jobs' = [jobs EXCEPT ![w] = job] /\ ~IsCancelled(event)
      BY <1>4 DEF BeginEdit
    <2>2. seen.capacity = c /\ seen.cancelledAt = event.cancelledAt
      BY <1>1 DEF Event
    <2> HIDE DEF seen
    <2>3. job.pc = "editing" /\ job.seen = seen
      BY DEF Idle
    <2> HIDE DEF job
    <2>4. \A v \in Workers : jobs'[v] = job
      BY <1>1, <2>1
    <2> QED
      BY <2>1, <2>2, <2>3, <2>4 DEF QueueFits, IsCancelled
  <1>5. CASE BeginCancel(w)
    <2> DEFINE job == [Idle EXCEPT !.pc = "cancelling", !.seen = Cancelled(event, now)]
    <2>1. jobs' = [jobs EXCEPT ![w] = job]
      BY <1>5 DEF BeginCancel
    <2>2. job.pc = "cancelling" /\ job.seen = Cancelled(event, now)
      BY DEF Idle
    <2>3. IsCancelled(Cancelled(event, now))
      <3>1. Cancelled(event, now).cancelledAt = now
        BY <1>1 DEF Cancelled, Event
      <3> QED
        BY <1>1, <3>1, ConstantsAssumption DEF IsCancelled
    <2> HIDE DEF job
    <2>4. \A v \in Workers : jobs'[v] = job
      BY <1>1, <2>1
    <2> QED
      BY <1>2, <2>2, <2>3, <2>4 DEF QueueFits
  <1>6. CASE BeginReminder(w)
    <2> DEFINE job == [Idle EXCEPT !.pc = "due"]
    <2>1. jobs' = [jobs EXCEPT ![w] = job] /\ job.pc = "due"
      BY <1>6 DEF BeginReminder, Idle
    <2> HIDE DEF job
    <2> QED
      BY <1>1, <1>2, <2>1, NothingToServe
  <1>7. CASE BeginDelete(w) \/ BeginSweep(w)
    <2> DEFINE job == [Idle EXCEPT !.pc = "deleting"]
    <2>1. jobs' = [jobs EXCEPT ![w] = job] /\ job.pc = "deleting"
      BY <1>7 DEF BeginDelete, BeginSweep, Idle
    <2>2. Committed(rsvps) = {} \/ Expired(event, now)
      BY <1>7 DEF BeginDelete, BeginSweep, CanDelete
    <2> HIDE DEF job
    <2>3. \A v \in Workers : jobs'[v] = job
      BY <1>1, <2>1
    <2> QED
      BY <1>1, <1>2, <2>1, <2>2, <2>3 DEF QueueFits
  <1> QED
    BY <1>2, <1>3, <1>4, <1>5, <1>6, <1>7 DEF Arrive

\* An answer that is committed.
LEMMA AnswerIsServed ==
  ASSUME \A v, w \in Workers : v = w, QueueInv, NEW w \in Workers, CommitAnswer(w)
  PROVE  NoTies(rsvps)' /\ Serves
  <1> DEFINE g == jobs[w].resident
             new == View(w)
             n == event.capacity
             promoted == jobs[w].promoted
             panel == IF g \in Seated(new, n) THEN told \cup {g} ELSE told \ {g}
  <1>1. /\ rsvps \in [Residents -> Rsvp] /\ NoTies(rsvps) /\ n \in Nat \cup {Null} /\ g \in Residents
        /\ jobs[w].at \in Nat /\ \A r \in Residents : rsvps[r].at < jobs[w].at
        /\ told \subseteq Residents /\ ~IsCancelled(event) /\ jobs[w].seen = event
        /\ jobs[w].answer \in {"ja", "nej"} /\ jobs[w].found = rsvps[g].answer
        /\ jobs[w].before = Seated(rsvps, n) /\ jobs[w].changed = (jobs[w].found # jobs[w].answer)
        /\ IF promoted = Null THEN Crossed(w) = {} ELSE promoted \in Crossed(w)
    BY DEF QueueInv, SeatInv, TypeOK, RequestsFit, QueueFits, Event, Job, CommitAnswer
  <1>2. /\ rsvps' = new /\ event' = event /\ now' = now
        /\ told' = IF promoted = Null THEN panel ELSE panel \cup {promoted}
    BY DEF CommitAnswer
  <1>3. Crossed(w) = (Seated(new, n) \ Seated(rsvps, n)) \ {g}
    BY <1>1 DEF Crossed
  <1>4. new = IF jobs[w].changed THEN [rsvps EXCEPT ![g] = [answer |-> jobs[w].answer, at |-> jobs[w].at]]
                                 ELSE rsvps
    BY DEF View
  <1>5. new \in [Residents -> Rsvp]
    BY <1>1, <1>4 DEF Rsvp, Answers
  <1> HIDE DEF new, n, promoted, g
  <1>6. ASSUME NoTies(new)
        PROVE  /\ Promise!Seats(InOrder(rsvps), n) = Seated(rsvps, n)
               /\ Promise!Seats(InOrder(rsvps'), n) = Seated(new, n)
               /\ Promise!Hears(g, InOrder(rsvps')) = panel
    <2>1. Promise!Seats(InOrder(new), n) = Seated(new, n)
      BY <1>1, <1>5, <1>6, TheHeadIsSeated
    <2>2. Promise!Hears(g, InOrder(new)) = panel
      BY <2>1 DEF Promise!Hears, n
    <2> QED
      BY <1>1, <1>2, <2>1, <2>2, TheHeadIsSeated
  <1>7. ASSUME NoTies(new), Promise!Join(g) \/ Promise!Leave(g) \/ Promise!Look(g)
        PROVE  NoTies(rsvps)' /\ Serves
    BY <1>1, <1>2, <1>7 DEF Serves, Promise!Next, NoTies
  <1>8. CASE Committed(new) = Committed(rsvps) /\ \A r \in Committed(rsvps) : new[r].at = rsvps[r].at
    <2>1. NoTies(new) /\ InOrder(rsvps') = InOrder(rsvps) /\ Seated(new, n) = Seated(rsvps, n)
      BY <1>1, <1>2, <1>8, LineStays
    <2>2. told' = panel
      BY <1>1, <1>2, <1>3, <2>1
    <2>3. Promise!Look(g)
      BY <1>1, <1>2, <1>6, <2>1, <2>2 DEF Promise!Look
    <2> QED
      BY <1>7, <2>1, <2>3
  <1>9. CASE jobs[w].changed /\ jobs[w].answer = "ja"
    <2>1. g \notin Committed(rsvps)
      BY <1>1, <1>9 DEF Committed
    <2>2. new = [rsvps EXCEPT ![g] = [answer |-> "ja", at |-> jobs[w].at]]
      BY <1>4, <1>9
    <2>3. NoTies(new) /\ InOrder(new) = Append(InOrder(rsvps), g) /\ Seated(new, n) \subseteq Seated(rsvps, n) \cup {g}
      <3>1. new[g].answer = "ja" /\ \A r \in Residents \ {g} : new[r] = rsvps[r] /\ rsvps[r].at < new[g].at
        BY <1>1, <2>2
      <3> QED
        BY <1>1, <1>5, <2>1, <3>1, Joins
    <2>4. told' = panel
      BY <1>1, <1>2, <1>3, <2>3
    <2>5. Promise!Places(g) = {}
      BY <2>1, PlacesInLine DEF QueueInv, SeatInv
    <2>6. Promise!Join(g)
      BY <1>1, <1>2, <1>6, <2>3, <2>4, <2>5 DEF Promise!Join
    <2> QED
      BY <1>7, <2>3, <2>6
  <1>10. CASE jobs[w].changed /\ jobs[w].answer = "nej" /\ g \in Committed(rsvps)
    <2>1. new[g].answer = "nej" /\ \A r \in Residents \ {g} : new[r] = rsvps[r]
      BY <1>1, <1>4, <1>10
    <2>2. /\ NoTies(new)
          /\ InOrder(new) = [k \in 1..(Len(InOrder(rsvps)) - 1) |->
                               IF k < Rank(rsvps, g) + 1 THEN InOrder(rsvps)[k] ELSE InOrder(rsvps)[k + 1]]
          /\ \A x, y \in Seated(new, n) \ Seated(rsvps, n) : x = y
      BY <1>1, <1>5, <1>10, <2>1, Leaves
    <2>3. g \notin Seated(new, n)
      BY <2>1 DEF Seated, Committed
    <2>4. told' = panel \cup (Seated(new, n) \ Seated(rsvps, n))
      BY <1>1, <1>2, <1>3, <2>2, <2>3
    <2>5. Rank(rsvps, g) + 1 \in Promise!Places(g)
      BY <1>10, PlacesInLine DEF QueueInv, SeatInv
    <2>6. Promise!Leave(g)
      BY <1>1, <1>2, <1>6, <2>2, <2>4, <2>5 DEF Promise!Leave, n
    <2> QED
      BY <1>7, <2>2, <2>6
  <1>11. CASE ~jobs[w].changed \/ (jobs[w].answer = "nej" /\ g \notin Committed(rsvps))
    <2>1. CASE new = rsvps
      BY <1>8, <2>1
    <2>2. CASE jobs[w].changed /\ jobs[w].answer = "nej" /\ g \notin Committed(rsvps)
      <3>1. new[g].answer = "nej" /\ \A r \in Residents \ {g} : new[r] = rsvps[r]
        BY <1>1, <1>4, <2>2
      <3> QED
        BY <1>8, <2>2, <3>1 DEF Committed
    <2> QED
      BY <1>4, <1>11, <2>1, <2>2
  <1> QED
    BY <1>1, <1>9, <1>10, <1>11

\* A request that goes on.
LEMMA QueueAdvance ==
  ASSUME \A v, w \in Workers : v = w, QueueInv, NEW w \in Workers, Advance(w)
  PROVE  QueueFits' /\ NoTies(rsvps)' /\ Serves
  <1>1. /\ TypeOK /\ RequestsFit /\ QueueFits /\ NoTies(rsvps) /\ now' = now
        /\ jobs \in [Workers -> Job] /\ jobs[w] \in Job /\ event \in Event
        /\ rsvps \in [Residents -> Rsvp] /\ event.capacity \in Nat \cup {Null}
    BY DEF QueueInv, SeatInv, TypeOK, Event, Advance, WriteAnswer, ChoosePromoted, CommitAnswer, AbortAnswer,
           SaveEdit, SaveCancel, DeleteAnswers, RemoveEvent, ClaimReminder, SendReminder
  <1>2. ASSUME UNCHANGED <<event, rsvps, told>> PROVE NoTies(rsvps)' /\ Serves
    BY <1>1, <1>2, QueueStays
  <1>3. ASSUME Finish(w) PROVE QueueFits'
    BY <1>1, <1>3, NothingToServe DEF Finish, Idle
  <1>4. ASSUME event'.capacity = event.capacity, IsCancelled(event') = IsCancelled(event),
               Expired(event', now) = Expired(event, now), UNCHANGED <<rsvps, told>>
        PROVE  NoTies(rsvps)' /\ Serves
    BY <1>1, <1>4 DEF NoTies, Serves, Promise!vars
  <1>5. CASE WriteAnswer(w)
    <2> DEFINE job == [jobs[w] EXCEPT !.pc = "wrote", !.changed = Changes(w)]
    <2>1. jobs' = [jobs EXCEPT ![w] = job] /\ UNCHANGED <<event, rsvps, told>> /\ jobs[w].pc = "read"
      BY <1>1, <1>5 DEF WriteAnswer, Job
    <2>2. /\ job.pc = "wrote" /\ job.resident = jobs[w].resident /\ job.answer = jobs[w].answer
          /\ job.found = jobs[w].found /\ job.before = jobs[w].before /\ job.changed = Changes(w)
      BY <1>1 DEF Job
    <2>3. /\ event.live /\ jobs[w].answer \in {"ja", "nej"}
          /\ jobs[w].found = rsvps[jobs[w].resident].answer /\ jobs[w].before = Seated(rsvps, event.capacity)
      BY <1>1, <2>1 DEF QueueFits
    <2>4. Changes(w) = (jobs[w].found # jobs[w].answer)
      BY <2>3 DEF Changes
    <2> HIDE DEF job
    <2>5. \A v \in Workers : jobs'[v] = job
      BY <1>1, <2>1
    <2>6. QueueFits'
      BY <2>1, <2>2, <2>3, <2>4, <2>5 DEF QueueFits
    <2> QED
      BY <1>2, <2>1, <2>6
  <1>6. CASE ChoosePromoted(w)
    <2>1. PICK p : /\ jobs' = [jobs EXCEPT ![w] = [jobs[w] EXCEPT !.pc = "chosen", !.promoted = p]]
                   /\ IF p = Null THEN Crossed(w) = {} ELSE p \in Crossed(w)
      <3>1. jobs[w].promoted = Null
        BY <1>1, <1>6 DEF ChoosePromoted, RequestsFit
      <3>2. CASE jobs' = [jobs EXCEPT ![w].pc = "chosen"] /\ Crossed(w) = {}
        <4>1. [jobs[w] EXCEPT !.pc = "chosen"] = [jobs[w] EXCEPT !.pc = "chosen", !.promoted = Null]
          BY <1>1, <3>1 DEF Job
        <4> QED
          BY <1>1, <3>2, <4>1
      <3>3. ASSUME NEW p \in Crossed(w), jobs' = [jobs EXCEPT ![w].pc = "chosen", ![w].promoted = p]
            PROVE  jobs' = [jobs EXCEPT ![w] = [jobs[w] EXCEPT !.pc = "chosen", !.promoted = p]] /\ p # Null
        <4>1. p \in Residents
          BY DEF Crossed, Seated, Committed
        <4> QED
          BY <1>1, <3>3, <4>1, ConstantsAssumption
      <3> QED
        BY <1>6, <3>2, <3>3 DEF ChoosePromoted
    <2> DEFINE job == [jobs[w] EXCEPT !.pc = "chosen", !.promoted = p]
    <2>2. /\ job.pc = "chosen" /\ job.seen = jobs[w].seen /\ job.resident = jobs[w].resident
          /\ job.at = jobs[w].at /\ job.promoted = p /\ job.changed = jobs[w].changed
          /\ job.answer = jobs[w].answer /\ job.found = jobs[w].found /\ job.before = jobs[w].before
      BY <1>1 DEF Job
    <2> HIDE DEF job
    <2>3. \A v \in Workers : jobs'[v] = job
      BY <1>1, <2>1 DEF job
    <2>4. rsvps' = rsvps /\ event' = event /\ told' = told /\ jobs[w].pc = "wrote"
      BY <1>6 DEF ChoosePromoted
    <2>5. View(w)' = View(w) /\ jobs'[w] = job
      BY <2>2, <2>3, <2>4 DEF View
    <2>6. Crossed(w)' = Crossed(w)
      BY <2>2, <2>5 DEF Crossed
    <2>7. /\ event.live /\ jobs[w].answer \in {"ja", "nej"}
          /\ jobs[w].found = rsvps[jobs[w].resident].answer /\ jobs[w].before = Seated(rsvps, event.capacity)
          /\ jobs[w].changed = (jobs[w].found # jobs[w].answer)
      BY <1>1, <2>4 DEF QueueFits
    <2>8. \A v \in Workers : v = w
      OBVIOUS
    <2>9. QueueFits'
      BY <2>1, <2>2, <2>3, <2>4, <2>6, <2>7, <2>8 DEF QueueFits
    <2> QED
      BY <1>2, <2>4, <2>9
  <1>7. CASE CommitAnswer(w)
    BY <1>3, <1>7, AnswerIsServed DEF CommitAnswer
  <1>8. CASE AbortAnswer(w) \/ SendReminder(w)
    BY <1>2, <1>3, <1>8 DEF AbortAnswer, SendReminder
  <1>9. CASE SaveEdit(w)
    <2> DEFINE n == jobs[w].seen.capacity
    <2>1. /\ event' = jobs[w].seen /\ rsvps' = rsvps /\ told' = told /\ Finish(w)
          /\ ~IsCancelled(event) /\ ~IsCancelled(event') /\ n \in Capacities /\ n \in Nat \cup {Null}
          /\ n # Null => Cardinality(Seated(rsvps, event.capacity)) <= n
      BY <1>1, <1>9, ConstantsAssumption DEF SaveEdit, RequestsFit, QueueFits
    <2>2. Seated(rsvps, event.capacity) \subseteq Seated(rsvps, n)
      BY <1>1, <2>1, ResizingKeepsSeats
    <2>3. Promise!Seats(InOrder(rsvps), event.capacity) \subseteq Promise!Seats(InOrder(rsvps), n)
      BY <1>1, <2>1, <2>2, TheHeadIsSeated
    <2>4. Expired(event', now') \in BOOLEAN
      BY DEF Expired
    <2>5. Promise!Resize(n)
      <3>1. event'.capacity = n /\ InOrder(rsvps') = InOrder(rsvps) /\ told' = told
        BY <2>1
      <3>2. IsCancelled(event') = IsCancelled(event)
        BY <2>1 DEF IsCancelled
      <3> HIDE DEF n
      <3> QED
        BY <2>1, <2>3, <2>4, <3>1, <3>2 DEF Promise!Resize
    <2> QED
      BY <1>1, <1>3, <2>1, <2>5 DEF NoTies, Serves, Promise!Next
  <1>10. CASE SaveCancel(w)
    <2>1. CASE event.live
      <3>1. /\ event' = [event EXCEPT !.cancelledAt = jobs[w].seen.cancelledAt, !.sequence = jobs[w].seen.sequence]
            /\ rsvps' = rsvps /\ told' = told /\ Finish(w) /\ ~IsCancelled(event) /\ IsCancelled(jobs[w].seen)
        BY <1>1, <1>10, <2>1 DEF SaveCancel, RequestsFit, QueueFits
      <3>2. event'.capacity = event.capacity /\ IsCancelled(event')
        BY <1>1, <3>1 DEF Event, IsCancelled
      <3>3. Expired(event', now') \in BOOLEAN
        BY DEF Expired
      <3>4. Promise!CallOff
        BY <3>1, <3>2, <3>3 DEF Promise!CallOff
      <3> QED
        BY <1>1, <1>3, <3>1, <3>4 DEF NoTies, Serves, Promise!Next
    <2>2. CASE ~event.live
      BY <1>2, <1>3, <1>10, <2>2 DEF SaveCancel
    <2> QED
      BY <2>1, <2>2
  <1>11. CASE DeleteAnswers(w)
    <2> DEFINE job == [jobs[w] EXCEPT !.pc = "emptied", !.rows = Rows]
    <2>1. jobs' = [jobs EXCEPT ![w] = job] /\ job.pc = "emptied" /\ job.rows = Rows
          /\ UNCHANGED <<event, rsvps, told>>
      BY <1>1, <1>11 DEF DeleteAnswers, Job
    <2>2. Committed(rsvps) = {} \/ Expired(event, now)
      BY <1>1, <1>11 DEF DeleteAnswers, QueueFits
    <2> HIDE DEF job
    <2>3. \A v \in Workers : jobs'[v] = job
      BY <1>1, <2>1
    <2>4. Rows' = Rows
      BY <2>1 DEF Rows
    <2>5. QueueFits'
      BY <1>1, <2>1, <2>2, <2>3, <2>4 DEF QueueFits
    <2> QED
      BY <1>2, <2>1, <2>5
  <1>12. CASE RemoveEvent(w)
    <2>1. CASE NothingLeftBehind(w)
      <3>1. /\ event' = [event EXCEPT !.live = FALSE] /\ told' = told /\ Finish(w)
            /\ rsvps' = [r \in Residents |-> IF r \in jobs[w].rows THEN NoAnswer ELSE rsvps[r]]
            /\ jobs[w].rows = Rows
            /\ Committed(rsvps) = {} \/ Expired(event, now)
        BY <1>1, <1>12, <2>1 DEF RemoveEvent, QueueFits
      <3>2. Committed(rsvps') = {}
        BY <1>12, <2>1, <3>1 DEF Committed, RemoveEvent, NothingLeftBehind, Rows, NoAnswer
      <3>3. Cardinality({}) = 0
        BY FS_EmptySet
      <3>4. InOrder(rsvps') = <<>>
        BY <3>2, <3>3 DEF InOrder
      <3>5. Committed(rsvps) = {} => InOrder(rsvps) = <<>>
        BY <3>3 DEF InOrder
      <3>6. /\ event'.capacity = event.capacity /\ event'.cancelledAt = event.cancelledAt
            /\ event'.starts = event.starts
        BY <1>1, <3>1 DEF Event
      <3>7. Promise!Dissolve
        BY <1>1, <3>1, <3>4, <3>5, <3>6 DEF Promise!Dissolve, Expired, IsCancelled
      <3> QED
        BY <1>3, <3>1, <3>2, <3>7 DEF NoTies, Serves, Promise!Next
    <2>2. CASE ~NothingLeftBehind(w)
      BY <1>2, <1>3, <1>12, <2>2 DEF RemoveEvent
    <2> QED
      BY <2>1, <2>2
  <1>13. CASE ClaimReminder(w)
    <2>1. CASE Claimable
      <3> DEFINE job == [jobs[w] EXCEPT !.pc = "claimed"]
      <3>1. jobs' = [jobs EXCEPT ![w] = job] /\ job.pc = "claimed" /\ event' = [event EXCEPT !.reminded = TRUE]
            /\ UNCHANGED <<rsvps, told>>
        BY <1>1, <1>13, <2>1 DEF ClaimReminder, Job
      <3> HIDE DEF job
      <3>2. QueueFits'
        BY <1>1, <3>1, NothingToServe
      <3>3. /\ event'.capacity = event.capacity /\ event'.cancelledAt = event.cancelledAt
            /\ event'.starts = event.starts
        BY <1>1, <3>1 DEF Event
      <3> QED
        BY <1>4, <3>1, <3>2, <3>3 DEF Expired, IsCancelled
    <2>2. CASE ~Claimable
      BY <1>2, <1>3, <1>13, <2>2 DEF ClaimReminder
    <2> QED
      BY <2>1, <2>2
  <1> QED
    BY <1>5, <1>6, <1>7, <1>8, <1>9, <1>10, <1>11, <1>12, <1>13 DEF Advance

LEMMA QueueStep ==
  ASSUME \A v, w \in Workers : v = w, QueueInv, [Next]_vars
  PROVE  QueueInv' /\ Serves
  <1>1. SeatInv' /\ TypeOK
    BY SeatsStep DEF QueueInv, SeatInv
  <1>2. CASE UNCHANGED vars
    <2>1. UNCHANGED <<now, event, rsvps, told, jobs>>
      BY <1>2 DEF vars
    <2>2. Rows' = Rows /\ \A w \in Workers : Crossed(w)' = Crossed(w)
      BY <2>1 DEF Rows, Crossed, View
    <2>3. QueueFits'
      BY <2>1, <2>2 DEF QueueInv, QueueFits
    <2> QED
      BY <1>1, <2>1, <2>3, QueueStays DEF QueueInv
  <1>3. CASE Tick
    <2>1. UNCHANGED <<event, rsvps, told, jobs>> /\ now' = now + 1
      BY <1>3 DEF Tick
    <2>2. Rows' = Rows /\ \A w \in Workers : Crossed(w)' = Crossed(w)
      BY <2>1 DEF Rows, Crossed, View
    <2>3. Expired(event, now) => Expired(event', now')
      BY <1>1, <2>1, ExpiredStaysSo
    <2>4. QueueFits'
      BY <2>1, <2>2, <2>3 DEF QueueInv, QueueFits
    <2>5. NoTies(rsvps)'
      BY <2>1 DEF QueueInv, NoTies
    <2>6. ASSUME Expired(event', now') = Expired(event, now) PROVE Serves
      BY <2>1, <2>6 DEF Serves, Promise!vars
    <2>7. ASSUME ~Expired(event, now), Expired(event', now') PROVE Serves
      <3>1. Promise!Pass
        BY <2>1, <2>7 DEF Promise!Pass
      <3> QED
        BY <3>1 DEF Serves, Promise!Next
    <2>8. Serves
      <3>1. CASE Expired(event, now)
        <4>1. Expired(event', now') \in BOOLEAN /\ Expired(event, now) \in BOOLEAN
          BY DEF Expired
        <4> QED
          BY <2>3, <2>6, <3>1, <4>1
      <3>2. CASE ~Expired(event, now) /\ ~Expired(event', now')
        <4>1. Expired(event', now') \in BOOLEAN /\ Expired(event, now) \in BOOLEAN
          BY DEF Expired
        <4> QED
          BY <2>6, <3>2, <4>1
      <3> QED
        BY <2>7, <3>1, <3>2
    <2> QED
      BY <1>1, <2>4, <2>5, <2>8 DEF QueueInv
  <1>4. ASSUME NEW w \in Workers, Arrive(w) PROVE QueueInv' /\ Serves
    BY <1>1, <1>4, QueueArrive DEF QueueInv
  <1>5. ASSUME NEW w \in Workers, Advance(w) PROVE QueueInv' /\ Serves
    BY <1>1, <1>5, QueueAdvance DEF QueueInv
  <1>6. ASSUME NEW w \in Workers, Crash(w) PROVE QueueInv' /\ Serves
    <2>1. QueueFits'
      BY <1>1, <1>6, NothingToServe DEF Crash, Finish, Idle
    <2> QED
      BY <1>1, <1>6, <2>1, QueueStays DEF Crash, QueueInv
  <1> QED
    BY <1>2, <1>3, <1>4, <1>5, <1>6 DEF Next

LEMMA QueueInit == Init => QueueInv /\ Promise!Init
  <1> SUFFICES ASSUME Init PROVE QueueInv /\ Promise!Init
    OBVIOUS
  <1>1. SeatInv /\ TypeOK /\ rsvps \in [Residents -> Rsvp]
    BY SeatsInit DEF SeatInv, TypeOK
  <1>2. QueueFits
    <2>1. \A w \in Workers : jobs[w].pc = "idle"
      BY DEF Init, Idle
    <2> QED
      BY <2>1 DEF QueueFits
  <1>3. NoTies(rsvps)
    <2> DEFINE Start(yes, at) ==
                 /\ \A r, s \in yes : r # s => at[r] # at[s]
                 /\ rsvps = [r \in Residents |-> IF r \in yes THEN [answer |-> "ja", at |-> at[r]]
                                                              ELSE NoAnswer]
    <2>1. PICK yes \in SUBSET Residents : \E at \in [yes -> 1..Cardinality(yes)] : Start(yes, at)
      BY DEF Init
    <2>2. PICK at \in [yes -> 1..Cardinality(yes)] : Start(yes, at)
      BY <2>1
    <2>3. \A r \in Committed(rsvps) : r \in yes /\ rsvps[r].at = at[r]
      BY <2>2 DEF Committed, NoAnswer
    <2> QED
      BY <2>2, <2>3 DEF NoTies
  <1>4. /\ event.capacity \in Capacities /\ event.capacity \in Nat \cup {Null} /\ ~IsCancelled(event)
        /\ told = Seated(rsvps, event.capacity)
    BY ConstantsAssumption DEF Init, IsCancelled
  <1>5. InOrder(rsvps) \in Seq(Residents) /\ told = Promise!Seats(InOrder(rsvps), event.capacity)
    BY <1>1, <1>3, <1>4, InLine, TheHeadIsSeated
  <1>6. \A g \in Residents : \A i, j \in Promise!Places(g) : i = j
    BY <1>1, <1>3, PlacesInLine
  <1>7. Expired(event, now) \in BOOLEAN
    BY DEF Expired
  <1> QED
    BY <1>1, <1>2, <1>3, <1>4, <1>5, <1>6, <1>7 DEF QueueInv, Promise!Init

\* services.seated and set_answer, for every capacity and any number of residents: with requests that do not
\* overlap, an event, which stores neither seats nor places, is the waiting list it promises to be: served in
\* order, nobody overtaken, whoever moves up told, frozen once it is cancelled.
THEOREM EventIsWaitingList ==
  ASSUME \A v, w \in Workers : v = w
  PROVE  KalenderSpec => ImplementsWaitingList
  <1>1. KalenderInit => QueueInv /\ Promise!Init
    BY QueueInit DEF KalenderInit
  <1>2. KalenderTypeOK /\ QueueInv /\ [KalenderNext]_<<vars, kalenderVars>> => QueueInv' /\ [Promise!Next]_(Promise!vars)
    <2> SUFFICES ASSUME KalenderTypeOK, QueueInv, [KalenderNext]_<<vars, kalenderVars>>
                 PROVE  QueueInv' /\ (Promise!Next \/ Promise!vars' = Promise!vars)
      OBVIOUS
    <2>1. CASE Next \/ UNCHANGED vars
      BY <2>1, QueueStep DEF Serves
    <2>2. CASE KalenderStep
      <3>1. UNCHANGED <<now, event, rsvps, stamp, jobs, told>>
        BY <2>2 DEF KalenderStep
      <3>2. TypeOK'
        BY <2>2, KalenderStepKeepsType DEF KalenderTypeOK
      <3>3. Rows' = Rows /\ \A w \in Workers : Crossed(w)' = Crossed(w) /\ View(w)' = View(w)
        BY <3>1 DEF Rows, Crossed, View
      <3>4. SeatInv'
        BY <3>1, <3>2, <3>3 DEF QueueInv, SeatInv, RequestsFit, ToldAreSeated
      <3>5. QueueFits'
        BY <3>1, <3>3 DEF QueueInv, QueueFits
      <3> QED
        BY <3>1, <3>4, <3>5, QueueStays DEF QueueInv, Serves
    <2> QED
      BY <2>1, <2>2 DEF KalenderNext, vars, kalenderVars
  <1> QED
    BY <1>1, <1>2, KalenderTypesHold, PTL DEF KalenderSpec, ImplementsWaitingList, Promise!Spec
=============================================================================
