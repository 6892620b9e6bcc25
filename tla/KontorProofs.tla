----------------------------- MODULE KontorProofs -----------------------------
(* What the offices guarantee for every number of workers, tickets, boards   *)
(* and applications: AK's deduction, the repair board, Admissions, and the   *)
(* public pages.                                                            *)
EXTENDS IntranetProofs, SequenceTheorems

-----------------------------------------------------------------------------
(* AK *)

\* Who is about to set the marker has applied the month.
MarksAreBooked == \A w \in AkWorkers : akJobs[w].pc = "mark" => akJobs[w].month \in booked

AkInv == AkTypeOK /\ MarkedMonthIsBooked /\ MarksAreBooked

LEMMA AkInitInv ==
  ASSUME Init
  PROVE  AkInv
  <1>1. AkInit
    BY DEF Init
  <1>2. 1 \in Months
    BY ListAssumption DEF Months
  <1>3. AkTypeOK
    <2>1. AkIdle \in AkJob
      BY <1>2 DEF AkIdle, AkJob
    <2>2. schedule \in [Months -> Charge \cup {Null}]
      BY <1>1, AkAssumption DEF AkInit, Charge
    <2>3. <<>> \in Seq(Int)
      OBVIOUS
    <2>4. entries \in [Residents -> Seq(Int)]
      BY <1>1, <2>3 DEF AkInit
    <2>5. charges \in [Months -> [Residents -> Nat \cup {Null}]]
      BY <1>1 DEF AkInit
    <2> QED
      BY <1>1, <2>1, <2>2, <2>4, <2>5 DEF AkInit, AkTypeOK
  <1>4. MarkedMonthIsBooked /\ MarksAreBooked
    BY <1>1 DEF AkInit, AkIdle, MarkedMonthIsBooked, MarksAreBooked
  <1> QED
    BY <1>3, <1>4 DEF AkInv

\* A job that goes on: it has a type, and marks only what is booked.
LEMMA GoesOn ==
  ASSUME AkTypeOK, MarksAreBooked, NEW w \in AkWorkers, NEW job, Goes(w, job), job \in AkJob,
         booked \subseteq booked', job.pc = "mark" => job.month \in booked'
  PROVE  akJobs' \in [AkWorkers -> AkJob] /\ MarksAreBooked'
  BY DEF AkTypeOK, MarksAreBooked, Goes

\* The same of one that applies the month in effect.
LEMMA AppliesOn ==
  ASSUME AkTypeOK, MarksAreBooked, ListTypeOK, NEW w \in AkWorkers,
         NEW by \in {"visit", "cron", "save"}, Applies(w, by), booked' = booked
  PROVE  akJobs' \in [AkWorkers -> AkJob] /\ MarksAreBooked'
  <1> DEFINE job == [AkIdle EXCEPT !.pc = "schedule", !.by = by, !.month = Active]
  <1>1. Active \in Months /\ 1 \in Months
    BY ActiveIsMonth, ListAssumption DEF Months
  <1>2. job \in AkJob /\ job.pc = "schedule"
    BY <1>1 DEF AkIdle, AkJob
  <1> HIDE DEF job
  <1> QED
    BY <1>2, GoesOn DEF Applies, job

\* The same of one whose transaction has ended, and has booked its month.
LEMMA AfterBooking ==
  ASSUME AkTypeOK, MarksAreBooked, NEW w \in AkWorkers, After(w),
         booked' = booked \cup {akJobs[w].month}
  PROVE  akJobs' \in [AkWorkers -> AkJob] /\ MarksAreBooked'
  <1> DEFINE job == IF akJobs[w].by = "visit" THEN [akJobs[w] EXCEPT !.pc = "mark"] ELSE AkIdle
  <1>1. akJobs[w] \in AkJob /\ 1 \in Months
    BY ListAssumption DEF AkTypeOK, Months
  <1>2. CASE akJobs[w].by = "visit"
    <2>1. job = [akJobs[w] EXCEPT !.pc = "mark"]
      BY <1>2
    <2>2. [akJobs[w] EXCEPT !.pc = "mark"] \in AkJob
            /\ [akJobs[w] EXCEPT !.pc = "mark"].month = akJobs[w].month
      BY <1>1 DEF AkJob
    <2> HIDE DEF job
    <2>3. job \in AkJob /\ job.month \in booked'
      BY <2>1, <2>2
    <2> QED
      BY <2>3, GoesOn DEF After, job
  <1>3. CASE akJobs[w].by # "visit"
    <2>1. AkIdle \in AkJob /\ AkIdle.pc = "idle"
      BY <1>1 DEF AkIdle, AkJob
    <2>2. Goes(w, AkIdle)
      BY <1>3 DEF After
    <2> QED
      BY <2>1, <2>2, GoesOn
  <1> QED
    BY <1>2, <1>3

\* The same of one that stops.
LEMMA StopsBeingBusy ==
  ASSUME AkTypeOK, MarksAreBooked, NEW w \in AkWorkers, Goes(w, AkIdle), booked' = booked
  PROVE  akJobs' \in [AkWorkers -> AkJob] /\ MarksAreBooked'
  <1>1. AkIdle \in AkJob /\ AkIdle.pc = "idle"
    BY ListAssumption DEF AkIdle, AkJob, Months
  <1> QED
    BY <1>1, GoesOn

LEMMA AkStepInv ==
  ASSUME AkInv, ListTypeOK, AkStep
  PROVE  AkInv'
  <1> USE DEF AkInv, AkTypeOK, MarkedMonthIsBooked
  <1>1. ASSUME NEW w \in AkWorkers, BeginVisit(w) PROVE AkInv'
    BY <1>1, AppliesOn DEF BeginVisit
  <1>2. ASSUME NEW w \in AkWorkers, BeginCron(w) PROVE AkInv'
    <2>1. [krydser |-> 2, active |-> TRUE] \in Charge
      BY DEF Charge
    <2>2. akJobs' \in [AkWorkers -> AkJob] /\ MarksAreBooked'
      BY <1>2, AppliesOn DEF BeginCron
    <2>3. schedule' \in [Months -> Charge \cup {Null}]
      BY <1>2, <2>1 DEF BeginCron
    <2> QED
      BY <1>2, <2>2, <2>3 DEF BeginCron
  <1>3. ASSUME NEW w \in AkWorkers, NEW me \in Residents,
               NEW rows \in [Months -> [krydser: Krydser, active: BOOLEAN]],
               SaveSchedule(w, me, rows)
        PROVE  AkInv'
    <2>1. schedule' \in [Months -> Charge \cup {Null}]
      BY <1>3, AkAssumption DEF SaveSchedule, Charge
    <2> QED
      BY <1>3, <2>1, AppliesOn DEF SaveSchedule
  <1>4. ASSUME NEW w \in AkWorkers, ClearMonth(w) PROVE AkInv'
    <2>1. akJobs' \in [AkWorkers -> AkJob] /\ MarksAreBooked'
      BY <1>4, AfterBooking DEF ClearMonth
    <2> QED
      BY <1>4, <2>1 DEF ClearMonth, AkJob
  <1>5. ASSUME NEW w \in AkWorkers, ReadSchedule(w) PROVE AkInv'
    <2> DEFINE charge == schedule[akJobs[w].month]
               job == [akJobs[w] EXCEPT !.pc = "members", !.krydser = charge.krydser]
    <2>1. akJobs[w] \in AkJob /\ charge \in Charge
      BY <1>5 DEF ReadSchedule, AkJob
    <2>2. job \in AkJob /\ job.pc = "members"
      BY <2>1 DEF AkJob, Charge
    <2>3. Goes(w, job) /\ UNCHANGED <<schedule, charges, marker, booked, entries>>
      BY <1>5 DEF ReadSchedule
    <2> HIDE DEF job
    <2> QED
      BY <2>2, <2>3, GoesOn
  <1>6. ASSUME NEW w \in AkWorkers, ReadMembers(w) PROVE AkInv'
    <2> DEFINE job == [akJobs[w] EXCEPT !.pc = "book", !.members = OnList(akJobs[w].month)]
    <2>1. job \in AkJob /\ job.pc = "book"
      BY DEF AkJob, OnList
    <2>2. Goes(w, job) /\ UNCHANGED <<schedule, charges, marker, booked, entries>>
      BY <1>6 DEF ReadMembers
    <2> HIDE DEF job
    <2> QED
      BY <2>1, <2>2, GoesOn
  <1>7. ASSUME NEW w \in AkWorkers, Book(w) PROVE AkInv'
    <2>1. akJobs' \in [AkWorkers -> AkJob] /\ MarksAreBooked'
      BY <1>7, AfterBooking DEF Book
    <2>2. ChargesOf(akJobs[w].members, akJobs[w].krydser) \in [Residents -> Nat \cup {Null}]
      BY DEF ChargesOf, AkJob
    <2>3. charges' \in [Months -> [Residents -> Nat \cup {Null}]]
      BY <1>7, <2>2 DEF Book
    <2> QED
      BY <1>7, <2>1, <2>3 DEF Book, AkJob
  <1>8. ASSUME NEW w \in AkWorkers, ApplyFails(w) \/ DieUnmarked(w) PROVE AkInv'
    BY <1>8, StopsBeingBusy DEF ApplyFails, DieUnmarked, Fails
  <1>9. ASSUME NEW w \in AkWorkers, SetMarker(w) PROVE AkInv'
    <2>1. marker' \in booked /\ marker' \in Months
      BY <1>9 DEF SetMarker, MarksAreBooked, AkJob
    <2> QED
      BY <1>9, <2>1, StopsBeingBusy DEF SetMarker
  <1>10. ASSUME NEW me \in Residents, NEW r \in Residents, NEW m \in Months, DeleteCharge(me, m, r)
         PROVE  AkInv'
    BY <1>10 DEF DeleteCharge, MarksAreBooked
  <1>11. ASSUME NEW me \in Residents, NEW r \in Residents, NEW delta \in Int, AddEntry(me, r, delta)
         PROVE  AkInv'
    <2>1. entries' \in [Residents -> Seq(Int)]
      BY <1>11 DEF AddEntry
    <2> QED
      BY <1>11, <2>1 DEF AddEntry, MarksAreBooked
  <1>12. ASSUME NEW me \in Residents, NEW r \in Residents, NEW i \in DOMAIN entries[r],
                DeleteEntry(me, r, i)
         PROVE  AkInv'
    <2>1. entries[r] \in Seq(Int) /\ i \in 1..Len(entries[r])
      OBVIOUS
    <2>2. SubSeq(entries[r], 1, i - 1) \in Seq(Int)
      BY <2>1
    <2>3. SubSeq(entries[r], i + 1, Len(entries[r])) \in Seq(Int)
      BY <2>1
    <2>4. SubSeq(entries[r], 1, i - 1) \o SubSeq(entries[r], i + 1, Len(entries[r])) \in Seq(Int)
      BY <2>2, <2>3
    <2>5. entries' \in [Residents -> Seq(Int)]
      BY <1>12, <2>4 DEF DeleteEntry
    <2> QED
      BY <1>12, <2>5 DEF DeleteEntry, MarksAreBooked
  <1>13. \A k \in Krydser : k \in Int /\ -k \in Int
    BY AkAssumption
  <1> QED
    BY <1>1, <1>2, <1>3, <1>4, <1>5, <1>6, <1>7, <1>8, <1>9, <1>10, <1>11, <1>12, <1>13
    DEF AkStep, Works

LEMMA AkHolds == Spec => []AkInv
  <1>1. Init => AkInv
    BY AkInitInv
  <1>2. AkInv /\ ListTypeOK /\ [Next]_vars => AkInv'
    <2> SUFFICES ASSUME AkInv, ListTypeOK, [Next]_vars PROVE AkInv'
      OBVIOUS
    <2>1. AkStep \/ UNCHANGED akVars
      BY DEF Next, Rooming, Deducting, Repairing, Posting, Noticing, Reading, Admitting,
         Publishing, Living, vars
    <2>2. CASE UNCHANGED akVars
      BY <2>2 DEF akVars, AkInv, AkTypeOK, MarkedMonthIsBooked, MarksAreBooked
    <2> QED
      BY <2>1, <2>2, AkStepInv
  <1>3. Spec => []ListTypeOK
    BY ListHolds
  <1> QED
    BY <1>1, <1>2, <1>3, PTL DEF Spec

\* The schedule, the charges and every request that books keep their types.
THEOREM AkTypesHold == Spec => []AkTypeOK
  BY AkHolds, PTL DEF AkInv

\* The backstop's marker never names a month that nobody has applied, however many requests book at
\* once, fail, or die between their transaction and the marker.
THEOREM MarkedIsBooked == Spec => []MarkedMonthIsBooked
  BY AkHolds, PTL DEF AkInv

-----------------------------------------------------------------------------
(* Admissions *)

\* Numbers are not given twice.
LettersGiven == \A l \in Letters : letters[l] # Null => l <= made["letter"]

AdmInv == OmfangTypeOK /\ AdmTypeOK /\ LettersGiven

LEMMA AdmInitInv ==
  ASSUME Init
  PROVE  AdmInv
  BY AdmissionsAssumption, OmfangInit DEF Init, AdmInit, AdmTypeOK, AdmInv, LettersGiven

LEMMA OwnColumnsType ==
  ASSUME AdmTypeOK, NEW q \in marking, letters[q.letter] # Null
  PROVE  /\ OwnColumns(q) \in Letter
         /\ letters[q.letter].received # Null => OwnColumns(q).received # Null
  <1>1. q \in Mark /\ letters[q.letter] \in Letter
    BY DEF AdmTypeOK, Mark
  <1>2. CASE q.kind = "receive"
    <2>1. q.who # Null
      BY <1>1, ListAssumption DEF Mark
    <2>2. OwnColumns(q) = [letters[q.letter] EXCEPT !.received = q.who]
      BY <1>2 DEF OwnColumns, Marked
    <2> QED
      BY <1>1, <2>1, <2>2 DEF Letter, Mark
  <1>3. CASE q.kind = "discard"
    <2>1. OwnColumns(q) = [letters[q.letter] EXCEPT !.discarded = q.who]
      BY <1>3 DEF OwnColumns, Marked
    <2> QED
      BY <1>1, <2>1 DEF Letter, Mark
  <1>4. CASE q.kind = "undo"
    <2>1. OwnColumns(q) = [letters[q.letter] EXCEPT !.discarded = Null]
      BY <1>4 DEF OwnColumns, Marked
    <2> QED
      BY <1>1, <2>1 DEF Letter, Mark
  <1> QED
    BY <1>1, <1>2, <1>3, <1>4 DEF Mark

LEMMA AdmStepType ==
  ASSUME AdmTypeOK, OmfangTypeOK, AdmStep
  PROVE  AdmTypeOK'
  <1> USE DEF AdmTypeOK
  <1>1. CASE NextSeason
    BY <1>1, AdmissionsAssumption DEF NextSeason
  <1>2. CASE SendLetter
    <2>1. [sent |-> season, received |-> Null, discarded |-> Null] \in Letter
      BY AdmissionsAssumption DEF Letter
    <2> QED
      BY <1>2, <2>1 DEF SendLetter
  <1>3. CASE PurgeLetters
    BY <1>3 DEF PurgeLetters
  <1>4. ASSUME NEW r \in Residents, NEW l \in Letters, BeginMark(r, l) PROVE AdmTypeOK'
    <2>1. made'["mark"] \in Nat
      BY <1>4, MadeOneMore, AdmissionsAssumption DEF BeginMark
    <2>2. PICK kind \in {"receive", "discard", "undo"} :
            marking' = marking \cup {[kind |-> kind, n |-> made'["mark"], who |-> r,
                                      letter |-> l, copy |-> letters[l]]}
      BY <1>4 DEF BeginMark
    <2>3. letters[l] \in Letter
      BY <1>4 DEF BeginMark
    <2>4. [kind |-> kind, n |-> made'["mark"], who |-> r, letter |-> l, copy |-> letters[l]] \in Mark
      BY <2>1, <2>3 DEF Mark
    <2> QED
      BY <1>4, <2>2, <2>4 DEF BeginMark
  <1>5. ASSUME NEW q \in marking, EndMark(q) PROVE AdmTypeOK'
    <2>1. letters[q.letter] # Null => OwnColumns(q) \in Letter
      BY OwnColumnsType
    <2> QED
      BY <1>5, <2>1 DEF EndMark
  <1> QED
    BY <1>1, <1>2, <1>3, <1>4, <1>5 DEF AdmStep

\* What everybody else does leaves the applications alone.
LEMMA AdmStepOrNot ==
  ASSUME [Next]_vars
  PROVE  AdmStep \/ UNCHANGED admVars
  BY DEF Next, Rooming, Deducting, Repairing, Posting, Noticing, Reading, Admitting,
         Publishing, Living, vars

LEMMA AdmNextInv ==
  ASSUME AdmInv, [Next]_vars
  PROVE  AdmInv'
  <1> USE DEF AdmInv
  <1>1. OmfangTypeOK' /\ \A k \in Kinds : made'[k] >= made[k]
    BY MadeGrows
  <1>2. AdmTypeOK'
    <2>1. CASE UNCHANGED admVars
      BY <2>1 DEF admVars, AdmTypeOK
    <2> QED
      BY <2>1, AdmStepType, AdmStepOrNot
  <1>3. LettersGiven'
    <2>1. /\ made["letter"] \in Nat /\ made'["letter"] \in Nat /\ made'["letter"] >= made["letter"]
          /\ Letters \subseteq Nat
      BY <1>1, AdmissionsAssumption DEF OmfangTypeOK
    <2>2. ASSUME \A l \in Letters : letters'[l] # Null => letters[l] # Null \/ l <= made'["letter"]
          PROVE  LettersGiven'
      <3> SUFFICES ASSUME NEW l \in Letters, letters'[l] # Null PROVE l <= made'["letter"]
        BY DEF LettersGiven
      <3>1. letters[l] # Null => l <= made["letter"]
        BY DEF LettersGiven
      <3> QED
        BY <2>1, <2>2, <3>1
    <2>3. CASE UNCHANGED letters
      BY <2>2, <2>3
    <2>4. CASE SendLetter
      <3>1. made'["letter"] = made["letter"] + 1
        BY <2>4, MadeOneMore, AdmissionsAssumption DEF SendLetter
      <3>2. \A l \in Letters : letters'[l] # Null => letters[l] # Null \/ l <= made'["letter"]
        BY <2>1, <2>4, <3>1 DEF SendLetter, AdmTypeOK
      <3> QED
        BY <2>2, <3>2
    <2>5. CASE PurgeLetters
      BY <2>2, <2>5 DEF PurgeLetters
    <2>6. ASSUME NEW q \in marking, EndMark(q) PROVE LettersGiven'
      <3>1. \A l \in Letters : letters'[l] # Null => letters[l] # Null
        BY <2>6 DEF EndMark, AdmTypeOK
      <3> QED
        BY <2>2, <3>1
    <2> QED
      BY <2>3, <2>4, <2>5, <2>6, AdmStepOrNot DEF AdmStep, NextSeason, BeginMark, admVars
  <1> QED
    BY <1>1, <1>2, <1>3

LEMMA AdmHolds == Spec => []AdmInv
  BY AdmInitInv, AdmNextInv, PTL DEF Spec

\* Applications, and the marks that have read one, keep their types.
THEOREM AdmTypesHold == Spec => []AdmTypeOK
  BY AdmHolds, PTL DEF AdmInv

\* However marks overlap, an application that has been received stays received, and one that is not
\* old stays.
THEOREM ReceivedAlwaysStays == Spec => ReceivedStays
  <1> DEFINE Stays(l) == letters[l] # Null /\ letters[l].received # Null =>
                \/ letters'[l] # Null /\ letters'[l].received # Null
                \/ letters'[l] = Null /\ letters[l].sent + KeepFor < season
  <1>1. AdmInv /\ [Next]_vars => [\A l \in Letters : Stays(l)]_<<listVars, admVars>>
    <2> SUFFICES ASSUME AdmInv, [Next]_vars, NEW l \in Letters,
                        letters[l] # Null, letters[l].received # Null
                 PROVE  Stays(l)
      OBVIOUS
    <2>1. CASE UNCHANGED letters
      BY <2>1
    <2>2. CASE SendLetter
      <3>1. made["letter"] \in Nat /\ l \in Nat /\ l <= made["letter"]
        BY AdmissionsAssumption DEF AdmInv, OmfangTypeOK, LettersGiven
      <3>2. l # made["letter"] + 1
        BY <3>1
      <3> QED
        BY <2>2, <3>2 DEF SendLetter
    <2>3. CASE PurgeLetters
      BY <2>3 DEF PurgeLetters, Old
    <2>4. ASSUME NEW q \in marking, EndMark(q) PROVE Stays(l)
      <3>1. CASE q.letter = l
        <4>1. letters'[l] = OwnColumns(q)
          BY <2>4, <3>1 DEF EndMark, AdmInv, AdmTypeOK
        <4>2. OwnColumns(q) \in Letter /\ OwnColumns(q).received # Null
          BY <3>1, OwnColumnsType DEF AdmInv
        <4>3. OwnColumns(q) # Null
          BY <4>2, AdmissionsAssumption DEF Letter
        <4> QED
          BY <4>1, <4>2, <4>3
      <3> QED
        BY <2>4, <3>1 DEF EndMark
    <2> QED
      BY <2>1, <2>2, <2>3, <2>4, AdmStepOrNot DEF AdmStep, NextSeason, BeginMark, admVars
  <1> QED
    BY <1>1, AdmHolds, PTL DEF Spec, ReceivedStays

-----------------------------------------------------------------------------
(* The repair board *)

\* A ticket that is faerdig has been looked at since it became so, and not after today.
DoneIsUpdated ==
    \A t \in Tickets :
        /\ done[t] <= day
        /\ tickets[t] # Null => tickets[t].updated <= day
        /\ tickets[t] # Null /\ tickets[t].status = "faerdig" => done[t] <= tickets[t].updated

\* Where a board should show t.
Place(t) == IF tickets[t] = Null \/ tickets[t].archived # Null THEN Null ELSE tickets[t].status

\* A card that is not astray is being moved once at most, from where the ticket was; and the ticket
\* is where the board shows it, if nothing moves or once the server has taken the move.
Follows(p, t) ==
    /\ \A m, o \in InFlight(p, t) : m = o
    /\ \A m \in InFlight(p, t) :
         /\ m.here /\ board[p].shown[t] = m.to
         /\ IF m.answer = "moved" THEN Place(t) = m.to ELSE Place(t) = m.from
    /\ InFlight(p, t) = {} => board[p].shown[t] = Place(t)

BoardsFollow ==
    \A p \in Boards, t \in Tickets : board[p] # Null /\ t \notin astray[p] => Follows(p, t)

RepInv == RepTypeOK /\ DoneIsUpdated /\ BoardsFollow

LEMMA RepInitInv ==
  ASSUME Init
  PROVE  RepInv
  <1>1. RepInit
    BY DEF Init
  <1>2. RepTypeOK
    BY <1>1, ReparationerAssumption DEF RepInit, RepTypeOK, Days
  <1>3. DoneIsUpdated
    BY <1>1, ReparationerAssumption DEF RepInit, DoneIsUpdated
  <1>4. BoardsFollow
    BY <1>1 DEF RepInit, BoardsFollow
  <1> QED
    BY <1>2, <1>3, <1>4 DEF RepInv

\* What a request does to one ticket.
LEMMA WriteTicket ==
  ASSUME RepTypeOK, DoneIsUpdated, NEW t \in Tickets, NEW x \in Ticket \cup {Null}, NEW d \in Days,
         tickets' = [tickets EXCEPT ![t] = x], done' = [done EXCEPT ![t] = d], day' = day,
         d <= day, x # Null => x.updated <= day /\ (x.status = "faerdig" => d <= x.updated)
  PROVE  /\ tickets' \in [Tickets -> Ticket \cup {Null}] /\ done' \in [Tickets -> Days]
         /\ DoneIsUpdated'
  BY DEF RepTypeOK, DoneIsUpdated

LEMMA SetStatusWrites ==
  ASSUME RepTypeOK, DoneIsUpdated, NEW t \in Tickets, NEW status \in Statuses, NEW p,
         tickets[t] # Null, SetStatus(t, status, p), day' = day
  PROVE  /\ tickets' \in [Tickets -> Ticket \cup {Null}] /\ done' \in [Tickets -> Days]
         /\ DoneIsUpdated'
         /\ tickets'[t] # Null /\ tickets'[t].status = status
         /\ tickets'[t].archived = tickets[t].archived
  <1> DEFINE x == [tickets[t] EXCEPT !.status = status, !.updated = day]
             d == IF status = "faerdig" /\ tickets[t].status # "faerdig" THEN day ELSE done[t]
  <1>0. tickets[t] \in Ticket /\ day \in Days /\ done[t] \in Days
    BY DEF RepTypeOK
  <1>1. x \in Ticket /\ x.status = status /\ x.updated = day /\ x.archived = tickets[t].archived
    BY <1>0 DEF Ticket
  <1>2. x # Null
    BY <1>1, ReparationerAssumption
  <1>3. tickets' = [tickets EXCEPT ![t] = x]
    BY <1>0 DEF SetStatus, WithStatus, RepTypeOK
  <1>4. d \in Days /\ d <= day /\ done' = [done EXCEPT ![t] = d] /\ d <= x.updated
    <2>1. done[t] <= day /\ day <= day
      BY <1>0 DEF DoneIsUpdated, Days
    <2>2. done' = [done EXCEPT ![t] = d]
      BY DEF SetStatus, RepTypeOK
    <2> QED
      BY <1>0, <1>1, <2>1, <2>2
  <1> HIDE DEF x, d
  <1>5. tickets'[t] = x
    BY <1>3 DEF RepTypeOK
  <1>6. x.updated <= day
    BY <1>0, <1>1 DEF Days
  <1> QED
    BY <1>1, <1>2, <1>3, <1>4, <1>5, <1>6, WriteTicket

\* An answer to a move, and what it leaves of a board.
LEMMA AnsweredType ==
  ASSUME RepTypeOK, NEW p \in Boards, board[p] # Null, NEW m \in board[p].moves,
         NEW answer \in {"none", "moved", "refused", "lost"}, Answered(p, m, answer)
  PROVE  /\ board' \in [Boards -> Board \cup {Null}]
         /\ board' = [board EXCEPT ![p].moves = (@ \ {m}) \cup {[m EXCEPT !.answer = answer]}]
         /\ m \in Move
  <1> DEFINE o == [m EXCEPT !.answer = answer]
  <1>1. board[p] \in Board
    BY DEF RepTypeOK
  <1>2. m \in Move
    BY <1>1 DEF Board
  <1>3. o \in Move
    BY <1>2 DEF Move
  <1>4. [board[p] EXCEPT !.moves = (@ \ {m}) \cup {o}] \in Board
    <2> HIDE DEF o
    <2> QED
      BY <1>1, <1>3 DEF Board
  <1> QED
    BY <1>2, <1>4 DEF Answered, RepTypeOK

LEMMA FormsType ==
  ASSUME RepTypeOK, DoneIsUpdated, NEW r, NEW t \in Tickets,
         \/ Report(t) \/ HandOver(r, t) \/ Delete(r, t) \/ ArchiveNow(r, t) \/ Unarchive(r, t)
         \/ \E status \in Statuses : MoveByForm(r, t, status)
  PROVE  RepTypeOK' /\ DoneIsUpdated'
  <1> USE DEF RepTypeOK
  <1>0. day \in Days /\ done[t] \in Days /\ done = [done EXCEPT ![t] = done[t]] /\ done[t] <= day
    BY DEF DoneIsUpdated
  <1>a. /\ tickets[t] # Null => tickets[t] \in Ticket /\ tickets[t].updated <= day
        /\ tickets[t] # Null /\ tickets[t].status = "faerdig" => done[t] <= tickets[t].updated
    BY DEF DoneIsUpdated
  <1>b. /\ \A p : Strayed(t, p) \in [Boards -> SUBSET Tickets]
        /\ [notes EXCEPT ![t] = {}] \in [Tickets -> SUBSET Residents]
    BY DEF Strayed
  <1>c. ASSUME NEW x \in Ticket \cup {Null}, tickets' = [tickets EXCEPT ![t] = x],
               x # Null => x.updated <= day /\ (x.status = "faerdig" => done[t] <= x.updated),
               day' = day, done' = done, board' = board,
               astray' \in [Boards -> SUBSET Tickets], notes' \in [Tickets -> SUBSET Residents]
        PROVE  RepTypeOK' /\ DoneIsUpdated'
    BY <1>0, <1>c, WriteTicket
  <1>1. CASE Report(t)
    <2> DEFINE x == [status |-> "ny", responsible |-> "vicevaert", updated |-> day, archived |-> Null]
    <2>1. x \in Ticket /\ x.updated = day /\ x.status = "ny"
      BY <1>0, ReparationerAssumption DEF Ticket
    <2>2. day <= day
      BY <1>0 DEF Days
    <2> HIDE DEF x
    <2> QED
      BY <1>1, <1>b, <1>c, <2>1, <2>2 DEF Report, x
  <1>2. CASE HandOver(r, t)
    <2> DEFINE o == IF tickets[t].responsible = "repper" THEN "vicevaert" ELSE "repper"
               x == [tickets[t] EXCEPT !.updated = day, !.responsible = o]
    <2>1. x \in Ticket /\ x.updated = day
      BY <1>0, <1>2, <1>a DEF HandOver, Ticket
    <2>2. tickets' = [tickets EXCEPT ![t] = x]
      BY <1>2, <1>a DEF HandOver, Ticket
    <2>3. day <= day
      BY <1>0 DEF Days
    <2> HIDE DEF x
    <2> QED
      BY <1>0, <1>2, <1>c, <2>1, <2>2, <2>3 DEF HandOver
  <1>3. CASE Delete(r, t)
    BY <1>3, <1>b, <1>c DEF Delete
  <1>4. CASE ArchiveNow(r, t)
    <2> DEFINE x == [tickets[t] EXCEPT !.archived = day]
    <2>1. x \in Ticket /\ x.updated = tickets[t].updated /\ x.status = tickets[t].status
      BY <1>0, <1>4, <1>a DEF ArchiveNow, Ticket
    <2>2. tickets' = [tickets EXCEPT ![t] = x]
      BY <1>4 DEF ArchiveNow
    <2> HIDE DEF x
    <2> QED
      BY <1>4, <1>a, <1>b, <1>c, <2>1, <2>2 DEF ArchiveNow
  <1>5. CASE Unarchive(r, t)
    <2> DEFINE x == [tickets[t] EXCEPT !.archived = Null]
    <2>1. x \in Ticket /\ x.updated = tickets[t].updated /\ x.status = tickets[t].status
      BY <1>0, <1>5, <1>a DEF Unarchive, Ticket
    <2>2. tickets' = [tickets EXCEPT ![t] = x]
      BY <1>5 DEF Unarchive
    <2> HIDE DEF x
    <2> QED
      BY <1>5, <1>a, <1>b, <1>c, <2>1, <2>2 DEF Unarchive
  <1>6. ASSUME NEW status \in Statuses, MoveByForm(r, t, status) PROVE RepTypeOK' /\ DoneIsUpdated'
    BY <1>6, <1>b, SetStatusWrites DEF MoveByForm, SetStatus
  <1> QED
    BY <1>1, <1>2, <1>3, <1>4, <1>5, <1>6

LEMMA RepStepType ==
  ASSUME RepTypeOK, DoneIsUpdated, RepStep
  PROVE  RepTypeOK' /\ DoneIsUpdated'
  <1> USE DEF RepTypeOK
  <1>1. CASE NextDay
    <2>1. day' \in Days /\ day' = day + 1
      BY <1>1, ReparationerAssumption DEF NextDay, Days
    <2>2. \A t \in Tickets : done[t] \in Int /\ (tickets[t] # Null => tickets[t].updated \in Int)
      BY DEF Days, Ticket
    <2>3. day \in Int
      BY DEF Days
    <2> QED
      BY <1>1, <2>1, <2>2, <2>3 DEF NextDay, DoneIsUpdated
  <1>2. ASSUME NEW r \in Residents, NEW t \in Tickets,
               AddNote(r, t) \/ \E me \in Residents : DeleteNote(me, r, t)
        PROVE  RepTypeOK' /\ DoneIsUpdated'
    BY <1>2 DEF AddNote, DeleteNote, DoneIsUpdated
  <1>3. CASE Sweep
    <2>1. \A t \in Tickets : Due(t) =>
             /\ [tickets[t] EXCEPT !.archived = day] \in Ticket
             /\ [tickets[t] EXCEPT !.archived = day].updated = tickets[t].updated
             /\ [tickets[t] EXCEPT !.archived = day].status = tickets[t].status
      BY DEF Due, Ticket
    <2>2. tickets' \in [Tickets -> Ticket \cup {Null}]
      BY <1>3, <2>1 DEF Sweep
    <2>3. \A t \in Tickets : tickets'[t] # Null => tickets[t] # Null
             /\ tickets'[t].updated = tickets[t].updated /\ tickets'[t].status = tickets[t].status
      BY <1>3, <2>1 DEF Sweep, Due
    <2>4. astray' \in [Boards -> SUBSET Tickets]
      BY <1>3 DEF Sweep
    <2> QED
      BY <1>3, <2>2, <2>3, <2>4 DEF Sweep, DoneIsUpdated
  <1>4. ASSUME NEW p \in Boards, Load(p) PROVE RepTypeOK' /\ DoneIsUpdated'
    <2> DEFINE x == [manage |-> Manages(p),
                     moves |-> {[m EXCEPT !.here = FALSE] : m \in Underway(p)},
                     shown |-> [t \in Tickets |-> IF tickets[t] # Null /\ tickets[t].archived = Null
                                                  THEN tickets[t].status ELSE Null]]
    <2>1. \A m \in Underway(p) : m \in Move
      BY DEF Underway, Board
    <2>2. \A m \in Move : [m EXCEPT !.here = FALSE] \in Move /\ m.ticket \in Tickets
      BY DEF Move
    <2>3. x.moves \subseteq Move
      BY <2>1, <2>2
    <2>4. x.shown \in [Tickets -> Statuses \cup {Null}]
      BY DEF Ticket
    <2>5. Manages(p) \in BOOLEAN
      BY DEF Manages
    <2>6. x \in Board
      BY <2>3, <2>4, <2>5 DEF Board
    <2>7. board' = [board EXCEPT ![p] = x]
      BY <1>4 DEF Load
    <2>8. astray' \in [Boards -> SUBSET Tickets]
      BY <1>4, <2>1, <2>2 DEF Load
    <2> HIDE DEF x
    <2> QED
      BY <1>4, <2>6, <2>7, <2>8 DEF Load, DoneIsUpdated
  <1>5. ASSUME NEW p \in Boards, NEW t \in Tickets, NEW column \in Statuses, Drag(p, t, column)
        PROVE  RepTypeOK' /\ DoneIsUpdated'
    <2> DEFINE o == [ticket |-> t, from |-> board[p].shown[t], to |-> column, here |-> TRUE,
                     answer |-> "none"]
               x == [board[p] EXCEPT !.shown[t] = column, !.moves = @ \cup {o}]
    <2>1. board[p] \in Board
      BY <1>5 DEF Drag
    <2>2. board[p].shown[t] \in Statuses
      BY <1>5, <2>1 DEF Drag, Board
    <2>3. o \in Move
      BY <2>2 DEF Move
    <2> HIDE DEF o
    <2>4. x \in Board
      BY <2>1, <2>3 DEF Board
    <2>5. board' = [board EXCEPT ![p] = x]
      BY <1>5 DEF Drag, o
    <2>6. astray' \in [Boards -> SUBSET Tickets]
      BY <1>5 DEF Drag
    <2>7. UNCHANGED <<day, tickets, notes, done>>
      BY <1>5 DEF Drag
    <2> HIDE DEF x
    <2> QED
      BY <2>4, <2>5, <2>6, <2>7 DEF DoneIsUpdated
  <1>6. ASSUME NEW p \in Boards, board[p] # Null, NEW m \in board[p].moves
        PROVE  AcceptMove(p, m) \/ RefuseMove(p, m) \/ LoseMove(p, m) \/ Settle(p, m)
                 => RepTypeOK' /\ DoneIsUpdated'
    <2>1. board[p] \in Board /\ m \in Move
      BY <1>6 DEF Board
    <2>2. m.ticket \in Tickets /\ m.to \in Statuses /\ m.from \in Statuses
      BY <2>1 DEF Move
    <2>3. CASE AcceptMove(p, m)
      <3>1. board' \in [Boards -> Board \cup {Null}]
        BY <1>6, <2>3, AnsweredType DEF AcceptMove
      <3>2. astray' \in [Boards -> SUBSET Tickets]
        BY <2>2, <2>3 DEF AcceptMove, SetStatus, Strayed
      <3>3. /\ tickets' \in [Tickets -> Ticket \cup {Null}] /\ done' \in [Tickets -> Days]
            /\ DoneIsUpdated'
        BY <2>2, <2>3, SetStatusWrites DEF AcceptMove
      <3> QED
        BY <2>3, <3>1, <3>2, <3>3 DEF AcceptMove
    <2>4. CASE RefuseMove(p, m)
      BY <1>6, <2>4, AnsweredType DEF RefuseMove, DoneIsUpdated
    <2>5. CASE LoseMove(p, m)
      <3>1. astray' \in [Boards -> SUBSET Tickets]
        BY <2>2, <2>5 DEF LoseMove
      <3> QED
        BY <1>6, <2>5, <3>1, AnsweredType DEF LoseMove, DoneIsUpdated
    <2>6. CASE Settle(p, m)
      <3> DEFINE x == [board[p] EXCEPT !.moves = @ \ {m}, !.shown[m.ticket] = PutAt(p, m)]
      <3>1. PutAt(p, m) \in Statuses \cup {Null}
        BY <2>1, <2>2 DEF PutAt, Board
      <3>2. x \in Board
        BY <2>1, <3>1 DEF Board
      <3>3. board' = [board EXCEPT ![p] = x]
        BY <2>6 DEF Settle
      <3> HIDE DEF x
      <3> QED
        BY <2>6, <3>2, <3>3 DEF Settle, DoneIsUpdated
    <2> QED
      BY <2>3, <2>4, <2>5, <2>6
  <1>7. ASSUME NEW t \in Tickets, Report(t) PROVE RepTypeOK' /\ DoneIsUpdated'
    BY <1>7, FormsType
  <1> QED
    BY <1>1, <1>2, <1>3, <1>4, <1>5, <1>6, <1>7, FormsType DEF RepStep

-----------------------------------------------------------------------------
(* Boards in step *)

\* Where somebody else's request about t leaves a board: astray, or where it was.
LEMMA StillFollows ==
  ASSUME RepTypeOK, BoardsFollow, board' = board, NEW T \in SUBSET Tickets,
         \A t \in Tickets \ T : Place(t)' = Place(t),
         \A q \in Boards : astray[q] \cup T \subseteq astray'[q]
  PROVE  BoardsFollow'
  BY DEF BoardsFollow, Follows, InFlight

\* A step that changes one card of one board, and strays that card on the others if its ticket moves.
OnlyCard(p, t) ==
    /\ \A q \in Boards : q # p =>
         /\ board'[q] = board[q]
         /\ astray'[q] = astray[q] \/ astray'[q] = astray[q] \cup {t}
         /\ t \notin astray'[q] => Place(t)' = Place(t)
    /\ \A s \in Tickets : s # t =>
         /\ Place(s)' = Place(s)
         /\ board'[p].shown[s] = board[p].shown[s]
         /\ InFlight(p, s)' = InFlight(p, s)
    /\ astray[p] \subseteq astray'[p]
    /\ t \notin astray'[p] => Follows(p, t)'

LEMMA OneCard ==
  ASSUME BoardsFollow, NEW p \in Boards, NEW t \in Tickets, board[p] # Null, OnlyCard(p, t)
  PROVE  BoardsFollow'
  <1> SUFFICES ASSUME NEW q \in Boards, NEW s \in Tickets, board'[q] # Null, s \notin astray'[q]
               PROVE  Follows(q, s)'
    BY DEF BoardsFollow
  <1>1. CASE q = p /\ s = t
    BY <1>1 DEF OnlyCard
  <1>2. CASE q = p /\ s # t
    <2>1. Follows(p, s)
      BY <1>2 DEF BoardsFollow, OnlyCard
    <2> QED
      BY <1>2, <2>1 DEF Follows, OnlyCard
  <1>3. CASE q # p
    <2>1. Follows(q, s) /\ Place(s)' = Place(s) /\ board'[q] = board[q]
      BY <1>3 DEF BoardsFollow, OnlyCard
    <2> QED
      BY <2>1 DEF Follows, InFlight
  <1> QED
    BY <1>1, <1>2, <1>3

LEMMA RepStepFollows ==
  ASSUME RepTypeOK, BoardsFollow, RepTypeOK', DoneIsUpdated, RepStep
  PROVE  BoardsFollow'
  <1> USE DEF RepTypeOK
  <1>1. ASSUME UNCHANGED <<tickets, board, astray>> PROVE BoardsFollow'
    BY <1>1 DEF BoardsFollow, Follows, Place, InFlight
  <1>2. ASSUME NEW r, NEW t \in Tickets,
               \/ Report(t) \/ Delete(r, t) \/ ArchiveNow(r, t) \/ Unarchive(r, t)
               \/ \E status \in Statuses : MoveByForm(r, t, status)
        PROVE  BoardsFollow'
    <2>1. board' = board /\ \A s \in Tickets \ {t} : tickets'[s] = tickets[s]
      BY <1>2 DEF Report, Delete, ArchiveNow, Unarchive, MoveByForm, SetStatus, WithStatus
    <2>2. \A q \in Boards : astray[q] \cup {t} \subseteq astray'[q]
      <3>1. Null \notin Boards
        BY ReparationerAssumption, ListAssumption
      <3>2. astray' = Strayed(t, Null)
        BY <1>2 DEF Report, Delete, ArchiveNow, Unarchive, MoveByForm, SetStatus
      <3> QED
        BY <3>1, <3>2 DEF Strayed
    <2> DEFINE T == {t}
    <2>3. /\ T \in SUBSET Tickets /\ \A s \in Tickets \ T : Place(s)' = Place(s)
          /\ \A q \in Boards : astray[q] \cup T \subseteq astray'[q]
      BY <2>1, <2>2 DEF Place
    <2> HIDE DEF T
    <2> QED
      BY <2>1, <2>3, StillFollows
  <1>3. ASSUME NEW r \in Residents, NEW t \in Tickets, HandOver(r, t) PROVE BoardsFollow'
    <2>1. \A s \in Tickets : Place(s)' = Place(s)
      <3>1. tickets[t] \in Ticket /\ tickets'[t] \in Ticket \cup {Null} /\ tickets[t] # Null
        BY <1>3 DEF HandOver
      <3> DEFINE o == IF tickets[t].responsible = "repper" THEN "vicevaert" ELSE "repper"
                 x == [tickets[t] EXCEPT !.updated = day, !.responsible = o]
      <3>2. tickets'[t] = x
        BY <1>3, <3>1 DEF HandOver, Ticket
      <3>3. x \in Ticket /\ x.status = tickets[t].status /\ x.archived = tickets[t].archived
        BY <3>1 DEF Ticket
      <3>4. x # Null
        BY <3>3, ReparationerAssumption
      <3>5. \A s \in Tickets : s # t => tickets'[s] = tickets[s]
        BY <1>3 DEF HandOver
      <3> HIDE DEF x
      <3> QED
        BY <3>1, <3>2, <3>3, <3>4, <3>5 DEF Place
    <2> DEFINE T == {}
    <2>2. /\ T \in SUBSET Tickets /\ \A s \in Tickets \ T : Place(s)' = Place(s)
          /\ \A q \in Boards : astray[q] \cup T \subseteq astray'[q]
          /\ board' = board
      BY <1>3, <2>1 DEF HandOver
    <2> HIDE DEF T
    <2> QED
      BY <2>2, StillFollows
  <1>4. CASE Sweep
    <2> DEFINE T == {t \in Tickets : Due(t)}
    <2>1. \A t \in Tickets \ T : tickets'[t] = tickets[t]
      BY <1>4 DEF Sweep
    <2>2. \A q \in Boards : astray[q] \cup T \subseteq astray'[q]
      BY <1>4 DEF Sweep
    <2> HIDE DEF T
    <2>3. T \in SUBSET Tickets
      BY DEF T
    <2> QED
      BY <1>4, <2>1, <2>2, <2>3, StillFollows DEF Place, Sweep
  <1>5. ASSUME NEW p \in Boards, Load(p) PROVE BoardsFollow'
    <2> DEFINE x == [manage |-> Manages(p),
                     moves |-> {[m EXCEPT !.here = FALSE] : m \in Underway(p)},
                     shown |-> [t \in Tickets |-> IF tickets[t] # Null /\ tickets[t].archived = Null
                                                  THEN tickets[t].status ELSE Null]]
    <2>1. board' = [board EXCEPT ![p] = x] /\ tickets' = tickets
          /\ astray' = [astray EXCEPT ![p] = {m.ticket : m \in Underway(p)}]
      BY <1>5 DEF Load
    <2>2. \A m \in Underway(p) : m \in Move
      BY DEF Underway, Board
    <2>3. \A m \in Move : [m EXCEPT !.here = FALSE].ticket = m.ticket
      BY DEF Move
    <2>4. ASSUME NEW t \in Tickets, t \notin astray'[p] PROVE Follows(p, t)'
      <3>1. InFlight(p, t)' = {}
        <4>1. board'[p].moves = x.moves
          BY <2>1
        <4>2. ASSUME NEW m \in x.moves PROVE m.ticket # t
          <5>1. PICK o \in Underway(p) : m = [o EXCEPT !.here = FALSE]
            OBVIOUS
          <5>2. m.ticket = o.ticket
            BY <2>2, <2>3, <5>1
          <5>3. o.ticket \in astray'[p]
            BY <2>1
          <5> QED
            BY <2>4, <5>2, <5>3
        <4> HIDE DEF x
        <4> QED
          BY <4>1, <4>2 DEF InFlight
      <3>2. board'[p].shown[t] = Place(t)'
        BY <2>1 DEF Place
      <3> QED
        BY <3>1, <3>2 DEF Follows
    <2> HIDE DEF x
    <2>5. \A q \in Boards, t \in Tickets : q # p /\ Follows(q, t) => Follows(q, t)'
      BY <2>1 DEF Follows, InFlight, Place
    <2> QED
      BY <2>1, <2>4, <2>5 DEF BoardsFollow
  <1>6. ASSUME NEW p \in Boards, NEW t \in Tickets, NEW column \in Statuses, Drag(p, t, column)
        PROVE  BoardsFollow'
    <2> DEFINE o == [ticket |-> t, from |-> board[p].shown[t], to |-> column, here |-> TRUE,
                     answer |-> "none"]
    <2>0. board[p] # Null /\ board[p] \in Board
      BY <1>6 DEF Drag
    <2>1. /\ UNCHANGED tickets
          /\ \A q \in Boards : q # p => board'[q] = board[q] /\ astray'[q] = astray[q]
          /\ board'[p].moves = board[p].moves \cup {o}
          /\ board'[p].shown = [board[p].shown EXCEPT ![t] = column]
          /\ astray'[p] = IF InFlight(p, t) = {} THEN astray[p] ELSE astray[p] \cup {t}
      BY <1>6, <2>0 DEF Drag, Board
    <2>2. o.ticket = t /\ o.from = board[p].shown[t] /\ o.to = column /\ o.here /\ o.answer = "none"
      OBVIOUS
    <2> HIDE DEF o
    <2>3. \A s \in Tickets : s # t =>
             /\ board'[p].shown[s] = board[p].shown[s] /\ InFlight(p, s)' = InFlight(p, s)
      BY <2>0, <2>1, <2>2 DEF InFlight, Board
    <2>4. ASSUME t \notin astray'[p] PROVE Follows(p, t)'
      <3>1. InFlight(p, t) = {} /\ t \notin astray[p]
        BY <2>1, <2>4
      <3>2. board[p].shown[t] = Place(t)
        BY <2>0, <3>1 DEF BoardsFollow, Follows
      <3>3. InFlight(p, t)' = {o}
        BY <2>1, <2>2, <3>1 DEF InFlight
      <3>4. board'[p].shown[t] = column
        BY <2>0, <2>1 DEF Board
      <3> QED
        BY <2>1, <2>2, <3>2, <3>3, <3>4 DEF Follows, Place
    <2>5. \A s \in Tickets : Place(s)' = Place(s)
      BY <2>1 DEF Place
    <2>6. OnlyCard(p, t)
      BY <2>1, <2>3, <2>4, <2>5 DEF OnlyCard
    <2> QED
      BY <2>0, <2>6, OneCard
  <1>7. ASSUME NEW p \in Boards, board[p] # Null, NEW m \in board[p].moves, NEW answer,
               Answered(p, m, answer), answer \in {"moved", "refused", "lost"},
               \A q \in Boards : q # p =>
                  astray'[q] = astray[q] \/ astray'[q] = astray[q] \cup {m.ticket},
               \A s \in Tickets : s # m.ticket => Place(s)' = Place(s) ,
               Place(m.ticket)' # Place(m.ticket) =>
                  \A q \in Boards : q # p => m.ticket \in astray'[q],
               astray[p] \subseteq astray'[p],
               m.ticket \notin astray'[p] =>
                  Place(m.ticket)' = (IF answer = "moved" THEN m.to ELSE m.from)
        PROVE  BoardsFollow'
    <2> DEFINE o == [m EXCEPT !.answer = answer]
               t == m.ticket
    <2>0. board[p] \in Board /\ m \in Move /\ t \in Tickets
      BY <1>7 DEF Board, Move
    <2>1. /\ \A q \in Boards : q # p => board'[q] = board[q]
          /\ board'[p].moves = (board[p].moves \ {m}) \cup {o}
          /\ board'[p].shown = board[p].shown
      BY <1>7, <2>0 DEF Answered, Board
    <2>2. /\ o.ticket = t /\ o.from = m.from /\ o.to = m.to /\ o.here = m.here
          /\ o.answer = answer
      BY <2>0 DEF Move
    <2> HIDE DEF o
    <2>3. \A s \in Tickets : s # t => InFlight(p, s)' = InFlight(p, s)
      BY <2>1, <2>2 DEF InFlight
    <2>4. ASSUME t \notin astray'[p] PROVE Follows(p, t)'
      <3>1. Follows(p, t)
        BY <1>7, <2>0, <2>4 DEF BoardsFollow
      <3>2. m \in InFlight(p, t)
        BY <1>7 DEF InFlight
      <3>3. InFlight(p, t)' = {o}
        BY <2>1, <2>2, <3>1, <3>2 DEF InFlight, Follows
      <3> QED
        BY <1>7, <2>1, <2>2, <2>4, <3>1, <3>2, <3>3 DEF Follows
    <2>5. OnlyCard(p, t)
      <3>1. \A q \in Boards : q # p =>
               /\ board'[q] = board[q]
               /\ astray'[q] = astray[q] \/ astray'[q] = astray[q] \cup {t}
               /\ t \notin astray'[q] => Place(t)' = Place(t)
        BY <1>7, <2>1
      <3>2. \A s \in Tickets : s # t =>
               /\ Place(s)' = Place(s)
               /\ board'[p].shown[s] = board[p].shown[s]
               /\ InFlight(p, s)' = InFlight(p, s)
        BY <1>7, <2>1, <2>3
      <3> QED
        BY <1>7, <2>4, <3>1, <3>2 DEF OnlyCard
    <2> HIDE DEF t
    <2> QED
      BY <1>7, <2>0, <2>5, OneCard
  <1>8. ASSUME NEW p \in Boards, board[p] # Null, NEW m \in board[p].moves
        PROVE  AcceptMove(p, m) \/ RefuseMove(p, m) \/ LoseMove(p, m) \/ Settle(p, m)
                 => BoardsFollow'
    <2> DEFINE t == m.ticket
    <2>0. board[p] \in Board /\ m \in Move /\ t \in Tickets /\ m \in InFlight(p, t)
      BY <1>8 DEF Board, Move, InFlight
    <2>a. t \notin astray[p] => Follows(p, t)
      BY <1>8, <2>0 DEF BoardsFollow
    <2>1. CASE AcceptMove(p, m)
      <3>1. /\ tickets'[t] # Null /\ tickets'[t].status = m.to
            /\ tickets'[t].archived = tickets[t].archived
        BY <2>0, <2>1, SetStatusWrites DEF AcceptMove, Move
      <3>2. \A s \in Tickets : s # t => Place(s)' = Place(s)
        BY <2>1 DEF AcceptMove, SetStatus, WithStatus, Place
      <3>3. /\ astray'[p] = astray[p]
            /\ \A q \in Boards : q # p => astray'[q] = astray[q] \cup {t}
        BY <2>1 DEF AcceptMove, SetStatus, Strayed
      <3>4. ASSUME t \notin astray'[p] PROVE Place(t)' = m.to
        <4>1. Place(t) = m.from
          BY <2>0, <2>1, <2>a, <3>3, <3>4 DEF Follows, AcceptMove
        <4>2. m.from # Null
          BY <2>0, ReparationerAssumption DEF Move
        <4>3. tickets[t].archived = Null
          BY <4>1, <4>2 DEF Place
        <4> QED
          BY <3>1, <4>3 DEF Place
      <3>5. Answered(p, m, "moved")
        BY <2>1 DEF AcceptMove
      <3> QED
        BY <1>7, <1>8, <3>2, <3>3, <3>4, <3>5
    <2>2. CASE RefuseMove(p, m)
      <3>1. /\ \A s \in Tickets : Place(s)' = Place(s)
            /\ astray' = astray /\ Answered(p, m, "refused") /\ m.answer = "none"
        BY <2>2 DEF RefuseMove, Place
      <3>2. t \notin astray[p] => Place(t) = m.from
        BY <2>0, <2>a, <3>1 DEF Follows
      <3> QED
        BY <1>7, <1>8, <2>0, <3>1, <3>2
    <2>3. CASE LoseMove(p, m)
      <3>1. /\ \A s \in Tickets : Place(s)' = Place(s)
            /\ Answered(p, m, "lost")
            /\ astray' = [astray EXCEPT ![p] = IF m.answer = "moved" THEN @ \cup {t} ELSE @]
        BY <2>3 DEF LoseMove, Place
      <3>2. t \notin astray'[p] => t \notin astray[p] /\ m.answer # "moved"
        BY <2>0, <3>1
      <3>3. t \notin astray'[p] => Place(t) = m.from
        BY <2>0, <2>a, <3>2 DEF Follows
      <3>4. /\ astray[p] \subseteq astray'[p]
            /\ \A q \in Boards : q # p => astray'[q] = astray[q]
        BY <3>1
      <3> QED
        BY <1>7, <1>8, <2>0, <3>1, <3>3, <3>4
    <2>4. CASE Settle(p, m)
      <3>1. /\ \A s \in Tickets : Place(s)' = Place(s)
            /\ astray' = astray /\ m.answer # "none"
            /\ \A q \in Boards : q # p => board'[q] = board[q]
            /\ board'[p].moves = board[p].moves \ {m}
            /\ board'[p].shown = [board[p].shown EXCEPT ![t] = PutAt(p, m)]
        BY <2>0, <2>4 DEF Settle, Place, Board
      <3>2. \A s \in Tickets : s # t =>
               /\ board'[p].shown[s] = board[p].shown[s]
               /\ InFlight(p, s)' = InFlight(p, s)
        BY <2>0, <3>1 DEF InFlight, Board
      <3>3. ASSUME t \notin astray'[p] PROVE Follows(p, t)'
        <4>1. Follows(p, t)
          BY <2>a, <3>1, <3>3
        <4>2. InFlight(p, t)' = {}
          BY <2>0, <3>1, <4>1 DEF InFlight, Follows
        <4>3. PutAt(p, m) = Place(t)
          BY <2>0, <4>1 DEF PutAt, Follows
        <4>4. board'[p].shown[t] = Place(t)'
          BY <2>0, <3>1, <4>3 DEF Board
        <4> QED
          BY <4>2, <4>4 DEF Follows
      <3>4. OnlyCard(p, t)
        <4>1. \A q \in Boards : q # p =>
                 /\ board'[q] = board[q]
                 /\ astray'[q] = astray[q]
                 /\ Place(t)' = Place(t)
          BY <2>0, <3>1
        <4>2. \A s \in Tickets : s # t =>
                 /\ Place(s)' = Place(s)
                 /\ board'[p].shown[s] = board[p].shown[s]
                 /\ InFlight(p, s)' = InFlight(p, s)
          BY <3>1, <3>2
        <4>3. astray[p] \subseteq astray'[p] /\ (t \notin astray'[p] => Follows(p, t)')
          BY <3>1, <3>3
        <4> HIDE DEF t
        <4> QED
          BY <4>1, <4>2, <4>3 DEF OnlyCard
      <3> QED
        BY <1>8, <2>0, <3>4, OneCard
    <2> QED
      BY <2>1, <2>2, <2>3, <2>4
  <1>9. ASSUME NEW r \in Residents, NEW t \in Tickets,
               AddNote(r, t) \/ \E me \in Residents : DeleteNote(me, r, t)
        PROVE  BoardsFollow'
    BY <1>1, <1>9 DEF AddNote, DeleteNote
  <1>10. CASE NextDay
    BY <1>1, <1>10 DEF NextDay
  <1> QED
    BY <1>2, <1>3, <1>4, <1>5, <1>6, <1>8, <1>9, <1>10 DEF RepStep

-----------------------------------------------------------------------------
(* The board's theorems *)

LEMMA RepHolds == Spec => []RepInv
  <1>1. RepInv /\ [Next]_vars => RepInv'
    <2> SUFFICES ASSUME RepInv, [Next]_vars PROVE RepInv'
      OBVIOUS
    <2>1. RepStep \/ UNCHANGED repVars
      BY DEF Next, Rooming, Deducting, Repairing, Posting, Noticing, Reading, Admitting,
         Publishing, Living, vars
    <2>2. CASE RepStep
      BY <2>2, RepStepType, RepStepFollows DEF RepInv
    <2>3. CASE UNCHANGED repVars
      BY <2>3
      DEF repVars, RepInv, RepTypeOK, DoneIsUpdated, BoardsFollow, Follows, Place, InFlight
    <2> QED
      BY <2>1, <2>2, <2>3
  <1> QED
    BY <1>1, RepInitInv, PTL DEF Spec

\* Tickets, notes, boards and the moves under way keep their types.
THEOREM RepTypesHold == Spec => []RepTypeOK
  BY RepHolds, PTL DEF RepInv

\* However people drag, forms move and the sweep archives, a board at rest shows the server's column,
\* but for the cards that somebody else moved, that were dragged twice, or whose answer was lost.
THEOREM BoardsAlwaysInStep == Spec => []BoardInStep
  <1>1. RepInv => BoardInStep
    BY DEF RepInv, BoardsFollow, Follows, Place, BoardInStep
  <1> QED
    BY <1>1, RepHolds, PTL

\* What the sweep archives has been faerdig for longer than ArchiveAfter, because whatever makes a
\* ticket faerdig sets updated_at.
THEOREM AlwaysRestedBeforeArchive == Spec => RestedBeforeArchive
  <1>1. RepInv /\ [Next]_vars =>
          [Sweep => \A t \in Tickets : tickets'[t] # tickets[t] => done[t] + ArchiveAfter < day]_repVars
    <2> SUFFICES ASSUME RepInv, Sweep, NEW t \in Tickets, tickets'[t] # tickets[t]
                 PROVE  done[t] + ArchiveAfter < day
      OBVIOUS
    <2>1. Due(t)
      BY DEF Sweep, RepInv, RepTypeOK
    <2>2. done[t] <= tickets[t].updated /\ tickets[t].updated + ArchiveAfter < day
      BY <2>1 DEF Due, RepInv, DoneIsUpdated
    <2>3. done[t] \in Int /\ tickets[t].updated \in Int /\ day \in Int /\ ArchiveAfter \in Int
      BY <2>1, ReparationerAssumption DEF Due, RepInv, RepTypeOK, Days, Ticket
    <2> QED
      BY <2>2, <2>3
  <1> QED
    BY <1>1, RepHolds, PTL DEF Spec, RestedBeforeArchive

-----------------------------------------------------------------------------
(* The public pages: types *)

LEMMA LegacyType ==
  ASSUME NEW p \in DOMAIN Legacy
  PROVE  Legacy[p] \in Content /\ p \in Pages
  BY CmsAssumption

LEMMA CmsInitType ==
  ASSUME CmsInit
  PROVE  CmsTypeOK
  BY LegacyType, CmsAssumption DEF CmsInit, CmsTypeOK

LEMMA TrimmedType ==
  ASSUME NEW S, NEW h \in Seq(S)
  PROVE  Trimmed(h) \in Seq(S)
  <1>1. CASE Len(h) <= Cap
    BY <1>1 DEF Trimmed
  <1>2. CASE ~(Len(h) <= Cap)
    <2>1. /\ Len(h) \in Nat /\ Cap \in Nat /\ Cap < Len(h)
      BY <1>2, CmsAssumption
    <2>2. \A i \in (Len(h) - Cap + 1)..Len(h) : h[i] \in S
      BY <2>1
    <2>3. SubSeq(h, Len(h) - Cap + 1, Len(h)) \in Seq(S)
      BY <2>1, <2>2, SubSeqProperties
    <2> QED
      BY <1>2, <2>3 DEF Trimmed
  <1> QED
    BY <1>1, <1>2

LEMMA SnapshotsType ==
  ASSUME NEW q \in Save, q.keeps => q.before # Null
  PROVE  /\ Snapshots(q) \in Seq(Content) /\ Len(Snapshots(q)) \in 1..2
         /\ Snapshots(q)[Len(Snapshots(q))] = q.as
         /\ q.keeps => Snapshots(q)[1] = q.before /\ Len(Snapshots(q)) = 2
  <1>1. q.as \in Content /\ q.before \in Content \cup {Null} /\ q.keeps \in BOOLEAN
    BY DEF Save
  <1> QED
    BY <1>1 DEF Snapshots

\* The cap never takes the last of a history, nor the last one before a save added to it.
LEMMA TrimmedKeeps ==
  ASSUME NEW h \in Seq(Content), NEW s \in Seq(Content), Len(s) \in 1..2
  PROVE  LET t == Trimmed(h \o s)
         IN  /\ t \in Seq(Content) /\ Len(t) \in Nat \ {0}
             /\ t[Len(t)] = s[Len(s)]
             /\ h # << >> => \E i \in DOMAIN t : t[i] = h[Len(h)]
             /\ h = << >> => \E i \in DOMAIN t : t[i] = s[1]
  <1> DEFINE hs == h \o s
             t == Trimmed(hs)
  <1>1. /\ hs \in Seq(Content) /\ Len(hs) = Len(h) + Len(s) /\ Len(h) \in Nat /\ Len(s) \in {1, 2}
        /\ hs[Len(hs)] = s[Len(s)]
        /\ h # << >> => Len(h) > 0 /\ hs[Len(h)] = h[Len(h)]
        /\ h = << >> => Len(h) = 0 /\ hs[1] = s[1]
    <2>1. Len(h) \in Nat /\ Len(s) \in Nat /\ Len(s) \in {1, 2}
      BY LenProperties
    <2>2. /\ hs \in Seq(Content) /\ Len(hs) = Len(h) + Len(s)
          /\ \A i \in 1..Len(h) + Len(s) :
                hs[i] = IF i <= Len(h) THEN h[i] ELSE s[i - Len(h)]
      BY ConcatProperties
    <2> HIDE DEF hs
    <2>3. hs[Len(hs)] = s[Len(s)]
      <3>1. /\ Len(h) + Len(s) \in 1..Len(h) + Len(s) /\ ~(Len(h) + Len(s) <= Len(h))
            /\ (Len(h) + Len(s)) - Len(h) = Len(s)
        <4>1. Len(s) > 0
          BY <2>1
        <4>2. ASSUME NEW i \in Int, NEW j \in Int, j > 0, i >= 0
              PROVE  i + j \in 1..(i + j)
          BY <4>2
        <4>3. ASSUME NEW i \in Int, NEW j \in Int, j > 0
              PROVE  ~(i + j <= i)
          BY <4>3
        <4>4. ASSUME NEW i \in Int, NEW j \in Int
              PROVE  (i + j) - i = j
          BY <4>4
        <4> QED
          BY <2>1, <4>1, <4>2, <4>3, <4>4
      <3>2. hs[Len(h) + Len(s)] = s[(Len(h) + Len(s)) - Len(h)]
        <4>1. ASSUME NEW n \in 1..Len(h) + Len(s), ~(n <= Len(h)) PROVE hs[n] = s[n - Len(h)]
          BY <2>2, <4>1
        <4> QED
          BY <3>1, <4>1
      <3>3. hs[Len(h) + Len(s)] = s[Len(s)]
        BY <3>1, <3>2
      <3> QED
        BY <2>2, <3>3
    <2>4. ASSUME h # << >> PROVE Len(h) > 0 /\ hs[Len(h)] = h[Len(h)]
      <3>1. Len(h) > 0
        BY <2>1, <2>4, EmptySeq
      <3>2. Len(h) \in 1..Len(h) + Len(s) /\ Len(h) <= Len(h)
        BY <2>1, <3>1
      <3> QED
        BY <2>2, <3>1, <3>2
    <2>5. ASSUME h = << >> PROVE Len(h) = 0 /\ hs[1] = s[1]
      <3>1. Len(h) = 0
        BY <2>5, EmptySeq
      <3>2. 1 \in 1..Len(h) + Len(s) /\ ~(1 <= Len(h)) /\ 1 - Len(h) = 1
        BY <2>1, <3>1
      <3> QED
        BY <2>2, <3>1, <3>2
    <2> QED
      BY <2>1, <2>2, <2>3, <2>4, <2>5
  <1>2. t \in Seq(Content) /\ Len(t) \in Nat /\ DOMAIN t = 1..Len(t)
    <2>1. t \in Seq(Content)
      BY <1>1, TrimmedType
    <2> HIDE DEF t
    <2> QED
      BY <2>1
  <1>3. CASE Len(hs) <= Cap
    <2>1. t = hs
      BY <1>3 DEF Trimmed
    <2> HIDE DEF hs, t
    <2>2. DOMAIN t = 1..Len(t) /\ Len(t) = Len(h) + Len(s)
      BY <1>1, <2>1
    <2>3. ASSUME h # << >> PROVE \E i \in DOMAIN t : t[i] = h[Len(h)]
      BY <1>1, <2>1, <2>2, <2>3
    <2>4. ASSUME h = << >> PROVE \E i \in DOMAIN t : t[i] = s[1]
      BY <1>1, <2>1, <2>2, <2>4
    <2> QED
      BY <1>1, <1>2, <2>1, <2>2, <2>3, <2>4 DEF t, hs
  <1>4. CASE ~(Len(hs) <= Cap)
    <2> DEFINE m == Len(hs) - Cap + 1
    <2>1. /\ Cap \in Nat /\ Cap >= 3 /\ Len(hs) \in Nat /\ m \in Int /\ m >= 1 /\ m <= Len(hs)
          /\ m <= Len(h) /\ Len(h) > 0
      BY <1>1, <1>4, CmsAssumption
    <2>2. t = SubSeq(hs, m, Len(hs))
      BY <1>4 DEF Trimmed
    <2>3. \A i \in m..Len(hs) : hs[i] \in Content
      BY <1>1, <2>1
    <2> HIDE DEF hs, t, m
    <2>4. Len(t) = Cap /\ \A i \in 1..Cap : t[i] = hs[m + i - 1]
      <3>1. Len(hs) - m + 1 = Cap
        BY <2>1 DEF m
      <3> QED
        BY <2>1, <2>2, <2>3, <3>1, SubSeqProperties
    <2>5. t[Len(t)] = hs[Len(hs)]
      <3>1. m + Cap - 1 = Len(hs) /\ Cap \in 1..Cap
        BY <2>1 DEF m
      <3> QED
        BY <2>4, <3>1
    <2>6. \E i \in DOMAIN t : t[i] = h[Len(h)]
      <3>1. Len(h) - m + 1 \in 1..Cap
        BY <1>1, <2>1 DEF m
      <3>2. m + (Len(h) - m + 1) - 1 = Len(h)
        BY <1>1, <2>1
      <3>3. DOMAIN t = 1..Cap
        BY <1>2, <2>4
      <3>4. t[Len(h) - m + 1] = hs[m + (Len(h) - m + 1) - 1]
        BY <2>4, <3>1
      <3>5. t[Len(h) - m + 1] = h[Len(h)]
        BY <1>1, <2>1, <3>2, <3>4
      <3> QED
        BY <3>1, <3>3, <3>5
    <2> QED
      BY <1>1, <1>2, <2>1, <2>4, <2>5, <2>6 DEF t, hs
  <1> QED
    BY <1>3, <1>4

-----------------------------------------------------------------------------
(* The public pages: what is kept *)

\* What a save keeps is what it has read.
KeepsRead == \A q \in saves : q.keeps => q.before # Null

\* An address that an editor was told leads somewhere has the redirect, and no page lives there.
ToldLead == \A a \in Addresses : told[a] # Null => redirects[a] = told[a] /\ a \notin LiveAddresses

\* What a page says is the last of its history; or it is an imported page that nobody has saved, and
\* whoever has begun to keeps what it says.
Kept(p) ==
    \/ versions[p] # << >> /\ versions[p][Len(versions[p])] = pages[p]
    \/ /\ versions[p] = << >> /\ p \in DOMAIN Legacy
       /\ \A q \in saves : q.page = p => q.keeps /\ q.before = pages[p]

CurrentKept == \A p \in Pages \ imported : pages[p] # Null => Kept(p)

CmsInv == OmfangTypeOK /\ CmsTypeOK /\ KeepsRead /\ ToldLead /\ CurrentKept

LEMMA CmsInitInv ==
  ASSUME Init
  PROVE  CmsInv
  <1>1. OmfangTypeOK /\ CmsTypeOK
    BY OmfangInit, CmsInitType DEF Init
  <1>2. KeepsRead /\ ToldLead /\ CurrentKept
    BY DEF Init, CmsInit, KeepsRead, ToldLead, CurrentKept, Kept
  <1> QED
    BY <1>1, <1>2 DEF CmsInv

LEMMA CmsStepOrNot ==
  ASSUME [Next]_vars
  PROVE  CmsStep \/ UNCHANGED cmsVars
  BY DEF Next, Rooming, Deducting, Repairing, Posting, Noticing, Reading, Admitting,
         Publishing, Living, vars

\* What a save writes to an address leaves it leading to a page or nowhere.
LEMMA RedirectsType ==
  ASSUME CmsTypeOK, NEW q \in saves
  PROVE  RedirectsAfter(q) \in [Addresses -> Pages \cup {Null}]
  <1>1. q.page \in Pages /\ redirects \in [Addresses -> Pages \cup {Null}]
    BY DEF CmsTypeOK, Save
  <1> QED
    BY <1>1 DEF RedirectsAfter

LEMMA BegunType ==
  ASSUME OmfangTypeOK, OmfangTypeOK', CmsTypeOK, KeepsRead, NEW r \in Residents,
         \/ \E as \in Content : BeginPage(r, as) \/ \E p \in Pages : BeginSave(r, p, as)
         \/ \E p \in Pages : \E i \in DOMAIN versions[p] : BeginRestore(r, p, i)
  PROVE  /\ CmsTypeOK' /\ KeepsRead'
         /\ UNCHANGED <<pages, redirects, versions, orphans, told, imported>>
         /\ \E q \in Save :
              /\ saves' = saves \cup {q}
              /\ q.page \in DOMAIN Legacy /\ versions[q.page] = << >> =>
                    q.keeps /\ q.before = pages[q.page]
  <1> USE DEF CmsTypeOK, KeepsRead
  <1>1. "revise" \in Kinds /\ made' \in [Kinds -> Nat]
    BY CmsAssumption DEF OmfangTypeOK
  <1>2. made'["revise"] \in Nat /\ "newpage" \in Kinds /\ made["newpage"] \in Nat
    BY <1>1, CmsAssumption DEF OmfangTypeOK
  <1>3. ASSUME NEW as \in Content, BeginPage(r, as)
        PROVE  \E q \in Save :
              /\ saves' = saves \cup {q}
              /\ q.keeps => q.before # Null
              /\ q.page \in DOMAIN Legacy /\ versions[q.page] = << >> =>
                    q.keeps /\ q.before = pages[q.page]
    <2> DEFINE p == Len(Legacy) + made["newpage"] + 1
               q == [n |-> 0, page |-> p, as |-> as, before |-> Null, keeps |-> FALSE]
    <2>1. p \in Pages /\ saves' = saves \cup {q}
      BY <1>3 DEF BeginPage
    <2>2. Len(Legacy) \in Nat /\ DOMAIN Legacy = 1..Len(Legacy)
      BY CmsAssumption, LenProperties
    <2>3. p \notin DOMAIN Legacy
      BY <1>2, <2>2
    <2>4. q \in Save
      BY <2>1 DEF Save
    <2> QED
      BY <2>1, <2>3, <2>4
  <1>4. ASSUME NEW as \in Content, NEW p \in Pages, BeginSave(r, p, as)
        PROVE  \E q \in Save :
              /\ saves' = saves \cup {q}
              /\ q.keeps => q.before # Null
              /\ q.page \in DOMAIN Legacy /\ versions[q.page] = << >> =>
                    q.keeps /\ q.before = pages[q.page]
    <2> DEFINE q == [n |-> made'["revise"], page |-> p, as |-> as, before |-> pages[p],
                     keeps |-> versions[p] = << >>]
    <2>1. saves' = saves \cup {q} /\ pages[p] # Null
      BY <1>4 DEF BeginSave
    <2>2. q \in Save
      BY <1>2 DEF Save
    <2> QED
      BY <2>1, <2>2
  <1>5. ASSUME NEW p \in Pages, NEW i \in DOMAIN versions[p], BeginRestore(r, p, i)
        PROVE  \E q \in Save :
              /\ saves' = saves \cup {q}
              /\ q.keeps => q.before # Null
              /\ q.page \in DOMAIN Legacy /\ versions[q.page] = << >> =>
                    q.keeps /\ q.before = pages[q.page]
    <2> DEFINE v == versions[p][i]
               as == [slug |-> IF Restorable(p, v.slug) THEN v.slug ELSE pages[p].slug,
                      text |-> v.text]
               q == [n |-> made'["revise"], page |-> p, before |-> pages[p], keeps |-> TRUE,
                     as |-> as]
    <2>1. saves' = saves \cup {q} /\ pages[p] # Null
      BY <1>5 DEF BeginRestore
    <2>2. v \in Content /\ pages[p] \in Content
      <3>1. versions[p] \in Seq(Content)
        OBVIOUS
      <3> QED
        BY <2>1, <3>1
    <2>3. as \in Content
      <3>1. v.slug \in Addresses \cup {Null} /\ pages[p].slug \in Addresses \cup {Null}
            /\ v.text \in Texts
        BY <2>2 DEF Content
      <3> QED
        BY <3>1 DEF Content
    <2> HIDE DEF as
    <2>4. q \in Save
      BY <1>2, <2>2, <2>3 DEF Save
    <2> QED
      BY <2>1, <2>4
  <1>6. PICK q \in Save :
              /\ saves' = saves \cup {q}
              /\ q.keeps => q.before # Null
              /\ q.page \in DOMAIN Legacy /\ versions[q.page] = << >> =>
                    q.keeps /\ q.before = pages[q.page]
    BY <1>3, <1>4, <1>5
  <1>7. UNCHANGED <<pages, redirects, versions, orphans, told, imported>>
    BY DEF BeginPage, BeginSave, BeginRestore
  <1> QED
    BY <1>6, <1>7

LEMMA EndSaveInv ==
  ASSUME CmsTypeOK, KeepsRead, ToldLead, CurrentKept, NEW q \in saves, EndSave(q)
  PROVE  CmsTypeOK' /\ KeepsRead' /\ ToldLead' /\ CurrentKept'
  <1> DEFINE s == Snapshots(q)
             h == versions[q.page]
  <1>1. /\ q \in Save /\ q.page \in Pages /\ q.as \in Content
        /\ h \in Seq(Content)
    BY DEF CmsTypeOK, Save
  <1>2. s \in Seq(Content) /\ Len(s) \in 1..2 /\ s[Len(s)] = q.as
    BY <1>1, SnapshotsType DEF KeepsRead
  <1>3. /\ Trimmed(h \o s) \in Seq(Content) /\ Trimmed(h \o s) # << >>
        /\ Trimmed(h \o s)[Len(Trimmed(h \o s))] = q.as
    <2>1. /\ Trimmed(h \o s) \in Seq(Content) /\ Len(Trimmed(h \o s)) \in Nat \ {0}
          /\ Trimmed(h \o s)[Len(Trimmed(h \o s))] = q.as
      <3> HIDE DEF s, h
      <3> QED
        BY <1>1, <1>2, TrimmedKeeps, Zenon
    <2> HIDE DEF s, h
    <2>2. Trimmed(h \o s) # << >>
      BY <2>1, EmptySeq
    <2> QED
      BY <2>1, <2>2
  <1>4. /\ pages' = [pages EXCEPT ![q.page] = q.as]
        /\ versions' = [versions EXCEPT ![q.page] = Trimmed(h \o s)]
        /\ redirects' = RedirectsAfter(q)
        /\ saves' = saves \ {q} /\ imported' = imported \ {q.page}
        /\ orphans' = orphans
        /\ told' = [a \in Addresses |->
              IF a = q.as.slug \/ TakenBesides(q.page, a) THEN Null
              ELSE IF Leaves(q) /\ a = q.before.slug THEN q.page
              ELSE told[a]]
    BY DEF EndSave
  <1> HIDE DEF s, h
  <1>5. CmsTypeOK'
    <2>1. pages' \in [Pages -> Content \cup {Null}] /\ versions' \in [Pages -> Seq(Content)]
      BY <1>1, <1>3, <1>4 DEF CmsTypeOK
    <2>2. redirects' \in [Addresses -> Pages \cup {Null}]
      BY <1>4, RedirectsType
    <2>3. told' \in [Addresses -> Pages \cup {Null}]
      BY <1>1, <1>4 DEF CmsTypeOK
    <2> QED
      BY <1>4, <2>1, <2>2, <2>3 DEF CmsTypeOK
  <1>6. KeepsRead'
    BY <1>4 DEF KeepsRead
  <1>7. ToldLead'
    <2> SUFFICES ASSUME NEW a \in Addresses, told'[a] # Null
                 PROVE  redirects'[a] = told'[a] /\ a \notin LiveAddresses'
      BY DEF ToldLead
    <2>1. a # q.as.slug /\ ~TakenBesides(q.page, a)
      BY <1>4
    <2>2. redirects'[a] = told'[a]
      BY <1>4, <2>1 DEF RedirectsAfter, ToldLead
    <2>3. ASSUME NEW p \in Pages, pages'[p] # Null, pages'[p].slug = a
          PROVE  FALSE
      <3>1. CASE p = q.page
        BY <1>1, <1>4, <2>1, <2>3, <3>1 DEF CmsTypeOK
      <3>2. CASE p # q.page
        <4>1. pages'[p] = pages[p]
          BY <1>4, <3>2 DEF CmsTypeOK
        <4>2. a # Null
          BY CmsAssumption
        <4> QED
          BY <2>1, <2>3, <3>2, <4>1, <4>2 DEF TakenBesides, Routed
      <3> QED
        BY <3>1, <3>2
    <2> QED
      BY <2>2, <2>3 DEF LiveAddresses, Routed
  <1>8. CurrentKept'
    <2> SUFFICES ASSUME NEW p \in Pages, p \notin imported', pages'[p] # Null
                 PROVE  Kept(p)'
      BY DEF CurrentKept
    <2>1. CASE p = q.page
      <3>1. versions'[p] = Trimmed(h \o s) /\ pages'[p] = q.as
        BY <1>4, <2>1 DEF CmsTypeOK
      <3> QED
        BY <1>3, <3>1 DEF Kept
    <2>2. CASE p # q.page
      <3>1. versions'[p] = versions[p] /\ pages'[p] = pages[p] /\ p \notin imported
        BY <1>4, <2>2 DEF CmsTypeOK
      <3>2. Kept(p)
        BY <3>1 DEF CurrentKept
      <3> QED
        BY <1>4, <3>1, <3>2 DEF Kept
    <2> QED
      BY <2>1, <2>2
  <1> QED
    BY <1>5, <1>6, <1>7, <1>8

LEMMA DeletePageInv ==
  ASSUME CmsTypeOK, KeepsRead, ToldLead, CurrentKept,
         NEW r \in Residents, NEW p \in Pages, DeletePage(r, p)
  PROVE  CmsTypeOK' /\ KeepsRead' /\ ToldLead' /\ CurrentKept'
  <1>1. /\ pages' = [pages EXCEPT ![p] = Null]
        /\ redirects' = [a \in Addresses |-> IF redirects[a] = p THEN Null ELSE redirects[a]]
        /\ versions' = [versions EXCEPT ![p] = << >>]
        /\ orphans' = orphans \cup {versions[p][i] : i \in DOMAIN versions[p]}
        /\ told' = [a \in Addresses |-> IF told[a] = p THEN Null ELSE told[a]]
        /\ saves' = saves /\ imported' = imported
    BY DEF DeletePage
  <1>2. CmsTypeOK'
    <2>1. << >> \in Seq(Content)
      BY EmptySeq
    <2>2. versions' \in [Pages -> Seq(Content)]
      BY <1>1, <2>1 DEF CmsTypeOK
    <2>3. orphans' \subseteq Content
      <3>1. versions[p] \in Seq(Content)
        BY DEF CmsTypeOK
      <3>2. \A i \in DOMAIN versions[p] : versions[p][i] \in Content
        BY <3>1
      <3> QED
        BY <1>1, <3>2 DEF CmsTypeOK
    <2>4. /\ pages' \in [Pages -> Content \cup {Null}]
          /\ redirects' \in [Addresses -> Pages \cup {Null}]
          /\ told' \in [Addresses -> Pages \cup {Null}]
      BY <1>1 DEF CmsTypeOK
    <2> QED
      BY <1>1, <2>2, <2>3, <2>4 DEF CmsTypeOK
  <1>3. KeepsRead'
    BY <1>1 DEF KeepsRead
  <1>4. ToldLead'
    <2>1. LiveAddresses' \subseteq LiveAddresses
      BY <1>1 DEF LiveAddresses, Routed, CmsTypeOK
    <2> QED
      BY <1>1, <2>1 DEF ToldLead, CmsTypeOK
  <1>5. CurrentKept'
    <2> SUFFICES ASSUME NEW t \in Pages, t \notin imported', pages'[t] # Null
                 PROVE  Kept(t)'
      BY DEF CurrentKept
    <2>1. t # p
      BY <1>1 DEF CmsTypeOK
    <2>2. versions'[t] = versions[t] /\ pages'[t] = pages[t] /\ t \notin imported
      BY <1>1, <2>1 DEF CmsTypeOK
    <2>3. Kept(t)
      BY <2>2 DEF CurrentKept
    <2> QED
      BY <1>1, <2>2, <2>3 DEF Kept
  <1> QED
    BY <1>2, <1>3, <1>4, <1>5

LEMMA RedirectsByHandInv ==
  ASSUME CmsTypeOK, KeepsRead, ToldLead, CurrentKept,
         NEW r \in Residents, NEW a \in Addresses,
         \/ DeleteRedirect(r, a)
         \/ \E p \in Pages : \/ AddRedirect(r, a, p)
                             \/ \E b \in Addresses : ChangeRedirect(r, a, b, p)
  PROVE  CmsTypeOK' /\ KeepsRead' /\ ToldLead' /\ CurrentKept'
  <1>1. UNCHANGED <<pages, versions, orphans, saves, imported>>
    BY DEF DeleteRedirect, AddRedirect, ChangeRedirect
  <1>2. /\ redirects' \in [Addresses -> Pages \cup {Null}]
        /\ told' \in [Addresses -> Pages \cup {Null}]
    BY DEF CmsTypeOK, DeleteRedirect, AddRedirect, ChangeRedirect
  <1>3. \A c \in Addresses : told'[c] # Null =>
            told[c] # Null /\ told'[c] = told[c] /\ redirects'[c] = redirects[c]
    BY DEF CmsTypeOK, DeleteRedirect, AddRedirect, ChangeRedirect
  <1>4. ToldLead'
    <2>1. LiveAddresses' = LiveAddresses
      BY <1>1 DEF LiveAddresses, Routed
    <2> QED
      BY <1>3, <2>1 DEF ToldLead
  <1>5. KeepsRead' /\ CurrentKept'
    BY <1>1 DEF KeepsRead, CurrentKept, Kept
  <1> QED
    BY <1>1, <1>2, <1>4, <1>5 DEF CmsTypeOK

LEMMA ImportInv ==
  ASSUME CmsTypeOK, KeepsRead, ToldLead, CurrentKept, Import
  PROVE  CmsTypeOK' /\ KeepsRead' /\ ToldLead' /\ CurrentKept'
  <1>1. /\ pages' = [p \in Pages |-> IF p \in DOMAIN Legacy THEN Legacy[p] ELSE pages[p]]
        /\ imported' = imported \cup DOMAIN Legacy
        /\ told' = [a \in Addresses |->
              IF \E p \in DOMAIN Legacy : Legacy[p].slug = a THEN Null ELSE told[a]]
        /\ UNCHANGED <<redirects, versions, orphans, saves>>
    BY DEF Import
  <1>2. CmsTypeOK'
    BY <1>1, LegacyType DEF CmsTypeOK
  <1>3. KeepsRead'
    BY <1>1 DEF KeepsRead
  <1>4. ToldLead'
    <2> SUFFICES ASSUME NEW a \in Addresses, told'[a] # Null
                 PROVE  redirects'[a] = told'[a] /\ a \notin LiveAddresses'
      BY DEF ToldLead
    <2>1. told'[a] = told[a] /\ ~ \E p \in DOMAIN Legacy : Legacy[p].slug = a
      BY <1>1
    <2>2. redirects'[a] = told'[a] /\ a \notin LiveAddresses
      BY <1>1, <2>1 DEF ToldLead
    <2>3. ASSUME NEW p \in Pages, pages'[p] # Null, pages'[p].slug = a, a # Null
          PROVE  FALSE
      <3>1. p \notin DOMAIN Legacy
        BY <1>1, <2>1, <2>3
      <3>2. pages'[p] = pages[p]
        BY <1>1, <3>1
      <3> QED
        BY <2>2, <2>3, <3>2 DEF LiveAddresses, Routed
    <2> QED
      BY <2>2, <2>3 DEF LiveAddresses, Routed
  <1>5. CurrentKept'
    <2> SUFFICES ASSUME NEW p \in Pages, p \notin imported', pages'[p] # Null
                 PROVE  Kept(p)'
      BY DEF CurrentKept
    <2>1. pages'[p] = pages[p] /\ p \notin imported
      BY <1>1
    <2>2. Kept(p)
      BY <2>1 DEF CurrentKept
    <2> QED
      BY <1>1, <2>1, <2>2 DEF Kept
  <1> QED
    BY <1>2, <1>3, <1>4, <1>5

LEMMA CmsNextInv ==
  ASSUME CmsInv, [Next]_vars
  PROVE  CmsInv'
  <1>1. /\ OmfangTypeOK /\ CmsTypeOK /\ KeepsRead /\ ToldLead /\ CurrentKept
        /\ OmfangTypeOK'
    BY MadeGrows DEF CmsInv
  <1>2. CASE UNCHANGED cmsVars
    BY <1>1, <1>2 DEF cmsVars, CmsInv, CmsTypeOK, KeepsRead, ToldLead, CurrentKept, Kept, Routed,
                      LiveAddresses
  <1>3. CASE Import
    BY <1>1, <1>3, ImportInv DEF CmsInv
  <1>4. ASSUME NEW r \in Residents,
               \/ \E as \in Content : BeginPage(r, as) \/ \E p \in Pages : BeginSave(r, p, as)
               \/ \E p \in Pages : \E i \in DOMAIN versions[p] : BeginRestore(r, p, i)
        PROVE  CmsInv'
    <2>1. /\ CmsTypeOK' /\ KeepsRead'
          /\ UNCHANGED <<pages, redirects, versions, orphans, told, imported>>
      BY <1>1, <1>4, BegunType
    <2>2. PICK q \in Save :
              /\ saves' = saves \cup {q}
              /\ q.page \in DOMAIN Legacy /\ versions[q.page] = << >> =>
                    q.keeps /\ q.before = pages[q.page]
      BY <1>1, <1>4, BegunType
    <2>3. ToldLead'
      BY <1>1, <2>1 DEF ToldLead, LiveAddresses, Routed
    <2>4. CurrentKept'
      <3> SUFFICES ASSUME NEW p \in Pages, p \notin imported, pages[p] # Null
                   PROVE  Kept(p)'
        BY <2>1 DEF CurrentKept
      <3>1. Kept(p)
        BY <1>1 DEF CurrentKept
      <3> QED
        BY <2>1, <2>2, <3>1 DEF Kept
    <2> QED
      BY <1>1, <2>1, <2>3, <2>4 DEF CmsInv
  <1>5. ASSUME NEW r \in Residents, NEW p \in Pages, DeletePage(r, p)
        PROVE  CmsInv'
    BY <1>1, <1>5, DeletePageInv DEF CmsInv
  <1>6. ASSUME NEW r \in Residents, NEW a \in Addresses,
               \/ DeleteRedirect(r, a)
               \/ \E p \in Pages : \/ AddRedirect(r, a, p)
                                   \/ \E b \in Addresses : ChangeRedirect(r, a, b, p)
        PROVE  CmsInv'
    BY <1>1, <1>6, RedirectsByHandInv DEF CmsInv
  <1>7. ASSUME NEW q \in saves, EndSave(q)
        PROVE  CmsInv'
    BY <1>1, <1>7, EndSaveInv DEF CmsInv
  <1>8. ASSUME NEW q \in saves, ClashSave(q)
        PROVE  CmsInv'
    <2>1. /\ saves' = saves \ {q}
          /\ UNCHANGED <<pages, redirects, versions, orphans, told, imported>>
      BY <1>8 DEF ClashSave
    <2> QED
      BY <1>1, <2>1
         DEF CmsInv, CmsTypeOK, KeepsRead, ToldLead, CurrentKept, Kept, LiveAddresses, Routed
  <1> QED
    BY <1>2, <1>3, <1>4, <1>5, <1>6, <1>7, <1>8, CmsStepOrNot DEF CmsStep

LEMMA CmsHolds == Spec => []CmsInv
  BY CmsInitInv, CmsNextInv, PTL DEF Spec

\* Pages, their addresses, redirects and versions, and the saves under way, keep their types.
THEOREM CmsTypesHold == Spec => []CmsTypeOK
  BY CmsHolds, PTL DEF CmsInv

\* An address that an editor was told leads to a page does, whatever is renamed, saved, deleted or
\* imported, in whatever order: it has the redirect, and no page has been given it.
THEOREM AddressesAlwaysLead == Spec => []LeftAddressesLead
  <1>1. CmsInv => LeftAddressesLead
    <2> SUFFICES ASSUME CmsInv, NEW a \in Addresses, told[a] \in Routed
                 PROVE  Resolve(a) = told[a]
      BY DEF LeftAddressesLead
    <2>1. told[a] # Null
      BY CmsAssumption DEF Routed
    <2>2. redirects[a] = told[a] /\ a \notin LiveAddresses
      BY <2>1 DEF CmsInv, ToldLead
    <2> QED
      BY <2>2 DEF Resolve
  <1> QED
    BY <1>1, CmsHolds, PTL

\* What a save, a restore or a deletion writes over is kept: what the page said is the last of its
\* history, or the save that is the first to write over it snapshots it, and the cap takes neither.
THEOREM NothingIsEverLost == Spec => NothingIsLost
  <1> DEFINE Stays(p) ==
               \/ \E i \in DOMAIN versions'[p] : versions'[p][i] = pages[p]
               \/ pages[p] \in orphans'
               \/ pages'[p] = Null /\ versions[p] = << >>
  <1>1. ASSUME CmsInv, CmsStep, NEW p \in Pages, pages[p] # Null, pages'[p] # pages[p],
               p \notin imported \cup imported'
        PROVE  Stays(p)
    <2>1. /\ CmsTypeOK /\ KeepsRead /\ Kept(p)
          /\ versions[p] \in Seq(Content) /\ pages[p] \in Content
      BY <1>1 DEF CmsInv, CurrentKept, CmsTypeOK
    <2>2. versions[p] # << >> =>
            /\ Len(versions[p]) \in DOMAIN versions[p]
            /\ versions[p][Len(versions[p])] = pages[p]
      BY <2>1, EmptySeq, LenProperties DEF Kept
    <2>3. ASSUME Import PROVE FALSE
      BY <1>1, <2>3 DEF Import
    <2>4. ASSUME NEW r \in Residents, NEW t \in Pages, DeletePage(r, t)
          PROVE  Stays(p)
      <3>1. p = t
        BY <1>1, <2>1, <2>4 DEF DeletePage, CmsTypeOK
      <3>2. /\ pages'[p] = Null
            /\ orphans' = orphans \cup {versions[p][i] : i \in DOMAIN versions[p]}
        BY <2>1, <2>4, <3>1 DEF DeletePage, CmsTypeOK
      <3>3. CASE versions[p] # << >>
        BY <2>2, <3>2, <3>3
      <3> QED
        BY <3>2, <3>3
    <2>5. ASSUME NEW q \in saves, EndSave(q)
          PROVE  Stays(p)
      <3> DEFINE h == versions[p]
                 s == Snapshots(q)
                 t == Trimmed(h \o s)
      <3>1. p = q.page
        BY <1>1, <2>1, <2>5 DEF EndSave, CmsTypeOK
      <3>2. versions'[p] = t
        BY <2>1, <2>5, <3>1 DEF EndSave, CmsTypeOK
      <3>3. /\ q \in Save /\ s \in Seq(Content) /\ Len(s) \in 1..2
            /\ q.keeps => s[1] = q.before
        BY <2>1, SnapshotsType DEF CmsTypeOK, KeepsRead
      <3> HIDE DEF s
      <3>4. /\ h # << >> => \E i \in DOMAIN t : t[i] = h[Len(h)]
            /\ h = << >> => \E i \in DOMAIN t : t[i] = s[1]
        <4> HIDE DEF h
        <4>1. h \in Seq(Content)
          BY <2>1 DEF h
        <4> QED
          BY <3>3, <4>1, TrimmedKeeps, Zenon
      <3> HIDE DEF t
      <3>5. CASE versions[p] # << >>
        BY <2>2, <3>2, <3>4, <3>5
      <3>6. CASE versions[p] = << >>
        <4>1. q.keeps /\ q.before = pages[p]
          BY <2>1, <3>1, <3>6 DEF Kept
        <4> QED
          BY <3>2, <3>3, <3>4, <3>6, <4>1
      <3> QED
        BY <3>5, <3>6
    <2>6. CASE UNCHANGED pages
      BY <1>1, <2>6
    <2> QED
      BY <1>1, <2>3, <2>4, <2>5, <2>6
         DEF CmsStep, BeginPage, BeginSave, BeginRestore, DeleteRedirect, AddRedirect,
             ChangeRedirect, ClashSave
  <1>2. CmsInv /\ [Next]_vars =>
          [\A p \in Pages :
              pages[p] # Null /\ pages'[p] # pages[p] /\ p \notin imported \cup imported' =>
                  Stays(p)]_cmsVars
    BY <1>1, CmsStepOrNot
  <1> QED
    BY <1>2, CmsHolds, PTL DEF Spec, NothingIsLost

===============================================================================
