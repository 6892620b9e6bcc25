---------------------------- MODULE IntranetProofs ----------------------------
(* What the intranet's month as a whole guarantees: how often things happen, *)
(* the list that all its parts read, for every set of residents, rooms and   *)
(* groups and every number of months, the room lottery that writes it, and   *)
(* the noticeboard, whose notices bear the groups of that list.              *)
EXTENDS Intranet, FiniteSetTheorems, WellFoundedInduction, TLAPS

-----------------------------------------------------------------------------
(* The month in effect *)

\* A set of months that is not empty has a last one.
LEMMA LastOfMonths ==
  ASSUME NEW n \in Nat, NEW S \in SUBSET (1..n), S # {}
  PROVE  \E m \in S : \A k \in S : k <= m
  <1> DEFINE T == {n - m : m \in S}
  <1>1. T \subseteq Nat /\ T # {}
    <2>1. \A m \in S : n - m \in Nat
      OBVIOUS
    <2>2. PICK m \in S : TRUE
      OBVIOUS
    <2>3. n - m \in T
      BY <2>2
    <2> QED
      BY <2>1, <2>3
  <1>2. PICK x \in T : \A y \in T : ~(<<y, x>> \in OpToRel(<, Nat))
    <2> HIDE DEF T
    <2> QED BY <1>1, WFMin, NatLessThanWellFounded
  <1>3. PICK m \in S : x = n - m
    OBVIOUS
  <1>4. ASSUME NEW k \in S PROVE k <= m
    <2>1. n - k \in T
      OBVIOUS
    <2>2. ~(n - k < x)
      BY <1>1, <1>2, <2>1 DEF OpToRel
    <2> QED
      BY <1>3, <2>2
  <1> QED
    BY <1>4

\* The month in effect has begun, and the one that Indstillingen prepares is one of the months.
LEMMA ActiveIsMonth ==
  ASSUME ListTypeOK
  PROVE  Active \in 1..today /\ Active \in Months /\ Target \in Months
  <1> DEFINE started == {m \in 1..today : OnList(m) # {}}
  <1>1. today \in Nat /\ today \in 1..(LastMonth - 1) /\ LastMonth \in Nat
    BY ListAssumption DEF ListTypeOK
  <1>2. Active \in 1..today
    <2>1. CASE started = {}
      BY <1>1, <2>1 DEF Active
    <2>2. CASE started # {}
      <3>1. \E m \in started : \A k \in started : k <= m
        <4> HIDE DEF started
        <4>1. started \in SUBSET (1..today)
          BY DEF started
        <4> QED
          BY <1>1, <2>2, <4>1, LastOfMonths
      <3>2. Active \in started
        BY <2>2, <3>1 DEF Active
      <3> QED
        BY <3>2
    <2> QED
      BY <2>1, <2>2
  <1> QED
    BY <1>1, <1>2 DEF Months, Target

-----------------------------------------------------------------------------
(* Types *)

LEMMA SyncedAreRoles ==
  ASSUME NEW held \in SUBSET Roles, NEW group \in Groups \cup {Null}, NEW isAdmin
  PROVE  Synced(held, group, isAdmin) \in SUBSET Roles
  <1>1. RolesOf(group) \subseteq Roles
    BY ListAssumption DEF RolesOf, GroupRoles
  <1> QED
    BY <1>1 DEF Synced, Roles

\* Nobody is on a list as nothing: what is not Null is a row with a room and perhaps a group.
LEMMA RowOnList ==
  ASSUME NEW row \in Row \cup {Null}, row # Null
  PROVE  row \in Row /\ row.room \in Rooms /\ row.group \in Groups \cup {Null}
  BY DEF Row

LEMMA ListInitType ==
  ASSUME ListInit
  PROVE  ListTypeOK
  <1>1. PICK first \in Rosters :
          /\ today = 1
          /\ list = [m \in Months |-> IF m = 1 THEN first.list ELSE [r \in Residents |-> Null]]
          /\ roles = [m \in Months |-> [r \in Residents |->
                        IF m = 1 /\ first.list[r] # Null
                        THEN Synced({}, first.list[r].group, r \in first.administrators)
                        ELSE {}]]
          /\ accounts = first.accounts
    BY DEF ListInit
  <1>2. first.list \in [Residents -> Row \cup {Null}] /\ first.accounts \subseteq Residents
    BY ListAssumption DEF Lists
  <1>3. list \in [Months -> Lists]
    BY <1>1, <1>2 DEF Lists
  <1>4. ASSUME NEW r \in Residents, first.list[r] # Null
        PROVE  Synced({}, first.list[r].group, r \in first.administrators) \in SUBSET Roles
    <2>1. first.list[r].group \in Groups \cup {Null}
      BY <1>2, <1>4, RowOnList
    <2> QED
      BY <2>1, SyncedAreRoles
  <1>5. roles \in [Months -> [Residents -> SUBSET Roles]]
    BY <1>1, <1>4
  <1>6. today \in 1..(LastMonth - 1)
    BY <1>1, ListAssumption
  <1>7. staff \subseteq Residents
    BY DEF ListInit
  <1> QED
    BY <1>1, <1>2, <1>3, <1>5, <1>6, <1>7 DEF ListTypeOK

\* The signals write a set of residents.
LEMMA SignalsType ==
  ASSUME NEW m, NEW rewritten, staff \subseteq Residents, Signals(m, rewritten)
  PROVE  staff' \subseteq Residents
  BY DEF Signals

\* What the editor writes of a month is a list of that month and the roles that go with it.
LEMMA WritesOfAMonth ==
  ASSUME ListTypeOK, NEW m \in Months, NEW l \in Lists, NEW given \in [Residents -> SUBSET Roles],
         list' = [list EXCEPT ![m] = l], roles' = [roles EXCEPT ![m] = given],
         today' = today, accounts' \subseteq Residents, staff' \subseteq Residents
  PROVE  ListTypeOK'
  <1>1. list' \in [Months -> Lists]
    BY DEF ListTypeOK
  <1>2. roles' \in [Months -> [Residents -> SUBSET Roles]]
    BY DEF ListTypeOK
  <1> QED
    BY <1>1, <1>2 DEF ListTypeOK

LEMMA ListStepType ==
  ASSUME ListTypeOK, [ListStep]_listVars
  PROVE  ListTypeOK'
  <1> USE DEF ListTypeOK
  <1>0. Active \in Months /\ Target \in Months
    BY ActiveIsMonth
  <1>1. CASE TurnMonth
    BY <1>1, ListAssumption DEF TurnMonth
  <1>2. ASSUME NEW me \in Residents, NEW m \in {Active, Target}, CopyList(m, me)
        PROVE  ListTypeOK'
    <2> DEFINE l == [r \in Residents |-> IF r \in OnList(Active) THEN list[Active][r] ELSE list[m][r]]
               given == [r \in Residents |->
                  IF r \in OnList(Active)
                  THEN Synced(roles[m][r], list[Active][r].group, r \in Administrators)
                  ELSE roles[m][r]]
    <2>1. l \in Lists
      BY <1>0 DEF Lists
    <2>2. ASSUME NEW r \in OnList(Active)
          PROVE  Synced(roles[m][r], list[Active][r].group, r \in Administrators) \in SUBSET Roles
      <3>1. list[Active][r] \in Row \cup {Null} /\ list[Active][r] # Null /\ r \in Residents
        BY <1>0 DEF OnList, Lists
      <3>2. list[Active][r].group \in Groups \cup {Null} /\ roles[m][r] \in SUBSET Roles
        BY <1>0, <3>1, RowOnList
      <3> QED
        BY <3>2, SyncedAreRoles
    <2>3. given \in [Residents -> SUBSET Roles]
      BY <1>0, <2>2
    <2>4. list' = [list EXCEPT ![m] = l] /\ roles' = [roles EXCEPT ![m] = given]
      BY <1>0, <1>2 DEF CopyList
    <2> HIDE DEF l, given
    <2> QED
      BY <1>0, <1>2, <2>1, <2>3, <2>4, WritesOfAMonth, SignalsType DEF CopyList
  <1>3. ASSUME NEW me \in Residents, NEW m \in {Active, Target}, NEW ticked \in SUBSET OnList(m),
               NEW rows \in [OnList(m) \ ticked -> Row], SaveList(m, me, ticked, rows)
        PROVE  ListTypeOK'
    <2> DEFINE removed == ticked \ (IF m = Active THEN {me} ELSE {})
               kept == OnList(m) \ ticked
               l == [r \in Residents |-> IF r \in kept THEN rows[r]
                                         ELSE IF r \in removed THEN Null ELSE list[m][r]]
               given == RolesAfterSave(m, removed, kept, rows)
    <2>1. l \in Lists
      BY <1>0 DEF Lists
    <2>2. ASSUME NEW r \in kept
          PROVE  Synced(roles[m][r], rows[r].group, r \in Administrators) \in SUBSET Roles
      <3>1. rows[r].group \in Groups \cup {Null} /\ roles[m][r] \in SUBSET Roles
        BY <1>0, <2>2 DEF Row, OnList
      <3> QED
        BY <3>1, SyncedAreRoles
    <2>3. given \in [Residents -> SUBSET Roles]
      BY <1>0, <2>2 DEF RolesAfterSave
    <2>4. /\ list' = [list EXCEPT ![m] = l]
          /\ roles' = [roles EXCEPT ![m] = given]
          /\ today' = today /\ accounts' = accounts /\ staff' \subseteq Residents
      BY <1>0, <1>3, SignalsType DEF SaveList
    <2> HIDE DEF l, given
    <2> QED
      BY <1>0, <2>1, <2>3, <2>4, WritesOfAMonth
  <1>4. ASSUME NEW me \in Residents, NEW m \in {Active, Target}, NEW r \in Residents,
               NEW row \in Row, AddToList(m, me, r, row)
        PROVE  ListTypeOK'
    <2>1. Synced(roles[m][r], row.group, r \in accounts /\ r \in Administrators) \in SUBSET Roles
      <3>1. row.group \in Groups \cup {Null} /\ roles[m][r] \in SUBSET Roles
        BY <1>0 DEF Row
      <3> QED
        BY <3>1, SyncedAreRoles
    <2>2. list' \in [Months -> Lists]
      BY <1>0, <1>4 DEF AddToList, Lists
    <2>3. roles' \in [Months -> [Residents -> SUBSET Roles]]
      BY <1>0, <1>4, <2>1 DEF AddToList
    <2> QED
      BY <1>4, <2>2, <2>3, SignalsType DEF AddToList
  <1>5. ASSUME NEW me \in Residents, NEW r \in Residents, NEW role \in {"indstilling", "administrator"},
               NEW given \in BOOLEAN, SetRole(me, r, role, given)
        PROVE  ListTypeOK'
    <2>1. (IF given THEN roles[Active][r] \cup {role} ELSE roles[Active][r] \ {role})
             \in SUBSET Roles
      BY <1>0 DEF Roles
    <2>2. roles' \in [Months -> [Residents -> SUBSET Roles]]
      BY <1>0, <1>5, <2>1 DEF SetRole
    <2> QED
      BY <1>5, <2>2, SignalsType DEF SetRole
  <1>6. CASE UNCHANGED listVars
    BY <1>6 DEF listVars, Months, Lists, Row
  <1> QED
    BY <1>1, <1>2, <1>3, <1>4, <1>5, <1>6 DEF ListStep

\* The month that is in effect, the rows, the roles and the accounts keep their types, and the month
\* that Indstillingen's editor writes to always exists.
THEOREM ListTypesHold == ListSpec => []ListTypeOK
  <1>1. ListInit => ListTypeOK
    BY ListInitType
  <1>2. ListTypeOK /\ [ListStep]_listVars => ListTypeOK'
    BY ListStepType
  <1> QED
    BY <1>1, <1>2, PTL DEF ListSpec

-----------------------------------------------------------------------------
(* Rows and roles *)

LEMMA EditorTakesTheRoles ==
  ASSUME ListTypeOK, ListStep
  PROVE  \A n \in Months, s \in Residents :
           list[n][s] # Null /\ list'[n][s] = Null => roles'[n][s] = {}
  <1> USE DEF ListTypeOK
  <1> SUFFICES ASSUME NEW n \in Months, NEW s \in Residents,
                      list[n][s] # Null, list'[n][s] = Null
               PROVE  roles'[n][s] = {}
    OBVIOUS
  <1>0. Active \in Months /\ Target \in Months
    BY ActiveIsMonth
  <1>1. CASE TurnMonth
    BY <1>1 DEF TurnMonth
  <1>2. ASSUME NEW me \in Residents, NEW m \in {Active, Target}, CopyList(m, me)
        PROVE  FALSE
    BY <1>0, <1>2 DEF CopyList, OnList
  <1>3. ASSUME NEW me \in Residents, NEW m \in {Active, Target}, NEW ticked \in SUBSET OnList(m),
               NEW rows \in [OnList(m) \ ticked -> Row], SaveList(m, me, ticked, rows)
        PROVE  roles'[n][s] = {}
    <2> DEFINE removed == ticked \ (IF m = Active THEN {me} ELSE {})
               kept == OnList(m) \ ticked
               l == [r \in Residents |-> IF r \in kept THEN rows[r]
                                         ELSE IF r \in removed THEN Null ELSE list[m][r]]
    <2>1. /\ list' = [list EXCEPT ![m] = l]
          /\ roles' = [roles EXCEPT ![m] = RolesAfterSave(m, removed, kept, rows)]
      BY <1>0, <1>3 DEF SaveList
    <2>2. n = m
      BY <1>0, <2>1
    <2>3. s \notin kept
      <3>1. \A r \in kept : rows[r] # Null
        BY ListAssumption
      <3> QED
        BY <1>0, <2>1, <2>2, <3>1
    <2>4. s \in removed
      BY <1>0, <2>1, <2>2, <2>3
    <2> QED
      BY <1>0, <2>1, <2>2, <2>3, <2>4 DEF RolesAfterSave
  <1>4. ASSUME NEW me \in Residents, NEW m \in {Active, Target}, NEW r \in Residents,
               NEW row \in Row, AddToList(m, me, r, row)
        PROVE  FALSE
    <2>1. row # Null
      BY ListAssumption
    <2> QED
      BY <1>0, <1>4, <2>1 DEF AddToList, Lists
  <1>5. ASSUME NEW me \in Residents, NEW r \in Residents, NEW role \in {"indstilling", "administrator"},
               NEW given \in BOOLEAN, SetRole(me, r, role, given)
        PROVE  FALSE
    BY <1>5 DEF SetRole
  <1> QED
    BY <1>1, <1>2, <1>3, <1>4, <1>5 DEF ListStep

\* Whoever Indstillingen's editor takes off a list holds no role in that month any more.
THEOREM EditorTakesRoles == ListSpec => LeavingTakesTheRoles
  <1>1. ListTypeOK /\ [ListStep]_listVars =>
          [\A m \in Months, r \in Residents :
             list[m][r] # Null /\ list'[m][r] = Null => roles'[m][r] = {}]_listVars
    BY EditorTakesTheRoles
  <1> QED
    BY <1>1, ListTypesHold, PTL DEF ListSpec, LeavingTakesTheRoles

-----------------------------------------------------------------------------
(* Counting what happens *)

\* Either nothing is counted, or one event more of one kind.
Counts == UNCHANGED made \/ \E k : Make(k)

LEMMA ListCounts == ASSUME ListStep PROVE Counts
  BY DEF ListStep, TurnMonth, CopyList, SaveList, AddToList, SetRole, Counts

LEMMA SoegCounts == ASSUME SoegStep PROVE Counts
  BY DEF SoegStep, Apply, Withdraw, CreateOffer, CloseOffer, ResolveTie, BeginRound, ReadOffers,
         ReadPriorities, JudgeEntry, EndMonth, Counts

LEMMA AkCounts == ASSUME AkStep PROVE Counts
  BY DEF AkStep, BeginVisit, BeginCron, SaveSchedule, Works, ApplyFails, DieUnmarked, DeleteCharge,
         AddEntry, DeleteEntry, Counts

LEMMA RepCounts == ASSUME RepStep PROVE Counts
  BY DEF RepStep, NextDay, Report, MoveByForm, HandOver, Delete, ArchiveNow, Unarchive, AddNote,
         DeleteNote, Sweep, Load, Drag, AcceptMove, RefuseMove, LoseMove, Settle, Counts

LEMMA DhCounts == ASSUME DhStep PROVE Counts
  BY DEF DhStep, Tick, CreatePost, ToggleMute, BeginTap, BeginComment, WriteComment, WriteTap,
         WriteMute, LoadFeed, PurgeCommand, DeletePost, Deletes, DeleteRows, FailToDelete,
         DeletePhotos, FailPhotos, Counts

LEMMA OpsCounts == ASSUME OpsStep PROVE Counts
  BY DEF OpsStep, NextDate, BeginSweep, EndSweep, Upload, CreateNotice, CollectNotice, DeleteNotice, AddRemark,
         BeginEdit, BeginPin, DeleteRemark, EndPin, EndEdit, Counts

LEMMA TraadCounts == ASSUME TraadStep PROVE Counts
  BY DEF TraadStep, OpenThread, ThreadArrives, GoneArrives, CloseThread, BackHappens, BackGesture,
         ForwardGesture, Counts

LEMMA GestusCounts == ASSUME GestusStep PROVE Counts
  BY DEF GestusStep, TouchText, TouchPill, Touch, HoldFires, MoveFinger, Lift, Interrupt, Poll, Counts

LEMMA AdmCounts == ASSUME AdmStep PROVE Counts
  BY DEF AdmStep, NextSeason, SendLetter, PurgeLetters, BeginMark, EndMark, Counts

LEMMA CmsCounts == ASSUME CmsStep PROVE Counts
  BY DEF CmsStep, Import, BeginPage, BeginSave, DeletePage, BeginRestore, DeleteRedirect,
         AddRedirect, ChangeRedirect, EndSave, ClashSave, Counts

LEMMA HverdagCounts == ASSUME HverdagStep PROVE Counts
  <1>1. CASE Checking
    BY <1>1 DEF Checking, TjekStep, BeginReport, EndReport, Counts
  <1>2. CASE MovingIn
    BY <1>2 DEF MovingIn, OverStep, LoadDump, StartTask, RunCommand, CommandFails, CommandDies,
                BackfillRoomHistory, WriteRow, Counts
  <1>3. CASE Looking
    BY <1>3 DEF Looking, MedierStep, UploadPhoto, DeletePhoto, RelocateMedia, StartCopying,
                FlipToBucket, RollBack, EmptyVolume, CopyingDies, LookAt, ChangeSession,
                QuarterPasses, Counts
  <1>4. CASE Inviting
    <2>1. ASSUME NEW p, NEW me, NEW private, NEW guests,
                 CreateParty(p, me, private, guests)
                     \/ \E matters \in BOOLEAN : BeginDraft(p, me, private, guests, matters)
          PROVE  Counts
      BY <2>1 DEF CreateParty, BeginDraft, Counts
    <2>2. ASSUME NEW p, NEW r,
                 AppointHost(p, r) \/ BeginCancel(p, r) \/ \E yes \in BOOLEAN : Answer(p, r, yes)
          PROVE  Counts
      BY <2>2 DEF AppointHost, BeginCancel, Answer, Counts
    <2>3. ASSUME NEW d, \/ SaveDraft(d) \/ ReadGuests(d) \/ WriteGuests(d)
                        \/ SaveCancel(d) \/ AskWhom(d) \/ Deliver(d)
          PROVE  Counts
      BY <2>3 DEF SaveDraft, ReadGuests, WriteGuests, SaveCancel, AskWhom, Deliver, Counts
    <2>4. ASSUME NEW due, BeginNudge(due)
          PROVE  Counts
      BY <2>4 DEF BeginNudge, Counts
    <2> QED
      BY <1>4, <2>1, <2>2, <2>3, <2>4 DEF Inviting, FestStep
  <1>5. CASE Signing
    BY <1>5 DEF Signing, KontiStep, BeginRowSave, EndRowSave, SetPreview, Counts
  <1> QED
    BY <1>1, <1>2, <1>3, <1>4, <1>5 DEF HverdagStep

\* Nothing that is counted is ever counted down, so a number that was given is not given again.
LEMMA MadeGrows ==
  ASSUME OmfangTypeOK, [Next]_vars
  PROVE  OmfangTypeOK' /\ \A k \in Kinds : made'[k] >= made[k]
  <1>1. Counts /\ mix' = mix
    <2>1. CASE UNCHANGED vars
      BY <2>1 DEF vars, Counts
    <2>2. CASE Rooming
      <3>1. CASE SoegStep
        BY <3>1, SoegCounts DEF SoegStep
      <3>2. CASE EditStep
        BY <3>2, ListCounts DEF EditStep, ListStep
      <3> QED
        BY <2>2, <3>1, <3>2 DEF Rooming
    <2>3. CASE Deducting
      BY <2>3, AkCounts DEF Deducting, AkStep
    <2>4. CASE Repairing
      BY <2>4, RepCounts DEF Repairing, RepStep
    <2>5. CASE Posting
      BY <2>5, DhCounts DEF Posting, DhStep
    <2>6. CASE Noticing
      BY <2>6, OpsCounts DEF Noticing, OpsStep
    <2>7. CASE Reading
      BY <2>7, TraadCounts, GestusCounts DEF Reading, ReaderStep, TraadStep, GestusStep
    <2>8. CASE Admitting
      BY <2>8, AdmCounts DEF Admitting, AdmStep
    <2>9. CASE Publishing
      BY <2>9, CmsCounts DEF Publishing, CmsStep
    <2>10. CASE Living
      BY <2>10, HverdagCounts DEF Living, HverdagStep, Checking, MovingIn, Looking, Inviting,
                                  Signing, KontiStep, TjekStep, OverStep, MedierStep, FestStep
    <2> QED
      BY <2>1, <2>2, <2>3, <2>4, <2>5, <2>6, <2>7, <2>8, <2>9, <2>10 DEF Next
  <1>2. ASSUME NEW k, Make(k)
        PROVE  made' \in [Kinds -> Nat] /\ \A j \in Kinds : made'[j] >= made[j]
    <2>1. made \in [Kinds -> Nat] /\ made' = [made EXCEPT ![k] = @ + 1]
      BY <1>2 DEF Make, OmfangTypeOK
    <2>2. ASSUME NEW j \in Kinds
          PROVE  made'[j] = (IF j = k THEN made[j] + 1 ELSE made[j]) /\ made[j] \in Nat
      BY <2>1
    <2>3. made' \in [Kinds -> Nat]
      <3>1. made' = [j \in Kinds |-> made'[j]]
        BY <2>1
      <3>2. \A j \in Kinds : made'[j] \in Nat
        BY <2>2
      <3> QED
        BY <3>1, <3>2
    <2> QED
      BY <2>2, <2>3
  <1>3. CASE UNCHANGED made
    BY <1>1, <1>3 DEF OmfangTypeOK
  <1>4. CASE \E k : Make(k)
    BY <1>1, <1>2, <1>4 DEF OmfangTypeOK
  <1> QED
    BY <1>1, <1>3, <1>4 DEF Counts

\* An event that happens is counted.
LEMMA MadeOneMore ==
  ASSUME OmfangTypeOK, NEW k \in Kinds, Make(k)
  PROVE  made[k] \in Nat /\ made'[k] = made[k] + 1
  BY DEF OmfangTypeOK, Make

LEMMA OmfangInit ==
  ASSUME NothingMade
  PROVE  OmfangTypeOK
  BY OmfangAssumption DEF NothingMade, OmfangTypeOK

-----------------------------------------------------------------------------
(* The room lottery: types *)

\* Months without a month before them are not allocated, and a round works on offers that stay.
RoundFits ==
    /\ offers[1] = {} /\ 1 \notin round.todo
    /\ round.pc \in {"priorities", "walk"} =>
          round.month # 1 /\ round.offered \subseteq offers[round.month]

LEMMA KvotientType ==
  ASSUME NEW movedIn \in Int, NEW done0 \in Int, NEW target \in Int, NEW orlov \in Nat
  PROVE  Kvotient(movedIn, done0, target, orlov) \in Int
  <1> DEFINE x == target - movedIn - orlov
             y == done0 - target
             d == x + y + 12
             q == (10000 * x) \div d
             rest == (10000 * x) % d
  <1>1. x \in Int /\ y \in Int /\ d \in Int /\ 10000 * x \in Int
    OBVIOUS
  <1>2. CASE d <= 0
    BY <1>2 DEF Kvotient
  <1>3. CASE ~(d <= 0)
    <2>1. ASSUME NEW n \in Int, NEW e \in Int, ~(e <= 0)
          PROVE  n \div e \in Int /\ n % e \in Int
      BY <2>1
    <2>2. q \in Int /\ rest \in Int
      BY <1>1, <1>3, <2>1
    <2>3. q + 1 \in Int /\ q + (q % 2) \in Int
      <3> HIDE DEF q
      <3> QED
        BY <2>2
    <2>4. Kvotient(movedIn, done0, target, orlov) \in {q, q + 1, q + (q % 2)}
      BY <1>3 DEF Kvotient
    <2> QED
      BY <2>2, <2>3, <2>4
  <1> QED
    BY <1>2, <1>3

LEMMA NoRoundType ==
  NoRound \in Round /\ NoRound.todo = {} /\ NoRound.pc = "idle"
  BY ListAssumption DEF NoRound, Round, Months

LEMMA SoegInitType ==
  ASSUME ListInit, SoegInit
  PROVE  SoegTypeOK /\ RoundFits
  <1>1. 1 \in Months
    BY ListAssumption DEF Months
  <1> QED
    BY <1>1, NoRoundType DEF SoegInit, SoegTypeOK, RoundFits

LEMMA AwardsWithoutType ==
  ASSUME SoegTypeOK, NEW m \in Months, NEW who
  PROVE  AwardsWithout(m, who) \in [Rooms -> Residents \cup {Null}]
  BY DEF AwardsWithout, SoegTypeOK

\* Applications, offers and awards; none of them touches a round that is under way.
LEMMA RequestsType ==
  ASSUME ListTypeOK, SoegTypeOK, RoundFits,
         \/ \E r \in Residents :
              \/ \E s \in Studies, wishes \in Wishes : Apply(r, s, wishes)
              \/ \E m \in Months : Withdraw(r, m)
         \/ \E me \in Residents :
              \/ \E room \in Rooms : CreateOffer(me, room)
              \/ \E m \in Months, room \in Rooms : CloseOffer(me, m, room)
              \/ \E m \in Months, room \in Rooms, r \in Residents : ResolveTie(me, m, room, r)
  PROVE  SoegTypeOK' /\ RoundFits' /\ UNCHANGED listVars /\ round' = round
  <1> USE DEF SoegTypeOK
  <1>0. Target \in Months /\ Target # 1 /\ Target \in Int
    <2>1. Target \in Months /\ Active \in Months
      BY ActiveIsMonth
    <2>2. Active \in Int /\ Active > 0 /\ Target = Active + 1
      BY <2>1, ListAssumption DEF Months, Target
    <2> QED
      BY <2>1, <2>2
  <1>1. ASSUME NEW r \in Residents, NEW s \in Studies, NEW wishes \in Wishes, Apply(r, s, wishes)
        PROVE  SoegTypeOK' /\ RoundFits' /\ UNCHANGED listVars /\ round' = round
    <2> DEFINE k == Kvotient(MovedIn[r], s.done, Target, s.orlov)
    <2>1. k \in Int
      <3>1. MovedIn[r] \in Int /\ s.done \in Int /\ s.orlov \in Nat
        BY <1>1, SoegAssumption DEF Apply
      <3> QED
        BY <1>0, <3>1, KvotientType
    <2>2. wishes \in Seq(Rooms)
      BY SoegAssumption
    <2> HIDE DEF k
    <2>3. [k |-> k, wishes |-> wishes] \in App
      BY <2>1, <2>2 DEF App
    <2>4. apps' = [apps EXCEPT ![Target][r] = [k |-> k, wishes |-> wishes]]
      BY <1>1 DEF Apply, k
    <2>5. apps' \in [Months -> [Residents -> App \cup {Null}]]
      BY <1>0, <2>3, <2>4
    <2> QED
      BY <1>1, <2>5 DEF Apply, RoundFits
  <1>2. ASSUME NEW r \in Residents, NEW m \in Months, Withdraw(r, m)
        PROVE  SoegTypeOK' /\ RoundFits' /\ UNCHANGED listVars /\ round' = round
    <2>1. awards' \in [Months -> [Rooms -> Residents \cup {Null}]]
      BY <1>2, AwardsWithoutType DEF Withdraw
    <2> QED
      BY <1>2, <2>1 DEF Withdraw, RoundFits
  <1>3. ASSUME NEW me \in Residents, NEW room \in Rooms, CreateOffer(me, room)
        PROVE  SoegTypeOK' /\ RoundFits' /\ UNCHANGED listVars /\ round' = round
    <2>1. offers' \in [Months -> SUBSET Rooms] /\ offers'[1] = offers[1]
      BY <1>0, <1>3, ListAssumption DEF CreateOffer, Months
    <2> QED
      BY <1>3, <2>1 DEF CreateOffer, RoundFits
  <1>4. ASSUME NEW me \in Residents, NEW m \in Months, NEW room \in Rooms, CloseOffer(me, m, room)
        PROVE  SoegTypeOK' /\ RoundFits' /\ UNCHANGED listVars /\ round' = round
    <2> DEFINE who == {r \in Residents : apps[m][r] # Null /\
                          \E i \in DOMAIN apps[m][r].wishes : apps[m][r].wishes[i] = room}
    <2>1. awards' \in [Months -> [Rooms -> Residents \cup {Null}]]
      <3>1. awards' = [awards EXCEPT ![m] = [AwardsWithout(m, who) EXCEPT ![room] = Null]]
        BY <1>4 DEF CloseOffer
      <3> HIDE DEF who
      <3>2. [AwardsWithout(m, who) EXCEPT ![room] = Null] \in [Rooms -> Residents \cup {Null}]
        BY AwardsWithoutType
      <3> QED
        BY <3>1, <3>2
    <2>2. offers' \in [Months -> SUBSET Rooms] /\ offers'[1] = {}
      BY <1>4, ListAssumption DEF CloseOffer, Months, RoundFits
    <2>3. apps' \in [Months -> [Residents -> App \cup {Null}]]
      BY <1>4 DEF CloseOffer
    <2> QED
      BY <1>4, <2>1, <2>2, <2>3 DEF CloseOffer, RoundFits
  <1>5. ASSUME NEW me \in Residents, NEW m \in Months, NEW room \in Rooms, NEW r \in Residents,
               ResolveTie(me, m, room, r)
        PROVE  SoegTypeOK' /\ RoundFits' /\ UNCHANGED listVars /\ round' = round
    BY <1>5 DEF ResolveTie, RoundFits
  <1> QED
    BY <1>1, <1>2, <1>3, <1>4, <1>5

\* The entries of a round are those of real applications.
LEMMA EntriesOfType ==
  ASSUME SoegTypeOK, NEW m \in Months, NEW offered \in SUBSET Rooms
  PROVE  /\ EntriesOf(m, offered) \subseteq Entry
         /\ \A e \in EntriesOf(m, offered) :
              /\ e.room \in offered
              /\ e.who \in Residents /\ apps[m][e.who] # Null /\ e.k = apps[m][e.who].k
              /\ e.room = apps[m][e.who].wishes[e.rank]
  <1> SUFFICES ASSUME NEW e \in EntriesOf(m, offered)
               PROVE  /\ e \in Entry /\ e.room \in offered
                      /\ e.who \in Residents /\ apps[m][e.who] # Null /\ e.k = apps[m][e.who].k
                      /\ e.room = apps[m][e.who].wishes[e.rank]
    OBVIOUS
  <1>1. PICK r \in Residents :
          /\ apps[m][r] # Null /\ e.room \in offered
          /\ \E i \in DOMAIN apps[m][r].wishes :
               e = [who |-> r, room |-> apps[m][r].wishes[i], rank |-> i, k |-> apps[m][r].k]
    BY DEF EntriesOf
  <1>2. PICK i \in DOMAIN apps[m][r].wishes :
          e = [who |-> r, room |-> apps[m][r].wishes[i], rank |-> i, k |-> apps[m][r].k]
    BY <1>1
  <1>3. apps[m][r] \in App
    BY <1>1 DEF SoegTypeOK
  <1>4. i \in Nat \ {0} /\ apps[m][r].wishes[i] \in Rooms /\ apps[m][r].k \in Int
    BY <1>2, <1>3 DEF App
  <1> QED
    BY <1>1, <1>2, <1>4 DEF Entry

LEMMA BeginRoundType ==
  ASSUME ListTypeOK, SoegTypeOK, RoundFits, NEW me \in Residents, BeginRound(me)
  PROVE  SoegTypeOK' /\ RoundFits' /\ UNCHANGED listVars /\ round'.pc = "offers"
  <1> DEFINE x == [NoRound EXCEPT !.pc = "offers", !.todo = {m \in Months : offers[m] # {}}]
  <1>1. x \in Round /\ x.pc = "offers" /\ 1 \notin x.todo
    BY NoRoundType DEF Round, RoundFits
  <1>2. round' = x /\ UNCHANGED <<listVars, offers, awards, apps>>
    BY DEF BeginRound
  <1> HIDE DEF x
  <1> QED
    BY <1>1, <1>2 DEF SoegTypeOK, RoundFits

LEMMA ReadOffersType ==
  ASSUME ListTypeOK, SoegTypeOK, RoundFits, NEW m \in Months, ReadOffers(m)
  PROVE  SoegTypeOK' /\ RoundFits' /\ UNCHANGED listVars /\ round'.pc = "priorities"
  <1> DEFINE x == [NoRound EXCEPT !.pc = "priorities", !.todo = round.todo \ {m}, !.month = m,
                     !.offered = offers[m], !.awards = awards[m]]
  <1>1. m # 1 /\ round.todo \subseteq Months /\ 1 \notin round.todo
    BY DEF ReadOffers, RoundFits, SoegTypeOK, Round
  <1>2. offers[m] \in SUBSET Rooms /\ awards[m] \in [Rooms -> Residents \cup {Null}]
    BY DEF SoegTypeOK
  <1>3. /\ x \in Round /\ x.pc = "priorities" /\ 1 \notin x.todo /\ x.month = m
        /\ x.offered = offers[m]
    BY <1>1, <1>2, NoRoundType DEF Round
  <1>4. round' = x /\ UNCHANGED <<listVars, offers, awards, apps>>
    BY DEF ReadOffers
  <1> HIDE DEF x
  <1> QED
    BY <1>1, <1>3, <1>4 DEF SoegTypeOK, RoundFits

\* What the awards that are honoured make of the round.
LEMMA ReadPrioritiesType ==
  ASSUME ListTypeOK, SoegTypeOK, RoundFits, ReadPriorities
  PROVE  SoegTypeOK' /\ RoundFits' /\ UNCHANGED listVars
  <1>1. PICK won \in Honoured(round.awards) :
          round' = [round EXCEPT !.pc = "walk", !.entries = EntriesOf(round.month, round.offered),
                      !.winners = [room \in Rooms |->
                         IF room \in won THEN round.awards[room] ELSE Null]]
    BY DEF ReadPriorities
  <1> DEFINE es == EntriesOf(round.month, round.offered)
             ws == [room \in Rooms |-> IF room \in won THEN round.awards[room] ELSE Null]
             x == [round EXCEPT !.pc = "walk", !.entries = es, !.winners = ws]
  <1>2. round \in Round /\ round.pc = "priorities"
    BY DEF ReadPriorities, SoegTypeOK
  <1>3. round.month \in Months /\ round.offered \in SUBSET Rooms
          /\ round.awards \in [Rooms -> Residents \cup {Null}]
    BY <1>2 DEF Round
  <1>4. es \in SUBSET Entry
    BY <1>3, EntriesOfType
  <1>5. ws \in [Rooms -> Residents \cup {Null}]
    BY <1>3
  <1> HIDE DEF es, ws
  <1>6. /\ x \in Round /\ x.todo = round.todo /\ x.month = round.month
        /\ x.offered = round.offered
    BY <1>2, <1>4, <1>5 DEF Round
  <1>7. round' = x /\ UNCHANGED <<listVars, offers, awards, apps>>
    BY <1>1 DEF ReadPriorities, es, ws
  <1> HIDE DEF x
  <1> QED
    BY <1>2, <1>6, <1>7 DEF SoegTypeOK, RoundFits

LEMMA JudgeEntryType ==
  ASSUME ListTypeOK, SoegTypeOK, RoundFits, NEW e \in round.entries, JudgeEntry(e)
  PROVE  SoegTypeOK' /\ RoundFits' /\ UNCHANGED listVars /\ round'.pc = "walk"
  <1>1. round \in Round /\ round.pc = "walk" /\ round.entries \subseteq Entry
    BY DEF JudgeEntry, SoegTypeOK, Round
  <1>2. e.who \in Residents /\ e.room \in Rooms
    BY <1>1 DEF Entry
  <1>3. {e.who} \cup Rivals(e) \in SUBSET Residents
    <2>1. \A g \in round.entries : g.who \in Residents
      BY <1>1 DEF Entry
    <2> QED
      BY <1>2, <2>1 DEF Rivals
  <1> DEFINE x == [round EXCEPT !.winners[e.room] = e.who]
             y == [round EXCEPT !.tied[e.room] = {e.who} \cup Rivals(e)]
  <1>4. /\ x \in Round /\ x.todo = round.todo /\ x.month = round.month
        /\ x.offered = round.offered /\ x.pc = "walk"
    BY <1>1, <1>2 DEF Round
  <1>5. /\ y \in Round /\ y.todo = round.todo /\ y.month = round.month
        /\ y.offered = round.offered /\ y.pc = "walk"
    BY <1>1, <1>2, <1>3 DEF Round
  <1>6. round' \in {x, y} /\ UNCHANGED <<listVars, offers, awards, apps>>
    BY DEF JudgeEntry
  <1> HIDE DEF x, y
  <1> QED
    BY <1>1, <1>4, <1>5, <1>6 DEF SoegTypeOK, RoundFits

LEMMA CarriedType ==
  ASSUME ListTypeOK, NEW m \in Months, m # 1
  PROVE  /\ m - 1 \in Months
         /\ Carried(m) \in [Residents -> Row \cup {Null}]
         /\ CarriedRoles(m) \in [Residents -> SUBSET Roles]
  <1>1. m - 1 \in Months
    BY ListAssumption DEF Months
  <1> QED
    BY <1>1 DEF Carried, CarriedRoles, ListTypeOK, Lists

\* Whoever has won has won a room.
LEMMA RoomWonByType ==
  ASSUME NEW r, Won(r)
  PROVE  RoomWonBy(r) \in Rooms /\ round.winners[RoomWonBy(r)] = r
  BY DEF Won, RoomWonBy

LEMMA EndMonthType ==
  ASSUME ListTypeOK, SoegTypeOK, RoundFits, EndMonth
  PROVE  SoegTypeOK' /\ RoundFits' /\ ListTypeOK' /\ round'.pc \in {"idle", "offers"}
  <1> DEFINE m == round.month
  <1>1. /\ round \in Round /\ m \in Months /\ m # 1
        /\ round.todo \subseteq Months /\ 1 \notin round.todo
    BY DEF EndMonth, SoegTypeOK, RoundFits, Round
  <1>2. /\ Carried(m) \in [Residents -> Row \cup {Null}]
        /\ CarriedRoles(m) \in [Residents -> SUBSET Roles]
    BY <1>1, CarriedType
  <1>3. WrittenList(m) \in Lists
    <2>1. ASSUME NEW r \in Residents, Won(r)
          PROVE  MovedTo(Carried(m)[r], RoomWonBy(r)) \in Row
      <3>1. RoomWonBy(r) \in Rooms
        BY <2>1, RoomWonByType
      <3>2. (IF Carried(m)[r] = Null THEN Null ELSE Carried(m)[r].group) \in Groups \cup {Null}
        BY <1>2, RowOnList
      <3> QED
        BY <3>1, <3>2 DEF MovedTo, Row
    <2> QED
      BY <1>2, <2>1 DEF WrittenList, Lists
  <1>4. WrittenRoles(m) \in [Residents -> SUBSET Roles]
    BY <1>2 DEF WrittenRoles
  <1>5. /\ list' = [list EXCEPT ![m] = WrittenList(m)]
        /\ roles' = [roles EXCEPT ![m] = WrittenRoles(m)]
        /\ today' = today /\ accounts' \subseteq Residents /\ staff' \subseteq Residents
    BY SignalsType DEF EndMonth, ListTypeOK
  <1>6. ListTypeOK'
    BY <1>1, <1>3, <1>4, <1>5, WritesOfAMonth
  <1>7. offers' \in [Months -> SUBSET Rooms] /\ offers'[1] = {}
    <2>1. OffersLeft(m) \in SUBSET Rooms
      BY <1>1 DEF OffersLeft, SoegTypeOK
    <2> QED
      BY <1>1, <2>1 DEF EndMonth, SoegTypeOK, RoundFits
  <1>8. apps' \in [Months -> [Residents -> App \cup {Null}]]
    BY <1>1 DEF EndMonth, SoegTypeOK
  <1>9. awards' \in [Months -> [Rooms -> Residents \cup {Null}]]
    <2> DEFINE w == AwardsWithout(m, Cleared)
    <2>1. w \in [Rooms -> Residents \cup {Null}]
      BY <1>1, AwardsWithoutType
    <2> HIDE DEF w
    <2>2. awards' = [awards EXCEPT ![m] = [room \in Rooms |->
                       IF room \in OffersLeft(m) THEN w[room] ELSE Null]]
      BY DEF EndMonth, w
    <2> QED
      BY <1>1, <2>1, <2>2 DEF SoegTypeOK
  <1>10. round' \in Round /\ round'.pc \in {"idle", "offers"} /\ 1 \notin round'.todo
    <2>1. /\ [NoRound EXCEPT !.pc = "offers", !.todo = round.todo] \in Round
          /\ [NoRound EXCEPT !.pc = "offers", !.todo = round.todo].pc = "offers"
          /\ [NoRound EXCEPT !.pc = "offers", !.todo = round.todo].todo = round.todo
      BY <1>1, NoRoundType DEF Round
    <2>2. round' \in {NoRound, [NoRound EXCEPT !.pc = "offers", !.todo = round.todo]}
      BY DEF EndMonth
    <2> QED
      BY <1>1, <2>1, <2>2, NoRoundType
  <1> QED
    BY <1>6, <1>7, <1>8, <1>9, <1>10 DEF SoegTypeOK, RoundFits

LEMMA RoomingType ==
  ASSUME ListTypeOK, SoegTypeOK, RoundFits, SoegStep \/ EditStep
  PROVE  ListTypeOK' /\ SoegTypeOK' /\ RoundFits'
  <1>1. CASE EditStep
    <2>1. UNCHANGED <<offers, awards, apps, round>>
      BY <1>1 DEF EditStep, soegVars
    <2> QED
      BY <1>1, <2>1, ListStepType DEF EditStep, SoegTypeOK, RoundFits
  <1>2. ASSUME UNCHANGED listVars
        PROVE  ListTypeOK'
    BY <1>2, ListStepType
  <1>3. CASE SoegStep
    BY <1>2, <1>3, RequestsType, BeginRoundType, ReadOffersType, ReadPrioritiesType, JudgeEntryType,
       EndMonthType DEF SoegStep
  <1> QED
    BY <1>1, <1>3

\* What the others do leaves the list and the lottery alone, is_staff apart.
Elsewhere ==
    /\ UNCHANGED <<today, list, roles, accounts, soegVars>>
    /\ staff' \subseteq Residents

LEMMA RoomingOrNot ==
  ASSUME ListTypeOK, [Next]_vars
  PROVE  SoegStep \/ EditStep \/ Elsewhere
  <1>1. CASE Living
    <2>1. CASE Signing
      BY <1>1, <2>1 DEF Living, Signing, KontiStep, BeginRowSave, EndRowSave, SetPreview, Elsewhere,
                        ListTypeOK, listVars
    <2>2. CASE Checking \/ MovingIn \/ Looking \/ Inviting
      BY <1>1, <2>2 DEF Living, Checking, MovingIn, Looking, Inviting, TjekStep, OverStep, MedierStep,
                        FestStep, Elsewhere, ListTypeOK, listVars
    <2> QED
      BY <1>1, <2>1, <2>2 DEF Living, HverdagStep
  <1>2. CASE ~Living
    <2>1. SoegStep \/ EditStep \/ UNCHANGED <<listVars, soegVars>>
      BY <1>2 DEF Next, Rooming, Deducting, Repairing, Posting, Noticing, Reading, Admitting,
                  Publishing, AkStep, RepStep, DhStep, OpsStep, AdmStep, CmsStep, vars
    <2> QED
      BY <2>1 DEF Elsewhere, ListTypeOK, listVars
  <1> QED
    BY <1>1, <1>2

LEMMA ListAndRoundsHold == Spec => [](ListTypeOK /\ SoegTypeOK /\ RoundFits)
  <1>1. Init => ListTypeOK /\ SoegTypeOK /\ RoundFits
    BY ListInitType, SoegInitType DEF Init
  <1>2. ListTypeOK /\ SoegTypeOK /\ RoundFits /\ [Next]_vars
          => (ListTypeOK /\ SoegTypeOK /\ RoundFits)'
    <2> SUFFICES ASSUME ListTypeOK, SoegTypeOK, RoundFits, [Next]_vars
                 PROVE  ListTypeOK' /\ SoegTypeOK' /\ RoundFits'
      OBVIOUS
    <2>1. CASE Elsewhere
      <3>1. ListTypeOK'
        BY <2>1 DEF Elsewhere, ListTypeOK
      <3> QED
        BY <2>1, <3>1 DEF Elsewhere, soegVars, SoegTypeOK, RoundFits
    <2> QED
      BY <2>1, RoomingOrNot, RoomingType
  <1> QED
    BY <1>1, <1>2, PTL DEF Spec

\* The list and the roles keep their types, in spite of the rounds that rewrite a month of them.
THEOREM ListHolds == Spec => []ListTypeOK
  BY ListAndRoundsHold, PTL

\* Offers, applications and what a round has in memory keep their types.
THEOREM SoegTypesHold == Spec => []SoegTypeOK
  BY ListAndRoundsHold, PTL

-----------------------------------------------------------------------------
(* The room lottery: what the walk keeps *)

\* Nobody wins two rooms, nobody who is tied wins one, and a tied room stays open and offered.
OneRoomEach ==
    \A x, y \in Rooms : round.winners[x] # Null /\ round.winners[x] = round.winners[y] => x = y
TiesOpen == \A x \in Rooms : round.tied[x] # {} => round.winners[x] = Null /\ x \in round.offered
HeldNotWon == \A x, y \in Rooms : round.winners[y] # Null => round.winners[y] \notin round.tied[x]

\* A resident's entries have one kvotient and a room for each rank, all of them offered.
EntriesFit ==
    /\ \A e \in round.entries : e.room \in round.offered
    /\ \A e, f \in round.entries :
          e.who = f.who => e.k = f.k /\ (e.rank = f.rank => e.room = f.room)

\* What the walk gave somebody, he ranks above everything that is still open: the residents are
\* gone through by kvotient, and each by rank, so a room that is left is a lower choice of his.
BestOfRest ==
    \A x \in Rooms :
        round.winners[x] # Null /\ round.winners[x] # round.awards[x] =>
            \E g \in round.entries :
                /\ g.who = round.winners[x] /\ g.room = x
                /\ \A e \in round.entries :
                      e.who = round.winners[x] /\ ~Decided(e.room) => g.rank < e.rank

WalkFits ==
    /\ round.pc = "priorities" => \A x \in Rooms : round.tied[x] = {}
    /\ round.pc = "walk" =>
          OneRoomEach /\ TiesOpen /\ HeldNotWon /\ EntriesFit /\ BestOfRest
    /\ HigherKvotientFirst

\* A round that has not read its applications has nothing to keep.
LEMMA NotWalking ==
  ASSUME round'.pc \in {"idle", "offers"}
  PROVE  WalkFits'
  BY DEF WalkFits, HigherKvotientFirst

LEMMA ReadOffersWalk ==
  ASSUME SoegTypeOK, NEW m \in Months, ReadOffers(m)
  PROVE  WalkFits'
  <1>1. round'.pc = "priorities"
    BY NoRoundType DEF ReadOffers, Round
  <1>2. \A x \in Rooms : round'.tied[x] = {}
    BY NoRoundType DEF ReadOffers, Round, NoRound
  <1> QED
    BY <1>1, <1>2 DEF WalkFits, HigherKvotientFirst

LEMMA ReadPrioritiesWalk ==
  ASSUME SoegTypeOK, WalkFits, ReadPriorities
  PROVE  WalkFits'
  <1> DEFINE es == EntriesOf(round.month, round.offered)
  <1>1. PICK won \in Honoured(round.awards) :
          round' = [round EXCEPT !.pc = "walk", !.entries = es,
                      !.winners = [room \in Rooms |->
                         IF room \in won THEN round.awards[room] ELSE Null]]
    BY DEF ReadPriorities
  <1>2. round \in Round /\ round.pc = "priorities"
    BY DEF ReadPriorities, SoegTypeOK
  <1>3. round.month \in Months /\ round.offered \in SUBSET Rooms
          /\ round.awards \in [Rooms -> Residents \cup {Null}]
    BY <1>2 DEF Round
  <1>4. /\ \A e \in es :
             /\ e.room \in round.offered
             /\ e.who \in Residents /\ e.k = apps[round.month][e.who].k
             /\ e.room = apps[round.month][e.who].wishes[e.rank]
    BY <1>3, EntriesOfType
  <1> HIDE DEF es
  <1>5. /\ round'.pc = "walk" /\ round'.entries = es /\ round'.offered = round.offered
        /\ round'.awards = round.awards /\ round'.tied = round.tied
        /\ round'.winners = [room \in Rooms |->
                               IF room \in won THEN round.awards[room] ELSE Null]
    BY <1>1, <1>2 DEF Round
  <1>6. \A x \in Rooms : round'.tied[x] = {} /\ round'.winners[x] \in {Null, round'.awards[x]}
    BY <1>2, <1>5 DEF WalkFits
  <1>7. OneRoomEach'
    <2> SUFFICES ASSUME NEW x \in Rooms, NEW y \in Rooms,
                        round'.winners[x] # Null, round'.winners[x] = round'.winners[y]
                 PROVE  x = y
      BY DEF OneRoomEach
    <2>1. x \in won /\ y \in won /\ round.awards[x] = round.awards[y] /\ round.awards[x] # Null
      BY <1>5
    <2>2. \E room \in won : \A other \in won :
             round.awards[other] = round.awards[x] => other = room
      BY <2>1 DEF Honoured
    <2> QED
      BY <2>1, <2>2
  <1>8. TiesOpen' /\ HeldNotWon' /\ BestOfRest'
    BY <1>6 DEF TiesOpen, HeldNotWon, BestOfRest
  <1>9. EntriesFit'
    BY <1>4, <1>5 DEF EntriesFit
  <1>10. HigherKvotientFirst'
    <2>1. es \subseteq Entry
      BY <1>3, EntriesOfType DEF es
    <2> QED
      BY <1>5, <1>6, <2>1 DEF HigherKvotientFirst, Entry
  <1> QED
    BY <1>5, <1>7, <1>8, <1>9, <1>10 DEF WalkFits

\* One entry is judged: what it changes, and what it leaves.
LEMMA JudgeEntryDoes ==
  ASSUME SoegTypeOK, NEW e0 \in round.entries, JudgeEntry(e0)
  PROVE  /\ round \in Round /\ round.pc = "walk" /\ round'.pc = "walk"
         /\ round.entries \subseteq Entry
         /\ round'.entries = round.entries /\ round'.offered = round.offered
         /\ round'.awards = round.awards
         /\ e0.room \in Rooms /\ e0.who \in Residents
         /\ ~Decided(e0.room) /\ ~Placed(e0.who)
         /\ \A f \in Eligible : NotAfter(e0, f)
         /\ \/ /\ Rivals(e0) = {} /\ round'.tied = round.tied
               /\ round'.winners = [round.winners EXCEPT ![e0.room] = e0.who]
            \/ /\ round'.winners = round.winners
               /\ round'.tied = [round.tied EXCEPT ![e0.room] = {e0.who} \cup Rivals(e0)]
  <1>1. round \in Round /\ round.pc = "walk" /\ round.entries \subseteq Entry
    BY DEF JudgeEntry, SoegTypeOK, Round
  <1>2. e0.who \in Residents /\ e0.room \in Rooms
    BY <1>1 DEF Entry
  <1>3. e0 \in Eligible /\ \A f \in Eligible : NotAfter(e0, f)
    BY DEF JudgeEntry
  <1>4. ~Decided(e0.room) /\ ~Placed(e0.who)
    BY <1>3 DEF Eligible
  <1>5. CASE Rivals(e0) = {}
    <2>1. round' = [round EXCEPT !.winners[e0.room] = e0.who]
      BY <1>5 DEF JudgeEntry
    <2> QED
      BY <1>1, <1>2, <1>3, <1>4, <1>5, <2>1 DEF Round
  <1>6. CASE Rivals(e0) # {}
    <2>1. round' = [round EXCEPT !.tied[e0.room] = {e0.who} \cup Rivals(e0)]
      BY <1>6 DEF JudgeEntry
    <2> QED
      BY <1>1, <1>2, <1>3, <1>4, <2>1 DEF Round
  <1> QED
    BY <1>5, <1>6

LEMMA JudgeEntryWalk ==
  ASSUME SoegTypeOK, WalkFits, NEW e0 \in round.entries, JudgeEntry(e0)
  PROVE  WalkFits'
  <1>0. /\ round \in Round /\ round.pc = "walk" /\ round'.pc = "walk"
        /\ round.entries \subseteq Entry
        /\ round'.entries = round.entries /\ round'.offered = round.offered
        /\ round'.awards = round.awards
        /\ e0.room \in Rooms /\ e0.who \in Residents
        /\ ~Decided(e0.room) /\ ~Placed(e0.who)
        /\ \A f \in Eligible : NotAfter(e0, f)
    BY JudgeEntryDoes
  <1>1. OneRoomEach /\ TiesOpen /\ HeldNotWon /\ EntriesFit /\ BestOfRest /\ HigherKvotientFirst
    BY <1>0 DEF WalkFits
  <1>2. /\ round.winners \in [Rooms -> Residents \cup {Null}]
        /\ round.tied \in [Rooms -> SUBSET Residents]
        /\ round.winners[e0.room] = Null /\ round.tied[e0.room] = {}
    BY <1>0 DEF Round, Decided
  <1>3. e0.who # Null
    BY <1>0, ListAssumption
  <1>4. EntriesFit'
    BY <1>0, <1>1 DEF EntriesFit
  <1>5. CASE Rivals(e0) = {} /\ round'.tied = round.tied
               /\ round'.winners = [round.winners EXCEPT ![e0.room] = e0.who]
    <2>1. \A x \in Rooms : round'.winners[x] = IF x = e0.room THEN e0.who ELSE round.winners[x]
      BY <1>2, <1>5
    <2>2. \A x \in Rooms : round.winners[x] # e0.who /\ e0.who \notin round.tied[x]
      BY <1>0 DEF Placed, Won, Held
    <2>3. OneRoomEach'
      BY <1>1, <2>1, <2>2 DEF OneRoomEach
    <2>4. TiesOpen'
      BY <1>0, <1>1, <1>2, <1>5, <2>1 DEF TiesOpen
    <2>5. HeldNotWon'
      BY <1>1, <1>5, <2>1, <2>2 DEF HeldNotWon
    <2>6. \A x \in Rooms : ~Decided(x)' => ~Decided(x) /\ x # e0.room
      BY <1>3, <1>5, <2>1 DEF Decided
    <2>7. BestOfRest'
      <3> SUFFICES ASSUME NEW x \in Rooms, round'.winners[x] # Null,
                          round'.winners[x] # round'.awards[x]
                   PROVE  \E g \in round'.entries :
                            /\ g.who = round'.winners[x] /\ g.room = x
                            /\ \A e \in round'.entries :
                                 e.who = round'.winners[x] /\ ~Decided(e.room)' => g.rank < e.rank
        BY DEF BestOfRest
      <3>1. CASE x = e0.room
        <4>1. ASSUME NEW e \in round.entries, e.who = e0.who, ~Decided(e.room)'
              PROVE  e0.rank < e.rank
          <5>1. e.room \in Rooms /\ e.rank \in Nat /\ e0.rank \in Nat
            BY <1>0 DEF Entry
          <5>2. e \in Eligible /\ e.room # e0.room
            BY <1>0, <2>6, <4>1, <5>1 DEF Eligible
          <5>3. e.k = e0.k /\ e.rank # e0.rank
            BY <1>1, <4>1, <5>2 DEF EntriesFit
          <5>4. NotAfter(e0, e) /\ e.k \in Int
            BY <1>0, <5>2 DEF Entry
          <5> QED
            BY <5>1, <5>3, <5>4 DEF NotAfter
        <4> QED
          BY <1>0, <2>1, <3>1, <4>1
      <3>2. CASE x # e0.room
        <4>1. PICK g \in round.entries :
                /\ g.who = round.winners[x] /\ g.room = x
                /\ \A e \in round.entries :
                     e.who = round.winners[x] /\ ~Decided(e.room) => g.rank < e.rank
          BY <1>0, <1>1, <2>1, <3>2 DEF BestOfRest
        <4>2. \A e \in round.entries : e.room \in Rooms
          BY <1>0 DEF Entry
        <4> QED
          BY <1>0, <2>1, <2>6, <3>2, <4>1, <4>2
      <3> QED
        BY <3>1, <3>2
    <2>8. HigherKvotientFirst'
      <3> SUFFICES ASSUME NEW e \in round.entries, round'.winners[e.room] # Null,
                          round'.winners[e.room] # round'.awards[e.room]
                   PROVE  \/ \E f \in round.entries :
                                f.who = round'.winners[e.room] /\ f.room = e.room /\ f.k >= e.k
                          \/ Held(e.who)'
                          \/ \E room \in Rooms :
                                round'.winners[room] = e.who /\ round'.awards[room] = e.who
                          \/ \E f \in round.entries : f.who = e.who /\ f.rank < e.rank
                                /\ round'.winners[f.room] = e.who
        BY <1>0 DEF HigherKvotientFirst
      <3>1. e.room \in Rooms /\ e.who \in Residents /\ e.k \in Int /\ e.who # Null
        BY <1>0, ListAssumption DEF Entry
      <3>2. Held(e.who)' <=> Held(e.who)
        BY <1>5 DEF Held
      <3>3. \A room \in Rooms : round.winners[room] = e.who => round'.winners[room] = e.who
        BY <1>2, <2>1, <3>1
      <3>4. \A f \in round.entries : f.room \in Rooms /\ f.k \in Int
        BY <1>0 DEF Entry
      <3>5. CASE e.room # e0.room
        <4>1. round'.winners[e.room] = round.winners[e.room]
          BY <2>1, <3>1, <3>5
        <4>2. \/ \E f \in round.entries :
                   f.who = round.winners[e.room] /\ f.room = e.room /\ f.k >= e.k
              \/ Held(e.who)
              \/ \E room \in Rooms : round.winners[room] = e.who /\ round.awards[room] = e.who
              \/ \E f \in round.entries : f.who = e.who /\ f.rank < e.rank
                    /\ round.winners[f.room] = e.who
          BY <1>0, <1>1, <4>1 DEF HigherKvotientFirst
        <4> QED
          BY <1>0, <3>2, <3>3, <3>4, <4>1, <4>2
      <3>6. CASE e.room = e0.room /\ e0.k >= e.k
        BY <2>1, <3>1, <3>6
      <3>7. CASE e.room = e0.room /\ ~(e0.k >= e.k)
        <4>1. e \notin Eligible
          BY <1>0, <3>1, <3>4, <3>7 DEF NotAfter
        <4>2. Placed(e.who)
          BY <1>0, <3>7, <4>1 DEF Eligible
        <4>3. CASE Held(e.who)
          BY <3>2, <4>3
        <4>4. CASE Won(e.who)
          <5>1. PICK y \in Rooms : round.winners[y] = e.who
            BY <4>4 DEF Won
          <5>2. CASE round.awards[y] = e.who
            BY <1>0, <3>3, <5>1, <5>2
          <5>3. CASE round.awards[y] # e.who
            <6>1. PICK g \in round.entries :
                    /\ g.who = round.winners[y] /\ g.room = y
                    /\ \A f \in round.entries :
                         f.who = round.winners[y] /\ ~Decided(f.room) => g.rank < f.rank
              BY <1>1, <3>1, <5>1, <5>3 DEF BestOfRest
            <6>2. g.rank < e.rank
              BY <1>0, <3>7, <5>1, <6>1
            <6> QED
              BY <3>3, <5>1, <6>1, <6>2
          <5> QED
            BY <5>2, <5>3
        <4> QED
          BY <4>2, <4>3, <4>4 DEF Placed
      <3> QED
        BY <3>5, <3>6, <3>7
    <2> QED
      BY <1>0, <1>4, <2>3, <2>4, <2>5, <2>7, <2>8 DEF WalkFits
  <1>6. CASE round'.winners = round.winners
               /\ round'.tied = [round.tied EXCEPT ![e0.room] = {e0.who} \cup Rivals(e0)]
    <2>1. \A x \in Rooms : round'.tied[x] =
             IF x = e0.room THEN {e0.who} \cup Rivals(e0) ELSE round.tied[x]
      BY <1>2, <1>6
    <2>2. \A r \in {e0.who} \cup Rivals(e0) : ~Placed(r)
      BY <1>0 DEF Rivals
    <2>3. OneRoomEach'
      BY <1>1, <1>6 DEF OneRoomEach
    <2>4. TiesOpen'
      BY <1>0, <1>1, <1>2, <1>6, <2>1 DEF TiesOpen, EntriesFit
    <2>5. HeldNotWon'
      BY <1>1, <1>6, <2>1, <2>2 DEF HeldNotWon, Placed, Won
    <2>6. \A x \in Rooms : ~Decided(x)' => ~Decided(x)
      BY <1>2, <1>6, <2>1 DEF Decided
    <2>7. \A f \in round.entries : f.room \in Rooms /\ f.who \in Residents
      BY <1>0 DEF Entry
    <2>8. BestOfRest'
      BY <1>0, <1>1, <1>6, <2>6, <2>7 DEF BestOfRest
    <2>9. \A r : Held(r) => Held(r)'
      BY <1>2, <2>1 DEF Held
    <2>10. HigherKvotientFirst'
      BY <1>0, <1>1, <1>6, <2>9 DEF HigherKvotientFirst
    <2> QED
      BY <1>0, <1>4, <2>3, <2>4, <2>5, <2>8, <2>10 DEF WalkFits
  <1> QED
    BY <1>5, <1>6, JudgeEntryDoes

LEMMA RoomingWalk ==
  ASSUME ListTypeOK, SoegTypeOK, RoundFits, WalkFits, SoegStep \/ EditStep
  PROVE  WalkFits'
  <1>1. CASE round' = round
    BY <1>1 DEF WalkFits, OneRoomEach, TiesOpen, HeldNotWon, EntriesFit, BestOfRest, Decided,
                HigherKvotientFirst, Held
  <1>2. CASE EditStep
    BY <1>1, <1>2 DEF EditStep, soegVars
  <1>3. CASE SoegStep
    <2>1. ASSUME NEW me \in Residents, BeginRound(me)
          PROVE  WalkFits'
      BY <2>1, BeginRoundType, NotWalking
    <2>2. ASSUME EndMonth
          PROVE  WalkFits'
      BY <2>2, EndMonthType, NotWalking
    <2> QED
      BY <1>1, <1>3, <2>1, <2>2, RequestsType, ReadOffersWalk, ReadPrioritiesWalk, JudgeEntryWalk
         DEF SoegStep
  <1> QED
    BY <1>2, <1>3

\* What a round keeps between its reads and its writes.
RoundInv == ListTypeOK /\ SoegTypeOK /\ RoundFits /\ WalkFits

LEMMA RoundHolds == Spec => []RoundInv
  <1>1. Init => WalkFits
    BY NoRoundType DEF Init, SoegInit, WalkFits, HigherKvotientFirst
  <1>2. ListTypeOK /\ SoegTypeOK /\ RoundFits /\ WalkFits /\ [Next]_vars => WalkFits'
    <2> SUFFICES ASSUME ListTypeOK, SoegTypeOK, RoundFits, WalkFits, [Next]_vars
                 PROVE  WalkFits'
      OBVIOUS
    <2>1. CASE Elsewhere
      BY <2>1 DEF Elsewhere, soegVars, WalkFits, OneRoomEach, TiesOpen, HeldNotWon, EntriesFit, BestOfRest,
                  Decided, HigherKvotientFirst, Held
    <2> QED
      BY <2>1, RoomingOrNot, RoomingWalk
  <1> QED
    BY <1>1, <1>2, ListAndRoundsHold, PTL DEF Spec, RoundInv

\* In every round, whoever has a higher kvotient than the winner of a room he wished for has a room
\* that he would rather have, or is held in a tie.
THEOREM HigherKvotientAlwaysFirst == Spec => []HigherKvotientFirst
  <1>1. RoundInv => HigherKvotientFirst
    BY DEF RoundInv, WalkFits
  <1> QED
    BY <1>1, RoundHolds, PTL

-----------------------------------------------------------------------------
(* The room lottery: what a round writes *)

\* A month is settled by the end of the round and by nothing else.
LEMMA SettledByTheEnd ==
  ASSUME RoundInv, [Next]_vars, SettlesMonth
  PROVE  EndMonth
  <1>1. CASE Elsewhere
    BY <1>1 DEF Elsewhere, soegVars, SettlesMonth
  <1>2. CASE EditStep
    BY <1>2 DEF EditStep, soegVars, SettlesMonth
  <1>3. CASE SoegStep
    <2>1. round.pc = "walk" /\ round' # round
      BY DEF SettlesMonth
    <2>2. \A e \in round.entries : ~JudgeEntry(e)
      BY JudgeEntryType DEF RoundInv, SettlesMonth
    <2> QED
      BY <1>3, <2>1, <2>2, RequestsType
         DEF RoundInv, SoegStep, BeginRound, ReadOffers, ReadPriorities
  <1> QED
    BY <1>1, <1>2, <1>3, RoomingOrNot DEF RoundInv

\* What the end of the round leaves of the list of its month.
LEMMA EndMonthWrites ==
  ASSUME RoundInv, EndMonth
  PROVE  LET m == round.month
         IN  /\ round.pc = "walk" /\ round \in Round /\ m \in Months
             /\ \A n \in Months \ {m} : list'[n] = list[n] /\ roles'[n] = roles[n]
             /\ \A r \in Residents :
                  /\ Carried(m)[r] \in Row \cup {Null}
                  /\ roles'[m][r] = WrittenRoles(m)[r]
                  /\ r \in Evicted(Carried(m)) => ~Won(r) /\ list'[m][r] = Null
                  /\ Won(r) => /\ list'[m][r] # Null
                               /\ list'[m][r].room = RoomWonBy(r)
                               /\ RoomWonBy(r) \in Rooms /\ round.winners[RoomWonBy(r)] = r
                  /\ ~Won(r) /\ r \notin Evicted(Carried(m)) => list'[m][r] = Carried(m)[r]
  <1> DEFINE m == round.month
  <1>1. round.pc = "walk" /\ round \in Round /\ m \in Months /\ m # 1
    BY DEF EndMonth, RoundInv, SoegTypeOK, RoundFits, Round
  <1>2. Carried(m) \in [Residents -> Row \cup {Null}]
    BY <1>1, CarriedType DEF RoundInv
  <1>3. \A n \in Months \ {m} : list'[n] = list[n] /\ roles'[n] = roles[n]
    BY DEF EndMonth, RoundInv, ListTypeOK
  <1>4. list'[m] = WrittenList(m) /\ roles'[m] = WrittenRoles(m)
    BY <1>1 DEF EndMonth, RoundInv, ListTypeOK
  <1>5. ASSUME NEW r \in Residents
        PROVE  /\ r \in Evicted(Carried(m)) => ~Won(r) /\ list'[m][r] = Null
               /\ Won(r) => /\ list'[m][r] # Null
                            /\ list'[m][r].room = RoomWonBy(r)
                            /\ RoomWonBy(r) \in Rooms /\ round.winners[RoomWonBy(r)] = r
               /\ ~Won(r) /\ r \notin Evicted(Carried(m)) => list'[m][r] = Carried(m)[r]
    <2>1. r \in Evicted(Carried(m)) => ~Won(r)
      BY DEF Evicted
    <2>2. list'[m][r] = IF r \in Evicted(Carried(m)) THEN Null
                        ELSE IF Won(r) THEN MovedTo(Carried(m)[r], RoomWonBy(r))
                        ELSE Carried(m)[r]
      BY <1>4 DEF WrittenList
    <2>3. ASSUME Won(r)
          PROVE  /\ RoomWonBy(r) \in Rooms /\ round.winners[RoomWonBy(r)] = r
                 /\ MovedTo(Carried(m)[r], RoomWonBy(r)) # Null
                 /\ MovedTo(Carried(m)[r], RoomWonBy(r)).room = RoomWonBy(r)
      <3>1. RoomWonBy(r) \in Rooms /\ round.winners[RoomWonBy(r)] = r
        BY <2>3, RoomWonByType
      <3>2. (IF Carried(m)[r] = Null THEN Null ELSE Carried(m)[r].group) \in Groups \cup {Null}
        BY <1>2, RowOnList
      <3>3. MovedTo(Carried(m)[r], RoomWonBy(r)) \in Row
        BY <3>1, <3>2 DEF MovedTo, Row
      <3>4. MovedTo(Carried(m)[r], RoomWonBy(r)).room = RoomWonBy(r)
        BY DEF MovedTo
      <3> QED
        BY <3>1, <3>3, <3>4, ListAssumption
    <2> QED
      BY <2>1, <2>2, <2>3
  <1> QED
    BY <1>1, <1>2, <1>3, <1>4, <1>5

\* After a round nobody lives in a room that was won but the one who won it.
THEOREM WinnerAlwaysAlone == Spec => WinnerAlone
  <1>1. ASSUME RoundInv, [Next]_vars, SettlesMonth, NEW room \in Rooms,
               round.winners[room] # Null
        PROVE  {r \in Residents : list'[round.month][r] # Null
                                    /\ list'[round.month][r].room = room}
                 = {round.winners[room]}
    <2> DEFINE m == round.month
               w == round.winners[room]
    <2>1. EndMonth
      BY <1>1, SettledByTheEnd
    <2>2. round \in Round /\ round.pc = "walk"
      BY <1>1, <2>1, EndMonthWrites
    <2>3. w \in Residents /\ Won(w)
      BY <1>1, <2>2 DEF Round, Won
    <2>4. list'[m][w] # Null /\ list'[m][w].room = room
      <3>1. RoomWonBy(w) \in Rooms /\ round.winners[RoomWonBy(w)] = w
              /\ list'[m][w] # Null /\ list'[m][w].room = RoomWonBy(w)
        BY <1>1, <2>1, <2>3, EndMonthWrites
      <3>2. RoomWonBy(w) = room
        BY <1>1, <2>2, <3>1 DEF RoundInv, WalkFits, OneRoomEach
      <3> QED
        BY <3>1, <3>2
    <2>5. ASSUME NEW r \in Residents, list'[m][r] # Null, list'[m][r].room = room
          PROVE  r = w
      <3>1. CASE Won(r)
        BY <1>1, <2>1, <2>5, <3>1, EndMonthWrites
      <3>2. CASE ~Won(r)
        <4>1. r \notin Evicted(Carried(m)) /\ list'[m][r] = Carried(m)[r]
          BY <1>1, <2>1, <2>5, <3>2, EndMonthWrites
        <4> QED
          BY <1>1, <2>5, <3>2, <4>1 DEF Evicted
      <3> QED
        BY <3>1, <3>2
    <2> QED
      BY <2>3, <2>4, <2>5
  <1>2. RoundInv /\ [Next]_vars =>
          [SettlesMonth =>
             \A room \in Rooms : round.winners[room] # Null =>
               {r \in Residents : list'[round.month][r] # Null
                                    /\ list'[round.month][r].room = room}
                   = {round.winners[room]}]_<<listVars, soegVars>>
    BY <1>1
  <1> QED
    BY <1>2, RoundHolds, PTL DEF Spec, WinnerAlone

\* A round takes nobody off a list but those whose room somebody else won and who won none.
THEOREM NobodyEverVanishes == Spec => NobodyVanishes
  <1>1. ASSUME RoundInv, [Next]_vars, SettlesMonth, NEW r \in Residents,
               (IF list[round.month][r] # Null THEN list[round.month][r]
                ELSE list[round.month - 1][r]) # Null,
               list'[round.month][r] = Null
        PROVE  /\ round.winners[(IF list[round.month][r] # Null THEN list[round.month][r]
                                 ELSE list[round.month - 1][r]).room] # Null
               /\ ~Won(r)
    <2>1. EndMonth
      BY <1>1, SettledByTheEnd
    <2>2. Carried(round.month)[r] = IF list[round.month][r] # Null THEN list[round.month][r]
                                    ELSE list[round.month - 1][r]
      BY DEF Carried
    <2>3. r \in Evicted(Carried(round.month))
      BY <1>1, <2>1, <2>2, EndMonthWrites
    <2> QED
      BY <2>2, <2>3 DEF Evicted
  <1>2. RoundInv /\ [Next]_vars =>
          [SettlesMonth =>
             \A r \in Residents :
               LET m == round.month
                   row == IF list[m][r] # Null THEN list[m][r] ELSE list[m - 1][r]
               IN  row # Null /\ list'[m][r] = Null =>
                       round.winners[row.room] # Null /\ ~Won(r)]_<<listVars, soegVars>>
    BY <1>1
  <1> QED
    BY <1>2, RoundHolds, PTL DEF Spec, NobodyVanishes

\* What a tie leaves open stays open: the offer, and the applications of those who are tied.
THEOREM TiedAlwaysKeepApplying == Spec => TiedKeepApplying
  <1>1. ASSUME RoundInv, [Next]_vars, SettlesMonth, NEW room \in Rooms, NEW r \in round.tied[room]
        PROVE  /\ room \in offers'[round.month]
               /\ apps[round.month][r] # Null => apps'[round.month][r] = apps[round.month][r]
    <2> DEFINE m == round.month
    <2>1. EndMonth
      BY <1>1, SettledByTheEnd
    <2>2. /\ round \in Round /\ round.pc = "walk" /\ m \in Months
          /\ TiesOpen /\ HeldNotWon /\ round.offered \subseteq offers[m]
      BY <1>1, <2>1, EndMonthWrites DEF RoundInv, WalkFits, RoundFits
    <2>3. r \in Residents /\ r # Null
      BY <2>2, ListAssumption DEF Round
    <2>4. Contested /\ ~Won(r)
      BY <1>1, <2>2, <2>3 DEF Contested, HeldNotWon, Won
    <2>5. room \in OffersLeft(m) /\ r \notin Cleared
      BY <1>1, <2>2, <2>4 DEF OffersLeft, Cleared, TiesOpen
    <2>6. offers'[m] = OffersLeft(m) /\ apps'[m] = [q \in Residents |->
                                         IF q \in Cleared THEN Null ELSE apps[m][q]]
      BY <1>1, <2>1, <2>2 DEF EndMonth, RoundInv, SoegTypeOK
    <2> QED
      BY <2>3, <2>5, <2>6
  <1>2. RoundInv /\ [Next]_vars =>
          [SettlesMonth =>
             \A room \in Rooms : \A r \in round.tied[room] :
               LET m == round.month
               IN  /\ room \in offers'[m]
                   /\ apps[m][r] # Null => apps'[m][r] = apps[m][r]]_<<listVars, soegVars>>
    BY <1>1
  <1> QED
    BY <1>2, RoundHolds, PTL DEF Spec, TiedKeepApplying

\* Whoever is taken off a list, by the editor or by a round, holds no role in that month any more.
THEOREM LeavingTakesTheRolesAlways == Spec => LeavingTakesTheRoles
  <1>1. ASSUME RoundInv, [Next]_vars, NEW m \in Months, NEW r \in Residents,
               list[m][r] # Null, list'[m][r] = Null
        PROVE  roles'[m][r] = {}
    <2>1. CASE EditStep
      BY <1>1, <2>1, EditorTakesTheRoles DEF RoundInv, EditStep
    <2>2. CASE SoegStep
      <3>1. list' # list
        BY <1>1
      <3>2. EndMonth
        BY <1>1, <2>2, <3>1, RequestsType, BeginRoundType, ReadOffersType, ReadPrioritiesType,
           JudgeEntryType DEF SoegStep, RoundInv, listVars
      <3>3. m = round.month
        BY <1>1, <3>2, EndMonthWrites
      <3>4. Carried(m)[r] = list[m][r]
        BY <1>1 DEF Carried
      <3>5. r \in Evicted(Carried(m)) /\ roles'[m][r] = WrittenRoles(m)[r]
        BY <1>1, <3>2, <3>3, <3>4, EndMonthWrites
      <3> QED
        BY <3>5 DEF WrittenRoles
    <2>3. CASE Elsewhere
      BY <1>1, <2>3 DEF Elsewhere
    <2> QED
      BY <1>1, <2>1, <2>2, <2>3, RoomingOrNot DEF RoundInv
  <1>2. RoundInv /\ [Next]_vars =>
          [\A m \in Months, r \in Residents :
             list[m][r] # Null /\ list'[m][r] = Null => roles'[m][r] = {}]_listVars
    BY <1>1
  <1> QED
    BY <1>2, RoundHolds, PTL DEF Spec, LeavingTakesTheRoles

-----------------------------------------------------------------------------
(* Opslagstavlen: any number of notices, pictures, pins and requests at once. *)

\* The notices that the edits and pins under way may show pinned when they end.
Pinning == {q \in edits : q.kind = "pin" \/ (q.kind = "edit" /\ q.copy.pinned)}
MayBePinned == Pinned \cup {q.notice : q \in Pinning}

\* What the properties rest on: numbers are not given twice, a request's copy has the group of its
\* notice, and there is no more to be pinned than the requests at once allow.
NumbersGiven ==
    /\ \A n \in OnBoard : n <= made["notice"]
    /\ \A q \in edits : q.notice <= made["notice"]
    /\ \A i \in Pictures : pictures[i] # Null => i <= made["upload"]

CopiesHaveTheGroup ==
    /\ \A q \in edits : q.notice \in OnBoard => q.copy.group = notices[q.notice].group
    /\ \A q, s \in edits : q.notice = s.notice => q.copy.group = s.copy.group

PinsBounded ==
    /\ IsFiniteSet(edits) /\ Cardinality(edits) <= atOnce
    /\ IsFiniteSet(MayBePinned)
    /\ Cardinality(MayBePinned) <= MaxPinned + (IF atOnce = 0 THEN 0 ELSE atOnce - 1)

OpsInv == OmfangTypeOK /\ OpsTypeOK /\ NumbersGiven /\ CopiesHaveTheGroup /\ PinsBounded

-----------------------------------------------------------------------------
(* Types *)

LEMMA GroupOfType ==
  ASSUME ListTypeOK, NEW r \in Residents
  PROVE  GroupOf(r) \in Groups \cup {Null}
  <1>1. list[Active][r] \in Row \cup {Null}
    BY ActiveIsMonth DEF ListTypeOK, Lists
  <1> QED
    BY <1>1, RowOnList DEF GroupOf

LEMMA SyncedPicturesType ==
  ASSUME OpsTypeOK, NEW n \in Notices, NEW author, NEW refs
  PROVE  SyncedPictures(n, author, refs) \in [Pictures -> Picture \cup {Null}]
  <1>1. ASSUME NEW i \in Pictures, pictures[i] # Null
        PROVE  [pictures[i] EXCEPT !.notice = n] \in Picture
                 /\ [pictures[i] EXCEPT !.notice = Null] \in Picture
    <2>1. pictures[i] \in Picture /\ date \in Nat
      BY <1>1, OpslagAssumption DEF OpsTypeOK
    <2> QED
      BY <2>1 DEF Picture
  <1> QED
    BY <1>1 DEF SyncedPictures, OpsTypeOK

LEMMA ReadsType ==
  ASSUME OpsTypeOK, OmfangTypeOK, NEW n \in OnBoard, NEW kind \in {"edit", "pin", "unpin"},
         Make("edit"), Reads(kind, n), IsFiniteSet(edits)
  PROVE  OpsTypeOK'
  <1> DEFINE x == [kind |-> kind, n |-> made'["edit"], notice |-> n, copy |-> notices[n]]
  <1>1. x \in Edit
    <2>1. made'["edit"] \in Nat
      BY MadeOneMore, OpslagAssumption
    <2>2. n \in Notices /\ notices[n] \in Notice
      BY DEF OnBoard, OpsTypeOK
    <2> QED
      BY <2>1, <2>2 DEF Edit
  <1>2. edits' = edits \cup {x}
    BY DEF Reads
  <1>3. edits' \subseteq Edit
    BY <1>1, <1>2 DEF OpsTypeOK
  <1>4. atOnce' \in Nat
    <2>1. Cardinality(edits') \in Nat
      BY <1>2, FS_AddElement, FS_CardinalityType
    <2> QED
      BY <2>1 DEF Reads, OpsTypeOK
  <1> QED
    BY <1>3, <1>4 DEF Reads, OpsTypeOK

LEMMA OpsStepType ==
  ASSUME OpsTypeOK, OmfangTypeOK, ListTypeOK, IsFiniteSet(edits), OpsStep
  PROVE  OpsTypeOK'
  <1> USE DEF OpsTypeOK
  <1>1. CASE NextDate
    BY <1>1, OpslagAssumption DEF NextDate
  <1>2. CASE BeginSweep \/ EndSweep
    BY <1>2 DEF BeginSweep, EndSweep
  <1>3. ASSUME NEW r \in Residents, Upload(r) PROVE OpsTypeOK'
    <2>1. [by |-> r, notice |-> Null, uploaded |-> date] \in Picture
      BY OpslagAssumption DEF Picture
    <2> QED
      BY <1>3, <2>1 DEF Upload
  <1>4. ASSUME NEW r \in Residents, NEW refs \in SUBSET Uploaded, CreateNotice(r, refs)
        PROVE  OpsTypeOK'
    <2> DEFINE n == made["notice"] + 1
               x == [author |-> r, refs |-> refs, group |-> GroupOf(r), pinned |-> FALSE,
                     edited |-> FALSE]
    <2>1. x \in Notice
      BY GroupOfType DEF Notice, Uploaded
    <2>2. n \in Notices /\ notices' = [notices EXCEPT ![n] = x]
            /\ pictures' = SyncedPictures(n, r, refs)
      BY <1>4 DEF CreateNotice
    <2>3. pictures' \in [Pictures -> Picture \cup {Null}]
      BY <2>2, SyncedPicturesType
    <2>4. notices' \in [Notices -> Notice \cup {Null}]
      BY <2>1, <2>2
    <2> QED
      BY <1>4, <2>3, <2>4 DEF CreateNotice
  <1>5. ASSUME NEW r \in Residents, NEW n \in Notices, CollectNotice(r, n)
        PROVE  OpsTypeOK'
    <2> DEFINE d == [n |-> made'["unpost"], notice |-> n,
                     pictures |-> {i \in Pictures : pictures[i] # Null /\ pictures[i].notice = n}]
    <2>1. made'["unpost"] \in Nat
      BY <1>5, MadeOneMore, OpslagAssumption DEF CollectNotice
    <2>2. d \in Unpost
      BY <2>1 DEF Unpost
    <2> QED
      BY <1>5, <2>2 DEF CollectNotice
  <1>12. ASSUME NEW d \in unposts, DeleteNotice(d)
         PROVE  OpsTypeOK'
    BY <1>12 DEF DeleteNotice, Unpost
  <1>6. ASSUME NEW r \in Residents, NEW n \in Notices, AddRemark(r, n)
        PROVE  OpsTypeOK'
    BY <1>6 DEF AddRemark
  <1>7. ASSUME NEW me \in Residents, NEW r \in Residents, NEW n \in Notices, DeleteRemark(me, r, n)
        PROVE  OpsTypeOK'
    BY <1>7 DEF DeleteRemark
  <1>8. ASSUME NEW r \in Residents, NEW n \in Notices, BeginEdit(r, n) PROVE OpsTypeOK'
    BY <1>8, ReadsType DEF BeginEdit
  <1>9. ASSUME NEW r \in Residents, NEW n \in Notices, BeginPin(r, n) PROVE OpsTypeOK'
    BY <1>9, ReadsType DEF BeginPin
  <1>10. ASSUME NEW q \in edits, EndPin(q) PROVE OpsTypeOK'
    <2>1. ASSUME q.notice \in OnBoard
          PROVE  [notices[q.notice] EXCEPT !.pinned = (q.kind = "pin")] \in Notice
      BY <2>1 DEF OnBoard, Notice
    <2>2. notices' \in [Notices -> Notice \cup {Null}]
      BY <1>10, <2>1 DEF EndPin
    <2> QED
      BY <1>10, <2>2 DEF EndPin
  <1>11. ASSUME NEW q \in edits, NEW refs \in SUBSET Uploaded, EndEdit(q, refs) PROVE OpsTypeOK'
    <2>1. q \in Edit
      OBVIOUS
    <2>2. q.notice \in Notices /\ q.copy \in Notice
      BY <2>1 DEF Edit
    <2>3. [CopyAsSaved(q.copy) EXCEPT !.refs = refs, !.edited = TRUE] \in Notice
      BY <2>2 DEF CopyAsSaved, Notice, Uploaded
    <2>4. pictures' \in [Pictures -> Picture \cup {Null}]
      BY <1>11, <2>2, SyncedPicturesType DEF EndEdit
    <2> QED
      BY <1>11, <2>2, <2>3, <2>4 DEF EndEdit
  <1> QED
    BY <1>1, <1>2, <1>3, <1>4, <1>5, <1>6, <1>7, <1>8, <1>9, <1>10, <1>11, <1>12 DEF OpsStep

-----------------------------------------------------------------------------
(* Numbers and copies *)

\* The notices that are there and the edits that have read one: where those of a step come from.
LEMMA OpsStepNumbers ==
  ASSUME OpsTypeOK, OmfangTypeOK, OmfangTypeOK', NumbersGiven, OpsStep,
         \A k \in Kinds : made'[k] >= made[k]
  PROVE  NumbersGiven'
  <1> USE DEF OpsTypeOK, NumbersGiven
  <1>0. /\ made["notice"] \in Nat /\ made'["notice"] \in Nat /\ made'["notice"] >= made["notice"]
        /\ made["upload"] \in Nat /\ made'["upload"] \in Nat /\ made'["upload"] >= made["upload"]
    BY OpslagAssumption DEF OmfangTypeOK
  <1>a. /\ Notices \subseteq Nat /\ Pictures \subseteq Nat
        /\ \A q \in edits : q.notice \in Notices
    BY OpslagAssumption DEF Edit
  <1>b. ASSUME \A n \in OnBoard' : n \in OnBoard \/ n <= made'["notice"],
               \A q \in edits' : q \in edits \/ q.notice \in OnBoard,
               \A i \in Pictures : pictures'[i] # Null => pictures[i] # Null \/ i <= made'["upload"]
        PROVE  NumbersGiven'
    <2>1. \A n \in OnBoard : n <= made["notice"] /\ n \in Nat
      BY <1>a DEF OnBoard
    <2>2. \A n \in OnBoard' : n <= made'["notice"]
      BY <1>0, <1>b, <2>1
    <2>3. \A q \in edits' : q.notice <= made'["notice"]
      <3>1. \A q \in edits : q.notice \in Nat /\ q.notice <= made["notice"]
        BY <1>a
      <3>2. \A q \in edits' : q.notice \in Nat /\ q.notice <= made["notice"]
        BY <1>b, <2>1, <3>1
      <3> QED
        BY <1>0, <3>2
    <2>4. \A i \in Pictures : pictures'[i] # Null => i <= made'["upload"]
      <3>1. \A i \in Pictures : i \in Nat /\ (pictures[i] # Null => i <= made["upload"])
        BY <1>a
      <3> QED
        BY <1>0, <1>b, <3>1
    <2> QED
      BY <2>2, <2>3, <2>4
  <1>1. CASE NextDate \/ BeginSweep \/ EndSweep
    BY <1>1, <1>b DEF NextDate, BeginSweep, EndSweep, OnBoard
  <1>2. ASSUME NEW r \in Residents, Upload(r) PROVE NumbersGiven'
    <2>1. made'["upload"] = made["upload"] + 1
      BY <1>2, MadeOneMore, OpslagAssumption DEF Upload
    <2>2. \A i \in Pictures : pictures'[i] # Null => pictures[i] # Null \/ i <= made'["upload"]
      BY <1>0, <1>2, <2>1 DEF Upload
    <2> QED
      BY <1>2, <1>b, <2>2 DEF Upload, OnBoard
  <1>3. ASSUME NEW n \in Notices, NEW author, NEW refs
        PROVE  \A i \in Pictures : SyncedPictures(n, author, refs)[i] # Null => pictures[i] # Null
    BY DEF SyncedPictures
  <1>4. ASSUME NEW r \in Residents, NEW refs \in SUBSET Uploaded, CreateNotice(r, refs)
        PROVE  NumbersGiven'
    <2>1. made'["notice"] = made["notice"] + 1
      BY <1>4, MadeOneMore, OpslagAssumption DEF CreateNotice
    <2>2. \A n \in OnBoard' : n \in OnBoard \/ n <= made'["notice"]
      BY <1>0, <1>4, <2>1 DEF CreateNotice, OnBoard
    <2>3. \A i \in Pictures : pictures'[i] # Null => pictures[i] # Null
      BY <1>3, <1>4 DEF CreateNotice
    <2> QED
      BY <1>4, <1>b, <2>2, <2>3 DEF CreateNotice
  <1>5. ASSUME NEW d \in unposts, DeleteNotice(d)
        PROVE  NumbersGiven'
    <2>1. \A m \in OnBoard' : m \in OnBoard
      BY <1>5 DEF DeleteNotice, OnBoard
    <2>2. \A i \in Pictures : pictures'[i] # Null => pictures[i] # Null
      BY <1>5 DEF DeleteNotice
    <2> QED
      BY <1>5, <1>b, <2>1, <2>2 DEF DeleteNotice
  <1>6. ASSUME NEW r \in Residents, NEW n \in Notices,
               \/ AddRemark(r, n) \/ CollectNotice(r, n)
               \/ \E me \in Residents : DeleteRemark(me, r, n)
        PROVE  NumbersGiven'
    BY <1>6, <1>b DEF AddRemark, CollectNotice, DeleteRemark, OnBoard
  <1>7. ASSUME NEW r \in Residents, NEW n \in Notices, BeginEdit(r, n) \/ BeginPin(r, n)
        PROVE  NumbersGiven'
    <2>1. n \in OnBoard
      BY <1>7 DEF BeginEdit, BeginPin
    <2>2. \A q \in edits' : q \in edits \/ q.notice = n
      BY <1>7 DEF BeginEdit, BeginPin, Reads
    <2> QED
      BY <1>7, <1>b, <2>1, <2>2 DEF BeginEdit, BeginPin, Reads, OnBoard
  <1>8. ASSUME NEW q \in edits, EndPin(q) PROVE NumbersGiven'
    <2>1. \A m \in OnBoard' : m \in OnBoard
      BY <1>8 DEF EndPin, OnBoard
    <2> QED
      BY <1>8, <1>b, <2>1 DEF EndPin
  <1>9. ASSUME NEW q \in edits, NEW refs \in SUBSET Uploaded, EndEdit(q, refs)
        PROVE  NumbersGiven'
    <2>1. q.notice \in Notices /\ q.notice \in Nat /\ q.notice <= made["notice"]
      BY <1>a
    <2>2. q.notice <= made'["notice"]
      BY <1>0, <2>1
    <2>3. \A m \in OnBoard' : m \in OnBoard \/ m = q.notice
      BY <1>9, <2>1 DEF EndEdit, OnBoard
    <2>4. \A i \in Pictures : pictures'[i] # Null => pictures[i] # Null
      BY <1>3, <1>9, <2>1 DEF EndEdit
    <2>5. \A m \in OnBoard' : m \in OnBoard \/ m <= made'["notice"]
      BY <2>2, <2>3
    <2>6. \A s \in edits' : s \in edits
      BY <1>9 DEF EndEdit
    <2> QED
      BY <1>b, <2>4, <2>5, <2>6
  <1> QED
    BY <1>1, <1>2, <1>4, <1>5, <1>6, <1>7, <1>8, <1>9 DEF OpsStep

\* The notices and the copies of a step have the groups of those before it.
LEMMA OpsStepGroups ==
  ASSUME OpsTypeOK, OmfangTypeOK, NumbersGiven, CopiesHaveTheGroup, OpsStep
  PROVE  /\ CopiesHaveTheGroup'
         /\ \A n \in Notices : notices[n] # Null /\ notices'[n] # Null =>
               notices'[n].group = notices[n].group
  <1> DEFINE Kept == \A n \in Notices : notices[n] # Null /\ notices'[n] # Null =>
                        notices'[n].group = notices[n].group
  <1> USE DEF OpsTypeOK, CopiesHaveTheGroup
  <1>0. made["notice"] \in Nat /\ Notices \subseteq Nat
    BY OpslagAssumption DEF OmfangTypeOK
  <1>a. \A q \in edits : q.notice \in Notices /\ q.copy \in Notice
    BY DEF Edit
  <1>1. CASE NextDate \/ BeginSweep \/ EndSweep \/ \E r \in Residents : Upload(r)
    BY <1>1 DEF NextDate, BeginSweep, EndSweep, Upload, OnBoard
  <1>2. ASSUME NEW r \in Residents, NEW refs \in SUBSET Uploaded, CreateNotice(r, refs)
        PROVE  CopiesHaveTheGroup' /\ Kept
    <2> DEFINE n == made["notice"] + 1
    <2>1. /\ n \notin OnBoard /\ \A q \in edits : q.notice # n
      <3>1. \A m \in OnBoard : m <= made["notice"] /\ m \in Nat
        BY <1>0 DEF NumbersGiven, OnBoard
      <3>2. \A q \in edits : q.notice <= made["notice"] /\ q.notice \in Nat
        BY <1>0, <1>a DEF NumbersGiven
      <3> QED
        BY <1>0, <3>1, <3>2
    <2>2. /\ edits' = edits
          /\ \A m \in Notices : m # n => notices'[m] = notices[m]
      BY <1>2 DEF CreateNotice
    <2>3. Kept
      BY <2>1, <2>2 DEF OnBoard
    <2> QED
      BY <1>a, <2>1, <2>2, <2>3 DEF OnBoard
  <1>3. ASSUME NEW d \in unposts, DeleteNotice(d)
        PROVE  CopiesHaveTheGroup' /\ Kept
    BY <1>3, <1>a DEF DeleteNotice, OnBoard
  <1>4. ASSUME NEW r \in Residents, NEW n \in Notices,
               \/ AddRemark(r, n) \/ CollectNotice(r, n)
               \/ \E me \in Residents : DeleteRemark(me, r, n)
        PROVE  CopiesHaveTheGroup' /\ Kept
    BY <1>4 DEF AddRemark, CollectNotice, DeleteRemark, OnBoard
  <1>5. ASSUME NEW kind, NEW n \in OnBoard, Reads(kind, n)
        PROVE  CopiesHaveTheGroup' /\ Kept
    <2> DEFINE x == [kind |-> kind, n |-> made'["edit"], notice |-> n, copy |-> notices[n]]
    <2>1. edits' = edits \cup {x} /\ notices' = notices
      BY <1>5 DEF Reads
    <2>2. x.notice = n /\ x.copy.group = notices[n].group
      OBVIOUS
    <2> HIDE DEF x
    <2> QED
      BY <2>1, <2>2 DEF OnBoard
  <1>6. ASSUME NEW r \in Residents, NEW n \in Notices, BeginEdit(r, n) \/ BeginPin(r, n)
        PROVE  CopiesHaveTheGroup' /\ Kept
    BY <1>5, <1>6 DEF BeginEdit, BeginPin
  <1>7. ASSUME NEW q \in edits, EndPin(q) PROVE CopiesHaveTheGroup' /\ Kept
    <2>1. /\ edits' \subseteq edits
          /\ OnBoard' = OnBoard
          /\ \A n \in OnBoard : notices'[n].group = notices[n].group
      <3>1. ASSUME q.notice \in OnBoard
            PROVE  /\ [notices[q.notice] EXCEPT !.pinned = (q.kind = "pin")] # Null
                   /\ [notices[q.notice] EXCEPT !.pinned = (q.kind = "pin")].group
                        = notices[q.notice].group
        <4>1. notices[q.notice] \in Notice
          BY <3>1 DEF OnBoard
        <4>2. [notices[q.notice] EXCEPT !.pinned = (q.kind = "pin")] \in Notice
          BY <4>1 DEF Notice
        <4>3. [notices[q.notice] EXCEPT !.pinned = (q.kind = "pin")].group = notices[q.notice].group
          BY <4>1 DEF Notice
        <4> QED
          BY <4>2, <4>3, OpslagAssumption
      <3> QED
        BY <1>7, <1>a, <3>1 DEF EndPin, OnBoard
    <2> QED
      BY <2>1 DEF OnBoard
  <1>8. ASSUME NEW q \in edits, NEW refs \in SUBSET Uploaded, EndEdit(q, refs)
        PROVE  CopiesHaveTheGroup' /\ Kept
    <2> DEFINE x == [CopyAsSaved(q.copy) EXCEPT !.refs = refs, !.edited = TRUE]
    <2>1. x.group = q.copy.group
      BY <1>a DEF CopyAsSaved, Notice
    <2>2. notices' = [notices EXCEPT ![q.notice] = x] /\ edits' \subseteq edits
      BY <1>8 DEF EndEdit
    <2> HIDE DEF x
    <2> QED
      BY <1>a, <2>1, <2>2 DEF OnBoard
  <1> QED
    BY <1>1, <1>2, <1>3, <1>4, <1>6, <1>7, <1>8 DEF OpsStep

-----------------------------------------------------------------------------
(* Pins *)

\* The notices that some requests are about are no more than the requests.
LEMMA NoticesOfRequests ==
  ASSUME NEW S, IsFiniteSet(S)
  PROVE  IsFiniteSet({q.notice : q \in S}) /\ Cardinality({q.notice : q \in S}) <= Cardinality(S)
  <1> DEFINE T == {q.notice : q \in S}
             f == [q \in S |-> q.notice]
  <1>1. f \in Surjection(S, T)
    BY DEF Surjection
  <1> HIDE DEF T, f
  <1>2. IsFiniteSet(T) /\ Cardinality(T) <= Cardinality(S)
    BY <1>1, FS_Surjection
  <1> QED
    BY <1>2 DEF T

\* Every step but the beginning of a pin leaves no more to be pinned than there was.
LEMMA FewerPinned ==
  ASSUME OpsTypeOK, OpsTypeOK', PinsBounded, MayBePinned' \subseteq MayBePinned,
         IsFiniteSet(edits'), Cardinality(edits') <= atOnce', atOnce' >= atOnce
  PROVE  PinsBounded'
  <1>1. IsFiniteSet(MayBePinned') /\ Cardinality(MayBePinned') <= Cardinality(MayBePinned)
    BY FS_Subset DEF PinsBounded
  <1>2. Cardinality(MayBePinned') \in Nat /\ Cardinality(MayBePinned) \in Nat
    BY <1>1, FS_CardinalityType DEF PinsBounded
  <1>3. atOnce \in Nat /\ atOnce' \in Nat /\ MaxPinned \in Nat
    BY OpslagAssumption DEF OpsTypeOK
  <1>4. Cardinality(MayBePinned') <= MaxPinned + (IF atOnce' = 0 THEN 0 ELSE atOnce' - 1)
    BY <1>1, <1>2, <1>3 DEF PinsBounded
  <1> QED
    BY <1>1, <1>4 DEF PinsBounded

LEMMA ReadsCounted ==
  ASSUME OpsTypeOK, PinsBounded, NEW kind, NEW n, Reads(kind, n)
  PROVE  /\ IsFiniteSet(edits') /\ Cardinality(edits') \in Nat
         /\ Cardinality(edits') <= atOnce' /\ atOnce' >= atOnce /\ atOnce' >= 1
  <1> DEFINE x == [kind |-> kind, n |-> made'["edit"], notice |-> n, copy |-> notices[n]]
  <1>1. edits' = edits \cup {x}
    BY DEF Reads
  <1>2. IsFiniteSet(edits') /\ Cardinality(edits') \in Nat
    <2> HIDE DEF x
    <2>1. IsFiniteSet(edits)
      BY DEF PinsBounded
    <2>2. IsFiniteSet(edits')
      BY <1>1, <2>1, FS_AddElement
    <2> QED
      BY <2>2, FS_CardinalityType
  <1>3. Cardinality(edits') # 0
    <2>1. x \in edits'
      BY <1>1
    <2> QED
      BY <1>2, <2>1, FS_EmptySet
  <1>4. atOnce' = IF Cardinality(edits') > atOnce THEN Cardinality(edits') ELSE atOnce
    BY DEF Reads
  <1> QED
    BY <1>2, <1>3, <1>4 DEF OpsTypeOK

LEMMA OpsStepPins ==
  ASSUME OpsTypeOK, OpsTypeOK', PinsBounded, OpsStep
  PROVE  PinsBounded'
  <1>0. atOnce \in Nat /\ IsFiniteSet(edits) /\ Cardinality(edits) <= atOnce
    BY DEF OpsTypeOK, PinsBounded
  <1>a. \A q \in edits : q.notice \in Notices /\ q.copy \in Notice
    BY DEF OpsTypeOK, Edit
  <1>b. ASSUME MayBePinned' \subseteq MayBePinned, edits' \subseteq edits, atOnce' = atOnce
        PROVE  PinsBounded'
    <2>1. IsFiniteSet(edits') /\ Cardinality(edits') <= Cardinality(edits)
      BY <1>0, <1>b, FS_Subset
    <2>2. Cardinality(edits') \in Nat /\ Cardinality(edits) \in Nat
      BY <1>0, <2>1, FS_CardinalityType
    <2>3. Cardinality(edits') <= atOnce' /\ atOnce' >= atOnce
      BY <1>0, <1>b, <2>1, <2>2
    <2> QED
      BY <1>b, <2>1, <2>3, FewerPinned
  <1>1. CASE NextDate \/ BeginSweep \/ EndSweep \/ \E r \in Residents : Upload(r)
    <2>1. UNCHANGED <<notices, edits, atOnce>>
      BY <1>1 DEF NextDate, BeginSweep, EndSweep, Upload
    <2>2. MayBePinned' = MayBePinned
      BY <2>1 DEF MayBePinned, Pinned, Pinning, OnBoard
    <2> QED
      BY <1>b, <2>1, <2>2
  <1>2. ASSUME NEW r \in Residents, NEW refs \in SUBSET Uploaded, CreateNotice(r, refs)
        PROVE  PinsBounded'
    <2>1. Pinned' \subseteq Pinned
      BY <1>2 DEF CreateNotice, Pinned, OnBoard, OpsTypeOK
    <2>2. UNCHANGED <<edits, atOnce>>
      BY <1>2 DEF CreateNotice
    <2>3. MayBePinned' \subseteq MayBePinned
      BY <2>1, <2>2 DEF MayBePinned, Pinning
    <2> QED
      BY <1>b, <2>2, <2>3
  <1>3. ASSUME NEW d \in unposts, DeleteNotice(d)
        PROVE  PinsBounded'
    <2>1. Pinned' \subseteq Pinned
      BY <1>3 DEF DeleteNotice, Pinned, OnBoard, OpsTypeOK
    <2>2. UNCHANGED <<edits, atOnce>>
      BY <1>3 DEF DeleteNotice
    <2>3. MayBePinned' \subseteq MayBePinned
      BY <2>1, <2>2 DEF MayBePinned, Pinning
    <2> QED
      BY <1>b, <2>2, <2>3
  <1>4. ASSUME NEW r \in Residents, NEW n \in Notices,
               \/ AddRemark(r, n) \/ CollectNotice(r, n)
               \/ \E me \in Residents : DeleteRemark(me, r, n)
        PROVE  PinsBounded'
    <2>1. UNCHANGED <<notices, edits, atOnce>>
      BY <1>4 DEF AddRemark, CollectNotice, DeleteRemark
    <2>2. MayBePinned' = MayBePinned
      BY <2>1 DEF MayBePinned, Pinned, Pinning, OnBoard
    <2> QED
      BY <1>b, <2>1, <2>2
  <1>5. ASSUME NEW kind \in {"edit", "unpin"}, NEW n \in OnBoard, Reads(kind, n)
        PROVE  PinsBounded'
    <2> DEFINE x == [kind |-> kind, n |-> made'["edit"], notice |-> n, copy |-> notices[n]]
    <2>1. edits' = edits \cup {x} /\ notices' = notices
      BY <1>5 DEF Reads
    <2>2. Pinned' = Pinned
      BY <2>1 DEF Pinned, OnBoard
    <2>3. x \in Pinning' => x.notice \in Pinned
      BY DEF Pinning, Pinned
    <2>4. MayBePinned' \subseteq MayBePinned
      <3>1. \A q \in Pinning' : q \in Pinning \/ q = x
        BY <2>1 DEF Pinning
      <3> QED
        BY <2>2, <2>3, <3>1 DEF MayBePinned
    <2> QED
      BY <1>5, <2>4, FewerPinned, ReadsCounted
  <1>6. ASSUME NEW n \in OnBoard, MayPin, Reads("pin", n)
        PROVE  PinsBounded'
    <2>1. notices' = notices
      BY <1>6 DEF Reads
    <2>2. Pinned' = Pinned
      BY <2>1 DEF Pinned, OnBoard
    <2>3. /\ IsFiniteSet(edits') /\ Cardinality(edits') \in Nat
          /\ Cardinality(edits') <= atOnce' /\ atOnce' >= 1
      BY <1>6, ReadsCounted
    <2>4. IsFiniteSet(Pinned) /\ Cardinality(Pinned) \in Nat /\ Cardinality(Pinned) < MaxPinned
      <3>1. Pinned \subseteq MayBePinned
        BY DEF MayBePinned
      <3> QED
        BY <1>6, <3>1, FS_Subset, FS_CardinalityType DEF PinsBounded, MayPin
    <2> DEFINE P == Pinning'
               T == {q.notice : q \in P}
    <2>5. IsFiniteSet(T) /\ Cardinality(T) \in Nat /\ Cardinality(T) <= atOnce'
      <3>1. P \subseteq edits'
        BY DEF Pinning
      <3>2. IsFiniteSet(P) /\ Cardinality(P) <= Cardinality(edits') /\ Cardinality(P) \in Nat
        BY <2>3, <3>1, FS_Subset, FS_CardinalityType
      <3>3. IsFiniteSet(T) /\ Cardinality(T) <= Cardinality(P)
        BY <3>2, NoticesOfRequests
      <3>4. Cardinality(T) \in Nat
        BY <3>3, FS_CardinalityType
      <3> QED
        BY <2>3, <3>2, <3>3, <3>4 DEF OpsTypeOK
    <2>6. MayBePinned' = Pinned \cup T
      BY <2>2 DEF MayBePinned
    <2>7. /\ IsFiniteSet(Pinned \cup T)
          /\ Cardinality(Pinned \cup T) <= Cardinality(Pinned) + Cardinality(T)
      <3> HIDE DEF T
      <3>1. /\ IsFiniteSet(Pinned \cup T)
            /\ Cardinality(Pinned \cup T)
                 = Cardinality(Pinned) + Cardinality(T) - Cardinality(Pinned \cap T)
        BY <2>4, <2>5, FS_Union
      <3>2. Cardinality(Pinned \cap T) \in Nat
        BY <2>4, FS_Intersection, FS_CardinalityType
      <3> QED
        BY <2>4, <2>5, <3>1, <3>2
    <2>8. Cardinality(Pinned \cup T) <= MaxPinned + (IF atOnce' = 0 THEN 0 ELSE atOnce' - 1)
      <3> HIDE DEF T
      <3>1. Cardinality(Pinned \cup T) \in Nat /\ atOnce' \in Nat /\ MaxPinned \in Nat
        BY <2>7, FS_CardinalityType, OpslagAssumption DEF OpsTypeOK
      <3> QED
        BY <2>3, <2>4, <2>5, <2>7, <3>1
    <2> QED
      BY <2>3, <2>6, <2>7, <2>8 DEF PinsBounded
  <1>7. ASSUME NEW r \in Residents, NEW n \in Notices, BeginEdit(r, n) \/ BeginPin(r, n)
        PROVE  PinsBounded'
    <2>1. CASE BeginEdit(r, n)
      BY <1>5, <2>1 DEF BeginEdit
    <2>2. CASE BeginPin(r, n)
      <3>1. n \in OnBoard /\ (Reads("unpin", n) \/ (MayPin /\ Reads("pin", n)))
        BY <2>2 DEF BeginPin
      <3> QED
        BY <1>5, <1>6, <3>1
    <2> QED
      BY <1>7, <2>1, <2>2
  <1>8. ASSUME NEW q \in edits, EndPin(q) PROVE PinsBounded'
    <2>1. edits' \subseteq edits /\ atOnce' = atOnce
      BY <1>8 DEF EndPin
    <2>2. \A n \in Pinned' : n \in Pinned \/ (n = q.notice /\ q.kind = "pin")
      BY <1>8, <1>a DEF EndPin, Pinned, OnBoard, OpsTypeOK, Notice
    <2>3. MayBePinned' \subseteq MayBePinned
      BY <2>1, <2>2 DEF MayBePinned, Pinning
    <2> QED
      BY <1>b, <2>1, <2>3
  <1>9. ASSUME NEW q \in edits, NEW refs \in SUBSET Uploaded, EndEdit(q, refs)
        PROVE  PinsBounded'
    <2> DEFINE x == [CopyAsSaved(q.copy) EXCEPT !.refs = refs, !.edited = TRUE]
    <2>1. edits' \subseteq edits /\ atOnce' = atOnce /\ notices' = [notices EXCEPT ![q.notice] = x]
      BY <1>9 DEF EndEdit
    <2>2. x.pinned = q.copy.pinned
      BY <1>a DEF CopyAsSaved, Notice
    <2>3. \A n \in Pinned' : n \in Pinned \/ (n = q.notice /\ q.copy.pinned)
      <3> HIDE DEF x
      <3> QED
        BY <1>a, <2>1, <2>2 DEF Pinned, OnBoard, OpsTypeOK
    <2>4. q.kind = "edit"
      BY <1>9 DEF EndEdit
    <2>5. MayBePinned' \subseteq MayBePinned
      BY <2>1, <2>3, <2>4 DEF MayBePinned, Pinning
    <2> QED
      BY <1>b, <2>1, <2>5
  <1> QED
    BY <1>1, <1>2, <1>3, <1>4, <1>7, <1>8, <1>9 DEF OpsStep

-----------------------------------------------------------------------------
(* Pictures *)

LEMMA OpsStepPictures ==
  ASSUME OpsTypeOK, OmfangTypeOK, NumbersGiven, OpsStep,
         NEW i \in Pictures, NEW n \in Notices,
         pictures[i] # Null, pictures[i].notice = n, i \notin Collected,
         notices'[n] # Null, i \in notices'[n].refs
  PROVE  pictures'[i] # Null /\ pictures'[i].notice = n
  <1> USE DEF OpsTypeOK
  <1>0. n # Null /\ made["upload"] \in Nat /\ Pictures \subseteq Nat /\ pictures[i] \in Picture
    BY OpslagAssumption DEF OmfangTypeOK
  <1>1. CASE pictures' = pictures
    BY <1>1
  <1>2. CASE EndSweep
    BY <1>2 DEF EndSweep, Collected
  <1>3. ASSUME NEW r \in Residents, Upload(r)
        PROVE  pictures'[i] = pictures[i]
    <2>1. i # made["upload"] + 1
      BY <1>0 DEF NumbersGiven
    <2> QED
      BY <1>3, <2>1 DEF Upload
  <1>4. ASSUME NEW m \in Notices, NEW author, NEW refs, pictures' = SyncedPictures(m, author, refs),
               m = n => i \in refs
        PROVE  pictures'[i] # Null /\ pictures'[i].notice = n
    <2>1. pictures'[i] = IF i \in refs
                         THEN IF Claims(i, m, author) THEN [pictures[i] EXCEPT !.notice = m]
                              ELSE pictures[i]
                         ELSE IF pictures[i].notice = m
                              THEN [pictures[i] EXCEPT !.notice = Null]
                              ELSE pictures[i]
      BY <1>4 DEF SyncedPictures
    <2>2. Claims(i, m, author) => m = n
      BY <1>0 DEF Claims
    <2>3. [pictures[i] EXCEPT !.notice = n] \in Picture
            /\ [pictures[i] EXCEPT !.notice = n].notice = n
      BY <1>0 DEF Picture
    <2> QED
      BY <1>4, <2>1, <2>2, <2>3, OpslagAssumption
  <1>5. ASSUME NEW r \in Residents, NEW refs \in SUBSET Uploaded, CreateNotice(r, refs)
        PROVE  pictures'[i] # Null /\ pictures'[i].notice = n
    <2> DEFINE m == made["notice"] + 1
               x == [author |-> r, refs |-> refs, group |-> GroupOf(r), pinned |-> FALSE,
                     edited |-> FALSE]
    <2>1. /\ m \in Notices /\ notices' = [notices EXCEPT ![m] = x]
          /\ pictures' = SyncedPictures(m, r, refs)
      BY <1>5 DEF CreateNotice
    <2>2. m = n => i \in refs
      BY <2>1
    <2> QED
      BY <1>4, <2>1, <2>2
  <1>6. ASSUME NEW d \in unposts, DeleteNotice(d)
        PROVE  pictures'[i] = pictures[i]
    <2>1. i \notin d.pictures
      BY DEF Collected
    <2> QED
      BY <1>6, <2>1 DEF DeleteNotice
  <1>7. ASSUME NEW q \in edits, NEW refs \in SUBSET Uploaded, EndEdit(q, refs)
        PROVE  pictures'[i] # Null /\ pictures'[i].notice = n
    <2> DEFINE x == [CopyAsSaved(q.copy) EXCEPT !.refs = refs, !.edited = TRUE]
    <2>1. q.notice \in Notices /\ q.copy \in Notice
      BY DEF Edit
    <2>2. /\ notices' = [notices EXCEPT ![q.notice] = x]
          /\ pictures' = SyncedPictures(q.notice, q.copy.author, refs)
      BY <1>7 DEF EndEdit
    <2>3. x.refs = refs
      BY <2>1 DEF CopyAsSaved, Notice
    <2>4. q.notice = n => i \in refs
      <3> HIDE DEF x
      <3> QED
        BY <2>1, <2>2, <2>3
    <2> QED
      BY <1>4, <2>1, <2>2, <2>4
  <1> QED
    BY <1>1, <1>2, <1>3, <1>5, <1>6, <1>7
    DEF OpsStep, NextDate, BeginSweep, CollectNotice, AddRemark, DeleteRemark, BeginEdit, BeginPin,
        Reads, EndPin

-----------------------------------------------------------------------------
(* The invariant *)

LEMMA OpsInitInv ==
  ASSUME Init
  PROVE  OpsInv
  <1>1. /\ date = 0 /\ notices = [n \in Notices |-> Null] /\ remarks = [n \in Notices |-> {}]
        /\ pictures = [i \in Pictures |-> Null] /\ sweeping = {} /\ unposts = {}
        /\ edits = {} /\ atOnce = 0
    BY DEF Init, OpsInit
  <1>2. OmfangTypeOK
    BY OmfangInit DEF Init
  <1>3. OpsTypeOK
    BY <1>1, OpslagAssumption DEF OpsTypeOK
  <1>4. NumbersGiven /\ CopiesHaveTheGroup
    BY <1>1 DEF NumbersGiven, CopiesHaveTheGroup, OnBoard
  <1>5. MayBePinned = {}
    BY <1>1 DEF MayBePinned, Pinned, Pinning, OnBoard
  <1>6. PinsBounded
    BY <1>1, <1>5, FS_EmptySet, OpslagAssumption DEF PinsBounded
  <1> QED
    BY <1>2, <1>3, <1>4, <1>6 DEF OpsInv

\* What everybody else does leaves the board alone, and gives no number back.
LEMMA OpsStepOrNot ==
  ASSUME [Next]_vars
  PROVE  OpsStep \/ UNCHANGED opsVars
  BY DEF Next, Rooming, Deducting, Repairing, Posting, Noticing, Reading, Admitting,
         Publishing, Living, vars

LEMMA OpsNextInv ==
  ASSUME OpsInv, ListTypeOK, [Next]_vars
  PROVE  OpsInv'
  <1> USE DEF OpsInv
  <1>1. OmfangTypeOK' /\ \A k \in Kinds : made'[k] >= made[k]
    BY MadeGrows
  <1>2. CASE OpsStep
    <2>1. OpsTypeOK'
      BY <1>2, OpsStepType DEF PinsBounded
    <2>2. NumbersGiven'
      BY <1>1, <1>2, OpsStepNumbers
    <2>3. CopiesHaveTheGroup'
      BY <1>2, OpsStepGroups
    <2>4. PinsBounded'
      BY <1>2, <2>1, OpsStepPins
    <2> QED
      BY <1>1, <2>1, <2>2, <2>3, <2>4
  <1>3. CASE UNCHANGED opsVars
    <2>0. UNCHANGED <<date, notices, remarks, pictures, sweeping, unposts, edits, atOnce>>
      BY <1>3 DEF opsVars
    <2>1. OpsTypeOK'
      BY <2>0 DEF OpsTypeOK
    <2>2. NumbersGiven'
      <3>1. /\ made["notice"] \in Nat /\ made'["notice"] \in Nat
            /\ made'["notice"] >= made["notice"]
            /\ made["upload"] \in Nat /\ made'["upload"] \in Nat
            /\ made'["upload"] >= made["upload"]
        BY <1>1, OpslagAssumption DEF OmfangTypeOK
      <3>2. OnBoard' = OnBoard /\ OnBoard \subseteq Nat /\ Pictures \subseteq Nat
        BY <2>0, OpslagAssumption DEF OnBoard
      <3>3. \A q \in edits : q.notice \in Nat
        BY OpslagAssumption DEF OpsTypeOK, Edit
      <3> QED
        BY <2>0, <3>1, <3>2, <3>3 DEF NumbersGiven
    <2>3. CopiesHaveTheGroup'
      BY <2>0 DEF CopiesHaveTheGroup, OnBoard
    <2>4. PinsBounded'
      BY <2>0 DEF PinsBounded, MayBePinned, Pinned, Pinning, OnBoard
    <2> QED
      BY <1>1, <2>1, <2>2, <2>3, <2>4
  <1> QED
    BY <1>2, <1>3, OpsStepOrNot

LEMMA OpsHolds == Spec => [](OpsInv /\ ListTypeOK)
  <1>1. Init => OpsInv
    BY OpsInitInv
  <1>2. OpsInv /\ ListTypeOK /\ [Next]_vars => OpsInv'
    BY OpsNextInv
  <1>3. Spec => []ListTypeOK
    BY ListHolds
  <1> QED
    BY <1>1, <1>2, <1>3, PTL DEF Spec

-----------------------------------------------------------------------------
(* Theorems *)

\* Notices, pictures, remarks and the requests under way keep their types.
THEOREM OpsTypesHold == Spec => []OpsTypeOK
  <1>1. OpsInv => OpsTypeOK
    BY DEF OpsInv
  <1> QED
    BY <1>1, OpsHolds, PTL

\* However many edits and pins overlap, there are fewer pins too many than there were of them at
\* once; and none too many if they came one by one.
THEOREM PinCapHolds == Spec => []PinCap
  <1>1. OpsInv => PinCap
    <2> SUFFICES ASSUME OpsInv PROVE PinCap
      OBVIOUS
    <2>1. Pinned \subseteq MayBePinned
      BY DEF MayBePinned
    <2>2. /\ Cardinality(Pinned) <= Cardinality(MayBePinned)
          /\ Cardinality(Pinned) \in Nat /\ Cardinality(MayBePinned) \in Nat
      BY <2>1, FS_Subset, FS_CardinalityType DEF OpsInv, PinsBounded
    <2>3. atOnce \in Nat /\ MaxPinned \in Nat
      BY OpslagAssumption DEF OpsInv, OpsTypeOK
    <2> QED
      BY <2>2, <2>3 DEF OpsInv, PinsBounded, PinCap
  <1> QED
    BY <1>1, OpsHolds, PTL

\* The group beside the author's name never changes, whoever edits or pins the notice and whatever
\* becomes of the author's group.
THEOREM GroupStaysAlways == Spec => GroupStays
  <1>1. OpsInv /\ ListTypeOK /\ [Next]_vars =>
          [\A n \in Notices : notices[n] # Null /\ notices'[n] # Null =>
              notices'[n].group = notices[n].group]_<<listVars, opsVars>>
    <2> SUFFICES ASSUME OpsInv, ListTypeOK, [Next]_vars, NEW n \in Notices,
                        notices[n] # Null, notices'[n] # Null
                 PROVE  notices'[n].group = notices[n].group
      OBVIOUS
    <2>1. CASE OpsStep
      BY <2>1, OpsStepGroups DEF OpsInv
    <2>2. CASE UNCHANGED opsVars
      BY <2>2 DEF opsVars
    <2> QED
      BY <2>1, <2>2, OpsStepOrNot
  <1> QED
    BY <1>1, OpsHolds, PTL DEF Spec, GroupStays

\* A picture that a notice has claimed and refers to stays its own, however edits, deletions and
\* sweeps overlap, unless a sweep or a deletion had collected it before it was claimed.
THEOREM PictureStaysAlways == Spec => PictureStays
  <1>1. OpsInv /\ ListTypeOK /\ [Next]_vars =>
          [\A i \in Pictures, n \in Notices :
             /\ pictures[i] # Null /\ pictures[i].notice = n /\ i \notin Collected
             /\ notices'[n] # Null /\ i \in notices'[n].refs
             => pictures'[i] # Null /\ pictures'[i].notice = n]_<<listVars, opsVars>>
    <2> SUFFICES ASSUME OpsInv, ListTypeOK, [Next]_vars, NEW i \in Pictures, NEW n \in Notices,
                        pictures[i] # Null, pictures[i].notice = n, i \notin Collected,
                        notices'[n] # Null, i \in notices'[n].refs
                 PROVE  pictures'[i] # Null /\ pictures'[i].notice = n
      OBVIOUS
    <2>1. CASE OpsStep
      BY <2>1, OpsStepPictures DEF OpsInv
    <2>2. CASE UNCHANGED opsVars
      BY <2>2 DEF opsVars
    <2> QED
      BY <2>1, <2>2, OpsStepOrNot
  <1> QED
    BY <1>1, OpsHolds, PTL DEF Spec, PictureStays

=============================================================================
