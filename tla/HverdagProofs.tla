----------------------------- MODULE HverdagProofs -----------------------------
(* What the house does beside the list of the month: the accounts, the       *)
(* reports on the rooms, the invitations, the pictures and the move from the *)
(* old site, for every house and every number of requests at once.           *)
EXTENDS KontorProofs, DenHurtigeProofs, Sums

-----------------------------------------------------------------------------
(* Accounts *)

\* What the signals leave: is_staff is true of those who hold a role, and of nobody else.
LEMMA SignalsKeepStaff ==
  ASSUME NEW m \in Months, NEW rewritten, NEW some \in SUBSET Residents,
         \A r \in Residents \ some : r \in staff <=> HoldsARole(r),
         \A r \in Residents : \A n \in Months \ {m} : roles'[n][r] = roles[n][r],
         Signals(m, rewritten)
  PROVE  \A r \in Residents \ some : r \in staff' <=> HoldsARole(r)'
  <1> SUFFICES ASSUME NEW r \in Residents \ some
               PROVE  r \in staff' <=> HoldsARole(r)'
    OBVIOUS
  <1> DEFINE stirred == {q \in Residents : q \in rewritten \/ roles'[m][q] # roles[m][q]}
  <1>1. staff' = (staff \ stirred) \cup (stirred \cap HeldNow(m))
    BY DEF Signals
  <1>2. CASE r \in stirred
    BY <1>1, <1>2 DEF HeldNow
  <1>3. CASE r \notin stirred
    <2>1. \A n \in Months : roles'[n][r] = roles[n][r]
      BY <1>3
    <2>2. HoldsARole(r)' <=> HoldsARole(r)
      BY <2>1 DEF HoldsARole
    <2> QED
      BY <1>1, <1>3, <2>2
  <1> QED
    BY <1>2, <1>3

KontiInv == KontiTypeOK /\ StaffHoldsARole

LEMMA KontiInitInv ==
  ASSUME ListInit, KontiInit
  PROVE  KontiInv
  <1>1. staff = {r \in Residents : HoldsARole(r)}
    BY DEF ListInit
  <1>2. KontiTypeOK
    BY DEF KontiInit, KontiTypeOK
  <1>3. StaffHoldsARole
    <2> HIDE DEF HoldsARole
    <2> QED
      BY <1>1 DEF StaffHoldsARole
  <1> QED
    BY <1>2, <1>3 DEF KontiInv

\* The editor of a month and the page of roles: whatever they write of roles, the signals follow.
LEMMA EditorKeepsStaff ==
  ASSUME ListTypeOK, StaffHoldsARole, ListStep, overwritten' = overwritten
  PROVE  StaffHoldsARole'
  <1> USE DEF ListTypeOK
  <1>0. Active \in Months /\ Target \in Months
    BY ActiveIsMonth
  <1>1. ASSUME NEW m \in Months, NEW rewritten, NEW given, Signals(m, rewritten),
               roles' = [roles EXCEPT ![m] = given]
        PROVE  StaffHoldsARole'
    <2>1. \A r \in Residents : \A n \in Months \ {m} : roles'[n][r] = roles[n][r]
      BY <1>1
    <2>2. \A r \in Residents \ (overwritten \cap Residents) : r \in staff <=> HoldsARole(r)
      BY DEF StaffHoldsARole
    <2>3. \A r \in Residents \ (overwritten \cap Residents) : r \in staff' <=> HoldsARole(r)'
      <3> HIDE DEF ListTypeOK
      <3> QED
        BY <1>1, <2>1, <2>2, SignalsKeepStaff
    <2> QED
      BY <2>3 DEF StaffHoldsARole
  <1>2. CASE TurnMonth
    BY <1>2 DEF TurnMonth, StaffHoldsARole, HoldsARole
  <1>3. ASSUME NEW me \in Residents, NEW m \in {Active, Target}, CopyList(m, me)
        PROVE  StaffHoldsARole'
    BY <1>0, <1>1, <1>3 DEF CopyList
  <1>4. ASSUME NEW me \in Residents, NEW m \in {Active, Target}, NEW ticked \in SUBSET OnList(m),
               NEW rows \in [OnList(m) \ ticked -> Row], SaveList(m, me, ticked, rows)
        PROVE  StaffHoldsARole'
    BY <1>0, <1>1, <1>4 DEF SaveList
  <1>5. ASSUME NEW me \in Residents, NEW m \in {Active, Target}, NEW r \in Residents,
               NEW row \in Row, AddToList(m, me, r, row)
        PROVE  StaffHoldsARole'
    <2> DEFINE given == [roles[m] EXCEPT ![r] =
                           Synced(@, row.group, r \in accounts /\ r \in Administrators)]
    <2>1. roles' = [roles EXCEPT ![m] = given] /\ Signals(m, Resynced(m, {r}))
      BY <1>0, <1>5 DEF AddToList
    <2> HIDE DEF given
    <2> QED
      BY <1>0, <1>1, <2>1
  <1>6. ASSUME NEW me \in Residents, NEW r \in Residents, NEW role \in {"indstilling", "administrator"},
               NEW on \in BOOLEAN, SetRole(me, r, role, on)
        PROVE  StaffHoldsARole'
    <2>1. CASE ~on
      <3> DEFINE given == [roles[Active] EXCEPT ![r] = @ \ {role}]
      <3>1. roles' = [roles EXCEPT ![Active] = given] /\ Signals(Active, {})
        BY <1>0, <1>6, <2>1 DEF SetRole
      <3> HIDE DEF given
      <3> QED
        BY <1>0, <1>1, <3>1
    <2>2. CASE on
      <3>1. /\ staff' = staff \cup {r}
            /\ roles' = [roles EXCEPT ![Active][r] = @ \cup {role}]
        BY <1>6, <2>2 DEF SetRole
      <3>2. HoldsARole(r)'
        BY <1>0, <3>1 DEF HoldsARole
      <3>3. ASSUME NEW q \in Residents \ {r} PROVE HoldsARole(q)' <=> HoldsARole(q)
        <4>1. \A n \in Months : roles'[n][q] = roles[n][q]
          BY <1>0, <3>1
        <4> QED
          BY <4>1 DEF HoldsARole
      <3> QED
        BY <3>1, <3>2, <3>3 DEF StaffHoldsARole
    <2> QED
      BY <2>1, <2>2
  <1> QED
    BY <1>2, <1>3, <1>4, <1>5, <1>6 DEF ListStep

\* A form puts back what it read of one row; that row is one of those that are excepted.
LEMMA SigningKeeps ==
  ASSUME OmfangTypeOK, KontiInv, KontiStep
  PROVE  KontiInv'
  <1> USE DEF KontiInv, KontiTypeOK
  <1>1. ASSUME NEW me \in Residents, NEW r \in Residents, BeginRowSave(me, r)
        PROVE  KontiInv'
    <2>1. made["row"] \in Nat
      BY <1>1, KontiAssumption DEF OmfangTypeOK
    <2>2. [of |-> r, staff |-> r \in staff, n |-> made["row"]] \in RowSave
      BY <2>1 DEF RowSave
    <2> QED
      BY <1>1, <2>2 DEF BeginRowSave, listVars, StaffHoldsARole, HoldsARole
  <1>2. ASSUME NEW s \in rowSaves, EndRowSave(s)
        PROVE  KontiInv'
    <2>1. s.of \in Residents /\ s.staff \in BOOLEAN
      BY DEF RowSave
    <2>2. KontiTypeOK'
      BY <1>2, <2>1 DEF EndRowSave
    <2>3. ASSUME NEW r \in Residents \ overwritten'
          PROVE  (r \in staff' <=> r \in staff) /\ r \notin overwritten
      <3>1. CASE r # s.of
        BY <1>2, <2>3, <3>1 DEF EndRowSave
      <3>2. CASE r = s.of
        <4>1. s.staff = (s.of \in staff) /\ r \notin overwritten
          BY <1>2, <2>3, <3>2 DEF EndRowSave
        <4>2. r \in staff' <=> s.staff
          BY <1>2, <3>2 DEF EndRowSave
        <4> QED
          BY <2>1, <3>2, <4>1, <4>2
      <3> QED
        BY <3>1, <3>2
    <2>4. \A r \in Residents : HoldsARole(r)' <=> HoldsARole(r)
      BY <1>2 DEF EndRowSave, HoldsARole
    <2> QED
      BY <2>2, <2>3, <2>4 DEF StaffHoldsARole
  <1>3. ASSUME NEW me \in Residents, NEW as \in {{}, Null} \cup {{role} : role \in Roles},
               SetPreview(me, as)
        PROVE  KontiInv'
    BY <1>3 DEF SetPreview, listVars, StaffHoldsARole, HoldsARole
  <1> QED
    BY <1>1, <1>2, <1>3 DEF KontiStep

\* Nobody else writes is_staff, the open forms or the sessions.
LEMMA SigningOrNot ==
  ASSUME [Next]_vars
  PROVE  \/ KontiStep
         \/ EditStep /\ UNCHANGED kontiVars
         \/ EndMonth /\ UNCHANGED kontiVars
         \/ UNCHANGED <<roles, staff, kontiVars>>
  <1>1. CASE Living
    BY <1>1 DEF Living, HverdagStep, Signing, Checking, MovingIn, Looking, Inviting, TjekStep,
                OverStep, MedierStep, FestStep, listVars, kontiVars
  <1>2. CASE Rooming
    <2>1. SoegStep => EndMonth \/ UNCHANGED listVars
      BY DEF SoegStep, Apply, Withdraw, CreateOffer, CloseOffer, ResolveTie, BeginRound, ReadOffers,
             ReadPriorities, JudgeEntry
    <2> QED
      BY <1>2, <2>1 DEF Rooming, hverdagVars, listVars
  <1>3. CASE UNCHANGED vars
    BY <1>3 DEF vars, listVars, hverdagVars
  <1>4. CASE Deducting \/ Repairing \/ Posting \/ Noticing \/ Reading \/ Admitting \/ Publishing
    BY <1>4 DEF Deducting, Repairing, Posting, Noticing, Reading, Admitting, Publishing,
                AkStep, RepStep, DhStep, OpsStep, AdmStep, CmsStep, listVars, hverdagVars
  <1> QED
    BY <1>1, <1>2, <1>3, <1>4 DEF Next

LEMMA KontiHolds == Spec => [](KontiInv /\ OmfangTypeOK)
  <1>1. Init => KontiInv /\ OmfangTypeOK
    BY KontiInitInv, OmfangInit DEF Init, HverdagInit
  <1>2. RoundInv /\ KontiInv /\ OmfangTypeOK /\ [Next]_vars => (KontiInv /\ OmfangTypeOK)'
    <2> SUFFICES ASSUME RoundInv, KontiInv, OmfangTypeOK, [Next]_vars
                 PROVE  KontiInv' /\ OmfangTypeOK'
      OBVIOUS
    <2>1. CASE KontiStep
      BY <2>1, SigningKeeps, MadeGrows
    <2>2. CASE EditStep /\ UNCHANGED kontiVars
      <3>1. StaffHoldsARole'
        BY <2>2, EditorKeepsStaff DEF EditStep, RoundInv, KontiInv, kontiVars
      <3> QED
        BY <2>2, <3>1, MadeGrows DEF KontiInv, KontiTypeOK, kontiVars
    <2>3. CASE EndMonth /\ UNCHANGED kontiVars
      <3> DEFINE m == round.month
      <3>1. m \in Months /\ \A r \in Residents : \A n \in Months \ {m} : roles'[n][r] = roles[n][r]
        BY <2>3, EndMonthWrites
      <3>2. Signals(m, {r \in Evicted(Carried(m)) : CarriedRoles(m)[r] # {}})
        BY <2>3 DEF EndMonth
      <3>3. \A r \in Residents \ (overwritten \cap Residents) : r \in staff <=> HoldsARole(r)
        BY DEF KontiInv, StaffHoldsARole
      <3> HIDE DEF m
      <3>4. \A r \in Residents \ (overwritten \cap Residents) : r \in staff' <=> HoldsARole(r)'
        BY <3>1, <3>2, <3>3, SignalsKeepStaff
      <3> QED
        BY <2>3, <3>4, MadeGrows DEF KontiInv, KontiTypeOK, StaffHoldsARole, kontiVars
    <2>4. CASE UNCHANGED <<roles, staff, kontiVars>>
      BY <2>4, MadeGrows DEF KontiInv, KontiTypeOK, StaffHoldsARole, HoldsARole, kontiVars
    <2> QED
      BY <2>1, <2>2, <2>3, <2>4, SigningOrNot
  <1> QED
    BY <1>1, <1>2, RoundHolds, PTL DEF Spec

\* is_staff is true exactly of those who hold a role in some month, whichever page, editor or round
\* gives or takes it, but where a form has put back what it had read.
THEOREM StaffAlwaysHoldsARole == Spec => []StaffHoldsARole
  <1>1. KontiInv => StaffHoldsARole
    BY DEF KontiInv
  <1> QED
    BY <1>1, KontiHolds, PTL

\* The sidebar never offers a page that its reader may not open, also while he views the site as
\* somebody else, and after he has lost the role that let him.
THEOREM SidebarAlwaysLeadsThere == Spec => []SidebarLeadsThere
  <1>1. ASSUME ListTypeOK, StaffHoldsARole, NEW r \in accounts \ overwritten, NEW item \in Offered(r)
        PROVE  Opens(r, item)
    <2>1. item \in DOMAIN NavIntern /\ EffectiveRoles(r) \cap NavIntern[item] # {}
      BY <1>1 DEF Offered
    <2>2. CASE item # "cms"
      BY <2>1, <2>2 DEF NavIntern, Required, Opens, HasRole
    <2>3. CASE item = "cms"
      <3>1. EffectiveRoles(r) \cap CmsEditorRoles # {}
        BY <2>1, <2>3 DEF NavIntern
      <3>2. RealRoles(r) \cap CmsEditorRoles # {}
        BY <3>1 DEF EffectiveRoles, CanPreview, CmsEditorRoles
      <3>3. roles[Active][r] # {}
        BY <3>2 DEF RealRoles
      <3>4. HoldsARole(r) /\ r \in Residents \ overwritten
        BY <1>1, <3>3, ActiveIsMonth DEF HoldsARole, ListTypeOK
      <3> QED
        BY <1>1, <2>3, <3>2, <3>4 DEF Opens, StaffHoldsARole
    <2> QED
      BY <2>2, <2>3
  <1>2. ListTypeOK /\ StaffHoldsARole => SidebarLeadsThere
    BY <1>1 DEF SidebarLeadsThere
  <1> QED
    BY <1>2, ListHolds, StaffAlwaysHoldsARole, PTL

-----------------------------------------------------------------------------
(* Invitations *)

\* What a form under way has in hand: its number is its own and it is valid; once it has saved an open
\* event, everybody could see that; and if no other form of the event has been under way meanwhile, the
\* event is as it has saved it and the invitations are those that it knows.
DraftFits(d) ==
    /\ parties[d.of] # Null
    /\ d.n <= Saves
    /\ GuestsAreEnough(d.private, d.guests)
    /\ d.step # "save" /\ ~d.private => d.could = Residents
    /\ \A e \in drafts : e.n = d.n => e = d
    /\ d.alone =>
          /\ \A e \in drafts : e.of = d.of => e = d
          /\ d.step # "save" => parties[d.of].private = d.private
          /\ d.before = invites[d.of]
          /\ d.step = "write" => d.seen = invites[d.of]

\* What is still to be told: everybody could see the event that is in memory as an open one.
Waits(s, what) == s.what = what /\ parties[s.of] # Null /\ (~s.private => s.could = Residents)

\* What is being told: of an open event likewise; and the reminded could see the event, as it was read or
\* when it was looked up whom to remind.
SendFits(s) ==
    /\ s.what \in {"new", "changed", "cancelled"} /\ ~s.private => s.could = Residents
    /\ s.what = "reminder" => s.to \subseteq s.could \cup s.asked

FestInv ==
    /\ FestTypeOK
    /\ \A d \in drafts : DraftFits(d)
    /\ \A c \in cancels : Waits(c, "cancelled")
    /\ \A d \in dues : Waits(d, "reminder")
    /\ \A s \in sends : SendFits(s)

\* Forms are numbered, and no action takes a number back.
SavesGrow == Saves \in Nat /\ Saves' \in Nat /\ Saves' >= Saves

\* No action makes an event none.
PartiesStay == \A p \in Parties : parties[p] # Null => parties'[p] # Null

LEMMA FestInitInv ==
  ASSUME FestInit
  PROVE  FestInv
  BY DEF FestInit, FestInv, FestTypeOK, GuestList, Nobody

\* Who can see an event is residents.
LEMMA VisibleAre ==
  ASSUME NEW p \in Parties, parties[p] \in Party
  PROVE  VisibleTo(p) \in SUBSET Residents /\ (~parties[p].private => VisibleTo(p) = Residents)
  BY DEF VisibleTo, Hosts, Invited, Party

LEMMA VisibleThenAre ==
  ASSUME NEW p \in Parties, parties'[p] \in Party
  PROVE  VisibleTo(p)' \in SUBSET Residents /\ (~parties'[p].private => VisibleTo(p)' = Residents)
  BY DEF VisibleTo, Hosts, Invited, Party

\* What a thread will ask for is a notification.
LEMMA QueryIs ==
  ASSUME NEW what \in {"new", "changed", "cancelled", "reminder"}, NEW n \in Nat, NEW p \in Parties,
         NEW private \in BOOLEAN, NEW could \in SUBSET Residents
  PROVE  /\ Query(what, n, p, private, could) \in Send
         /\ Query(what, n, p, private, could).what = what
         /\ Query(what, n, p, private, could).of = p
         /\ Query(what, n, p, private, could).private = private
         /\ Query(what, n, p, private, could).could = could
  BY DEF Query, Send

\* What touches no form and neither a visibility nor an invitation leaves the forms as they are.
LEMMA FormsUndisturbed ==
  ASSUME FestInv, SavesGrow, UNCHANGED <<drafts, invites>>, PartiesStay,
         \A p \in Parties : parties[p] # Null => parties'[p].private = parties[p].private
  PROVE  \A d \in drafts' : DraftFits(d)'
  <1> SUFFICES ASSUME NEW d \in drafts PROVE DraftFits(d)'
    OBVIOUS
  <1>1. d.of \in Parties /\ d.n \in Nat /\ DraftFits(d)
    BY DEF FestInv, FestTypeOK, Draft
  <1> QED
    BY <1>1 DEF DraftFits, GuestsAreEnough, SavesGrow, PartiesStay

\* What is still to be told stays so.
LEMMA WaitingStays ==
  ASSUME FestInv, PartiesStay
  PROVE  /\ \A c \in cancels : Waits(c, "cancelled")'
         /\ \A d \in dues : Waits(d, "reminder")'
  BY DEF FestInv, FestTypeOK, Waits, Send, PartiesStay

\* A new event, and its form.
LEMMA CreateKeeps ==
  ASSUME OmfangTypeOK, FestInv, SavesGrow, NEW p \in Parties, NEW me \in Residents,
         NEW private \in BOOLEAN, NEW guests \in SUBSET Residents, CreateParty(p, me, private, guests)
  PROVE  FestInv'
  <1> DEFINE event == [organiser |-> me, with |-> {}, private |-> private, cancelled |-> FALSE]
             form == [n |-> Saves', of |-> p, what |-> "new", private |-> private, guests |-> guests,
                      cancelled |-> FALSE, step |-> "read", before |-> invites[p], seen |-> Nobody,
                      could |-> VisibleTo(p)', alone |-> TRUE]
  <1>1. event \in Party /\ event # Null
    <2>1. me \in Residents /\ {} \in SUBSET Residents /\ private \in BOOLEAN /\ FALSE \in BOOLEAN
      OBVIOUS
    <2>2. event \in Party
      BY ONLY <2>1 DEF Party
    <2> QED
      BY <2>2, FestAssumption
  <1> USE DEF FestInv
  <1>2. /\ parties' = [parties EXCEPT ![p] = event] /\ drafts' = drafts \cup {form}
        /\ UNCHANGED <<invites, lastInvite, coming, declined, cancels, dues, sends>>
        /\ parties[p] = Null /\ GuestsAreEnough(private, guests)
    BY DEF CreateParty
  <1>3. Saves' = Saves + 1
    BY FestAssumption DEF CreateParty, Make, Saves, OmfangTypeOK
  <1>4. parties' \in [Parties -> Party \cup {Null}] /\ parties'[p] \in Party
        /\ parties'[p].private = private
    BY <1>1, <1>2 DEF FestTypeOK
  <1>5. /\ VisibleTo(p)' \in SUBSET Residents
        /\ ~private => VisibleTo(p)' = Residents
    BY <1>4, VisibleThenAre
  <1>6. PICK new : new = form
    OBVIOUS
  <1>7. /\ new \in Draft
        /\ new.n = Saves' /\ new.of = p /\ new.private = private /\ new.guests = guests
        /\ new.step = "read" /\ new.before = invites[p] /\ new.could = VisibleTo(p)'
    BY <1>5, <1>6 DEF Draft, GuestList, Nobody, FestTypeOK, SavesGrow
  <1> HIDE DEF form
  <1>8. PartiesStay
    BY <1>1, <1>2 DEF PartiesStay, FestTypeOK
  <1>9. ASSUME NEW d \in drafts PROVE DraftFits(d)' /\ d.of # p /\ d.n # new.n
    <2>1. d.of \in Parties /\ d.n \in Nat /\ DraftFits(d)
      BY DEF FestTypeOK, Draft
    <2>2. d.of # p /\ d.n # new.n
      BY <1>2, <1>3, <1>7, <2>1 DEF DraftFits, SavesGrow
    <2>3. parties'[d.of] = parties[d.of]
      BY <1>2, <2>1, <2>2 DEF FestTypeOK
    <2> QED
      BY <1>2, <1>6, <1>7, <2>1, <2>2, <2>3 DEF DraftFits, GuestsAreEnough, SavesGrow
  <1>10. DraftFits(new)'
    <2>1. \A e \in drafts' : e.n = new.n \/ e.of = p => e = new
      BY <1>2, <1>6, <1>9
    <2> QED
      BY <1>1, <1>2, <1>4, <1>5, <1>7, <2>1 DEF DraftFits, GuestsAreEnough, SavesGrow, FestTypeOK
  <1>11. FestTypeOK'
    BY <1>2, <1>4, <1>6, <1>7 DEF FestTypeOK
  <1> QED
    BY <1>2, <1>6, <1>8, <1>9, <1>10, <1>11, WaitingStays

\* A form begins: those of the same event are not alone any more.
LEMMA BeginDraftKeeps ==
  ASSUME OmfangTypeOK, FestInv, SavesGrow, NEW p \in Parties, NEW me \in Residents,
         NEW private \in BOOLEAN, NEW guests \in SUBSET Residents, NEW matters \in BOOLEAN,
         BeginDraft(p, me, private, guests, matters)
  PROVE  FestInv'
  <1> USE DEF FestInv
  <1> DEFINE kept(d) == [d EXCEPT !.alone = @ /\ d.of # p]
             form == [n |-> Saves', of |-> p, what |-> IF matters THEN "changed" ELSE "kept",
                      private |-> private, guests |-> guests, cancelled |-> parties[p].cancelled,
                      step |-> "save", before |-> invites[p], seen |-> Nobody, could |-> {},
                      alone |-> OthersOf(p) = {}]
  <1>0. PICK new : new = form
    OBVIOUS
  <1>1. Saves' = Saves + 1 /\ Saves \in Nat
    BY FestAssumption DEF BeginDraft, Make, Saves, OmfangTypeOK
  <1>2. /\ drafts' = {kept(d) : d \in drafts} \cup {new}
        /\ UNCHANGED <<parties, invites, lastInvite, coming, declined, cancels, dues, sends>>
        /\ parties[p] # Null /\ GuestsAreEnough(private, guests)
    BY <1>0 DEF BeginDraft, MayManage, MayOpen
  <1>3. new \in Draft
    <2>1. parties[p].cancelled \in BOOLEAN
      BY <1>2 DEF FestTypeOK, Party
    <2> QED
      BY <1>0, <1>1, <2>1 DEF Draft, GuestList, Nobody, OthersOf, FestTypeOK
  <1>4. ASSUME NEW d \in drafts
        PROVE  /\ kept(d) \in Draft /\ kept(d).n = d.n /\ kept(d).of = d.of
               /\ kept(d).private = d.private /\ kept(d).guests = d.guests
               /\ kept(d).step = d.step /\ kept(d).before = d.before /\ kept(d).seen = d.seen
               /\ kept(d).could = d.could /\ kept(d).alone = (d.alone /\ d.of # p)
               /\ d.n <= Saves /\ d.n \in Nat
    BY DEF Draft, DraftFits, FestTypeOK
  <1>5. new.n = Saves + 1 /\ new.of = p /\ (new.alone => OthersOf(p) = {})
    BY <1>0, <1>1
  <1>6. /\ new.private = private /\ new.guests = guests /\ new.step = "save"
        /\ new.before = invites[p]
    BY <1>0
  <1> HIDE DEF kept, form
  <1>7. drafts' \subseteq Draft
    BY <1>2, <1>3, <1>4
  <1>8. ASSUME NEW d \in drafts PROVE DraftFits(kept(d))'
    <2>1. \A e \in drafts : e.n = d.n => e = d
      BY DEF DraftFits
    <2>2. \A e \in drafts' : e.n = kept(d).n => e = kept(d)
      BY <1>1, <1>2, <1>4, <1>5, <2>1
    <2>3. kept(d).alone => d.alone /\ d.of # p
      BY <1>4
    <2>4. kept(d).alone => \A e \in drafts' : e.of = kept(d).of => e = kept(d)
      BY <1>2, <1>4, <1>5, <2>3 DEF DraftFits
    <2>5. parties[d.of] # Null /\ GuestsAreEnough(d.private, d.guests)
          /\ (d.step # "save" /\ ~d.private => d.could = Residents)
          /\ (d.alone => /\ d.step # "save" => parties[d.of].private = d.private
                         /\ d.before = invites[d.of]
                         /\ d.step = "write" => d.seen = invites[d.of])
      BY DEF DraftFits
    <2>6. kept(d).n <= Saves'
      BY <1>1, <1>4
    <2> QED
      BY <1>2, <1>4, <2>2, <2>3, <2>4, <2>5, <2>6 DEF DraftFits, GuestsAreEnough
  <1>9. DraftFits(new)'
    <2>1. \A e \in drafts' : e.n = new.n => e = new
      BY <1>1, <1>2, <1>4, <1>5
    <2>2. new.alone => \A d \in drafts : kept(d).of # p
      BY <1>4, <1>5 DEF OthersOf
    <2>3. new.alone => \A e \in drafts' : e.of = new.of => e = new
      BY <1>2, <1>5, <2>2
    <2>4. new.n <= Saves' /\ parties'[new.of] # Null /\ new.before = invites'[new.of]
      BY <1>1, <1>2, <1>5, <1>6
    <2>5. GuestsAreEnough(new.private, new.guests)
      BY <1>2, <1>6
    <2> QED
      BY <1>6, <2>1, <2>3, <2>4, <2>5 DEF DraftFits, GuestsAreEnough
  <1>10. \A d \in drafts' : DraftFits(d)'
    BY <1>2, <1>8, <1>9
  <1>11. FestTypeOK' /\ PartiesStay
    BY <1>2, <1>7 DEF FestTypeOK, PartiesStay
  <1> QED
    BY <1>2, <1>10, <1>11, WaitingStays

\* A step of a form leaves the other forms as they are: what is written of its event is nothing that
\* another form counts on, for of the same event there is none that is alone.
LEMMA OtherDraftsFit ==
  ASSUME FestInv, NEW d \in drafts, NEW e \in drafts, e # d, SavesGrow,
         \A f \in drafts' : f \in drafts \/ (f.n = d.n /\ f.of = d.of),
         PartiesStay,
         \A p \in Parties \ {d.of} :
            /\ parties[p] # Null => parties'[p].private = parties[p].private
            /\ invites'[p] = invites[p]
  PROVE  DraftFits(e)'
  <1>1. DraftFits(e) /\ e \in Draft /\ d \in Draft
    BY DEF FestInv, FestTypeOK
  <1>2. e.n # d.n /\ (e.alone => e.of # d.of) /\ e.of \in Parties /\ e.n \in Nat
    BY <1>1 DEF DraftFits, Draft
  <1>3. \A f \in drafts' : f.n = e.n => f = e
    BY <1>1, <1>2 DEF DraftFits
  <1>4. e.alone => \A f \in drafts' : f.of = e.of => f = e
    BY <1>1, <1>2 DEF DraftFits
  <1>5. e.n <= Saves'
    BY <1>1, <1>2 DEF DraftFits, SavesGrow
  <1> QED
    BY <1>1, <1>2, <1>3, <1>4, <1>5 DEF DraftFits, GuestsAreEnough, PartiesStay

\* The form itself goes on.
LEMMA SameDraftFits ==
  ASSUME FestInv, NEW d \in drafts, NEW f, SavesGrow,
         f.n = d.n /\ f.of = d.of /\ f.private = d.private /\ f.guests = d.guests
             /\ f.alone = d.alone /\ f.before = d.before,
         f.step = "write" => f.seen = invites[d.of],
         ~d.private => f.could = Residents,
         drafts' = (drafts \ {d}) \cup {f},
         PartiesStay,
         d.alone => parties'[d.of].private = d.private,
         UNCHANGED invites
  PROVE  DraftFits(f)'
  <1>1. DraftFits(d) /\ d.of \in Parties /\ d.n \in Nat
    BY DEF FestInv, FestTypeOK, Draft
  <1>2. \A e \in drafts' : e.n = f.n => e = f
    BY <1>1 DEF DraftFits
  <1>3. f.alone => \A e \in drafts' : e.of = f.of => e = f
    BY <1>1 DEF DraftFits
  <1>4. f.n <= Saves'
    BY <1>1 DEF DraftFits, SavesGrow
  <1> QED
    BY <1>1, <1>2, <1>3, <1>4 DEF DraftFits, GuestsAreEnough, PartiesStay

\* What sync_invites makes of the guest list is one, and of an edit that knows it, that of its form.
LEMMA ReconciledDoes ==
  ASSUME FestInv, NEW d \in drafts
  PROVE  /\ Reconciled(d) \in GuestList
         /\ d.seen = invites[d.of] =>
              /\ ~AlreadyInvited(d)
              /\ {r \in Residents : Reconciled(d)[r] # 0} = d.guests
              /\ \A r \in d.guests : invites[d.of][r] # 0 => Reconciled(d)[r] = invites[d.of][r]
  <1>1. /\ d.of \in Parties /\ d.guests \subseteq Residents
        /\ invites[d.of] \in [Residents -> Nat] /\ lastInvite \in Nat
    BY DEF FestInv, FestTypeOK, Draft, GuestList
  <1>2. ASSUME NEW r \in Residents
        PROVE  /\ Reconciled(d)[r] \in {lastInvite + 1, 0, invites[d.of][r]}
               /\ d.seen = invites[d.of] =>
                    /\ Reconciled(d)[r] # 0 <=> r \in d.guests
                    /\ r \in d.guests /\ invites[d.of][r] # 0 => Reconciled(d)[r] = invites[d.of][r]
    BY <1>1 DEF Reconciled
  <1>3. Reconciled(d) = [r \in Residents |-> Reconciled(d)[r]]
    BY DEF Reconciled
  <1>4. Reconciled(d) \in GuestList
    <2>1. \A r \in Residents : Reconciled(d)[r] \in Nat
      BY <1>1, <1>2
    <2> HIDE DEF Reconciled
    <2> QED
      BY <1>3, <2>1 DEF GuestList
  <1>5. d.seen = invites[d.of] => ~AlreadyInvited(d)
    BY DEF AlreadyInvited, Invited
  <1> QED
    BY <1>1, <1>2, <1>4, <1>5

LEMMA DraftsKeep ==
  ASSUME FestInv, SavesGrow, NEW d \in drafts, SaveDraft(d) \/ ReadGuests(d) \/ WriteGuests(d)
  PROVE  FestInv'
  <1>0. DraftFits(d) /\ d \in Draft /\ d.of \in Parties /\ d.private \in BOOLEAN /\ d.n \in Nat
        /\ FestTypeOK
    BY DEF FestInv, FestTypeOK, Draft
  <1>1. ASSUME SaveDraft(d) PROVE FestInv'
    <2> DEFINE event == [parties[d.of] EXCEPT !.private = d.private, !.cancelled = d.cancelled]
               word == Query("changed", d.n, d.of, d.private, VisibleTo(d.of)')
    <2>1. PICK f : f = [d EXCEPT !.step = "read", !.could = VisibleTo(d.of)']
      OBVIOUS
    <2>2. /\ parties' = [parties EXCEPT ![d.of] = event]
          /\ drafts' = (drafts \ {d}) \cup {f}
          /\ sends' \subseteq sends \cup {word}
          /\ UNCHANGED <<invites, lastInvite, coming, declined, cancels, dues>>
      BY <1>1, <2>1 DEF SaveDraft
    <2>3. event \in Party /\ event # Null /\ event.private = d.private
      BY <1>0, FestAssumption DEF DraftFits, FestTypeOK, Party, Draft
    <2> HIDE DEF event
    <2>4. parties' \in [Parties -> Party \cup {Null}] /\ parties'[d.of] \in Party
          /\ parties'[d.of].private = d.private
      BY <1>0, <2>2, <2>3 DEF FestTypeOK
    <2>5. /\ VisibleTo(d.of)' \in SUBSET Residents
          /\ ~d.private => VisibleTo(d.of)' = Residents
      BY <1>0, <2>4, VisibleThenAre
    <2>6. /\ f \in Draft /\ f.step = "read" /\ f.could = VisibleTo(d.of)'
          /\ f.n = d.n /\ f.of = d.of /\ f.private = d.private /\ f.guests = d.guests
          /\ f.alone = d.alone /\ f.before = d.before
      BY <1>0, <2>1, <2>5 DEF Draft
    <2>7. word \in Send /\ SendFits(word)
      BY <1>0, <2>5, QueryIs DEF SendFits
    <2> HIDE DEF word
    <2>8. PartiesStay /\ \A p \in Parties \ {d.of} : parties'[p] = parties[p]
      BY <1>0, <2>2, <2>3 DEF FestTypeOK, PartiesStay
    <2>9. DraftFits(f)'
      BY <2>2, <2>4, <2>5, <2>6, <2>8, SameDraftFits
    <2>10. ASSUME NEW e \in drafts \ {d} PROVE DraftFits(e)'
      BY <2>2, <2>6, <2>8, OtherDraftsFit
    <2>11. FestTypeOK'
      BY <1>0, <2>2, <2>4, <2>6, <2>7 DEF FestTypeOK
    <2>12. (\A e \in drafts' : DraftFits(e)') /\ \A s \in sends' : SendFits(s)
      BY <2>2, <2>7, <2>9, <2>10 DEF FestInv
    <2> QED
      BY <2>2, <2>8, <2>11, <2>12, WaitingStays DEF FestInv
  <1>2. ASSUME ReadGuests(d) PROVE FestInv'
    <2>1. PICK f : f = [d EXCEPT !.step = "write", !.seen = invites[d.of]]
      OBVIOUS
    <2>2. /\ UNCHANGED <<parties, invites, lastInvite, coming, declined, cancels, dues, sends>>
          /\ drafts' = (drafts \ {d}) \cup {f} /\ d.step = "read"
      BY <1>2, <2>1 DEF ReadGuests
    <2>3. f \in Draft /\ f.seen = invites[d.of] /\ f.could = d.could
      BY <1>0, <2>1 DEF Draft, FestTypeOK
    <2>4. /\ f.n = d.n /\ f.of = d.of /\ f.private = d.private /\ f.guests = d.guests
          /\ f.alone = d.alone /\ f.before = d.before
      BY <1>0, <2>1 DEF Draft
    <2>5. d.alone => parties'[d.of].private = d.private
      BY <1>0, <2>2 DEF DraftFits
    <2>6. PartiesStay /\ (~d.private => f.could = Residents)
      BY <1>0, <2>2, <2>3 DEF PartiesStay, DraftFits
    <2>7. DraftFits(f)'
      BY <2>2, <2>3, <2>4, <2>5, <2>6, SameDraftFits
    <2>8. ASSUME NEW e \in drafts \ {d} PROVE DraftFits(e)'
      BY <2>2, <2>4, <2>6, OtherDraftsFit
    <2>9. FestTypeOK'
      BY <1>0, <2>2, <2>3 DEF FestTypeOK
    <2> QED
      BY <2>2, <2>6, <2>7, <2>8, <2>9, WaitingStays DEF FestInv
  <1>3. ASSUME WriteGuests(d) PROVE FestInv'
    <2> DEFINE word == Query("new", d.n, d.of, d.private, d.could)
    <2>1. /\ UNCHANGED <<parties, coming, declined, cancels, dues>> /\ lastInvite' = lastInvite + 1
          /\ drafts' = drafts \ {d} /\ d.step = "write"
          /\ sends' \subseteq sends \cup {word}
          /\ \/ invites' = invites
             \/ invites' = [invites EXCEPT ![d.of] = Reconciled(d)]
      BY <1>3 DEF WriteGuests
    <2>2. Reconciled(d) \in GuestList
      BY ReconciledDoes
    <2>3. invites' \in [Parties -> GuestList] /\ lastInvite' \in Nat
      BY <1>0, <2>1, <2>2 DEF FestTypeOK
    <2>4. \A p \in Parties \ {d.of} : invites'[p] = invites[p]
      BY <1>0, <2>1 DEF FestTypeOK
    <2>5. d.could \in SUBSET Residents /\ (~d.private => d.could = Residents)
      BY <1>0, <2>1 DEF Draft, DraftFits
    <2>6. word \in Send /\ SendFits(word)
      BY <1>0, <2>5, QueryIs DEF SendFits
    <2> HIDE DEF word
    <2>7. PartiesStay
      BY <2>1 DEF PartiesStay
    <2>8. ASSUME NEW e \in drafts \ {d} PROVE DraftFits(e)'
      BY <2>1, <2>4, <2>7, OtherDraftsFit
    <2>9. FestTypeOK'
      BY <1>0, <2>1, <2>3, <2>6 DEF FestTypeOK
    <2>10. \A s \in sends' : SendFits(s)
      BY <2>1, <2>6 DEF FestInv
    <2> QED
      BY <2>1, <2>7, <2>8, <2>9, <2>10, WaitingStays DEF FestInv
  <1> QED
    BY <1>1, <1>2, <1>3

\* Hosts, cancellations and answers.
LEMMA PagesKeep ==
  ASSUME OmfangTypeOK, FestInv, SavesGrow,
         \/ \E p \in Parties, r \in Residents :
              AppointHost(p, r) \/ BeginCancel(p, r) \/ \E yes \in BOOLEAN : Answer(p, r, yes)
         \/ \E c \in cancels : SaveCancel(c)
  PROVE  FestInv'
  <1> USE DEF FestInv
  <1>0. /\ made["cancel"] \in Nat /\ made["ja"] \in Nat
    BY FestAssumption DEF OmfangTypeOK
  <1>1. ASSUME NEW p \in Parties, NEW r \in Residents, AppointHost(p, r)
        PROVE  FestInv'
    <2> DEFINE event == [parties[p] EXCEPT !.with = parties[p].with \cup {r}]
    <2>1. /\ parties[p] \in Party
          /\ parties' = [parties EXCEPT ![p] = event]
          /\ UNCHANGED <<invites, lastInvite, coming, declined, drafts, cancels, dues, sends>>
      BY <1>1 DEF AppointHost, FestTypeOK
    <2>2. event \in Party /\ event # Null /\ event.private = parties[p].private
      BY <2>1, FestAssumption DEF Party
    <2> HIDE DEF event
    <2>3. /\ parties' \in [Parties -> Party \cup {Null}] /\ PartiesStay
          /\ \A q \in Parties : parties[q] # Null => parties'[q].private = parties[q].private
      BY <2>1, <2>2 DEF FestTypeOK, PartiesStay
    <2>4. FestTypeOK'
      BY <2>1, <2>3 DEF FestTypeOK
    <2> QED
      BY <2>1, <2>3, <2>4, FormsUndisturbed, WaitingStays
  <1>2. ASSUME NEW p \in Parties, NEW r \in Residents, BeginCancel(p, r)
        PROVE  FestInv'
    <2>0. PICK word : word = Query("cancelled", made'["cancel"], p, parties[p].private, VisibleTo(p))
      OBVIOUS
    <2>1. /\ parties[p] # Null /\ cancels' = cancels \cup {word}
          /\ UNCHANGED <<parties, invites, lastInvite, coming, declined, drafts, dues, sends>>
          /\ made'["cancel"] \in Nat
      BY <1>0, <1>2, <2>0, FestAssumption DEF BeginCancel, MayManage, MayOpen, Make, OmfangTypeOK
    <2>2. parties[p] \in Party /\ parties[p].private \in BOOLEAN
      BY <2>1 DEF FestTypeOK, Party
    <2>3. word \in Send /\ Waits(word, "cancelled")
      BY <2>0, <2>1, <2>2, VisibleAre, QueryIs DEF Waits
    <2>4. FestTypeOK' /\ PartiesStay
      BY <2>1, <2>3 DEF FestTypeOK, PartiesStay
    <2>5. Waits(word, "cancelled")'
      BY <2>1, <2>3 DEF Waits
    <2>6. \A d \in drafts' : DraftFits(d)'
      BY <2>1, <2>4, FormsUndisturbed
    <2> QED
      BY <2>1, <2>4, <2>5, <2>6, WaitingStays
  <1>3. ASSUME NEW p \in Parties, NEW r \in Residents, NEW yes \in BOOLEAN, Answer(p, r, yes)
        PROVE  FestInv'
    <2> DEFINE word(q) == [what |-> "promoted", n |-> made'["ja"], of |-> p,
                           private |-> parties[p].private, could |-> VisibleTo(p),
                           asked |-> VisibleTo(p), to |-> {q}]
               risen == (Seated(p)' \ Seated(p)) \ {r}
               place == CASE ~yes -> 0 [] yes /\ coming[p][r] = 0 -> made'["ja"]
                          [] OTHER -> coming[p][r]
    <2>1. /\ parties[p] # Null
          /\ UNCHANGED <<parties, invites, lastInvite, drafts, cancels, dues>>
          /\ made'["ja"] \in Nat
      BY <1>0, <1>3, FestAssumption DEF Answer, MayOpen, Make, OmfangTypeOK
    <2>2. /\ coming' = [coming EXCEPT ![p][r] = place]
          /\ declined' = [declined EXCEPT ![p] = IF yes THEN @ \ {r} ELSE @ \cup {r}]
          /\ sends' = sends \cup {word(q) : q \in risen}
      BY <1>3 DEF Answer
    <2>3. parties[p] \in Party /\ parties[p].private \in BOOLEAN
      BY <2>1 DEF FestTypeOK, Party
    <2>4. place \in Nat
      BY <2>1 DEF FestTypeOK, GuestList
    <2> HIDE DEF place
    <2>5. coming' \in [Parties -> GuestList] /\ declined' \in [Parties -> SUBSET Residents]
      BY <2>2, <2>4 DEF FestTypeOK, GuestList
    <2>6. risen \subseteq Residents
      BY DEF Seated, Coming
    <2> HIDE DEF risen
    <2>7. \A q \in risen : word(q) \in Send /\ SendFits(word(q))
      BY <2>1, <2>3, <2>6, VisibleAre DEF Send, SendFits
    <2> HIDE DEF word
    <2>8. FestTypeOK' /\ PartiesStay
      BY <2>1, <2>2, <2>5, <2>7 DEF FestTypeOK, PartiesStay
    <2>9. \A s \in sends' : SendFits(s)
      BY <2>2, <2>7
    <2>10. \A d \in drafts' : DraftFits(d)'
      BY <2>1, <2>8, FormsUndisturbed
    <2> QED
      BY <2>1, <2>8, <2>9, <2>10, WaitingStays
  <1>4. ASSUME NEW c \in cancels, SaveCancel(c)
        PROVE  FestInv'
    <2> DEFINE event == [parties[c.of] EXCEPT !.cancelled = TRUE]
    <2>1. c \in Send /\ c.of \in Parties /\ Waits(c, "cancelled")
      BY DEF FestTypeOK, Send
    <2>2. /\ parties' = [parties EXCEPT ![c.of] = event]
          /\ cancels' = cancels \ {c} /\ sends' = sends \cup {c}
          /\ UNCHANGED <<invites, lastInvite, coming, declined, drafts, dues>>
      BY <1>4 DEF SaveCancel
    <2>3. event \in Party /\ event # Null /\ event.private = parties[c.of].private
      BY <2>1, FestAssumption DEF Party, FestTypeOK, Waits
    <2> HIDE DEF event
    <2>4. /\ parties' \in [Parties -> Party \cup {Null}] /\ PartiesStay
          /\ \A q \in Parties : parties[q] # Null => parties'[q].private = parties[q].private
      BY <2>1, <2>2, <2>3 DEF FestTypeOK, PartiesStay
    <2>5. FestTypeOK'
      BY <2>1, <2>2, <2>4 DEF FestTypeOK
    <2>6. SendFits(c)
      BY <2>1 DEF Waits, SendFits
    <2>7. \A d \in drafts' : DraftFits(d)'
      BY <2>2, <2>4, FormsUndisturbed
    <2> QED
      BY <2>2, <2>4, <2>5, <2>6, <2>7, WaitingStays
  <1> QED
    BY <1>1, <1>2, <1>3, <1>4

\* Reminders, and whatever goes out.
LEMMA NudgesKeep ==
  ASSUME OmfangTypeOK, FestInv, SavesGrow,
         \/ \E due \in SUBSET Parties : BeginNudge(due)
         \/ \E d \in dues : AskWhom(d)
         \/ \E s \in sends : Deliver(s)
  PROVE  FestInv'
  <1> USE DEF FestInv
  <1>1. ASSUME NEW due \in SUBSET Parties, BeginNudge(due)
        PROVE  FestInv'
    <2> DEFINE word(p) == Query("reminder", made'["nudge"], p, parties[p].private, VisibleTo(p))
    <2>1. /\ \A p \in due : parties[p] # Null
          /\ dues' = dues \cup {word(p) : p \in due}
          /\ UNCHANGED <<parties, invites, lastInvite, coming, declined, drafts, cancels, sends>>
          /\ made'["nudge"] \in Nat
      BY <1>1, FestAssumption DEF BeginNudge, Make, OmfangTypeOK
    <2>2. ASSUME NEW p \in due PROVE word(p) \in Send /\ Waits(word(p), "reminder")
      <3>1. p \in Parties /\ parties[p] \in Party /\ parties[p].private \in BOOLEAN
        BY <2>1 DEF FestTypeOK, Party
      <3> QED
        BY <2>1, <3>1, VisibleAre, QueryIs DEF Waits
    <2> HIDE DEF word
    <2>3. FestTypeOK' /\ PartiesStay
      BY <2>1, <2>2 DEF FestTypeOK, PartiesStay
    <2>4. \A d \in dues' : Waits(d, "reminder")'
      BY <2>1, <2>2 DEF Waits
    <2>5. \A d \in drafts' : DraftFits(d)'
      BY <2>1, <2>3, FormsUndisturbed
    <2> QED
      BY <2>1, <2>3, <2>4, <2>5, WaitingStays
  <1>2. ASSUME NEW d \in dues, AskWhom(d)
        PROVE  FestInv'
    <2>1. d \in Send /\ d.of \in Parties /\ Waits(d, "reminder") /\ parties[d.of] \in Party
      BY DEF FestTypeOK, Send, Waits
    <2>2. PICK s : s = [d EXCEPT !.asked = VisibleTo(d.of), !.to = Undecided(d)]
      OBVIOUS
    <2>3. /\ dues' = dues \ {d} /\ sends' = sends \cup {s}
          /\ UNCHANGED <<parties, invites, lastInvite, coming, declined, drafts, cancels>>
      BY <1>2, <2>2 DEF AskWhom
    <2>4. Undecided(d) \in SUBSET Residents /\ VisibleTo(d.of) \in SUBSET Residents
      BY <2>1, VisibleAre DEF Undecided, Invited, OnList
    <2>5. s \in Send /\ s.to = Undecided(d) /\ s.asked = VisibleTo(d.of) /\ s.could = d.could
          /\ s.what = "reminder"
      BY <2>1, <2>2, <2>4 DEF Send, Waits
    <2>6. Undecided(d) \subseteq d.could \cup VisibleTo(d.of)
      <3>1. CASE d.private
        BY <2>1, <3>1 DEF Undecided, VisibleTo, Invited
      <3>2. CASE ~d.private
        BY <2>1, <2>4, <3>2 DEF Waits
      <3> QED
        BY <3>1, <3>2
    <2>7. SendFits(s)
      BY <2>5, <2>6 DEF SendFits
    <2>8. FestTypeOK' /\ PartiesStay
      BY <2>3, <2>5 DEF FestTypeOK, PartiesStay
    <2>9. \A e \in drafts' : DraftFits(e)'
      BY <2>3, <2>8, FormsUndisturbed
    <2> QED
      BY <2>3, <2>7, <2>8, <2>9, WaitingStays
  <1>3. ASSUME NEW s \in sends, Deliver(s)
        PROVE  FestInv'
    <2>1. /\ sends' \subseteq sends
          /\ UNCHANGED <<parties, invites, lastInvite, coming, declined, drafts, cancels, dues>>
      BY <1>3 DEF Deliver
    <2>2. FestTypeOK' /\ PartiesStay
      BY <2>1 DEF FestTypeOK, PartiesStay
    <2>3. \A d \in drafts' : DraftFits(d)'
      BY <2>1, <2>2, FormsUndisturbed
    <2> QED
      BY <2>1, <2>2, <2>3, WaitingStays
  <1> QED
    BY <1>1, <1>2, <1>3

\* Nobody else writes the events and their guest lists.
LEMMA InvitingOrNot ==
  ASSUME [Next]_vars
  PROVE  FestStep \/ UNCHANGED festVars
  <1>1. CASE Living
    BY <1>1 DEF Living, HverdagStep, Signing, Checking, MovingIn, Looking, Inviting
  <1>2. CASE UNCHANGED vars
    BY <1>2 DEF vars, hverdagVars
  <1>3. CASE \/ Rooming \/ Deducting \/ Repairing \/ Posting \/ Noticing \/ Reading \/ Admitting
             \/ Publishing
    BY <1>3 DEF Rooming, Deducting, Repairing, Posting, Noticing, Reading, Admitting, Publishing,
                hverdagVars
  <1> QED
    BY <1>1, <1>2, <1>3 DEF Next

LEMMA SavesOnlyGrow ==
  ASSUME OmfangTypeOK, [Next]_vars
  PROVE  SavesGrow /\ OmfangTypeOK'
  <1>1. OmfangTypeOK' /\ \A k \in {"draft", "change", "party"} : made'[k] >= made[k]
    BY MadeGrows, FestAssumption
  <1>2. /\ made["draft"] \in Nat /\ made'["draft"] \in Nat
        /\ made["change"] \in Nat /\ made'["change"] \in Nat
        /\ made["party"] \in Nat /\ made'["party"] \in Nat
    BY <1>1, FestAssumption DEF OmfangTypeOK
  <1> QED
    BY <1>1, <1>2 DEF SavesGrow, Saves

LEMMA FestHolds == Spec => [](FestInv /\ OmfangTypeOK)
  <1>1. Init => FestInv /\ OmfangTypeOK
    BY FestInitInv, OmfangInit DEF Init, HverdagInit
  <1>2. FestInv /\ OmfangTypeOK /\ [Next]_vars => (FestInv /\ OmfangTypeOK)'
    <2> SUFFICES ASSUME FestInv, OmfangTypeOK, [Next]_vars
                 PROVE  FestInv' /\ OmfangTypeOK'
      OBVIOUS
    <2>0. SavesGrow /\ OmfangTypeOK'
      BY SavesOnlyGrow
    <2>1. CASE FestStep
      <3>1. CASE \E d \in drafts : SaveDraft(d) \/ ReadGuests(d) \/ WriteGuests(d)
        BY <2>0, <3>1, DraftsKeep
      <3>2. CASE \E p \in Parties, me \in Residents, private \in BOOLEAN, guests \in SUBSET Residents,
                    matters \in BOOLEAN : BeginDraft(p, me, private, guests, matters)
        BY <2>0, <3>2, BeginDraftKeeps
      <3>3. CASE \E p \in Parties, me \in Residents, private \in BOOLEAN, guests \in SUBSET Residents :
                    CreateParty(p, me, private, guests)
        BY <2>0, <3>3, CreateKeeps
      <3> QED
        BY <2>0, <2>1, <3>1, <3>2, <3>3, PagesKeep, NudgesKeep DEF FestStep
    <2>2. CASE UNCHANGED festVars
      <3>1. PartiesStay /\ FestTypeOK'
        BY <2>2 DEF festVars, PartiesStay, FestInv, FestTypeOK
      <3>2. \A d \in drafts' : DraftFits(d)'
        BY <2>0, <2>2, <3>1, FormsUndisturbed DEF festVars
      <3> QED
        BY <2>0, <2>2, <3>1, <3>2, WaitingStays DEF festVars, FestInv
    <2> QED
      BY <2>1, <2>2, InvitingOrNot
  <1> QED
    BY <1>1, <1>2, PTL DEF Spec

\* Whoever is told of an event by a thread or in a round of reminders can open it, or could when it was
\* looked up whom to tell, or when the page read or saved it; whichever forms overlap.
THEOREM ToldAlwaysMayCome == Spec => []ToldMayCome
  <1>1. ASSUME FestInv, NEW s \in sends, s.what # "promoted"
        PROVE  Told(s) \subseteq s.could \cup s.asked \cup VisibleTo(s.of)
    <2>1. s \in Send /\ SendFits(s)
      BY <1>1 DEF FestInv, FestTypeOK
    <2>2. CASE s.what = "reminder"
      BY <2>1, <2>2 DEF Told, SendFits
    <2>3. CASE s.what \in {"new", "changed", "cancelled"}
      <3>1. Told(s) \subseteq Audience(s)
        BY <2>3 DEF Told
      <3>2. Audience(s) \subseteq Residents /\ (s.private => Audience(s) \subseteq Invited(s.of))
        BY DEF Audience
      <3>3. Invited(s.of) \subseteq VisibleTo(s.of)
        BY DEF VisibleTo, Invited
      <3>4. ~s.private => s.could = Residents
        BY <2>1, <2>3 DEF SendFits
      <3> QED
        BY <3>1, <3>2, <3>3, <3>4
    <2> QED
      BY <1>1, <2>1, <2>2, <2>3 DEF Send
  <1>2. FestInv => ToldMayCome
    BY <1>1 DEF ToldMayCome
  <1> QED
    BY <1>2, FestHolds, PTL

\* A form that no other of the event overlaps ends with the guest list of its form, whoever stays
\* keeps his invitation, and an event for those invited has guests enough.
THEOREM EditAlwaysTakesHold == Spec => EditTakesHold
  <1>1. ASSUME FestInv, [Next]_vars, NEW d \in drafts, d.step = "write", d.alone,
               \A e \in drafts' : e.n # d.n
        PROVE  /\ Invited(d.of)' = d.guests
               /\ \A r \in d.guests : d.before[r] # 0 => invites'[d.of][r] = d.before[r]
               /\ GuestsAreEnough(parties'[d.of].private, Invited(d.of)')
    <2>0. DraftFits(d) /\ d \in Draft /\ d.of \in Parties /\ d.guests \subseteq Residents /\ FestTypeOK
      BY <1>1 DEF FestInv, FestTypeOK, Draft
    <2>1. WriteGuests(d)
      <3>1. d \notin drafts'
        BY <1>1
      <3>2. FestStep
        BY <1>1, <3>1, InvitingOrNot DEF festVars
      <3>3. ASSUME NEW e \in drafts, SaveDraft(e) \/ ReadGuests(e) \/ WriteGuests(e)
            PROVE  WriteGuests(d)
        <4>1. drafts \ {e} \subseteq drafts'
          BY <3>3 DEF SaveDraft, ReadGuests, WriteGuests
        <4>2. e = d
          BY <3>1, <4>1
        <4> QED
          BY <1>1, <3>3, <4>2 DEF SaveDraft, ReadGuests
      <3>4. ASSUME NEW p \in Parties, NEW me \in Residents, NEW private \in BOOLEAN,
                   NEW guests \in SUBSET Residents, NEW matters \in BOOLEAN,
                   BeginDraft(p, me, private, guests, matters)
            PROVE  FALSE
        <4>1. [d EXCEPT !.alone = @ /\ d.of # p] \in drafts'
          BY <3>4 DEF BeginDraft
        <4>2. [d EXCEPT !.alone = @ /\ d.of # p].n = d.n
          BY <2>0 DEF Draft
        <4> QED
          BY <1>1, <4>1, <4>2
      <3>5. ASSUME \/ \E p \in Parties, me \in Residents, private \in BOOLEAN,
                        guests \in SUBSET Residents : CreateParty(p, me, private, guests)
                   \/ \E p \in Parties, r \in Residents :
                        AppointHost(p, r) \/ BeginCancel(p, r) \/ \E yes \in BOOLEAN : Answer(p, r, yes)
                   \/ \E due \in SUBSET Parties : BeginNudge(due)
                   \/ \E c \in cancels : SaveCancel(c)
                   \/ \E e \in dues : AskWhom(e)
                   \/ \E s \in sends : Deliver(s)
            PROVE  FALSE
        <4>1. drafts \subseteq drafts'
          BY <3>5 DEF CreateParty, AppointHost, BeginCancel, Answer, BeginNudge, SaveCancel, AskWhom,
                      Deliver
        <4> QED
          BY <3>1, <4>1
      <3> QED
        BY <3>2, <3>3, <3>4, <3>5 DEF FestStep
    <2>2. /\ d.seen = invites[d.of] /\ d.before = invites[d.of]
          /\ parties[d.of].private = d.private /\ GuestsAreEnough(d.private, d.guests)
      BY <1>1, <2>0 DEF DraftFits
    <2>3. parties' = parties /\ invites' = [invites EXCEPT ![d.of] = Reconciled(d)]
      BY <1>1, <2>1, <2>2, ReconciledDoes DEF WriteGuests
    <2>4. invites'[d.of] = Reconciled(d)
      BY <2>0, <2>3 DEF FestTypeOK
    <2>5. Invited(d.of)' = d.guests
      BY <1>1, <2>2, <2>4, ReconciledDoes DEF Invited
    <2> QED
      BY <1>1, <2>2, <2>3, <2>4, <2>5, ReconciledDoes
  <1>2. FestInv /\ [Next]_vars =>
          [\A d \in drafts :
             d.step = "write" /\ d.alone /\ (\A e \in drafts' : e.n # d.n) =>
                 /\ Invited(d.of)' = d.guests
                 /\ \A r \in d.guests : d.before[r] # 0 => invites'[d.of][r] = d.before[r]
                 /\ GuestsAreEnough(parties'[d.of].private, Invited(d.of)')]_festVars
    BY <1>1
  <1> QED
    BY <1>2, FestHolds, PTL DEF Spec, EditTakesHold

-----------------------------------------------------------------------------
(* Numbers of rows: lemmas *)

\* The largest id of a table.
LEMMA LargestIs ==
  ASSUME NEW S \in SUBSET Nat, IsFiniteSet(S)
  PROVE  Largest(S) \in Nat /\ \A m \in S : m <= Largest(S)
  <1>1. CASE S = {}
    BY <1>1 DEF Largest
  <1>2. CASE S # {}
    <2>1. \E n \in S : \A m \in S : n >= m
      <3>1. PICK n \in S : \A m \in S : m <= n
        BY <1>2, GreatestOf
      <3> QED
        BY <3>1
    <2>2. Sets!Max(S) \in S /\ \A m \in S : Sets!Max(S) >= m
      BY <2>1 DEF Sets!Max
    <2> QED
      BY <1>2, <2>2 DEF Largest
  <1> QED
    BY <1>1, <1>2

\* Each place among finitely many numbers is one of theirs.
LEMMA PlaceIsTaken ==
  ASSUME NEW S \in SUBSET Nat, IsFiniteSet(S), NEW k \in 1..Cardinality(S)
  PROVE  \E n \in S : PlaceIn(n, S) = k
  <1> DEFINE upTo(n) == {j \in S : j <= n}
             late == {n \in S : PlaceIn(n, S) >= k}
  <1>1. \A T \in SUBSET S : IsFiniteSet(T) /\ Cardinality(T) \in Nat
    BY FS_Subset, FS_CardinalityType
  <1>2. Cardinality(S) \in Nat /\ S # {}
    BY <1>1, FS_EmptySet
  <1>3. late # {}
    <2>1. PICK n \in S : \A m \in S : m <= n
      BY <1>2, GreatestOf
    <2>2. upTo(n) = S
      BY <2>1
    <2>3. PlaceIn(n, S) = Cardinality(S)
      BY <2>2 DEF PlaceIn
    <2> QED
      BY <1>2, <2>3
  <1>4. PICK n \in late : \A m \in late : n <= m
    <2> HIDE DEF late
    <2>1. late \in SUBSET Nat
      BY DEF late
    <2> QED
      BY <1>3, <2>1, LeastOf
  <1>5. n \in S /\ n \in Nat /\ PlaceIn(n, S) \in Nat /\ PlaceIn(n, S) >= k
    <2>1. upTo(n) \in SUBSET S
      OBVIOUS
    <2> QED
      BY <1>1, <1>4, <2>1 DEF PlaceIn
  <1>6. ASSUME PlaceIn(n, S) > k PROVE FALSE
    <2> DEFINE before == upTo(n) \ {n}
    <2>1. IsFiniteSet(before) /\ Cardinality(before) = PlaceIn(n, S) - 1 /\ before \in SUBSET S
      <3>1. n \in upTo(n) /\ upTo(n) \in SUBSET S
        BY <1>5
      <3> QED
        BY <1>1, <3>1, FS_RemoveElement DEF PlaceIn
    <2>2. before # {} /\ Cardinality(before) >= k
      BY <1>5, <1>6, <2>1, FS_EmptySet
    <2>3. before \in SUBSET Nat
      BY <2>1
    <2>4. PICK m \in before : \A j \in before : j <= m
      <3> HIDE DEF before
      <3> QED
        BY <2>1, <2>2, <2>3, GreatestOf
    <2>5. m \in S /\ m \in Nat /\ m < n
      BY <1>5, <2>4
    <2>6. upTo(m) = before
      <3>1. ASSUME NEW j \in upTo(m) PROVE j \in before
        <4>1. j \in Nat /\ j \in S /\ j <= m
          BY <3>1
        <4>2. j <= n /\ j # n
          BY <1>5, <2>5, <4>1
        <4> QED
          BY <4>1, <4>2
      <3>2. ASSUME NEW j \in before PROVE j \in upTo(m)
        BY <2>4, <3>2
      <3> QED
        BY <3>1, <3>2
    <2>7. m \in late
      BY <2>2, <2>5, <2>6 DEF PlaceIn
    <2> QED
      BY <1>4, <1>5, <2>5, <2>7
  <1> QED
    BY <1>5, <1>6

\* The places of different numbers are different, and there are as many as numbers.
LEMMA PlacesDiffer ==
  ASSUME NEW S \in SUBSET Nat, IsFiniteSet(S)
  PROVE  /\ \A n \in S : PlaceIn(n, S) \in 1..Cardinality(S)
         /\ \A m, n \in S : PlaceIn(m, S) = PlaceIn(n, S) => m = n
  <1> DEFINE upTo(n) == {j \in S : j <= n}
  <1>1. ASSUME NEW n \in S PROVE PlaceIn(n, S) \in 1..Cardinality(S) /\ PlaceIn(n, S) \in Nat
    <2>1. upTo(n) \in SUBSET S /\ n \in upTo(n)
      OBVIOUS
    <2>2. /\ IsFiniteSet(upTo(n)) /\ Cardinality(upTo(n)) <= Cardinality(S)
          /\ Cardinality(upTo(n)) \in Nat /\ Cardinality(S) \in Nat
      BY <2>1, FS_Subset, FS_CardinalityType
    <2>3. Cardinality(upTo(n)) # 0
      BY <2>1, <2>2, FS_EmptySet
    <2> QED
      BY <2>2, <2>3 DEF PlaceIn
  <1>2. ASSUME NEW m \in S, NEW n \in S, m < n PROVE PlaceIn(m, S) # PlaceIn(n, S)
    <2>1. upTo(m) \in SUBSET upTo(n) /\ n \in upTo(n) /\ n \notin upTo(m)
      <3>1. m \in Nat /\ n \in Nat /\ n <= n /\ ~(n <= m)
        BY <1>2
      <3>2. \A j \in S : j <= m => j <= n
        BY <1>2
      <3>3. upTo(m) \in SUBSET upTo(n)
        BY <3>2
      <3>4. n \in upTo(n)
        BY <3>1
      <3>5. n \notin upTo(m)
        BY <3>1
      <3> QED
        BY <3>3, <3>4, <3>5
    <2>2. IsFiniteSet(upTo(n))
      BY FS_Subset
    <2>3. ASSUME Cardinality(upTo(n)) = Cardinality(upTo(m)) PROVE FALSE
      <3> HIDE DEF upTo
      <3> QED
        BY <2>1, <2>2, <2>3, FS_Subset
    <2> QED
      BY <2>3 DEF PlaceIn
  <1>3. \A m, n \in S : m < n \/ m = n \/ n < m
    OBVIOUS
  <1> QED
    BY <1>1, <1>2, <1>3

\* The row that is given the number of a place.
LEMMA TheSource ==
  ASSUME NEW S \in SUBSET Nat, IsFiniteSet(S), NEW L \in Nat, NEW n \in S
  PROVE  /\ L + PlaceIn(n, S) \in (L + 1)..(L + Cardinality(S))
         /\ (CHOOSE m \in S : L + PlaceIn(m, S) = L + PlaceIn(n, S)) = n
  <1>1. /\ \A m \in S : PlaceIn(m, S) \in 1..Cardinality(S)
        /\ \A m \in S : PlaceIn(m, S) = PlaceIn(n, S) => m = n
        /\ Cardinality(S) \in Nat
    BY PlacesDiffer, FS_CardinalityType
  <1>2. \A m \in S : L + PlaceIn(m, S) = L + PlaceIn(n, S) => m = n
    BY <1>1
  <1>3. L + PlaceIn(n, S) \in (L + 1)..(L + Cardinality(S))
    BY <1>1
  <1> QED
    BY <1>2, <1>3

\* As many rows as are copied are there.
LEMMA SameNumber ==
  ASSUME NEW S, IsFiniteSet(S), NEW name, \A x, y \in S : name[x] = name[y] => x = y
  PROVE  IsFiniteSet({name[x] : x \in S}) /\ Cardinality({name[x] : x \in S}) = Cardinality(S)
  <1> DEFINE T == {name[x] : x \in S}
             f == [x \in S |-> name[x]]
  <1>1. f \in Bijection(S, T)
    <2>1. f \in [S -> T]
      OBVIOUS
    <2>2. \A t \in T : \E x \in S : f[x] = t
      OBVIOUS
    <2>3. \A x, y \in S : f[x] = f[y] => x = y
      OBVIOUS
    <2> HIDE DEF f, T
    <2> QED
      BY <2>1, <2>2, <2>3 DEF Bijection, Injection, Surjection, IsInjective
  <1>2. ExistsBijection(S, T)
    BY <1>1 DEF ExistsBijection
  <1> HIDE DEF T
  <1>3. IsFiniteSet(T) /\ Cardinality(T) = Cardinality(S)
    BY <1>2, FS_Bijection
  <1> QED
    BY <1>3 DEF T

-----------------------------------------------------------------------------
(* The move from the old site *)

IdsOK(ids) == ids \subseteq Nat /\ IsFiniteSet(ids)

\* The tables of the new site: their ids, who is a resident and what is a room.
TablesFit(s) ==
    /\ DOMAIN s = DOMAIN EmptySite
    /\ s.last \in [Tables -> Nat]
    /\ s.rooms \subseteq Rooms
    /\ \A i \in DOMAIN s.residents : s.residents[i] \in Residents
    /\ \A t \in Tables : IdsOK(DOMAIN s[t])

OverInv == OverTypeOK /\ TablesFit(site)

LEMMA SiteKeys ==
  DOMAIN EmptySite =
    {"rooms", "residents", "roles", "residencies", "letters", "krydser", "wishes", "priorities",
     "shoppers", "sales", "deposits", "visits", "last"}
  BY DEF EmptySite

LEMMA DumpFits ==
  ASSUME OverTypeOK
  PROVE  /\ \A ids \in OldIds(dump) : IdsOK(ids)
         /\ \A i \in DOMAIN dump.alumner : dump.alumner[i] \in Residents \cup {Null}
         /\ \A n \in DOMAIN dump.reports : dump.reports[n].date \in Dates /\ dump.reports[n].newest \in BOOLEAN
  BY OverflytningAssumption DEF OverTypeOK, dump, IdsOK

\* The ids of a part of a table, and of two tables together.
LEMMA FewerIds ==
  ASSUME NEW ids, IdsOK(ids), NEW some \in SUBSET ids
  PROVE  IdsOK(some) /\ Cardinality(some) \in Nat
  BY FS_Subset, FS_CardinalityType DEF IdsOK

LEMMA UpsertedIs ==
  ASSUME NEW table, NEW rows, IdsOK(DOMAIN table), IdsOK(DOMAIN rows)
  PROVE  /\ IdsOK(DOMAIN Upserted(table, rows))
         /\ DOMAIN Upserted(table, rows) = DOMAIN table \cup DOMAIN rows
  <1>1. DOMAIN Upserted(table, rows) = DOMAIN table \cup DOMAIN rows
    BY DEF Upserted
  <1> QED
    BY <1>1, FS_Union DEF IdsOK

\* A command that rewrites one of the tables that are written to on the new site too.
LEMMA OneTable ==
  ASSUME TablesFit(site), NEW t \in Tables, NEW rows, IdsOK(DOMAIN rows)
  PROVE  TablesFit([site EXCEPT ![t] = rows])
  <1> DEFINE s == [site EXCEPT ![t] = rows]
  <1>1. t \in DOMAIN site /\ t \notin {"rooms", "residents", "last"}
    BY SiteKeys DEF TablesFit, Tables
  <1>2. /\ DOMAIN s = DOMAIN site /\ s.rooms = site.rooms /\ s.residents = site.residents
        /\ s.last = site.last
        /\ \A u \in Tables : s[u] = IF u = t THEN rows ELSE site[u]
    BY <1>1, SiteKeys DEF TablesFit, Tables
  <1> HIDE DEF s
  <1>3. TablesFit(s)
    BY <1>2 DEF TablesFit
  <1> QED
    BY <1>3 DEF s

\* One that rewrites a table that nothing else here is about.
LEMMA OtherTable ==
  ASSUME NEW x, TablesFit(x), NEW t \in {"roles", "residencies", "priorities", "visits"}, NEW rows
  PROVE  TablesFit([x EXCEPT ![t] = rows])
  <1> DEFINE s == [x EXCEPT ![t] = rows]
  <1>1. /\ DOMAIN s = DOMAIN x /\ s.rooms = x.rooms /\ s.residents = x.residents
        /\ s.last = x.last
        /\ \A u \in Tables : s[u] = x[u]
    BY SiteKeys DEF TablesFit, Tables
  <1> HIDE DEF s
  <1>2. TablesFit(s)
    BY <1>1 DEF TablesFit
  <1> QED
    BY <1>2 DEF s

LEMMA SeedRoomsFits ==
  ASSUME TablesFit(site)
  PROVE  TablesFit(SeedRooms)
  <1>1. /\ DOMAIN SeedRooms = DOMAIN site /\ SeedRooms.rooms = House
        /\ SeedRooms.residents = site.residents /\ SeedRooms.last = site.last
        /\ \A u \in Tables : SeedRooms[u] = site[u]
    BY SiteKeys DEF SeedRooms, TablesFit, Tables
  <1> QED
    BY <1>1, OverflytningAssumption DEF TablesFit

LEMMA EtlResidentsFits ==
  ASSUME OverTypeOK, TablesFit(site)
  PROVE  TablesFit(EtlResidents)
  <1> DEFINE s == EtlResidents
             fresh == [i \in KeptIds |-> dump.alumner[i]]
  <1>1. CASE site.rooms = {}
    BY <1>1 DEF EtlResidents
  <1>2. CASE site.rooms # {}
    <2>1. /\ DOMAIN s = DOMAIN site /\ s.rooms = site.rooms /\ s.last = site.last
          /\ s.residents = Upserted(site.residents, fresh)
          /\ \A u \in Tables : s[u] = site[u]
      BY <1>2, SiteKeys DEF EtlResidents, TablesFit, Tables
    <2>2. \A i \in KeptIds : dump.alumner[i] \in Residents
      <3>1. \A i \in KeptIds : i \in DOMAIN dump.alumner /\ dump.alumner[i] # Null
        BY DEF KeptIds, Remap
      <3> QED
        BY <3>1, DumpFits
    <2>3. ASSUME NEW i \in DOMAIN s.residents PROVE s.residents[i] \in Residents
      BY <2>1, <2>2, <2>3 DEF Upserted, TablesFit
    <2> HIDE DEF s
    <2>4. TablesFit(s)
      BY <2>1, <2>3 DEF TablesFit
    <2> QED
      BY <2>4 DEF s
  <1> QED
    BY <1>1, <1>2

LEMMA EtlAdmissionsFits ==
  ASSUME OverTypeOK, TablesFit(site)
  PROVE  TablesFit(EtlAdmissions)
  <1> DEFINE rows == [i \in DOMAIN dump.letters |-> [by |-> ResidentOf(dump.letters[i])]]
             new == Upserted(site.letters, rows)
  <1>1. IdsOK(DOMAIN rows) /\ IdsOK(DOMAIN site.letters)
    BY DumpFits DEF OldIds, TablesFit, Tables
  <1>2. IdsOK(DOMAIN new)
    <2> HIDE DEF rows
    <2> QED
      BY <1>1, UpsertedIs
  <1>3. EtlAdmissions = [site EXCEPT !["letters"] = new]
    BY DEF EtlAdmissions
  <1> HIDE DEF new
  <1> QED
    BY <1>2, <1>3, OneTable DEF Tables

LEMMA EtlAkFits ==
  ASSUME OverTypeOK, TablesFit(site)
  PROVE  TablesFit(EtlAk)
  <1> DEFINE first == site.last["krydser"]
             logged == {n \in DOMAIN dump.log : dump.log[n].who \in Known}
             opened == {i \in DOMAIN dump.totals \cap Known : Opening(i) # 0}
             size == Cardinality(logged) + Cardinality(opened)
  <1>1. first \in Nat /\ size \in Nat
    <2>1. IdsOK(DOMAIN dump.log) /\ IdsOK(DOMAIN dump.totals)
      BY DumpFits DEF OldIds
    <2>2. Cardinality(logged) \in Nat /\ Cardinality(opened) \in Nat
      BY <2>1, FewerIds
    <2>3. first \in Nat
      BY DEF TablesFit, Tables
    <2> QED
      BY <2>2, <2>3
  <1>2. PICK entry : EtlAk = [site EXCEPT !.krydser = [k \in (first + 1)..(first + size) |-> entry[k]],
                                          !.last["krydser"] = first + size]
    <2> DEFINE e(k) == IF k <= Cardinality(logged)
                       THEN LET n == CHOOSE n \in logged : PlaceIn(n, logged) = k
                            IN  [rid |-> ResidentOf(dump.log[n].who), delta |-> dump.log[n].delta,
                                 kind |-> "log"]
                       ELSE LET i == CHOOSE i \in opened : Cardinality(logged) + PlaceIn(i, opened) = k
                            IN  [rid |-> ResidentOf(i), delta |-> Opening(i), kind |-> "opening"]
               es == [k \in (first + 1)..(first + size) |-> e(k - first)]
    <2>1. EtlAk = [site EXCEPT !.krydser = es, !.last["krydser"] = first + size]
      BY DEF EtlAk
    <2>2. es = [k \in (first + 1)..(first + size) |-> es[k]]
      OBVIOUS
    <2> HIDE DEF es, first, size
    <2> QED
      BY <2>1, <2>2
  <1> DEFINE s == EtlAk
  <1> HIDE DEF first, size
  <1>3. /\ DOMAIN s = DOMAIN site /\ s.rooms = site.rooms /\ s.residents = site.residents
        /\ s.last = [site.last EXCEPT !["krydser"] = first + size]
        /\ \A u \in Tables : u # "krydser" => s[u] = site[u]
        /\ DOMAIN s.krydser = (first + 1)..(first + size)
    BY <1>2, SiteKeys DEF TablesFit, Tables
  <1>4. IdsOK((first + 1)..(first + size))
    BY <1>1, FS_Interval DEF IdsOK
  <1>5. s.last \in [Tables -> Nat]
    <2>1. site.last \in [Tables -> Nat] /\ first + size \in Nat
      BY <1>1 DEF TablesFit
    <2>2. [site.last EXCEPT !["krydser"] = first + size] \in [Tables -> Nat]
      BY <2>1
    <2> QED
      BY <1>3, <2>2
  <1> HIDE DEF s
  <1>6. TablesFit(s)
    BY <1>3, <1>4, <1>5 DEF TablesFit
  <1> QED
    BY <1>6 DEF s

LEMMA EtlRoomsFits ==
  ASSUME OverTypeOK, TablesFit(site)
  PROVE  TablesFit(EtlRooms)
  <1> DEFINE ids == {w \in DOMAIN dump.wishes : dump.wishes[w] \in Known}
             rows == [w \in ids |-> ResidentOf(dump.wishes[w])]
             new == Upserted(site.wishes, rows)
  <1>1. IdsOK(ids) /\ IdsOK(DOMAIN site.wishes)
    BY DumpFits, FewerIds DEF OldIds, TablesFit, Tables
  <1>2. DOMAIN rows = ids
    OBVIOUS
  <1>3. IdsOK(DOMAIN new)
    <2> HIDE DEF rows, ids
    <2> QED
      BY <1>1, <1>2, UpsertedIs
  <1> DEFINE s == EtlRooms
  <1>4. /\ DOMAIN s = DOMAIN site /\ s.rooms = site.rooms /\ s.residents = site.residents
        /\ s.last = site.last /\ s.wishes = new
        /\ \A u \in Tables : u # "wishes" => s[u] = site[u]
    BY SiteKeys DEF EtlRooms, TablesFit, Tables
  <1> HIDE DEF s, new
  <1>5. TablesFit(s)
    BY <1>3, <1>4 DEF TablesFit
  <1> QED
    BY <1>5 DEF s

LEMMA EtlOelkaelderFits ==
  ASSUME OverTypeOK, TablesFit(site)
  PROVE  TablesFit(EtlOelkaelder)
  <1> DEFINE rows == [x \in ShopperKnown |-> ResidentOf(dump.shoppers[x])]
             new == Upserted(site.shoppers, rows)
             paid == {i \in DOMAIN dump.deposits : dump.deposits[i].shopper \in ShopperKnown}
             s == EtlOelkaelder
  <1>1. IdsOK(ShopperKnown) /\ IdsOK(DOMAIN site.shoppers) /\ IdsOK(DOMAIN dump.sales) /\ IdsOK(paid)
    BY DumpFits, FewerIds DEF OldIds, TablesFit, Tables, ShopperKnown
  <1>2. DOMAIN rows = ShopperKnown
    OBVIOUS
  <1>3. IdsOK(DOMAIN new)
    <2> HIDE DEF rows
    <2> QED
      BY <1>1, <1>2, UpsertedIs
  <1>4. /\ DOMAIN s = DOMAIN site /\ s.rooms = site.rooms /\ s.residents = site.residents
        /\ s.last = site.last /\ s.shoppers = new
        /\ DOMAIN s.sales = DOMAIN dump.sales /\ DOMAIN s.deposits = paid
        /\ \A u \in Tables : u \notin {"shoppers", "sales", "deposits"} => s[u] = site[u]
    BY SiteKeys DEF EtlOelkaelder, TablesFit, Tables
  <1> HIDE DEF s, new, paid
  <1>5. TablesFit(s)
    BY <1>1, <1>3, <1>4 DEF TablesFit
  <1> QED
    BY <1>5 DEF s

LEMMA EtlStatsFits ==
  ASSUME TablesFit(site)
  PROVE  TablesFit(EtlStats)
  <1>1. EtlStats = [site EXCEPT !["visits"] = Upserted(site.visits, dump.visits)]
    BY DEF EtlStats
  <1> QED
    BY <1>1, OtherTable

LEMMA ResetSequencesFits ==
  ASSUME TablesFit(site)
  PROVE  /\ TablesFit(ResetSequences)
         /\ \A t \in Tables : /\ ResetSequences[t] = site[t]
                              /\ ResetSequences.last[t] = Largest(DOMAIN site[t])
  <1> DEFINE s == ResetSequences
  <1>1. /\ DOMAIN s = DOMAIN site /\ s.rooms = site.rooms /\ s.residents = site.residents
        /\ \A u \in Tables : s[u] = site[u]
        /\ DOMAIN s.last = Tables
        /\ \A u \in Tables : s.last[u] = Largest(DOMAIN site[u])
        /\ s.last = [u \in DOMAIN s.last |-> s.last[u]]
    BY SiteKeys DEF ResetSequences, TablesFit, Tables
  <1>2. \A u \in Tables : Largest(DOMAIN site[u]) \in Nat
    BY LargestIs DEF TablesFit, IdsOK
  <1>3. s.last \in [Tables -> Nat]
    BY <1>1, <1>2
  <1> HIDE DEF s
  <1>4. TablesFit(s)
    BY <1>1, <1>3 DEF TablesFit
  <1> QED
    BY <1>1, <1>4 DEF s

\* Whatever a command makes of the tables.
LEMMA AfterCommandFits ==
  ASSUME OverTypeOK, TablesFit(site), NEW command
  PROVE  TablesFit(AfterCommand(command))
  BY SeedRoomsFits, EtlResidentsFits, EtlAdmissionsFits, EtlAkFits, EtlRoomsFits, EtlOelkaelderFits,
     EtlStatsFits, ResetSequencesFits DEF AfterCommand

LEMMA WriteRowFits ==
  ASSUME OverInv, NEW t \in Tables, WriteRow(t)
  PROVE  TablesFit(site')
  <1> DEFINE id == site.last[t] + 1
             rows == IF id \in DOMAIN site[t] THEN site[t] ELSE Upserted([j \in {id} |-> Null], site[t])
  <1>1. id \in Nat /\ IdsOK(DOMAIN site[t])
    BY DEF OverInv, TablesFit
  <1>2. IdsOK(DOMAIN rows)
    <2>1. DOMAIN [j \in {id} |-> Null] = {id}
      OBVIOUS
    <2>2. IdsOK({id})
      BY <1>1, FS_Singleton DEF IdsOK
    <2>3. IdsOK(DOMAIN Upserted([j \in {id} |-> Null], site[t]))
      BY <1>1, <2>1, <2>2, UpsertedIs
    <2> QED
      BY <1>1, <2>3
  <1> HIDE DEF rows
  <1>3. site' = [site EXCEPT !.last[t] = id, ![t] = rows]
    BY DEF WriteRow, rows
  <1>4. /\ DOMAIN site' = DOMAIN site /\ site'.rooms = site.rooms /\ site'.residents = site.residents
        /\ site'.last = [site.last EXCEPT ![t] = id]
        /\ \A u \in Tables : site'[u] = IF u = t THEN rows ELSE site[u]
    BY <1>3, SiteKeys DEF OverInv, TablesFit, Tables
  <1>5. site'.last \in [Tables -> Nat]
    BY <1>1, <1>4 DEF OverInv, TablesFit
  <1> QED
    BY <1>2, <1>4, <1>5 DEF OverInv, TablesFit

LEMMA OverInitInv ==
  ASSUME OverInit
  PROVE  OverInv
  <1>1. 1 \in DOMAIN Dumps
    <2>1. Len(Dumps) # 0
      BY OverflytningAssumption DEF OverTypeOK
    <2> QED
      BY <2>1, OverflytningAssumption
  <1>2. TablesFit(EmptySite)
    <2>1. /\ EmptySite.rooms = {} /\ EmptySite.last = [t \in Tables |-> 0]
          /\ EmptySite.residents = << >>
          /\ \A t \in Tables : EmptySite[t] = << >>
      BY DEF EmptySite, Tables
    <2>2. DOMAIN << >> = {} /\ IdsOK({})
      BY FS_EmptySet DEF IdsOK
    <2> QED
      BY <2>1, <2>2 DEF TablesFit
  <1>3. Len(Commands) \in Nat
    BY DEF Commands
  <1>4. staging \in DOMAIN Dumps /\ site = EmptySite /\ task = 0 /\ moved = FALSE /\ touched = FALSE
    BY <1>1 DEF OverInit
  <1>5. task \in 0..Len(Commands)
    BY <1>3, <1>4
  <1> HIDE DEF TablesFit
  <1>6. TablesFit(site)
    BY <1>2, <1>4
  <1>7. DOMAIN site = DOMAIN EmptySite /\ site.last \in [Tables -> Nat]
    BY <1>6 DEF TablesFit
  <1> QED
    BY <1>4, <1>5, <1>6, <1>7 DEF OverInv, OverTypeOK

LEMMA MovingKeeps ==
  ASSUME OverInv, OverStep
  PROVE  OverInv'
  <1>1. ASSUME NEW t \in Tables, WriteRow(t) PROVE OverInv'
    <2>1. TablesFit(site')
      BY <1>1, WriteRowFits
    <2> QED
      BY <1>1, <2>1 DEF WriteRow, OverInv, OverTypeOK, TablesFit
  <1>2. ASSUME RunCommand PROVE OverInv'
    <2>1. TablesFit(site')
      BY <1>2, AfterCommandFits DEF RunCommand, OverInv
    <2>2. task' \in 0..Len(Commands) /\ moved' \in BOOLEAN
      <3>1. Len(Commands) \in Nat
        BY DEF Commands
      <3> QED
        BY <1>2, <3>1 DEF RunCommand, OverInv, OverTypeOK
    <2> QED
      BY <1>2, <2>1, <2>2 DEF RunCommand, OverInv, OverTypeOK, TablesFit
  <1>3. ASSUME LoadDump \/ StartTask \/ CommandFails \/ CommandDies \/ BackfillRoomHistory PROVE OverInv'
    <2>1. /\ site' = site /\ staging' \in DOMAIN Dumps /\ task' \in 0..Len(Commands)
          /\ moved' \in BOOLEAN /\ touched' \in BOOLEAN
      <3>1. Len(Commands) \in Nat /\ Len(Commands) >= 1 /\ staging \in 1..Len(Dumps)
        BY OverflytningAssumption DEF Commands, OverInv, OverTypeOK
      <3>2. CASE LoadDump
        <4>1. PICK n \in (staging + 1)..Len(Dumps) : staging' = n
          BY <3>2 DEF LoadDump
        <4>2. Len(Dumps) \in Nat /\ n \in 1..Len(Dumps)
          BY <3>1
        <4>3. staging' \in DOMAIN Dumps
          BY <4>1, <4>2, OverflytningAssumption
        <4> QED
          BY <3>2, <4>3 DEF LoadDump, OverInv, OverTypeOK
      <3>3. task \in 0..Len(Commands) /\ 0 \in 0..Len(Commands) /\ 1 \in 0..Len(Commands)
        BY <3>1 DEF OverInv, OverTypeOK
      <3>4. CASE StartTask
        BY <3>3, <3>4 DEF StartTask, OverInv, OverTypeOK
      <3>5. CASE CommandFails
        BY <3>3, <3>5 DEF CommandFails, OverInv, OverTypeOK
      <3>6. CASE CommandDies
        BY <3>3, <3>6 DEF CommandDies, OverInv, OverTypeOK
      <3>7. CASE BackfillRoomHistory
        BY <3>3, <3>7 DEF BackfillRoomHistory, OverInv, OverTypeOK
      <3> QED
        BY <1>3, <3>2, <3>4, <3>5, <3>6, <3>7
    <2> QED
      BY <2>1 DEF OverInv, OverTypeOK, TablesFit
  <1> QED
    BY <1>1, <1>2, <1>3 DEF OverStep

\* Nobody else moves rows from the old site.
LEMMA MovingOrNot ==
  ASSUME [Next]_vars
  PROVE  OverStep \/ UNCHANGED overVars
  <1>1. CASE Living
    BY <1>1 DEF Living, HverdagStep, Signing, Checking, MovingIn, Looking, Inviting
  <1>2. CASE UNCHANGED vars
    BY <1>2 DEF vars, hverdagVars
  <1>3. CASE \/ Rooming \/ Deducting \/ Repairing \/ Posting \/ Noticing \/ Reading \/ Admitting
             \/ Publishing
    BY <1>3 DEF Rooming, Deducting, Repairing, Posting, Noticing, Reading, Admitting, Publishing,
                hverdagVars
  <1> QED
    BY <1>1, <1>2, <1>3 DEF Next

LEMMA OverHolds == Spec => []OverInv
  <1>1. Init => OverInv
    BY OverInitInv DEF Init, HverdagInit
  <1>2. OverInv /\ [Next]_vars => OverInv'
    <2> SUFFICES ASSUME OverInv, [Next]_vars PROVE OverInv'
      OBVIOUS
    <2>1. CASE UNCHANGED overVars
      BY <2>1 DEF overVars, OverInv, OverTypeOK, TablesFit
    <2> QED
      BY <2>1, MovingOrNot, MovingKeeps
  <1> QED
    BY <1>1, <1>2, PTL DEF Spec

\* The rows of the dump that the task moves: the ids in each table.
OfDump(t) ==
    CASE t = "letters" -> DOMAIN dump.letters
      [] t = "krydser" -> {}
      [] t = "wishes" -> {w \in DOMAIN dump.wishes : dump.wishes[w] \in DOMAIN Remap}
      [] t = "shoppers" -> {x \in DOMAIN dump.shoppers : dump.shoppers[x] \in DOMAIN Remap}
      [] t = "sales" -> DOMAIN dump.sales
      [] t = "deposits" -> {i \in DOMAIN dump.deposits :
             /\ dump.deposits[i].shopper \in DOMAIN dump.shoppers
             /\ dump.shoppers[dump.deposits[i].shopper] \in DOMAIN Remap}

\* The place in the task of the command that writes a table.
WrittenBy(t) ==
    CASE t = "letters" -> 3 [] t = "krydser" -> 5 [] t = "wishes" -> 6 [] OTHER -> 7

\* How far the task has come, and what a task that has ended leaves to one that is started over: the
\* accounts of the dump, its rows, and sequences that are beyond both the rows there are and those
\* that it would write again.
MovedInv ==
    /\ task > 1 \/ moved => site.rooms = House
    /\ task > 2 \/ moved =>
          /\ KeptIds \subseteq DOMAIN site.residents
          /\ \A i \in KeptIds, j \in DOMAIN site.residents :
                site.residents[j] = dump.alumner[i] <=> j = i
    /\ \A t \in Tables : task > WrittenBy(t) => OfDump(t) \subseteq DOMAIN site[t]
    /\ task > 9 \/ moved =>
          \A t \in Tables : \A i \in DOMAIN site[t] \cup OfDump(t) : i <= site.last[t]

LEMMA SameDump ==
  ASSUME staging' = staging
  PROVE  /\ dump' = dump /\ KeptIds' = KeptIds /\ DOMAIN Remap' = DOMAIN Remap
         /\ \A t \in Tables : OfDump(t)' = OfDump(t)
  <1>1. dump' = dump
    BY DEF dump
  <1>2. \A i : SameMail(i)' = SameMail(i)
    BY <1>1 DEF SameMail
  <1>3. Remap' = Remap
    BY <1>1, <1>2 DEF Remap
  <1> QED
    BY <1>1, <1>3 DEF KeptIds, OfDump, Tables

\* The greatest of some numbers.
LEMMA MaxIs ==
  ASSUME NEW S \in SUBSET Nat, IsFiniteSet(S), S # {}
  PROVE  Sets!Max(S) \in S /\ \A m \in S : m <= Sets!Max(S)
  <1>1. PICK n \in S : \A m \in S : m <= n
    BY GreatestOf
  <1>2. \E k \in S : \A m \in S : k >= m
    BY <1>1
  <1>3. Sets!Max(S) \in S /\ \A m \in S : Sets!Max(S) >= m
    BY <1>2 DEF Sets!Max
  <1> QED
    BY <1>3

\* Accounts that are merged are merged into one of the same e-mail, and no two of those that are kept
\* have the same.
LEMMA RemapIs ==
  ASSUME OverTypeOK
  PROVE  /\ KeptIds \subseteq DOMAIN Remap
         /\ \A i \in DOMAIN Remap :
               /\ i \in DOMAIN dump.alumner /\ dump.alumner[i] # Null
               /\ Remap[i] \in KeptIds /\ Remap[i] = Sets!Max(SameMail(i))
               /\ dump.alumner[Remap[i]] = dump.alumner[i]
         /\ \A i, j \in KeptIds : dump.alumner[i] = dump.alumner[j] => i = j
  <1>1. IdsOK(DOMAIN dump.alumner)
    BY DumpFits DEF OldIds
  <1>2. ASSUME NEW i \in DOMAIN dump.alumner
        PROVE  Sets!Max(SameMail(i)) \in SameMail(i)
    <2>1. SameMail(i) \in SUBSET DOMAIN dump.alumner /\ i \in SameMail(i)
      BY DEF SameMail
    <2>2. SameMail(i) \in SUBSET Nat /\ IsFiniteSet(SameMail(i)) /\ SameMail(i) # {}
      BY <1>1, <2>1, FS_Subset DEF IdsOK
    <2> HIDE DEF SameMail
    <2> QED
      BY <2>2, MaxIs
  <1>3. \A i \in DOMAIN Remap :
           i \in DOMAIN dump.alumner /\ dump.alumner[i] # Null /\ Remap[i] = Sets!Max(SameMail(i))
    BY DEF Remap
  <1>4. ASSUME NEW i \in DOMAIN Remap
        PROVE  Remap[i] \in KeptIds /\ dump.alumner[Remap[i]] = dump.alumner[i]
    <2>1. Remap[i] \in SameMail(i)
      BY <1>2, <1>3
    <2>2. Remap[i] \in DOMAIN dump.alumner /\ dump.alumner[Remap[i]] = dump.alumner[i]
      BY <2>1 DEF SameMail
    <2>3. SameMail(Remap[i]) = SameMail(i)
      BY <2>2 DEF SameMail
    <2>4. Remap[i] \in DOMAIN Remap
      BY <1>3, <2>2 DEF Remap
    <2>5. Remap[Remap[i]] = Remap[i]
      BY <1>3, <2>3, <2>4
    <2> QED
      BY <2>2, <2>4, <2>5 DEF KeptIds
  <1>5. ASSUME NEW i \in KeptIds, NEW j \in KeptIds, dump.alumner[i] = dump.alumner[j] PROVE i = j
    <2>1. i \in DOMAIN Remap /\ j \in DOMAIN Remap /\ Remap[i] = i /\ Remap[j] = j
      BY DEF KeptIds
    <2>2. SameMail(i) = SameMail(j)
      BY <1>5 DEF SameMail
    <2> QED
      BY <1>3, <2>1, <2>2
  <1> QED
    BY <1>3, <1>4, <1>5 DEF KeptIds

\* Nobody but who is known is moved, and when the accounts are there all of them are known.
LEMMA KnownAre ==
  ASSUME OverTypeOK
  PROVE  /\ Known \subseteq DOMAIN Remap
         /\ KeptIds \subseteq DOMAIN site.residents => Known = DOMAIN Remap
  BY RemapIs DEF Known

LEMMA CommandAt ==
  ASSUME task \in 0..Len(Commands), task > 0
  PROVE  /\ task \in 1..10 /\ Len(Commands) = 10
         /\ task = 1 <=> Commands[task] = "seed_rooms"
         /\ task = 2 <=> Commands[task] = "etl_residents"
         /\ task = 3 <=> Commands[task] = "etl_admissions"
         /\ task = 4 <=> Commands[task] = "etl_cms"
         /\ task = 5 <=> Commands[task] = "etl_ak"
         /\ task = 6 <=> Commands[task] = "etl_rooms"
         /\ task = 7 <=> Commands[task] = "etl_oelkaelder"
         /\ task = 8 <=> Commands[task] = "etl_stats"
         /\ task = 9 <=> Commands[task] = "reset_sequences"
         /\ task = 10 <=> Commands[task] = "sync_cms_media"
  <1>1. Len(Commands) = 10
    BY DEF Commands
  <1>2. task \in 1..10
    BY <1>1
  <1> QED
    BY <1>1, <1>2 DEF Commands

\* What a command does to the accounts.
LEMMA AccountsAfter ==
  ASSUME OverInv, MovedInv, RunCommand
  PROVE  /\ task > 1 \/ moved => site'.rooms = House
         /\ task = 1 => site'.rooms = House
         /\ task > 1 \/ moved =>
               /\ KeptIds \subseteq DOMAIN site'.residents
               /\ \A i \in KeptIds, j \in DOMAIN site'.residents :
                     site'.residents[j] = dump.alumner[i] <=> j = i
  <1>1. /\ task \in 1..10 /\ site' = AfterCommand(Commands[task])
        /\ task = 1 <=> Commands[task] = "seed_rooms"
        /\ task = 2 <=> Commands[task] = "etl_residents"
    BY CommandAt DEF RunCommand, OverInv, OverTypeOK
  <1>2. CASE task = 1
    <2>1. site' = SeedRooms
      BY <1>1, <1>2 DEF AfterCommand
    <2>2. site'.rooms = House /\ site'.residents = site.residents
      BY <2>1, SiteKeys DEF SeedRooms, OverInv, TablesFit
    <2> QED
      BY <1>2, <2>2 DEF MovedInv
  <1>3. CASE task = 2
    <2> DEFINE fresh == [i \in KeptIds |-> dump.alumner[i]]
    <2>1. site.rooms = House /\ House # {}
      BY <1>3, OverflytningAssumption DEF MovedInv
    <2>2. site' = EtlResidents
      BY <1>1, <1>3 DEF AfterCommand
    <2>3. site'.rooms = House /\ site'.residents = Upserted(site.residents, fresh)
      BY <2>1, <2>2, SiteKeys DEF EtlResidents, OverInv, TablesFit
    <2>4. \A i \in KeptIds, j \in DOMAIN site.residents \ KeptIds : site.residents[j] # dump.alumner[i]
      BY <1>1, <1>3, <2>1 DEF RunCommand, ResidentsFail
    <2>5. /\ DOMAIN site'.residents = DOMAIN site.residents \cup KeptIds
          /\ \A j \in KeptIds : site'.residents[j] = dump.alumner[j]
          /\ \A j \in DOMAIN site.residents \ KeptIds : site'.residents[j] = site.residents[j]
      BY <2>3 DEF Upserted
    <2>6. \A i, j \in KeptIds : dump.alumner[i] = dump.alumner[j] => i = j
      BY RemapIs DEF OverInv
    <2> QED
      BY <2>3, <2>4, <2>5, <2>6
  <1>4. CASE task > 2
    <2>1. site'.rooms = site.rooms /\ site'.residents = site.residents
      <3>1. Commands[task] \notin {"seed_rooms", "etl_residents"}
        BY <1>1, <1>4
      <3>2. DOMAIN site = DOMAIN EmptySite
        BY DEF OverInv, TablesFit
      <3>3. /\ EtlAdmissions.rooms = site.rooms /\ EtlAdmissions.residents = site.residents
            /\ EtlAk.rooms = site.rooms /\ EtlAk.residents = site.residents
            /\ EtlRooms.rooms = site.rooms /\ EtlRooms.residents = site.residents
            /\ EtlOelkaelder.rooms = site.rooms /\ EtlOelkaelder.residents = site.residents
            /\ EtlStats.rooms = site.rooms /\ EtlStats.residents = site.residents
            /\ ResetSequences.rooms = site.rooms /\ ResetSequences.residents = site.residents
        BY <3>2, SiteKeys DEF EtlAdmissions, EtlAk, EtlRooms, EtlOelkaelder, EtlStats, ResetSequences
      <3> QED
        BY <1>1, <3>1, <3>3 DEF AfterCommand
    <2> QED
      BY <1>1, <1>4, <2>1 DEF MovedInv
  <1> QED
    BY <1>1, <1>2, <1>3, <1>4

\* What a command does to the tables: it writes rows of the dump, or under ids that are new.
TableAfter(t, s) ==
    /\ task # 9 => /\ s.last[t] >= site.last[t]
                   /\ \A i \in DOMAIN s[t] : i \in DOMAIN site[t] \cup OfDump(t) \/ i <= s.last[t]
    /\ task = 9 => \A i \in DOMAIN s[t] : i <= s.last[t]
    /\ task = WrittenBy(t) => OfDump(t) \subseteq DOMAIN s[t]
    /\ task > WrittenBy(t) => OfDump(t) \subseteq DOMAIN s[t]

LEMMA SameTable ==
  ASSUME OverInv, MovedInv, task > 0, NEW t \in Tables, NEW s, s[t] = site[t], s.last[t] = site.last[t],
         task # 9, task # WrittenBy(t)
  PROVE  TableAfter(t, s)
  <1>1. site.last[t] \in Nat
    BY DEF OverInv, TablesFit
  <1> QED
    BY <1>1 DEF TableAfter, MovedInv

LEMMA AkAfter ==
  ASSUME OverInv, MovedInv, task = 5, NEW t \in Tables
  PROVE  TableAfter(t, EtlAk)
  <1> DEFINE first == site.last["krydser"]
             logged == {n \in DOMAIN dump.log : dump.log[n].who \in Known}
             opened == {i \in DOMAIN dump.totals \cap Known : Opening(i) # 0}
             size == Cardinality(logged) + Cardinality(opened)
             e(k) == IF k <= Cardinality(logged)
                     THEN LET n == CHOOSE n \in logged : PlaceIn(n, logged) = k
                          IN  [rid |-> ResidentOf(dump.log[n].who), delta |-> dump.log[n].delta,
                               kind |-> "log"]
                     ELSE LET i == CHOOSE i \in opened : Cardinality(logged) + PlaceIn(i, opened) = k
                          IN  [rid |-> ResidentOf(i), delta |-> Opening(i), kind |-> "opening"]
             es == [k \in (first + 1)..(first + size) |-> e(k - first)]
  <1>1. EtlAk = [site EXCEPT !.krydser = es, !.last["krydser"] = first + size]
    BY DEF EtlAk
  <1>2. DOMAIN es = (first + 1)..(first + size)
    OBVIOUS
  <1>3. first \in Nat /\ size \in Nat
    <2>1. IdsOK(DOMAIN dump.log) /\ IdsOK(DOMAIN dump.totals)
      BY DumpFits DEF OldIds, OverInv
    <2>2. Cardinality(logged) \in Nat /\ Cardinality(opened) \in Nat
      BY <2>1, FewerIds
    <2>3. first \in Nat
      BY DEF OverInv, TablesFit, Tables
    <2> QED
      BY <2>2, <2>3
  <1> HIDE DEF es, first, size
  <1>4. /\ EtlAk.last = [site.last EXCEPT !["krydser"] = first + size]
        /\ \A u \in Tables : u # "krydser" => EtlAk[u] = site[u]
        /\ EtlAk["krydser"] = es
    BY <1>1, SiteKeys DEF OverInv, TablesFit, Tables
  <1>5. site.last \in [Tables -> Nat] /\ "krydser" \in Tables
    BY DEF OverInv, TablesFit, Tables
  <1>6. EtlAk.last["krydser"] = first + size /\ \A u \in Tables : u # "krydser" => EtlAk.last[u] = site.last[u]
    BY <1>4, <1>5
  <1>7. CASE t = "krydser"
    <2>1. EtlAk.last[t] = first + size /\ site.last[t] = first /\ EtlAk[t] = es
      BY <1>4, <1>6, <1>7 DEF first
    <2>2. EtlAk.last[t] >= site.last[t] /\ \A i \in DOMAIN EtlAk[t] : i <= EtlAk.last[t]
      BY <1>2, <1>3, <2>1
    <2>3. WrittenBy(t) = 5 /\ OfDump(t) = {}
      BY <1>7 DEF WrittenBy, OfDump
    <2> QED
      BY <2>2, <2>3 DEF TableAfter
  <1>8. CASE t # "krydser"
    <2>1. WrittenBy(t) # 5
      BY <1>8 DEF WrittenBy, Tables
    <2>2. EtlAk[t] = site[t] /\ EtlAk.last[t] = site.last[t]
      BY <1>4, <1>6, <1>8
    <2> HIDE DEF EtlAk
    <2> QED
      BY <2>1, <2>2, SameTable
  <1> QED
    BY <1>7, <1>8

LEMMA TablesAfter ==
  ASSUME OverInv, MovedInv, RunCommand, NEW t \in Tables
  PROVE  TableAfter(t, site')
  <1>1. /\ task \in 1..10 /\ site' = AfterCommand(Commands[task])
        /\ task = 1 <=> Commands[task] = "seed_rooms"
        /\ task = 2 <=> Commands[task] = "etl_residents"
        /\ task = 3 <=> Commands[task] = "etl_admissions"
        /\ task = 4 <=> Commands[task] = "etl_cms"
        /\ task = 5 <=> Commands[task] = "etl_ak"
        /\ task = 6 <=> Commands[task] = "etl_rooms"
        /\ task = 7 <=> Commands[task] = "etl_oelkaelder"
        /\ task = 8 <=> Commands[task] = "etl_stats"
        /\ task = 9 <=> Commands[task] = "reset_sequences"
        /\ task = 10 <=> Commands[task] = "sync_cms_media"
    BY CommandAt DEF RunCommand, OverInv, OverTypeOK
  <1>2. DOMAIN site = DOMAIN EmptySite /\ site.last[t] \in Nat
    BY DEF OverInv, TablesFit
  <1>3. task > 2 => Known = DOMAIN Remap
    BY KnownAre DEF OverInv, MovedInv
  <1>4. WrittenBy(t) \in {3, 5, 6, 7}
    BY DEF WrittenBy
  <1>5. CASE task \in {1, 2, 4, 8, 10}
    <2>1. /\ SeedRooms[t] = site[t] /\ SeedRooms.last = site.last
          /\ EtlResidents[t] = site[t] /\ EtlResidents.last = site.last
          /\ EtlStats[t] = site[t] /\ EtlStats.last = site.last
      BY <1>2, SiteKeys DEF SeedRooms, EtlResidents, EtlStats, Tables
    <2>2. site' \in {SeedRooms, EtlResidents, EtlStats, site}
      BY <1>1, <1>5 DEF AfterCommand
    <2>3. site'[t] = site[t] /\ site'.last[t] = site.last[t]
      BY <2>1, <2>2
    <2> QED
      BY <1>1, <1>4, <1>5, <2>3, SameTable
  <1>6. CASE task = 3
    <2>1. site' = EtlAdmissions
      BY <1>1, <1>6 DEF AfterCommand
    <2>2. CASE t = "letters"
      <3>1. /\ site'.last = site.last
            /\ DOMAIN site'[t] = DOMAIN site[t] \cup OfDump(t)
        BY <1>2, <2>1, <2>2, SiteKeys DEF EtlAdmissions, Upserted, OfDump
      <3> QED
        BY <1>2, <1>6, <3>1 DEF TableAfter
    <2>3. CASE t # "letters"
      <3>1. site'[t] = site[t] /\ site'.last[t] = site.last[t]
        BY <1>2, <2>1, <2>3, SiteKeys DEF EtlAdmissions, Tables
      <3>2. WrittenBy(t) # 3
        BY <2>3 DEF WrittenBy, Tables
      <3> QED
        BY <1>6, <3>1, <3>2, SameTable
    <2> QED
      BY <2>2, <2>3
  <1>7. CASE task = 5
    BY <1>1, <1>7, AkAfter DEF AfterCommand
  <1>8. CASE task = 6
    <2>1. site' = EtlRooms
      BY <1>1, <1>8 DEF AfterCommand
    <2>2. CASE t = "wishes"
      <3>1. /\ site'.last = site.last
            /\ DOMAIN site'[t] = DOMAIN site[t] \cup OfDump(t)
        BY <1>2, <1>3, <1>8, <2>1, <2>2, SiteKeys DEF EtlRooms, Upserted, OfDump
      <3> QED
        BY <1>2, <1>8, <3>1 DEF TableAfter
    <2>3. CASE t # "wishes"
      <3>1. site'[t] = site[t] /\ site'.last[t] = site.last[t]
        BY <1>2, <2>1, <2>3, SiteKeys DEF EtlRooms, Tables
      <3>2. WrittenBy(t) # 6
        BY <2>3 DEF WrittenBy, Tables
      <3> QED
        BY <1>8, <3>1, <3>2, SameTable
    <2> QED
      BY <2>2, <2>3
  <1>9. CASE task = 7
    <2>1. site' = EtlOelkaelder
      BY <1>1, <1>9 DEF AfterCommand
    <2>2. Known = DOMAIN Remap
      BY <1>3, <1>9
    <2>3. CASE t \in {"shoppers", "sales", "deposits"}
      <3>1. site'.last = site.last
        BY <1>2, <2>1, SiteKeys DEF EtlOelkaelder
      <3>2. OfDump(t) \subseteq DOMAIN site'[t] /\ DOMAIN site'[t] \subseteq DOMAIN site[t] \cup OfDump(t)
        <4>1. t = "shoppers" => DOMAIN site'[t] = DOMAIN site[t] \cup OfDump(t)
          BY <1>2, <2>1, <2>2, SiteKeys DEF EtlOelkaelder, Upserted, OfDump, ShopperKnown
        <4>2. t = "sales" => DOMAIN site'[t] = OfDump(t)
          BY <1>2, <2>1, SiteKeys DEF EtlOelkaelder, OfDump
        <4>3. t = "deposits" => DOMAIN site'[t] = OfDump(t)
          BY <1>2, <2>1, <2>2, SiteKeys DEF EtlOelkaelder, OfDump, ShopperKnown
        <4> QED
          BY <2>3, <4>1, <4>2, <4>3
      <3> QED
        BY <1>2, <1>9, <3>1, <3>2 DEF TableAfter
    <2>4. CASE t \notin {"shoppers", "sales", "deposits"}
      <3>1. site'[t] = site[t] /\ site'.last[t] = site.last[t]
        BY <1>2, <2>1, <2>4, SiteKeys DEF EtlOelkaelder, Tables
      <3>2. WrittenBy(t) # 7
        BY <2>4 DEF WrittenBy, Tables
      <3> QED
        BY <1>9, <3>1, <3>2, SameTable
    <2> QED
      BY <2>3, <2>4
  <1>10. CASE task = 9
    <2>1. site' = ResetSequences
      BY <1>1, <1>10 DEF AfterCommand
    <2>2. site'[t] = site[t] /\ site'.last[t] = Largest(DOMAIN site[t])
      BY <2>1, ResetSequencesFits DEF OverInv
    <2>3. \A i \in DOMAIN site[t] : i <= Largest(DOMAIN site[t])
      BY LargestIs DEF OverInv, TablesFit, IdsOK
    <2>4. OfDump(t) \subseteq DOMAIN site[t]
      BY <1>4, <1>10 DEF MovedInv
    <2> QED
      BY <1>10, <2>2, <2>3, <2>4 DEF TableAfter
  <1> QED
    BY <1>1, <1>5, <1>6, <1>7, <1>8, <1>9, <1>10

LEMMA RunCommandMoves ==
  ASSUME OverInv, OverInv', MovedInv, RunCommand
  PROVE  MovedInv'
  <1>1. /\ task \in 1..10
        /\ task' = IF task = 10 THEN 0 ELSE task + 1
        /\ moved' = (task = 10 \/ moved) /\ staging' = staging
    BY CommandAt DEF RunCommand, OverInv, OverTypeOK
  <1>2. /\ dump' = dump /\ KeptIds' = KeptIds /\ \A t \in Tables : OfDump(t)' = OfDump(t)
    BY <1>1, SameDump
  <1>3. task' > 1 \/ moved' => site'.rooms = House
    BY <1>1, AccountsAfter
  <1>4. task' > 2 \/ moved' =>
               /\ KeptIds \subseteq DOMAIN site'.residents
               /\ \A i \in KeptIds, j \in DOMAIN site'.residents :
                     site'.residents[j] = dump.alumner[i] <=> j = i
    <2>1. ASSUME task' > 2 \/ moved' PROVE task > 1 \/ moved
      <3>1. task' > 2 => task > 1
        BY <1>1
      <3>2. moved' => task = 10 \/ moved
        BY <1>1
      <3>3. task = 10 => task > 1
        OBVIOUS
      <3> QED
        BY <2>1, <3>1, <3>2, <3>3
    <2> QED
      BY <2>1, AccountsAfter
  <1>5. ASSUME NEW t \in Tables, task' > WrittenBy(t) PROVE OfDump(t) \subseteq DOMAIN site'[t]
    <2>1. WrittenBy(t) \in {3, 5, 6, 7}
      BY DEF WrittenBy
    <2>2. task >= WrittenBy(t)
      BY <1>1, <1>5, <2>1
    <2> QED
      BY <1>1, <2>1, <2>2, TablesAfter DEF TableAfter
  <1>6. ASSUME task' > 9 \/ moved', NEW t \in Tables, NEW i \in DOMAIN site'[t] \cup OfDump(t)
        PROVE  i <= site'.last[t]
    <2>1. TableAfter(t, site') /\ WrittenBy(t) \in {3, 5, 6, 7}
      BY TablesAfter DEF WrittenBy
    <2>2. CASE task = 9
      BY <1>6, <2>1, <2>2 DEF TableAfter
    <2>3. CASE task # 9
      <3>1. \A j \in DOMAIN site[t] \cup OfDump(t) : j <= site.last[t]
        <4>1. task > 9 \/ moved
          <5>1. task' > 9 => task > 9
            BY <1>1, <2>3
          <5>2. moved' => task = 10 \/ moved
            BY <1>1
          <5>3. task = 10 => task > 9
            OBVIOUS
          <5> QED
            BY <1>6, <5>1, <5>2, <5>3
        <4> QED
          BY <4>1 DEF MovedInv
      <3>2. site.last[t] \in Nat /\ site'.last[t] \in Nat /\ site'.last[t] >= site.last[t]
        BY <2>1, <2>3 DEF TableAfter, OverInv, TablesFit
      <3>3. i \in DOMAIN site[t] \cup OfDump(t) => i \in Nat
        <4>1. DOMAIN site[t] \subseteq Nat /\ OfDump(t) \subseteq Nat
          <5>1. \A ids \in OldIds(dump) : ids \subseteq Nat
            BY DumpFits DEF OverInv, IdsOK
          <5>2. OfDump(t) \subseteq Nat
            BY <5>1 DEF OfDump, OldIds, Tables
          <5> QED
            BY <5>2 DEF OverInv, TablesFit, IdsOK
        <4> QED
          BY <4>1
      <3>4. i \in DOMAIN site[t] \cup OfDump(t) \/ i <= site'.last[t]
        BY <1>6, <2>1, <2>3 DEF TableAfter
      <3> QED
        BY <3>1, <3>2, <3>3, <3>4
    <2> QED
      BY <2>2, <2>3
  <1>7. \A t \in Tables : WrittenBy(t)' = WrittenBy(t)
    BY DEF WrittenBy
  <1> QED
    BY <1>2, <1>3, <1>4, <1>5, <1>6 DEF MovedInv, WrittenBy

LEMMA WriteRowMoves ==
  ASSUME OverInv, OverInv', MovedInv, NEW t \in Tables, WriteRow(t)
  PROVE  MovedInv'
  <1> DEFINE id == site.last[t] + 1
             rows == IF id \in DOMAIN site[t] THEN site[t] ELSE Upserted([j \in {id} |-> Null], site[t])
  <1>1. /\ dump' = dump /\ KeptIds' = KeptIds /\ \A u \in Tables : OfDump(u)' = OfDump(u)
        /\ task' = task /\ moved' = moved
    BY SameDump DEF WriteRow
  <1>2. DOMAIN rows = DOMAIN site[t] \cup {id}
    BY DEF Upserted
  <1> HIDE DEF rows
  <1>3. site' = [site EXCEPT !.last[t] = id, ![t] = rows]
    BY DEF WriteRow, rows
  <1>4. site.last \in [Tables -> Nat]
    BY DEF OverInv, TablesFit
  <1>5. /\ site'.rooms = site.rooms /\ site'.residents = site.residents
        /\ site'.last = [site.last EXCEPT ![t] = id]
        /\ \A u \in Tables : site'[u] = IF u = t THEN rows ELSE site[u]
    BY <1>3, SiteKeys DEF OverInv, TablesFit, Tables
  <1>6. ASSUME task > 9 \/ moved, NEW u \in Tables, NEW i \in DOMAIN site'[u] \cup OfDump(u)
        PROVE  i <= site'.last[u]
    <2>1. \A j \in DOMAIN site[u] \cup OfDump(u) : j <= site.last[u]
      BY <1>6 DEF MovedInv
    <2>2. CASE u # t
      BY <1>4, <1>5, <1>6, <2>1, <2>2
    <2>3. CASE u = t
      <3>1. site'.last[u] = id /\ DOMAIN site'[u] = DOMAIN site[u] \cup {id}
        BY <1>2, <1>4, <1>5, <2>3
      <3>2. DOMAIN site[u] \subseteq Nat /\ OfDump(u) \subseteq Nat
        <4>1. \A ids \in OldIds(dump) : ids \subseteq Nat
          BY DumpFits DEF OverInv, IdsOK
        <4> QED
          BY <4>1 DEF OfDump, OldIds, Tables, OverInv, TablesFit, IdsOK
      <3>3. site.last[u] \in Nat /\ id = site.last[u] + 1
        BY <1>4, <2>3
      <3>4. CASE i = id
        BY <3>1, <3>3, <3>4
      <3>5. CASE i # id
        <4>1. i \in DOMAIN site[u] \cup OfDump(u) /\ i \in Nat
          BY <1>6, <3>1, <3>2, <3>5
        <4>2. i <= site.last[u]
          BY <2>1, <4>1
        <4> HIDE DEF id
        <4> QED
          BY <3>1, <3>3, <4>1, <4>2
      <3> QED
        BY <3>4, <3>5
    <2> QED
      BY <2>2, <2>3
  <1>7. ASSUME NEW u \in Tables, task > WrittenBy(u) PROVE OfDump(u) \subseteq DOMAIN site'[u]
    BY <1>2, <1>5, <1>7 DEF MovedInv
  <1>8. task > 1 \/ moved => site'.rooms = House
    BY <1>5 DEF MovedInv
  <1>9. task > 2 \/ moved =>
               /\ KeptIds \subseteq DOMAIN site'.residents
               /\ \A i \in KeptIds, j \in DOMAIN site'.residents :
                     site'.residents[j] = dump.alumner[i] <=> j = i
    BY <1>5 DEF MovedInv
  <1> QED
    BY <1>1, <1>6, <1>7, <1>8, <1>9 DEF MovedInv, WrittenBy

\* Whatever leaves the rows as they are, and the task where it was or before its first command.
LEMMA SameRowsMove ==
  ASSUME MovedInv, staging' = staging, site' = site, moved' = moved, task' \in {0, 1, task}
  PROVE  MovedInv'
  <1>1. /\ dump' = dump /\ KeptIds' = KeptIds /\ \A t \in Tables : OfDump(t)' = OfDump(t)
    BY SameDump
  <1>2. \A t \in Tables : WrittenBy(t) \in {3, 5, 6, 7}
    BY DEF WrittenBy
  <1>3. ASSUME NEW t \in Tables, task' > WrittenBy(t) PROVE task > WrittenBy(t)
    BY <1>2, <1>3
  <1>4. /\ task' > 1 => task > 1
        /\ task' > 2 => task > 2
        /\ task' > 9 => task > 9
    OBVIOUS
  <1> QED
    BY <1>1, <1>3, <1>4 DEF MovedInv, WrittenBy

LEMMA MovedHolds == Spec => []MovedInv
  <1>1. Init => MovedInv
    <2> SUFFICES ASSUME task = 0, moved = FALSE PROVE MovedInv
      BY DEF Init, HverdagInit, OverInit
    <2>1. \A t \in Tables : WrittenBy(t) \in {3, 5, 6, 7}
      BY DEF WrittenBy
    <2> QED
      BY <2>1 DEF MovedInv
  <1>2. OverInv /\ OverInv' /\ MovedInv /\ [Next]_vars => MovedInv'
    <2> SUFFICES ASSUME OverInv, OverInv', MovedInv, [Next]_vars PROVE MovedInv'
      OBVIOUS
    <2>1. CASE RunCommand
      BY <2>1, RunCommandMoves
    <2>2. CASE \E t \in Tables : WriteRow(t)
      BY <2>2, WriteRowMoves
    <2>3. CASE LoadDump
      <3>1. task' = 0 /\ moved' = FALSE
        BY <2>3 DEF LoadDump
      <3>2. \A t \in Tables : WrittenBy(t)' \in {3, 5, 6, 7}
        BY DEF WrittenBy
      <3> QED
        BY <3>1, <3>2 DEF MovedInv
    <2>4. CASE StartTask \/ CommandFails \/ CommandDies \/ BackfillRoomHistory \/ UNCHANGED overVars
      <3>1. staging' = staging /\ site' = site /\ moved' = moved /\ task' \in {0, 1, task}
        BY <2>4 DEF StartTask, CommandFails, CommandDies, BackfillRoomHistory, overVars
      <3> QED
        BY <3>1, SameRowsMove
    <2> QED
      BY <2>1, <2>2, <2>3, <2>4, MovingOrNot DEF OverStep
  <1> QED
    BY <1>1, <1>2, OverHolds, PTL DEF Spec

\* When the task has ended an e-mail of the dump has exactly one account, the newest, whichever
\* accounts an earlier dump had brought (resident_id_remap in src/app/core/etl.py, etl_residents).
THEOREM OneAccountForEach == Spec => []OneAccountEach
  <1>1. OverInv /\ MovedInv => OneAccountEach
    <2> SUFFICES ASSUME OverInv, MovedInv, moved, NEW i \in DOMAIN dump.alumner, dump.alumner[i] # Null
                 PROVE  {j \in DOMAIN site.residents : site.residents[j] = dump.alumner[i]}
                            = {Sets!Max(SameMail(i))}
      BY DEF OneAccountEach
    <2>1. i \in DOMAIN Remap
      BY DEF Remap
    <2>2. /\ Remap[i] \in KeptIds /\ Remap[i] = Sets!Max(SameMail(i))
          /\ dump.alumner[Remap[i]] = dump.alumner[i]
      BY <2>1, RemapIs DEF OverInv
    <2>3. /\ Remap[i] \in DOMAIN site.residents
          /\ \A j \in DOMAIN site.residents : site.residents[j] = dump.alumner[i] <=> j = Remap[i]
      BY <2>2 DEF MovedInv
    <2> QED
      BY <2>2, <2>3
  <1> QED
    BY <1>1, OverHolds, MovedHolds, PTL

-----------------------------------------------------------------------------
(* The reports on the rooms *)

\* A submission that nothing has overtaken knows every current report of its room, and is the only
\* one on that room.
Unmatched(c) ==
    c.alone => /\ CurrentOf(c.room) \subseteq c.seen
               /\ \A d \in checks : d.room = c.room => d = c

TjekInv ==
    /\ TjekTypeOK
    /\ \A i \in Filed : i <= lastReport
    /\ \A c \in checks : c.n <= made["check"] /\ Unmatched(c)
    /\ \A c, d \in checks : c.n = d.n => c = d

LEMMA ReportFields ==
  ASSUME NEW x \in RoomReport, NEW y, y = [x EXCEPT !.current = FALSE]
  PROVE  y \in RoomReport /\ y # Null /\ x # Null /\ ~y.current /\ y.room = x.room /\ y.date = x.date
  BY TjekAssumption DEF RoomReport

LEMMA SubmissionFields ==
  ASSUME NEW c \in Submission, NEW b \in BOOLEAN, NEW e, e = [c EXCEPT !.alone = b]
  PROVE  /\ e \in Submission
         /\ e.n = c.n /\ e.room = c.room /\ e.by = c.by /\ e.seen = c.seen /\ e.alone = b
  BY DEF Submission

\* The row that a new id is given.
LEMMA SourceIs ==
  ASSUME NEW S \in SUBSET Nat, IsFiniteSet(S), NEW L \in Nat, NEW i \in (L + 1)..(L + Cardinality(S))
  PROVE  (CHOOSE n \in S : L + PlaceIn(n, S) = i) \in S
  <1>1. Cardinality(S) \in Nat
    BY FS_CardinalityType
  <1>2. i - L \in 1..Cardinality(S)
    BY <1>1
  <1>3. PICK n \in S : PlaceIn(n, S) = i - L
    BY <1>2, PlaceIsTaken
  <1>4. L + PlaceIn(n, S) = i
    BY <1>3
  <1> QED
    BY <1>4

LEMMA ImportedIs ==
  ASSUME OverInv, NEW n \in ImportedReports, NEW b \in BOOLEAN
  PROVE  ImportedReport(n, b) \in RoomReport /\ ImportedReport(n, b).current = b
  <1>1. n \in DOMAIN dump.reports /\ dump.reports[n].room \in Rooms
    BY DEF ImportedReports, OverInv, TablesFit
  <1>2. dump.reports[n].date \in Dates
    BY <1>1, DumpFits DEF OverInv
  <1>3. PersonOf(dump.reports[n].who) \in Residents \cup {Null}
    BY DEF PersonOf, Known, OverInv, TablesFit
  <1> QED
    BY <1>1, <1>2, <1>3 DEF ImportedReport, RoomReport

LEMMA ReportIds ==
  ASSUME OverInv
  PROVE  ImportedReports \in SUBSET Nat /\ IsFiniteSet(ImportedReports)
  <1>1. IdsOK(DOMAIN dump.reports)
    BY DumpFits DEF OldIds, OverInv
  <1> QED
    BY <1>1, FewerIds DEF ImportedReports, IdsOK

\* Whatever else is done to the reports, no submission comes or goes, and no report becomes current
\* under the eyes of one that is alone.
LEMMA ReportsOnly ==
  ASSUME TjekInv, OmfangTypeOK, OmfangTypeOK', made'["check"] >= made["check"],
         checks' = checks, TjekTypeOK',
         \A i \in Filed' : i <= lastReport',
         \A room \in Rooms : CurrentOf(room)' \subseteq CurrentOf(room)
  PROVE  TjekInv'
  <1>1. ASSUME NEW c \in checks PROVE c.n <= made'["check"] /\ Unmatched(c)'
    <2>1. c \in Submission /\ c.n \in Nat /\ c.room \in Rooms
      BY DEF TjekInv, TjekTypeOK, Submission
    <2>2. c.n <= made["check"] /\ made["check"] \in Nat /\ made'["check"] \in Nat
      BY TjekAssumption DEF TjekInv, OmfangTypeOK
    <2>3. CurrentOf(c.room)' \subseteq CurrentOf(c.room)
      BY <2>1
    <2>4. c.alone => /\ CurrentOf(c.room)' \subseteq c.seen
                     /\ \A d \in checks' : d.room = c.room => d = c
      BY <2>3 DEF TjekInv, Unmatched
    <2> QED
      BY <2>1, <2>2, <2>4 DEF Unmatched
  <1> QED
    BY <1>1 DEF TjekInv

LEMMA BeginReportKeeps ==
  ASSUME TjekInv, OmfangTypeOK, NEW r \in Residents, NEW room \in Rooms, BeginReport(r, room)
  PROVE  TjekInv'
  <1>1. made["check"] \in Nat /\ made'["check"] = made["check"] + 1
    BY TjekAssumption, MadeOneMore DEF BeginReport
  <1> DEFINE fresh == [n |-> made'["check"], room |-> room, by |-> r, seen |-> CurrentOf(room),
                       alone |-> \A c \in checks : c.room # room]
             old(c) == [c EXCEPT !.alone = c.alone /\ c.room # room]
  <1>2. checks' = {old(c) : c \in checks} \cup {fresh}
    BY DEF BeginReport
  <1>3. fresh \in Submission
    BY <1>1 DEF Submission, CurrentOf, Filed
  <1>4. ASSUME NEW c \in checks
        PROVE  /\ old(c) \in Submission
               /\ old(c).n = c.n /\ old(c).room = c.room /\ old(c).seen = c.seen
               /\ old(c).alone = (c.alone /\ c.room # room)
               /\ c.n \in Nat /\ c.n <= made["check"] /\ Unmatched(c)
    <2>1. c \in Submission /\ (c.alone /\ c.room # room) \in BOOLEAN
      BY DEF TjekInv, TjekTypeOK, Submission
    <2> QED
      BY <2>1, SubmissionFields DEF TjekInv, Submission
  <1>5. /\ fresh.n = made["check"] + 1 /\ fresh.room = room /\ fresh.seen = CurrentOf(room)
        /\ fresh.alone = (\A c \in checks : c.room # room)
    BY <1>1
  <1> HIDE DEF old, fresh
  <1>6. \A x \in Rooms : CurrentOf(x)' = CurrentOf(x)
    BY DEF BeginReport, CurrentOf, Filed
  <1>7. ASSUME NEW c \in checks' PROVE c.n <= made'["check"] /\ Unmatched(c)'
    <2>1. CASE c = fresh
      <3>1. c.n <= made'["check"]
        BY <1>1, <1>5, <2>1
      <3>2. ASSUME c.alone, NEW d \in checks', d.room = c.room PROVE d = c
        <4>1. \A e \in checks : old(e).room # room
          BY <1>4, <1>5, <2>1, <3>2
        <4> QED
          BY <1>2, <1>5, <2>1, <3>2, <4>1
      <3>3. CurrentOf(c.room)' \subseteq c.seen
        BY <1>5, <1>6, <2>1
      <3> QED
        BY <3>1, <3>2, <3>3 DEF Unmatched
    <2>2. ASSUME NEW e \in checks, c = old(e) PROVE c.n <= made'["check"] /\ Unmatched(c)'
      <3>1. c.n <= made'["check"]
        BY <1>1, <1>4, <2>2
      <3>2. ASSUME c.alone, NEW d \in checks', d.room = c.room PROVE d = c
        <4>1. e.alone /\ e.room # room
          BY <1>4, <2>2, <3>2
        <4>2. d # fresh
          BY <1>4, <1>5, <2>2, <3>2, <4>1
        <4>3. PICK f \in checks : d = old(f)
          BY <1>2, <4>2
        <4>4. f.room = e.room
          BY <1>4, <2>2, <3>2, <4>3
        <4>5. f = e
          BY <1>4, <4>1, <4>4 DEF Unmatched
        <4> QED
          BY <2>2, <4>3, <4>5
      <3>3. ASSUME c.alone PROVE CurrentOf(c.room)' \subseteq c.seen
        <4>1. e.alone /\ c.room = e.room /\ c.seen = e.seen /\ e.room \in Rooms
          BY <1>4, <2>2, <3>3 DEF TjekInv, TjekTypeOK, Submission
        <4> QED
          BY <1>4, <1>6, <4>1 DEF Unmatched
      <3> QED
        BY <3>1, <3>2, <3>3 DEF Unmatched
    <2> QED
      BY <1>2, <2>1, <2>2
  <1>8. ASSUME NEW c \in checks', NEW d \in checks', c.n = d.n PROVE c = d
    <2>1. ASSUME NEW e \in checks PROVE old(e).n # fresh.n
      BY <1>1, <1>4, <1>5
    <2>2. CASE c = fresh \/ d = fresh
      BY <1>2, <1>8, <2>1, <2>2
    <2>3. ASSUME NEW e \in checks, NEW f \in checks, c = old(e), d = old(f) PROVE c = d
      BY <1>4, <1>8, <2>3 DEF TjekInv
    <2> QED
      BY <1>2, <2>2, <2>3
  <1>9. TjekTypeOK'
    BY <1>2, <1>3, <1>4 DEF BeginReport, TjekInv, TjekTypeOK
  <1>10. \A i \in Filed' : i <= lastReport'
    BY DEF BeginReport, TjekInv, Filed
  <1> QED
    BY <1>7, <1>8, <1>9, <1>10 DEF TjekInv

LEMMA EndReportDoes ==
  ASSUME TjekInv, NEW c \in checks, EndReport(c)
  PROVE  /\ lastReport' \in Numbers \cap Nat /\ lastReport' = lastReport + 1
         /\ reports[lastReport'] = Null /\ reports'[lastReport'] # Null
         /\ reports' \in [Numbers -> RoomReport \cup {Null}]
         /\ reports'[lastReport'] =
               [room |-> c.room, by |-> c.by, date |-> Null, current |-> TRUE]
         /\ \A i \in Numbers \ {lastReport'} :
               /\ reports'[i] # Null <=> reports[i] # Null
               /\ reports[i] # Null =>
                     reports'[i].room = reports[i].room /\ reports'[i].date = reports[i].date
               /\ reports[i] # Null /\ i \in c.seen => ~reports'[i].current
               /\ reports[i] # Null /\ i \notin c.seen => reports'[i] = reports[i]
  <1> DEFINE id == lastReport + 1
             new == [room |-> c.room, by |-> c.by, date |-> Null, current |-> TRUE]
  <1>1. lastReport' = id /\ id \in Numbers /\ id \in Nat /\ reports[id] = Null
    BY TjekAssumption DEF EndReport, TjekInv, TjekTypeOK
  <1>2. reports \in [Numbers -> RoomReport \cup {Null}]
    BY DEF TjekInv, TjekTypeOK
  <1>3. new \in RoomReport
    BY DEF TjekInv, TjekTypeOK, Submission, RoomReport
  <1>4. \A i \in Numbers : IF i \in c.seen /\ reports[i] # Null
                           THEN /\ Superseded(c)[i] \in RoomReport /\ Superseded(c)[i] # Null
                                /\ ~Superseded(c)[i].current /\ Superseded(c)[i].room = reports[i].room
                                /\ Superseded(c)[i].date = reports[i].date
                           ELSE Superseded(c)[i] = reports[i]
    <2> SUFFICES ASSUME NEW i \in Numbers
                 PROVE IF i \in c.seen /\ reports[i] # Null
                           THEN /\ Superseded(c)[i] \in RoomReport /\ Superseded(c)[i] # Null
                                /\ ~Superseded(c)[i].current /\ Superseded(c)[i].room = reports[i].room
                                /\ Superseded(c)[i].date = reports[i].date
                           ELSE Superseded(c)[i] = reports[i]
      OBVIOUS
    <2>1. CASE i \in c.seen /\ reports[i] # Null
      <3>1. Superseded(c)[i] = [reports[i] EXCEPT !.current = FALSE] /\ reports[i] \in RoomReport
        BY <1>2, <2>1 DEF Superseded
      <3> QED
        BY <2>1, <3>1, ReportFields
    <2>2. CASE ~(i \in c.seen /\ reports[i] # Null)
      BY <2>2 DEF Superseded
    <2> QED
      BY <2>1, <2>2
  <1>5. reports' = [Superseded(c) EXCEPT ![id] = new] /\ DOMAIN Superseded(c) = Numbers
    BY DEF EndReport, Superseded
  <1> HIDE DEF new, Superseded
  <1>6. /\ reports' = [i \in Numbers |-> IF i = id THEN new ELSE Superseded(c)[i]]
    BY <1>5
  <1>7. \A i \in Numbers : reports'[i] \in RoomReport \cup {Null}
    BY <1>2, <1>3, <1>4, <1>6
  <1>8. reports' \in [Numbers -> RoomReport \cup {Null}]
    BY <1>6, <1>7
  <1>9. reports'[id] = new
    BY <1>1, <1>6
  <1>10. \A i \in Numbers \ {id} : reports'[i] = Superseded(c)[i]
    BY <1>6
  <1>11. new # Null
    BY <1>3, TjekAssumption
  <1>12. reports'[lastReport'] = [room |-> c.room, by |-> c.by, date |-> Null, current |-> TRUE]
    BY <1>1, <1>9 DEF new
  <1> QED
    BY <1>1, <1>4, <1>8, <1>9, <1>10, <1>11, <1>12

\* Only its own report is current afterwards where the flag was taken from all; in no other room does
\* one become current.
LEMMA EndReportFlags ==
  ASSUME TjekInv, NEW c \in checks, EndReport(c)
  PROVE  /\ \A room \in Rooms \ {c.room} : CurrentOf(room)' \subseteq CurrentOf(room)
         /\ CurrentOf(c.room)' = (CurrentOf(c.room) \ c.seen) \cup {lastReport'}
         /\ reports'[lastReport'].by = c.by
  <1> DEFINE id == lastReport'
  <1>1. /\ id \in Numbers /\ reports[id] = Null /\ reports'[id] # Null
        /\ reports'[id] = [room |-> c.room, by |-> c.by, date |-> Null, current |-> TRUE]
    BY EndReportDoes
  <1>2. reports'[id].room = c.room /\ reports'[id].current /\ reports'[id].by = c.by
    BY <1>1
  <1>3. \A i \in Numbers \ {id} :
               /\ reports'[i] # Null <=> reports[i] # Null
               /\ reports[i] # Null => reports'[i].room = reports[i].room
               /\ reports[i] # Null /\ i \in c.seen => ~reports'[i].current
               /\ reports[i] # Null /\ i \notin c.seen => reports'[i] = reports[i]
    BY EndReportDoes
  <1> HIDE DEF id
  <1>4. ASSUME NEW room \in Rooms \ {c.room} PROVE CurrentOf(room)' \subseteq CurrentOf(room)
    BY <1>1, <1>2, <1>3 DEF CurrentOf, Filed
  <1>5. CurrentOf(c.room)' = (CurrentOf(c.room) \ c.seen) \cup {id}
    BY <1>1, <1>2, <1>3 DEF CurrentOf, Filed
  <1> QED
    BY <1>2, <1>4, <1>5 DEF id

LEMMA EndReportKeeps ==
  ASSUME TjekInv, NEW c \in checks, EndReport(c)
  PROVE  TjekInv'
  <1>1. checks' = checks \ {c} /\ made' = made
    BY DEF EndReport
  <1>2. TjekTypeOK'
    BY <1>1, EndReportDoes DEF TjekInv, TjekTypeOK
  <1>3. ASSUME NEW i \in Filed' PROVE i <= lastReport'
    <2>1. i \in Nat /\ lastReport \in Nat /\ lastReport' = lastReport + 1
      BY EndReportDoes, TjekAssumption DEF Filed, TjekInv, TjekTypeOK
    <2>2. i = lastReport' \/ i \in Filed
      BY <1>3, EndReportDoes DEF Filed
    <2> QED
      BY <2>1, <2>2 DEF TjekInv
  <1>4. ASSUME NEW d \in checks' PROVE d.n <= made'["check"] /\ Unmatched(d)'
    <2>1. d \in checks /\ d # c /\ Unmatched(d) /\ d.room \in Rooms
      BY <1>1, <1>4 DEF TjekInv, TjekTypeOK, Submission
    <2>2. d.alone => d.room # c.room
      BY <2>1 DEF Unmatched
    <2>3. d.alone => CurrentOf(d.room)' \subseteq CurrentOf(d.room)
      BY <2>1, <2>2, EndReportFlags
    <2> QED
      BY <1>1, <2>1, <2>3 DEF Unmatched, TjekInv
  <1> QED
    BY <1>1, <1>2, <1>3, <1>4 DEF TjekInv

LEMMA FiledIds ==
  ASSUME TjekInv
  PROVE  Filed \in SUBSET Nat /\ IsFiniteSet(Filed)
  <1>1. Filed \subseteq Nat /\ lastReport \in Nat /\ \A i \in Filed : i <= lastReport
    BY TjekAssumption DEF TjekInv, TjekTypeOK, Filed
  <1> HIDE DEF Filed
  <1>2. Filed \in SUBSET (0..lastReport)
    BY <1>1
  <1>3. IsFiniteSet(0..lastReport)
    BY <1>1, FS_Interval
  <1> QED
    BY <1>1, <1>2, <1>3, FS_Subset

\* The reports of the old site in place of those there were.
LEMMA RebuildKeeps ==
  ASSUME TjekInv, OmfangTypeOK, OverInv, RebuildReports, made' = made,
         checks' = {[c EXCEPT !.alone = FALSE] : c \in checks}
  PROVE  TjekInv'
  <1> DEFINE L == lastReport
             S == ImportedReports
             source(i) == CHOOSE n \in S : L + PlaceIn(n, S) = i
             fresh == (L + 1)..(L + Cardinality(S))
             off(c) == [c EXCEPT !.alone = FALSE]
  <1>1. L \in Nat /\ S \in SUBSET Nat /\ IsFiniteSet(S) /\ Cardinality(S) \in Nat
    BY ReportIds, FS_CardinalityType DEF TjekInv, TjekTypeOK
  <1>2. /\ reports' = [i \in Numbers |->
              IF i \in fresh THEN ImportedReport(source(i), dump.reports[source(i)].newest) ELSE Null]
        /\ lastReport' = L + Cardinality(S)
    BY DEF RebuildReports
  <1>3. ASSUME NEW i \in fresh
        PROVE  ImportedReport(source(i), dump.reports[source(i)].newest) \in RoomReport
    <2>1. source(i) \in S
      <3> HIDE DEF S, L
      <3> QED
        BY <1>1, SourceIs
    <2>2. dump.reports[source(i)].newest \in BOOLEAN
      BY <2>1, DumpFits DEF OverInv, ImportedReports
    <2> HIDE DEF source
    <2> QED
      BY <2>1, <2>2, ImportedIs
  <1> HIDE DEF source, S, L
  <1>4. reports' \in [Numbers -> RoomReport \cup {Null}]
    BY <1>2, <1>3
  <1>5. \A i \in Filed' : i <= lastReport'
    BY <1>1, <1>2 DEF Filed
  <1>6. ASSUME NEW c \in checks
        PROVE  /\ off(c) \in Submission /\ off(c).n = c.n /\ off(c).alone = FALSE
               /\ c.n <= made["check"]
    <2>1. c \in Submission /\ FALSE \in BOOLEAN
      BY DEF TjekInv, TjekTypeOK
    <2> QED
      BY <2>1, SubmissionFields DEF TjekInv
  <1>7. checks' = {off(c) : c \in checks}
    OBVIOUS
  <1> HIDE DEF off
  <1>8. TjekTypeOK'
    <2>1. checks' \subseteq Submission
      BY <1>6, <1>7
    <2>2. lastReport' \in Nat
      BY <1>1, <1>2 DEF L
    <2> QED
      BY <1>4, <2>1, <2>2 DEF TjekTypeOK
  <1>9. \A c \in checks' : c.n <= made'["check"] /\ Unmatched(c)'
    BY <1>6, <1>7 DEF Unmatched
  <1>10. ASSUME NEW x \in checks', NEW y \in checks', x.n = y.n PROVE x = y
    <2>1. PICK c \in checks, d \in checks : x = off(c) /\ y = off(d)
      BY <1>7
    <2>2. c = d
      BY <1>6, <1>10, <2>1 DEF TjekInv
    <2> QED
      BY <2>1, <2>2
  <1> QED
    BY <1>5, <1>8, <1>9, <1>10 DEF TjekInv

LEMMA BackfillKeeps ==
  ASSUME TjekInv, OmfangTypeOK, OverInv, BackfillRoomHistory,
         OmfangTypeOK', made'["check"] >= made["check"]
  PROVE  TjekInv'
  <1> DEFINE L == lastReport
             S == Missing
             source(i) == CHOOSE n \in S : L + PlaceIn(n, S) = i
             fresh == (L + 1)..(L + Cardinality(S))
  <1>1. L \in Nat /\ S \in SUBSET Nat /\ IsFiniteSet(S) /\ Cardinality(S) \in Nat
        /\ S \subseteq ImportedReports
    <2>1. S \in SUBSET ImportedReports /\ L \in Nat
      BY DEF Missing, TjekInv, TjekTypeOK
    <2>2. IsFiniteSet(S)
      BY <2>1, ReportIds, FS_Subset
    <2> QED
      BY <2>1, <2>2, ReportIds, FS_CardinalityType
  <1>2. /\ reports' = [i \in Numbers |->
              IF i \in fresh THEN ImportedReport(source(i), FALSE) ELSE reports[i]]
        /\ lastReport' = L + Cardinality(S) /\ checks' = checks
    BY DEF BackfillRoomHistory
  <1>3. ASSUME NEW i \in fresh
        PROVE  /\ ImportedReport(source(i), FALSE) \in RoomReport
               /\ ~ImportedReport(source(i), FALSE).current
    <2>1. source(i) \in S
      <3> HIDE DEF S, L
      <3> QED
        BY <1>1, SourceIs
    <2>2. source(i) \in ImportedReports /\ FALSE \in BOOLEAN
      BY <1>1, <2>1
    <2> HIDE DEF source
    <2>3. ImportedReport(source(i), FALSE).current = FALSE
      BY <2>2, ImportedIs
    <2> QED
      BY <2>2, <2>3, ImportedIs
  <1> DEFINE row(i) == ImportedReport(source(i), FALSE)
  <1>4. /\ reports' = [i \in Numbers |-> IF i \in fresh THEN row(i) ELSE reports[i]]
        /\ \A i \in fresh : row(i) \in RoomReport /\ ~row(i).current
    BY <1>2, <1>3
  <1> HIDE DEF row, source, S, L
  <1>5. reports \in [Numbers -> RoomReport \cup {Null}]
    BY DEF TjekInv, TjekTypeOK
  <1>6. \A i \in Numbers : reports'[i] \in RoomReport \cup {Null}
    BY <1>4, <1>5
  <1>7. TjekTypeOK'
    <2>1. reports' \in [Numbers -> RoomReport \cup {Null}]
      BY <1>4, <1>6
    <2>2. lastReport' \in Nat
      BY <1>1, <1>2 DEF L
    <2> QED
      BY <1>2, <2>1, <2>2 DEF TjekInv, TjekTypeOK
  <1>8. \A i \in Filed' : i <= lastReport'
    <2> SUFFICES ASSUME NEW i \in Filed' PROVE i <= L + Cardinality(S)
      BY <1>2
    <2>1. CASE i \in fresh
      BY <1>1, <2>1
    <2>2. CASE i \notin fresh
      <3>1. i \in Filed /\ i \in Nat
        BY <1>4, <2>2, TjekAssumption DEF Filed
      <3>2. i <= L
        BY <3>1 DEF TjekInv, L
      <3> QED
        BY <1>1, <3>1, <3>2
    <2> QED
      BY <2>1, <2>2
  <1>9. ASSUME NEW room \in Rooms PROVE CurrentOf(room)' \subseteq CurrentOf(room)
    BY <1>4 DEF CurrentOf, Filed
  <1> QED
    BY <1>2, <1>7, <1>8, <1>9, ReportsOnly

LEMMA MovingKeepsReports ==
  ASSUME TjekInv, OmfangTypeOK, OverInv, OverStep, OmfangTypeOK', made'["check"] >= made["check"]
  PROVE  TjekInv'
  <1>1. ASSUME UNCHANGED tjekVars PROVE TjekInv'
    <2>1. TjekTypeOK' /\ \A i \in Filed' : i <= lastReport'
      BY <1>1 DEF tjekVars, TjekInv, TjekTypeOK, Filed
    <2>2. \A room \in Rooms : CurrentOf(room)' \subseteq CurrentOf(room)
      BY <1>1 DEF tjekVars, CurrentOf, Filed
    <2> QED
      BY <1>1, <2>1, <2>2, ReportsOnly DEF tjekVars
  <1>2. CASE RunCommand
    <2>1. CASE Commands[task] = "etl_rooms"
      BY <1>2, <2>1, RebuildKeeps DEF RunCommand
    <2>2. CASE Commands[task] = "reset_sequences"
      <3>1. lastReport' = Largest(Filed) /\ UNCHANGED <<reports, checks>>
        BY <1>2, <2>2 DEF RunCommand
      <3>2. Largest(Filed) \in Nat /\ \A m \in Filed : m <= Largest(Filed)
        BY FiledIds, LargestIs
      <3>3. Filed' = Filed /\ \A room \in Rooms : CurrentOf(room)' = CurrentOf(room)
        BY <3>1 DEF Filed, CurrentOf
      <3>4. TjekTypeOK' /\ \A i \in Filed' : i <= lastReport'
        BY <3>1, <3>2, <3>3 DEF TjekInv, TjekTypeOK
      <3> QED
        BY <3>1, <3>3, <3>4, ReportsOnly
    <2>3. CASE Commands[task] \notin {"etl_rooms", "reset_sequences"}
      BY <1>1, <1>2, <2>3 DEF RunCommand
    <2> QED
      BY <2>1, <2>2, <2>3
  <1>3. CASE BackfillRoomHistory
    BY <1>3, BackfillKeeps
  <1>4. CASE LoadDump \/ StartTask \/ CommandFails \/ CommandDies \/ \E t \in Tables : WriteRow(t)
    BY <1>1, <1>4 DEF LoadDump, StartTask, CommandFails, CommandDies, WriteRow, tjekVars
  <1> QED
    BY <1>2, <1>3, <1>4 DEF OverStep

LEMMA CheckingOrNot ==
  ASSUME [Next]_vars
  PROVE  TjekStep \/ OverStep \/ UNCHANGED tjekVars
  <1>1. CASE Living
    BY <1>1 DEF Living, HverdagStep, Signing, Checking, MovingIn, Looking, Inviting
  <1>2. CASE UNCHANGED vars
    BY <1>2 DEF vars, hverdagVars
  <1>3. CASE \/ Rooming \/ Deducting \/ Repairing \/ Posting \/ Noticing \/ Reading \/ Admitting
             \/ Publishing
    BY <1>3 DEF Rooming, Deducting, Repairing, Posting, Noticing, Reading, Admitting, Publishing,
                hverdagVars
  <1> QED
    BY <1>1, <1>2, <1>3 DEF Next

LEMMA TjekHolds == Spec => [](TjekInv /\ OmfangTypeOK)
  <1>1. Init => TjekInv /\ OmfangTypeOK
    <2> SUFFICES ASSUME TjekInit, OmfangTypeOK PROVE TjekInv
      BY OmfangInit DEF Init, HverdagInit
    <2>1. Filed = {}
      BY DEF TjekInit, Filed
    <2> QED
      BY <2>1 DEF TjekInit, TjekInv, TjekTypeOK
  <1>2. OverInv /\ TjekInv /\ OmfangTypeOK /\ [Next]_vars => (TjekInv /\ OmfangTypeOK)'
    <2> SUFFICES ASSUME OverInv, TjekInv, OmfangTypeOK, [Next]_vars
                 PROVE  TjekInv' /\ OmfangTypeOK'
      OBVIOUS
    <2>1. OmfangTypeOK' /\ made'["check"] >= made["check"]
      BY MadeGrows, TjekAssumption
    <2>2. CASE TjekStep
      BY <2>1, <2>2, BeginReportKeeps, EndReportKeeps DEF TjekStep
    <2>3. CASE OverStep
      BY <2>1, <2>3, MovingKeepsReports
    <2>4. CASE UNCHANGED tjekVars
      <3>1. TjekTypeOK' /\ \A i \in Filed' : i <= lastReport'
        BY <2>4 DEF tjekVars, TjekInv, TjekTypeOK, Filed
      <3>2. \A room \in Rooms : CurrentOf(room)' \subseteq CurrentOf(room)
        BY <2>4 DEF tjekVars, CurrentOf, Filed
      <3> QED
        BY <2>1, <2>4, <3>1, <3>2, ReportsOnly DEF tjekVars
    <2> QED
      BY <2>1, <2>2, <2>3, <2>4, CheckingOrNot
  <1> QED
    BY <1>1, <1>2, OverHolds, PTL DEF Spec

\* The report of a submission that nothing overtakes is its room's only current one, whatever
\* overlapping submissions had left there, and whatever is moved from the old site meanwhile
\* (besvar in src/app/rooms/views.py).
THEOREM NextReportAlwaysHeals == Spec => NextReportHeals
  <1>1. ASSUME OverInv, TjekInv, OmfangTypeOK, [Next]_vars,
               NEW c \in checks, c.alone, \A e \in checks' : e.n # c.n
        PROVE  \E i \in Numbers : CurrentOf(c.room)' = {i} /\ reports'[i].by = c.by
    <2>1. ASSUME checks' = checks PROVE FALSE
      BY <1>1, <2>1
    <2>2. ASSUME NEW e \in checks', NEW b \in BOOLEAN, e = [c EXCEPT !.alone = b] PROVE FALSE
      BY <1>1, <2>2, SubmissionFields DEF TjekInv, TjekTypeOK
    <2>3. CASE EndReport(c)
      <3>1. CurrentOf(c.room)' = {lastReport'}
        BY <1>1, <2>3, EndReportFlags DEF TjekInv, Unmatched
      <3> QED
        BY <1>1, <2>3, <3>1, EndReportFlags, EndReportDoes
    <2>4. ASSUME NEW d \in checks, d # c, EndReport(d) PROVE FALSE
      BY <1>1, <2>4 DEF EndReport
    <2>5. ASSUME NEW r \in Residents, NEW room \in Rooms, BeginReport(r, room) PROVE FALSE
      <3>1. [c EXCEPT !.alone = c.alone /\ c.room # room] \in checks'
        BY <2>5 DEF BeginReport
      <3>2. (c.alone /\ c.room # room) \in BOOLEAN
        BY DEF TjekInv, TjekTypeOK, Submission
      <3> QED
        BY <2>2, <3>1, <3>2
    <2>6. ASSUME OverStep PROVE FALSE
      <3>1. checks' = checks \/ [c EXCEPT !.alone = FALSE] \in checks'
        BY <2>6 DEF OverStep, RunCommand, BackfillRoomHistory, LoadDump, StartTask, CommandFails,
                    CommandDies, WriteRow, tjekVars
      <3> QED
        BY <2>1, <2>2, <3>1
    <2> QED
      BY <1>1, <2>1, <2>3, <2>4, <2>5, <2>6, CheckingOrNot DEF TjekStep, tjekVars
  <1>2. OverInv /\ TjekInv /\ OmfangTypeOK /\ [Next]_vars =>
          [\A c \in checks :
             c.alone /\ (\A e \in checks' : e.n # c.n) =>
                 \E i \in Numbers : CurrentOf(c.room)' = {i} /\ reports'[i].by = c.by]_tjekVars
    BY <1>1
  <1> QED
    BY <1>2, OverHolds, TjekHolds, PTL DEF Spec, NextReportHeals

\* When the task has ended no id that a sequence will give is taken, whatever is written, backfilled
\* or begun anew after that (reset_sequences in src/app/core/management/commands/reset_sequences.py).
THEOREM SequencesAlwaysLead == Spec => []SequencesLead
  <1>1. MovedInv /\ TjekInv => SequencesLead
    BY DEF MovedInv, TjekInv, SequencesLead
  <1> QED
    BY <1>1, MovedHolds, TjekHolds, PTL

-----------------------------------------------------------------------------
(* What is moved is what there was *)

\* The amounts in a dump are numbers, and no id is Null.
LEMMA DumpCounts ==
  ASSUME OverTypeOK
  PROVE  /\ \A ids \in OldIds(dump) : Null \notin ids
         /\ \A n \in DOMAIN dump.log : dump.log[n].delta \in Int
         /\ \A i \in DOMAIN dump.totals : dump.totals[i] \in Int
         /\ \A t \in DOMAIN dump.sales : dump.sales[t].price \in Int
  BY OverflytningAssumption DEF OverTypeOK, dump

\* The rows of the AK ledger: the numbers they get.
Logged == {n \in DOMAIN dump.log : dump.log[n].who \in Known}
Opened == {i \in DOMAIN dump.totals \cap Known : Opening(i) # 0}
LogRow(n) == site.last["krydser"] + PlaceIn(n, Logged)
OpenRow(i) == site.last["krydser"] + (Cardinality(Logged) + PlaceIn(i, Opened))

LEMMA AkRows ==
  ASSUME OverInv
  PROVE  LET ks == EtlAk.krydser
         IN  /\ IsFiniteSet(DOMAIN ks)
             /\ \A n \in Logged :
                   /\ LogRow(n) \in DOMAIN ks /\ ks[LogRow(n)].rid = ResidentOf(dump.log[n].who)
                   /\ ks[LogRow(n)].delta = dump.log[n].delta /\ ks[LogRow(n)].kind = "log"
             /\ \A i \in Opened :
                   /\ OpenRow(i) \in DOMAIN ks /\ ks[OpenRow(i)].rid = ResidentOf(i)
                   /\ ks[OpenRow(i)].delta = Opening(i) /\ ks[OpenRow(i)].kind = "opening"
             /\ \A k \in DOMAIN ks : (\E n \in Logged : k = LogRow(n)) \/ (\E i \in Opened : k = OpenRow(i))
             /\ \A m, n \in Logged : LogRow(m) = LogRow(n) => m = n
             /\ \A n \in Logged :
                   LogRow(n) \in (site.last["krydser"] + 1)..(site.last["krydser"] + Cardinality(Logged))
             /\ \A n \in Logged, i \in Opened : LogRow(n) # OpenRow(i)
  <1> DEFINE first == site.last["krydser"]
             logged == {n \in DOMAIN dump.log : dump.log[n].who \in Known}
             opened == {i \in DOMAIN dump.totals \cap Known : Opening(i) # 0}
             size == Cardinality(logged) + Cardinality(opened)
             logEntry(n) == [rid |-> ResidentOf(dump.log[n].who), delta |-> dump.log[n].delta, kind |-> "log"]
             openEntry(i) == [rid |-> ResidentOf(i), delta |-> Opening(i), kind |-> "opening"]
             e(k) == IF k <= Cardinality(logged)
                     THEN LET n == CHOOSE n \in logged : PlaceIn(n, logged) = k
                          IN  logEntry(n)
                     ELSE LET i == CHOOSE i \in opened : Cardinality(logged) + PlaceIn(i, opened) = k
                          IN  openEntry(i)
             es == [k \in (first + 1)..(first + size) |-> e(k - first)]
  <1>1. EtlAk = [site EXCEPT !.krydser = es, !.last["krydser"] = first + size]
    BY DEF EtlAk
  <1>2. EtlAk.krydser = es
    <2> HIDE DEF es, first, size
    <2> QED
      BY <1>1, SiteKeys DEF OverInv, TablesFit
  <1>3. logged = Logged /\ opened = Opened
    BY DEF Logged, Opened
  <1>4. /\ logged \in SUBSET Nat /\ IsFiniteSet(logged) /\ Cardinality(logged) \in Nat
        /\ opened \in SUBSET Nat /\ IsFiniteSet(opened) /\ Cardinality(opened) \in Nat
    <2>1. IdsOK(DOMAIN dump.log) /\ IdsOK(DOMAIN dump.totals)
      BY DumpFits DEF OldIds, OverInv
    <2>2. logged \subseteq DOMAIN dump.log /\ opened \subseteq DOMAIN dump.totals
      OBVIOUS
    <2> HIDE DEF logged, opened
    <2> QED
      BY <2>1, <2>2, FewerIds DEF IdsOK
  <1>5. first \in Nat /\ size \in Nat
    <2>1. first \in Nat
      BY DEF OverInv, TablesFit, Tables
    <2> HIDE DEF logged, opened
    <2> QED
      BY <1>4, <2>1
  <1>6. \A k \in (first + 1)..(first + size) : es[k] = e(k - first)
    OBVIOUS
  <1>7. DOMAIN es = (first + 1)..(first + size)
    OBVIOUS
  <1> HIDE DEF es, first, logged, opened
  <1>8. ASSUME NEW n \in logged
        PROVE  /\ first + PlaceIn(n, logged) \in DOMAIN es
               /\ first + PlaceIn(n, logged) <= first + Cardinality(logged)
               /\ es[first + PlaceIn(n, logged)] = logEntry(n)
    <2>1. /\ PlaceIn(n, logged) \in 1..Cardinality(logged)
          /\ \A m \in logged : PlaceIn(m, logged) = PlaceIn(n, logged) => m = n
      BY <1>4, PlacesDiffer
    <2>2. (first + PlaceIn(n, logged)) - first = PlaceIn(n, logged)
      BY <1>4, <1>5, <2>1
    <2>3. /\ first + PlaceIn(n, logged) \in (first + 1)..(first + size)
          /\ first + PlaceIn(n, logged) <= first + Cardinality(logged)
      BY <1>4, <1>5, <2>1
    <2>4. (CHOOSE m \in logged : PlaceIn(m, logged) = PlaceIn(n, logged)) = n
      BY <2>1
    <2>5. PlaceIn(n, logged) <= Cardinality(logged)
      BY <1>4, <2>1
    <2>6. e(PlaceIn(n, logged)) = logEntry(n)
      <3> HIDE DEF logEntry
      <3> QED
        BY <2>4, <2>5
    <2> HIDE DEF e, logEntry, size
    <2> QED
      BY <1>6, <1>7, <2>2, <2>3, <2>6
  <1>9. ASSUME NEW i \in opened
        PROVE  /\ first + (Cardinality(logged) + PlaceIn(i, opened)) \in DOMAIN es
               /\ first + (Cardinality(logged) + PlaceIn(i, opened)) > first + Cardinality(logged)
               /\ es[first + (Cardinality(logged) + PlaceIn(i, opened))] = openEntry(i)
    <2> DEFINE place == Cardinality(logged) + PlaceIn(i, opened)
    <2>1. /\ PlaceIn(i, opened) \in 1..Cardinality(opened)
          /\ \A j \in opened : PlaceIn(j, opened) \in Nat /\ (PlaceIn(j, opened) = PlaceIn(i, opened) => j = i)
      BY <1>4, PlacesDiffer
    <2>2. (first + place) - first = place /\ place > Cardinality(logged)
      BY <1>4, <1>5, <2>1
    <2>3. first + place \in (first + 1)..(first + size) /\ first + place > first + Cardinality(logged)
      BY <1>4, <1>5, <2>1
    <2>4. \A j \in opened : Cardinality(logged) + PlaceIn(j, opened) = place <=> j = i
      BY <1>4, <2>1
    <2>5. (CHOOSE j \in opened : Cardinality(logged) + PlaceIn(j, opened) = place) = i
      BY <2>4
    <2>6. place \in Nat /\ ~(place <= Cardinality(logged))
      BY <1>4, <2>1, <2>2
    <2> HIDE DEF place
    <2>7. e(place) = openEntry(i)
      <3> HIDE DEF openEntry
      <3> QED
        BY <2>5, <2>6
    <2> HIDE DEF e, openEntry, size
    <2>8. /\ first + place \in DOMAIN es /\ first + place > first + Cardinality(logged)
          /\ es[first + place] = openEntry(i)
      BY <1>6, <1>7, <2>2, <2>3, <2>7
    <2> QED
      BY <2>8 DEF place
  <1>10. ASSUME NEW k \in DOMAIN es
         PROVE  (\E n \in logged : k = first + PlaceIn(n, logged))
                \/ (\E i \in opened : k = first + (Cardinality(logged) + PlaceIn(i, opened)))
    <2>1. k \in Nat /\ k - first \in 1..size
      BY <1>5, <1>7
    <2>2. CASE k - first <= Cardinality(logged)
      <3>1. k - first \in 1..Cardinality(logged)
        BY <1>4, <1>5, <2>1, <2>2
      <3>2. PICK n \in logged : PlaceIn(n, logged) = k - first
        BY <1>4, <3>1, PlaceIsTaken
      <3> QED
        BY <1>5, <2>1, <3>2
    <2>3. CASE ~(k - first <= Cardinality(logged))
      <3>1. (k - first) - Cardinality(logged) \in 1..Cardinality(opened)
        BY <1>4, <1>5, <2>1, <2>3
      <3>2. PICK i \in opened : PlaceIn(i, opened) = (k - first) - Cardinality(logged)
        BY <1>4, <3>1, PlaceIsTaken
      <3> QED
        BY <1>4, <1>5, <2>1, <3>2
    <2> QED
      BY <2>2, <2>3
  <1>11. \A m, n \in logged : first + PlaceIn(m, logged) = first + PlaceIn(n, logged) => m = n
    <2> SUFFICES ASSUME NEW m \in logged, NEW n \in logged, first + PlaceIn(m, logged) = first + PlaceIn(n, logged)
                 PROVE  m = n
      OBVIOUS
    <2>1. PlaceIn(m, logged) \in 1..Cardinality(logged) /\ PlaceIn(n, logged) \in 1..Cardinality(logged)
      BY <1>4, PlacesDiffer
    <2>2. PlaceIn(m, logged) = PlaceIn(n, logged)
      BY <1>4, <1>5, <2>1
    <2> QED
      BY <1>4, <2>2, PlacesDiffer
  <1>12. IsFiniteSet(DOMAIN es)
    BY <1>5, <1>7, FS_Interval
  <1>13. /\ \A n : LogRow(n) = first + PlaceIn(n, logged)
         /\ \A i : OpenRow(i) = first + (Cardinality(logged) + PlaceIn(i, opened))
    BY <1>3 DEF LogRow, OpenRow, first
  <1>14. \A n \in logged : LogRow(n) \in (first + 1)..(first + Cardinality(logged))
    BY <1>4, <1>5, <1>13, PlacesDiffer
  <1>15. \A n \in logged, i \in opened : LogRow(n) # OpenRow(i)
    <2> SUFFICES ASSUME NEW n \in logged, NEW i \in opened PROVE LogRow(n) # OpenRow(i)
      OBVIOUS
    <2>1. LogRow(n) \in Nat /\ LogRow(n) <= first + Cardinality(logged)
      BY <1>4, <1>5, <1>14
    <2>2. OpenRow(i) > first + Cardinality(logged)
      BY <1>9, <1>13
    <2> QED
      BY <1>4, <1>5, <2>1, <2>2
  <1>16. ASSUME NEW n \in logged
         PROVE  /\ LogRow(n) \in DOMAIN es /\ es[LogRow(n)].rid = ResidentOf(dump.log[n].who)
                /\ es[LogRow(n)].delta = dump.log[n].delta /\ es[LogRow(n)].kind = "log"
    <2>1. LogRow(n) \in DOMAIN es /\ es[LogRow(n)] = logEntry(n)
      BY <1>8, <1>13
    <2> QED
      BY <2>1
  <1>17. ASSUME NEW i \in opened
         PROVE  /\ OpenRow(i) \in DOMAIN es /\ es[OpenRow(i)].rid = ResidentOf(i)
                /\ es[OpenRow(i)].delta = Opening(i) /\ es[OpenRow(i)].kind = "opening"
    <2>1. OpenRow(i) \in DOMAIN es /\ es[OpenRow(i)] = openEntry(i)
      BY <1>9, <1>13
    <2> QED
      BY <2>1
  <1> HIDE DEF e, size
  <1> QED
    BY <1>2, <1>3, <1>10, <1>11, <1>12, <1>13, <1>14, <1>15, <1>16, <1>17 DEF first

\* The log of a resident, with what the opening entry adds to it, is the old total.
LEMMA AkBalances ==
  ASSUME OverInv, Known = DOMAIN Remap, NEW i \in DOMAIN dump.totals \cap DOMAIN Remap,
         SameMail(i) \cap DOMAIN dump.totals = {i}
  PROVE  LET ks == EtlAk.krydser
         IN  SumFunctionOnSet([k \in DOMAIN ks |-> ks[k].delta], {k \in DOMAIN ks : ks[k].rid = Remap[i]})
                 = dump.totals[i]
  <1> DEFINE ks == EtlAk.krydser
             deltas == [k \in DOMAIN ks |-> ks[k].delta]
             r == Remap[i]
             all == {k \in DOMAIN ks : ks[k].rid = r}
             name == [n \in LogOf(r) |-> LogRow(n)]
             log == {name[n] : n \in LogOf(r)}
  <1>1. /\ r = ResidentOf(i) /\ r # Null /\ dump.alumner[r] = dump.alumner[i] /\ i \in Known
    <2>1. r \in DOMAIN dump.alumner /\ dump.alumner[r] = dump.alumner[i]
      BY RemapIs DEF OverInv
    <2>2. r # Null
      BY <2>1, DumpCounts DEF OldIds, OverInv
    <2> QED
      BY <2>1, <2>2 DEF ResidentOf
  <1>2. LogOf(r) \in SUBSET Logged /\ IsFiniteSet(LogOf(r)) /\ \A n \in LogOf(r) : Deltas[n] \in Int
    <2>1. LogOf(r) \subseteq DOMAIN dump.log /\ IsFiniteSet(DOMAIN dump.log)
      BY DumpFits DEF LogOf, OldIds, OverInv, IdsOK
    <2>2. LogOf(r) \in SUBSET Logged
      BY <1>1 DEF LogOf, Logged, ResidentOf
    <2>3. \A n \in LogOf(r) : Deltas[n] \in Int
      BY <2>1, DumpCounts DEF Deltas, OverInv
    <2> QED
      BY <2>1, <2>2, <2>3, FS_Subset
  <1>3. /\ IsFiniteSet(DOMAIN ks)
        /\ \A n \in Logged :
              /\ LogRow(n) \in DOMAIN ks /\ ks[LogRow(n)].rid = ResidentOf(dump.log[n].who)
              /\ ks[LogRow(n)].delta = dump.log[n].delta
        /\ \A j \in Opened :
              /\ OpenRow(j) \in DOMAIN ks /\ ks[OpenRow(j)].rid = ResidentOf(j)
              /\ ks[OpenRow(j)].delta = Opening(j)
        /\ \A k \in DOMAIN ks : (\E n \in Logged : k = LogRow(n)) \/ (\E j \in Opened : k = OpenRow(j))
        /\ \A m, n \in Logged : LogRow(m) = LogRow(n) => m = n
        /\ \A n \in Logged, j \in Opened : LogRow(n) # OpenRow(j)
    BY AkRows
  <1> HIDE DEF ks
  <1>4. LogSum(r) \in Int /\ Opening(i) = dump.totals[i] - LogSum(r) /\ dump.totals[i] \in Int
    BY <1>1, <1>2, SumIsInt, DumpCounts DEF LogSum, Opening, OverInv
  <1>5. \A n \in LogOf(r) : deltas[LogRow(n)] = Deltas[n] /\ LogRow(n) \in DOMAIN ks /\ ks[LogRow(n)].rid = r
    <2> SUFFICES ASSUME NEW n \in LogOf(r)
                 PROVE  deltas[LogRow(n)] = Deltas[n] /\ LogRow(n) \in DOMAIN ks /\ ks[LogRow(n)].rid = r
      OBVIOUS
    <2>1. n \in Logged /\ n \in DOMAIN dump.log /\ ResidentOf(dump.log[n].who) = r
      BY <1>2 DEF LogOf
    <2>2. LogRow(n) \in DOMAIN ks /\ ks[LogRow(n)].delta = dump.log[n].delta /\ ks[LogRow(n)].rid = r
      BY <1>3, <2>1
    <2> QED
      BY <2>1, <2>2 DEF Deltas
  <1>6. SumFunctionOnSet(deltas, log) = LogSum(r)
    <2>1. \A m, n \in LogOf(r) : name[m] = name[n] => m = n
      BY <1>2, <1>3
    <2>2. \A n \in LogOf(r) : Deltas[n] \in Int /\ deltas[name[n]] = Deltas[n]
      BY <1>2, <1>5
    <2> HIDE DEF name, deltas
    <2> QED
      BY <1>2, <2>1, <2>2, SumRenamed DEF LogSum
  <1>7. log \subseteq all /\ \A k \in all \ log : Opening(i) # 0 /\ i \in Opened /\ k = OpenRow(i)
    <2>1. log \subseteq all
      <3>1. \A n \in LogOf(r) : name[n] \in all
        BY <1>5
      <3> HIDE DEF name, all
      <3> QED
        BY <3>1
    <2>2. ASSUME NEW k \in all \ log PROVE Opening(i) # 0 /\ i \in Opened /\ k = OpenRow(i)
      <3>1. ASSUME NEW n \in Logged, k = LogRow(n) PROVE FALSE
        <4>1. ResidentOf(dump.log[n].who) = r /\ n \in DOMAIN dump.log
          BY <1>3, <2>2, <3>1 DEF Logged
        <4>2. n \in LogOf(r)
          BY <4>1 DEF LogOf
        <4> QED
          BY <2>2, <3>1, <4>2
      <3>2. PICK j \in Opened : k = OpenRow(j)
        BY <1>3, <2>2, <3>1
      <3>3. ResidentOf(j) = r /\ j \in DOMAIN dump.totals /\ j \in DOMAIN Remap /\ Opening(j) # 0
        BY <1>3, <2>2, <3>2 DEF Opened
      <3>4. Remap[j] = r
        BY <3>3 DEF ResidentOf
      <3>5. j \in DOMAIN dump.alumner /\ dump.alumner[j] = dump.alumner[i]
        BY <1>1, <3>3, <3>4, RemapIs DEF OverInv
      <3>6. j = i
        BY <3>3, <3>5 DEF SameMail
      <3> QED
        BY <3>2, <3>3, <3>6
    <2> QED
      BY <2>1, <2>2
  <1>8. IsFiniteSet(log)
    <2>1. log \in SUBSET DOMAIN ks
      BY <1>5
    <2> HIDE DEF log
    <2> QED
      BY <1>3, <2>1, FS_Subset
  <1>9. CASE Opening(i) = 0
    <2>1. all = log
      BY <1>7, <1>9
    <2>2. LogSum(r) = dump.totals[i]
      BY <1>4, <1>9
    <2> HIDE DEF deltas, log, all
    <2>3. SumFunctionOnSet(deltas, all) = dump.totals[i]
      BY <1>6, <2>1, <2>2
    <2> QED
      BY <2>3 DEF deltas, all, ks
  <1>10. CASE Opening(i) # 0
    <2>1. i \in Opened
      BY <1>1, <1>10 DEF Opened
    <2>2. /\ OpenRow(i) \in DOMAIN ks /\ ks[OpenRow(i)].rid = r /\ ks[OpenRow(i)].delta = Opening(i)
      BY <1>1, <1>3, <2>1
    <2>3. all = log \cup {OpenRow(i)}
      BY <1>7, <2>2
    <2>4. OpenRow(i) \notin log
      BY <1>2, <1>3, <2>1
    <2>5. \A k \in log \cup {OpenRow(i)} : deltas[k] \in Int
      <3>1. \A n \in LogOf(r) : deltas[LogRow(n)] \in Int
        BY <1>2, <1>5
      <3>2. deltas[OpenRow(i)] = Opening(i)
        BY <2>2
      <3> QED
        BY <1>4, <3>1, <3>2
    <2>6. deltas[OpenRow(i)] = Opening(i)
      BY <2>2
    <2> HIDE DEF deltas, log, all
    <2>7. SumFunctionOnSet(deltas, log \cup {OpenRow(i)}) = deltas[OpenRow(i)] + SumFunctionOnSet(deltas, log)
      BY <1>8, <2>4, <2>5, SumWith
    <2>8. SumFunctionOnSet(deltas, all) = dump.totals[i]
      BY <1>4, <1>6, <2>3, <2>6, <2>7
    <2> QED
      BY <2>8 DEF deltas, all, ks
  <1> QED
    BY <1>9, <1>10

\* Of the log of the old site nothing is there twice.
LEMMA AkLog ==
  ASSUME OverInv
  PROVE  LET ks == EtlAk.krydser
         IN  SmallerOrSame({k \in DOMAIN ks : ks[k].kind = "log"}, DOMAIN dump.log)
  <1> DEFINE ks == EtlAk.krydser
             first == site.last["krydser"]
             range == (first + 1)..(first + Cardinality(Logged))
             kept == {k \in DOMAIN ks : ks[k].kind = "log"}
  <1>1. IdsOK(DOMAIN dump.log) /\ Logged \in SUBSET DOMAIN dump.log /\ first \in Nat
    BY DumpFits DEF OldIds, OverInv, Logged, TablesFit, Tables
  <1>2. IsFiniteSet(Logged) /\ Cardinality(Logged) \in Nat /\ Cardinality(Logged) <= Cardinality(DOMAIN dump.log)
        /\ Cardinality(DOMAIN dump.log) \in Nat
    BY <1>1, FS_Subset, FS_CardinalityType DEF IdsOK
  <1>3. IsFiniteSet(range) /\ Cardinality(range) = Cardinality(Logged)
    <2> DEFINE a == first + 1
               b == first + Cardinality(Logged)
    <2>1. a \in Int /\ b \in Int /\ (IF a > b THEN 0 ELSE b - a + 1) = Cardinality(Logged)
      BY <1>1, <1>2
    <2>2. range = a..b
      OBVIOUS
    <2> HIDE DEF a, b, range
    <2> QED
      BY <2>1, <2>2, FS_Interval
  <1>4. /\ \A n \in Logged : LogRow(n) \in range
        /\ \A j \in Opened : ks[OpenRow(j)].kind = "opening"
        /\ \A k \in DOMAIN ks : (\E n \in Logged : k = LogRow(n)) \/ (\E j \in Opened : k = OpenRow(j))
    <2> HIDE DEF range
    <2> QED
      BY AkRows DEF range
  <1>5. kept \in SUBSET range
    <2> HIDE DEF ks, range
    <2> QED
      BY <1>4
  <1> HIDE DEF kept, range
  <1>6. Cardinality(kept) <= Cardinality(range) /\ Cardinality(kept) \in Nat
    BY <1>3, <1>5, FS_Subset, FS_CardinalityType
  <1>7. Cardinality(kept) <= Cardinality(DOMAIN dump.log)
    BY <1>2, <1>3, <1>6
  <1> QED
    BY <1>7 DEF SmallerOrSame, kept, ks

\* The shares of an old sale add up to its price.
LEMMA ShareOut ==
  ASSUME OverInv, NEW t \in DOMAIN dump.sales, DOMAIN Shares(dump.sales[t]) # {}
  PROVE  SumFunction(Shares(dump.sales[t])) = dump.sales[t].price
  <1> DEFINE price == dump.sales[t].price
             buyers == dump.sales[t].by \cap ShopperKnown
             n == Cardinality(buyers)
             low == price \div n
             rest == price % n
             first == {s \in buyers : PlaceIn(s, buyers) <= rest}
             place == [s \in first |-> PlaceIn(s, buyers)]
             shares == Shares(dump.sales[t])
             evenly == [s \in buyers |-> low]
             more == [s \in buyers |-> IF s \in first THEN 1 ELSE 0]
  <1>1. shares = [s \in buyers |-> low + (IF PlaceIn(s, buyers) <= rest THEN 1 ELSE 0)]
    BY DEF Shares
  <1>2. DOMAIN shares = buyers /\ \A s \in buyers : shares[s] = low + (IF s \in first THEN 1 ELSE 0)
    <2> HIDE DEF low, rest, buyers, shares
    <2> QED
      BY <1>1
  <1>3. buyers \in SUBSET Nat /\ IsFiniteSet(buyers) /\ buyers # {} /\ price \in Int
    <2>1. IdsOK(DOMAIN dump.shoppers)
      BY DumpFits DEF OldIds, OverInv
    <2>2. buyers \in SUBSET DOMAIN dump.shoppers
      BY DEF ShopperKnown
    <2>3. buyers # {}
      BY <1>2
    <2>4. price \in Int
      BY DumpCounts DEF OverInv
    <2> HIDE DEF buyers, price
    <2> QED
      BY <2>1, <2>2, <2>3, <2>4, FewerIds DEF IdsOK
  <1> HIDE DEF buyers, price, shares
  <1>4. n \in Nat \ {0}
    BY <1>3, FS_CardinalityType, FS_EmptySet
  <1>5. low \in Int /\ rest \in Nat /\ rest < n /\ price = n * low + rest
    <2> HIDE DEF n
    <2> QED
      BY <1>3, <1>4
  <1> HIDE DEF low, rest
  <1>6. Cardinality(first) = rest /\ first \in SUBSET buyers
    <2>1. /\ \A s \in buyers : PlaceIn(s, buyers) \in 1..n
          /\ \A r, s \in buyers : PlaceIn(r, buyers) = PlaceIn(s, buyers) => r = s
      BY <1>3, PlacesDiffer
    <2>2. {place[s] : s \in first} = 1..rest
      <3>1. ASSUME NEW s \in first PROVE place[s] \in 1..rest
        BY <1>4, <1>5, <2>1
      <3>2. ASSUME NEW k \in 1..rest PROVE \E s \in first : place[s] = k
        <4>1. k \in 1..Cardinality(buyers)
          BY <1>4, <1>5
        <4>2. PICK s \in buyers : PlaceIn(s, buyers) = k
          BY <1>3, <4>1, PlaceIsTaken
        <4>3. s \in first
          BY <1>5, <4>2
        <4> QED
          BY <4>2, <4>3
      <3> HIDE DEF place, first
      <3> QED
        BY <3>1, <3>2
    <2>3. \A r, s \in first : place[r] = place[s] => r = s
      BY <2>1
    <2>4. first \in SUBSET buyers
      OBVIOUS
    <2> HIDE DEF first, place
    <2>5. IsFiniteSet(first)
      BY <1>3, <2>4, FS_Subset
    <2>6. Cardinality({place[s] : s \in first}) = Cardinality(first)
      BY <2>3, <2>5, SameNumber
    <2>7. Cardinality(1..rest) = rest
      <3>1. 1 \in Int /\ rest \in Int /\ (IF 1 > rest THEN 0 ELSE rest - 1 + 1) = rest
        BY <1>5
      <3> QED
        BY <3>1, FS_Interval
    <2> QED
      BY <2>2, <2>4, <2>6, <2>7
  <1> HIDE DEF n, first
  <1>7. \A s \in buyers : evenly[s] \in Int /\ more[s] \in Int /\ shares[s] = evenly[s] + more[s]
    BY <1>2, <1>5
  <1>8. SumFunctionOnSet(shares, buyers) = SumFunctionOnSet(evenly, buyers) + SumFunctionOnSet(more, buyers)
    <2>1. IsFiniteSet(buyers)
      BY <1>3
    <2> HIDE DEF evenly, more
    <2> QED
      BY <1>7, <2>1, SumPlus
  <1>9. SumFunctionOnSet(more, buyers) = rest
    <2>1. \A s \in buyers : more[s] = IF s \in first THEN 1 ELSE 0
      OBVIOUS
    <2> HIDE DEF more
    <2> QED
      BY <1>3, <1>6, <2>1, SumCounts
  <1>10. SumFunctionOnSet(evenly, buyers) = n * low
    <2>1. \A s \in buyers : evenly[s] \in Int /\ low <= evenly[s] /\ evenly[s] <= low
      BY <1>5
    <2> HIDE DEF evenly
    <2>2. /\ Cardinality(buyers) * low <= SumFunctionOnSet(evenly, buyers)
          /\ SumFunctionOnSet(evenly, buyers) <= Cardinality(buyers) * low
      BY <1>3, <1>5, <2>1, SumBetween
    <2>3. SumFunctionOnSet(evenly, buyers) \in Int
      BY <1>3, <2>1, SumIsInt
    <2>4. n * low \in Int
      BY <1>4, <1>5
    <2> QED
      BY <2>2, <2>3, <2>4 DEF n
  <1>11. SumFunctionOnSet(shares, buyers) = price
    BY <1>5, <1>8, <1>9, <1>10
  <1> QED
    BY <1>2, <1>11 DEF SumFunction, shares, price

\* A report that is imported says what the old one said, under the number of its place.
LEMMA ReportIsThere ==
  ASSUME TjekInv, OverInv, RebuildReports, NEW n \in ImportedReports
  PROVE  LET i == lastReport + PlaceIn(n, ImportedReports)
         IN  /\ i \in Filed'
             /\ reports'[i].room = dump.reports[n].room /\ reports'[i].date = dump.reports[n].date
  <1> DEFINE S == ImportedReports
             i == lastReport + PlaceIn(n, S)
             fresh == (lastReport + 1)..(lastReport + Cardinality(S))
             source(j) == CHOOSE m \in S : lastReport + PlaceIn(m, S) = j
             row(m) == ImportedReport(m, dump.reports[m].newest)
  <1>1. /\ fresh \subseteq Numbers
        /\ reports' = [j \in Numbers |-> IF j \in fresh THEN row(source(j)) ELSE Null]
    BY DEF RebuildReports
  <1>2. S \in SUBSET Nat /\ IsFiniteSet(S) /\ lastReport \in Nat /\ n \in S
    BY ReportIds DEF TjekInv, TjekTypeOK
  <1>3. i \in fresh /\ source(i) = n
    <2> HIDE DEF S
    <2> QED
      BY <1>2, TheSource
  <1>4. row(n) \in RoomReport /\ row(n).room = dump.reports[n].room /\ row(n).date = dump.reports[n].date
    <2>1. dump.reports[n].newest \in BOOLEAN
      BY DumpFits DEF OverInv, ImportedReports
    <2>2. row(n) \in RoomReport
      BY <2>1, ImportedIs
    <2> QED
      BY <2>2 DEF ImportedReport
  <1> HIDE DEF row, source, fresh, S
  <1>5. reports'[i] = row(n) /\ i \in Numbers
    BY <1>1, <1>3
  <1>6. i \in Filed'
    BY <1>4, <1>5, TjekAssumption DEF Filed
  <1> QED
    BY <1>4, <1>5, <1>6 DEF S

\* Nor is there any other.
LEMMA OnlyImported ==
  ASSUME TjekInv, OverInv, RebuildReports, NEW i \in Filed'
  PROVE  \E n \in ImportedReports : i = lastReport + PlaceIn(n, ImportedReports)
  <1>1. i \in (lastReport + 1)..(lastReport + Cardinality(ImportedReports))
    BY DEF RebuildReports, Filed
  <1>2. ImportedReports \in SUBSET Nat /\ IsFiniteSet(ImportedReports) /\ lastReport \in Nat
    BY ReportIds DEF TjekInv, TjekTypeOK
  <1>3. Cardinality(ImportedReports) \in Nat
    BY <1>2, FS_CardinalityType
  <1>4. i - lastReport \in 1..Cardinality(ImportedReports)
    BY <1>1, <1>2, <1>3
  <1>5. PICK n \in ImportedReports : PlaceIn(n, ImportedReports) = i - lastReport
    BY <1>2, <1>4, PlaceIsTaken
  <1>6. i = lastReport + PlaceIn(n, ImportedReports)
    BY <1>1, <1>2, <1>3, <1>5
  <1> QED
    BY <1>6

\* Every report on a room there is, is imported, once.
LEMMA RebuildAgrees ==
  ASSUME TjekInv, OverInv, RebuildReports, staging' = staging, site.rooms = House
  PROVE  ReportsAgree'
  <1> SUFFICES ASSUME NEW room \in House, NEW d \in Dates
               PROVE  SameSize(ReportsOn(room, d)', OldReportsOn(room, d))
    <2>1. \A room, d : OldReportsOn(room, d)' = OldReportsOn(room, d)
      BY DEF OldReportsOn, dump
    <2> QED
      BY <2>1 DEF ReportsAgree, SameSize
  <1> DEFINE S == ImportedReports
             old == OldReportsOn(room, d)
             name == [n \in old |-> lastReport + PlaceIn(n, S)]
  <1>1. old \in SUBSET S
    BY DEF OldReportsOn, ImportedReports
  <1>2. S \in SUBSET Nat /\ IsFiniteSet(S) /\ lastReport \in Nat /\ IsFiniteSet(old)
    BY <1>1, ReportIds, FS_Subset DEF TjekInv, TjekTypeOK
  <1>3. \A n \in S : /\ lastReport + PlaceIn(n, S) \in Filed'
                     /\ reports'[lastReport + PlaceIn(n, S)].room = dump.reports[n].room
                     /\ reports'[lastReport + PlaceIn(n, S)].date = dump.reports[n].date
    BY ReportIsThere
  <1>4. \A i \in Filed' : \E n \in S : i = lastReport + PlaceIn(n, S)
    BY OnlyImported
  <1>5. \A m, n \in old : name[m] = name[n] => m = n
    <2> SUFFICES ASSUME NEW m \in old, NEW n \in old, lastReport + PlaceIn(m, S) = lastReport + PlaceIn(n, S)
                 PROVE  m = n
      OBVIOUS
    <2> HIDE DEF S, old
    <2>1. PlaceIn(m, S) \in 1..Cardinality(S) /\ PlaceIn(n, S) \in 1..Cardinality(S)
      BY <1>1, <1>2, PlacesDiffer
    <2>2. PlaceIn(m, S) = PlaceIn(n, S)
      BY <1>2, <2>1, FS_CardinalityType
    <2> QED
      BY <1>1, <1>2, <2>2, PlacesDiffer
  <1> HIDE DEF S
  <1>6. {name[n] : n \in old} = ReportsOn(room, d)'
    <2>1. ASSUME NEW n \in old PROVE name[n] \in ReportsOn(room, d)'
      BY <1>1, <1>3 DEF ReportsOn, OldReportsOn
    <2>2. ASSUME NEW i \in ReportsOn(room, d)' PROVE \E n \in old : name[n] = i
      <3>1. i \in Filed' /\ reports'[i].room = room /\ reports'[i].date = d
        BY DEF ReportsOn
      <3>2. PICK n \in S : i = lastReport + PlaceIn(n, S)
        BY <1>4, <3>1
      <3>3. dump.reports[n].room = room /\ dump.reports[n].date = d
        BY <1>3, <3>1, <3>2
      <3>4. n \in old
        BY <3>3 DEF OldReportsOn, ImportedReports, S
      <3> QED
        BY <3>2, <3>4
    <2> HIDE DEF name, old
    <2> QED
      BY <2>1, <2>2
  <1> HIDE DEF name, old
  <1>7. Cardinality({name[n] : n \in old}) = Cardinality(old)
    BY <1>2, <1>5, SameNumber
  <1> QED
    BY <1>6, <1>7 DEF SameSize, old

\* Then nothing is missing for the backfill.
LEMMA NothingMissing ==
  ASSUME TjekInv, OverInv, ReportsAgree, site.rooms = House
  PROVE  Missing = {}
  <1> SUFFICES ASSUME NEW n \in Missing PROVE FALSE
    OBVIOUS
  <1> DEFINE room == dump.reports[n].room
             d == dump.reports[n].date
  <1>1. n \in ImportedReports /\ ReportsOn(room, d) = {}
    BY DEF Missing, ReportsOn
  <1>2. room \in House /\ d \in Dates /\ n \in OldReportsOn(room, d)
    BY <1>1, DumpFits DEF ImportedReports, OldReportsOn, OverInv
  <1>3. OldReportsOn(room, d) \in SUBSET DOMAIN dump.reports /\ IsFiniteSet(DOMAIN dump.reports)
    BY DumpFits DEF OldReportsOn, OldIds, OverInv, IdsOK
  <1>4. IsFiniteSet(OldReportsOn(room, d))
    BY <1>3, FS_Subset
  <1>5. Cardinality(OldReportsOn(room, d)) # 0
    BY <1>2, <1>4, FS_EmptySet
  <1>6. Cardinality(ReportsOn(room, d)) = 0
    BY <1>1, FS_EmptySet
  <1> QED
    BY <1>2, <1>5, <1>6 DEF ReportsAgree, SameSize

LEMMA SameReportsAgree ==
  ASSUME ReportsAgree, staging' = staging,
         \A room \in House, d \in Dates : ReportsOn(room, d)' = ReportsOn(room, d)
  PROVE  ReportsAgree'
  <1>1. \A room, d : OldReportsOn(room, d)' = OldReportsOn(room, d)
    BY DEF OldReportsOn, dump
  <1> QED
    BY <1>1 DEF ReportsAgree, SameSize

LEMMA BackfillAgrees ==
  ASSUME TjekInv, OverInv, ReportsAgree, site.rooms = House, BackfillRoomHistory
  PROVE  ReportsAgree'
  <1> DEFINE fresh == (lastReport + 1)..(lastReport + Cardinality(Missing))
  <1>1. Cardinality(Missing) = 0 /\ lastReport \in Nat
    BY NothingMissing, FS_EmptySet DEF TjekInv, TjekTypeOK
  <1>2. fresh = {}
    BY <1>1
  <1>3. /\ \A i \in Numbers : i \notin fresh => reports'[i] = reports[i]
        /\ staging' = staging
    BY DEF BackfillRoomHistory
  <1>4. \A i \in Numbers : reports'[i] = reports[i]
    BY <1>2, <1>3
  <1>5. \A room \in House, d \in Dates : ReportsOn(room, d)' = ReportsOn(room, d)
    BY <1>4 DEF ReportsOn, Filed
  <1> QED
    BY <1>3, <1>5, SameReportsAgree

\* What is written on the new site has a later date.
LEMMA EndReportAgrees ==
  ASSUME TjekInv, ReportsAgree, NEW c \in checks, EndReport(c), staging' = staging
  PROVE  ReportsAgree'
  <1>1. /\ lastReport' \in Numbers /\ reports[lastReport'] = Null
        /\ reports'[lastReport'] = [room |-> c.room, by |-> c.by, date |-> Null, current |-> TRUE]
        /\ \A i \in Numbers \ {lastReport'} :
              /\ reports'[i] # Null <=> reports[i] # Null
              /\ reports[i] # Null =>
                    reports'[i].room = reports[i].room /\ reports'[i].date = reports[i].date
    BY EndReportDoes
  <1>2. reports'[lastReport'].date = Null
    BY <1>1
  <1>3. \A room \in House, d \in Dates : ReportsOn(room, d)' = ReportsOn(room, d)
    BY <1>1, <1>2, TjekAssumption DEF ReportsOn, Filed
  <1> QED
    BY <1>3, SameReportsAgree

-----------------------------------------------------------------------------
(* How far the task has come with the ledgers *)

LogThere ==
    SmallerOrSame({k \in DOMAIN site.krydser : site.krydser[k].kind = "log"}, DOMAIN dump.log)
SalesThere ==
    DOMAIN site.sales = DOMAIN dump.sales /\ DOMAIN site.deposits \subseteq DOMAIN dump.deposits

\* What a task has rebuilt says what the dump says until a later one is loaded, and its ledgers until
\* somebody writes to them.
CarriedInv ==
    /\ task > 6 \/ moved => ReportsAgree
    /\ ~touched /\ (task > 5 \/ moved) => BalancesAgree /\ LogThere
    /\ ~touched /\ (task > 7 \/ moved) => SharesAgree /\ SalesThere

LEMMA SameSource ==
  ASSUME staging' = staging
  PROVE  dump' = dump /\ Remap' = Remap /\ \A i : SameMail(i)' = SameMail(i)
  <1>1. dump' = dump
    BY DEF dump
  <1>2. \A i : SameMail(i)' = SameMail(i)
    BY <1>1 DEF SameMail
  <1> QED
    BY <1>1, <1>2 DEF Remap

\* Each ledger is written by one command.
LEMMA LedgersAfter ==
  ASSUME OverInv, RunCommand
  PROVE  /\ task # 5 => site'.krydser = site.krydser
         /\ task # 7 => site'.sales = site.sales /\ site'.deposits = site.deposits
         /\ task = 5 => site' = EtlAk
         /\ task = 7 => site' = EtlOelkaelder
  <1>1. /\ task \in 1..10 /\ site' = AfterCommand(Commands[task])
        /\ task = 1 <=> Commands[task] = "seed_rooms"
        /\ task = 2 <=> Commands[task] = "etl_residents"
        /\ task = 3 <=> Commands[task] = "etl_admissions"
        /\ task = 4 <=> Commands[task] = "etl_cms"
        /\ task = 5 <=> Commands[task] = "etl_ak"
        /\ task = 6 <=> Commands[task] = "etl_rooms"
        /\ task = 7 <=> Commands[task] = "etl_oelkaelder"
        /\ task = 8 <=> Commands[task] = "etl_stats"
        /\ task = 9 <=> Commands[task] = "reset_sequences"
        /\ task = 10 <=> Commands[task] = "sync_cms_media"
    BY CommandAt DEF RunCommand, OverInv, OverTypeOK
  <1>2. DOMAIN site = DOMAIN EmptySite
    BY DEF OverInv, TablesFit
  <1> DEFINE same(s, t) == s[t] = site[t]
  <1>3. /\ \A t \in {"krydser", "sales", "deposits"} :
              /\ same(SeedRooms, t) /\ same(EtlResidents, t) /\ same(EtlAdmissions, t)
              /\ same(EtlRooms, t) /\ same(EtlStats, t) /\ same(ResetSequences, t)
        /\ same(EtlOelkaelder, "krydser")
    BY <1>2, SiteKeys DEF SeedRooms, EtlResidents, EtlAdmissions, EtlRooms, EtlStats, ResetSequences,
                          EtlOelkaelder
  <1>4. same(EtlAk, "sales") /\ same(EtlAk, "deposits")
    BY <1>2, SiteKeys DEF EtlAk
  <1>5. CASE task = 5
    BY <1>1, <1>4, <1>5 DEF AfterCommand
  <1>6. CASE task = 7
    BY <1>1, <1>3, <1>6 DEF AfterCommand
  <1>7. CASE task \notin {5, 7}
    <2>1. site' \in {SeedRooms, EtlResidents, EtlAdmissions, EtlRooms, EtlStats, ResetSequences, site}
      BY <1>1, <1>7 DEF AfterCommand
    <2> QED
      BY <1>3, <1>7, <2>1
  <1> QED
    BY <1>5, <1>6, <1>7

\* etl_ak leaves everybody the balance that the old site gave.
LEMMA AkAgrees ==
  ASSUME OverInv, Known = DOMAIN Remap, site' = EtlAk, staging' = staging
  PROVE  BalancesAgree' /\ LogThere'
  <1>1. dump' = dump /\ Remap' = Remap /\ \A i : SameMail(i)' = SameMail(i)
    BY SameSource
  <1>2. ASSUME NEW i \in DOMAIN dump.totals \cap DOMAIN Remap, SameMail(i) \cap DOMAIN dump.totals = {i}
        PROVE  Balance(Remap[i])' = dump.totals[i]
    <2> DEFINE ks == EtlAk.krydser
    <2>1. SumFunctionOnSet([k \in DOMAIN ks |-> ks[k].delta], {k \in DOMAIN ks : ks[k].rid = Remap[i]})
             = dump.totals[i]
      BY <1>2, AkBalances
    <2>2. site'.krydser = ks
      OBVIOUS
    <2> HIDE DEF ks
    <2> QED
      BY <1>1, <2>1, <2>2 DEF Balance
  <1>3. BalancesAgree'
    BY <1>1, <1>2 DEF BalancesAgree
  <1>4. LogThere'
    <2> DEFINE ks == EtlAk.krydser
    <2>1. SmallerOrSame({k \in DOMAIN ks : ks[k].kind = "log"}, DOMAIN dump.log)
      BY AkLog
    <2>2. site'.krydser = ks
      OBVIOUS
    <2> HIDE DEF ks
    <2> QED
      BY <1>1, <2>1, <2>2 DEF LogThere, SmallerOrSame
  <1> QED
    BY <1>3, <1>4

\* And etl_oelkaelder shares out the whole price of each sale.
LEMMA SalesAgree ==
  ASSUME OverInv, site' = EtlOelkaelder, staging' = staging
  PROVE  SharesAgree' /\ SalesThere'
  <1>1. dump' = dump
    BY SameSource
  <1>2. /\ site'.sales = [t \in DOMAIN dump.sales |->
                            [price |-> dump.sales[t].price, shares |-> Shares(dump.sales[t])]]
        /\ DOMAIN site'.deposits \subseteq DOMAIN dump.deposits
    BY SiteKeys DEF EtlOelkaelder, OverInv, TablesFit
  <1>3. DOMAIN site'.sales = DOMAIN dump.sales
        /\ \A t \in DOMAIN dump.sales : site'.sales[t].shares = Shares(dump.sales[t])
    BY <1>2
  <1>4. SharesAgree'
    BY <1>1, <1>3, ShareOut DEF SharesAgree
  <1> QED
    BY <1>1, <1>2, <1>3, <1>4 DEF SalesThere

LEMMA SameLedgersAgree ==
  ASSUME staging' = staging
  PROVE  /\ site'.krydser = site.krydser => (BalancesAgree' <=> BalancesAgree) /\ (LogThere' <=> LogThere)
         /\ site'.sales = site.sales /\ site'.deposits = site.deposits =>
               (SharesAgree' <=> SharesAgree) /\ (SalesThere' <=> SalesThere)
  <1>1. dump' = dump /\ Remap' = Remap /\ \A i : SameMail(i)' = SameMail(i)
    BY SameSource
  <1>2. ASSUME site'.krydser = site.krydser
        PROVE  (BalancesAgree' <=> BalancesAgree) /\ (LogThere' <=> LogThere)
    <2>1. \A rid : Balance(rid)' = Balance(rid)
      BY <1>2 DEF Balance
    <2> QED
      BY <1>1, <1>2, <2>1 DEF BalancesAgree, LogThere, SmallerOrSame
  <1>3. ASSUME site'.sales = site.sales, site'.deposits = site.deposits
        PROVE  (SharesAgree' <=> SharesAgree) /\ (SalesThere' <=> SalesThere)
    BY <1>1, <1>3 DEF SharesAgree, SalesThere
  <1> QED
    BY <1>2, <1>3

LEMMA RunCommandCarries ==
  ASSUME OverInv, MovedInv, TjekInv, CarriedInv, RunCommand
  PROVE  CarriedInv'
  <1>1. /\ task \in 1..10
        /\ task' = IF task = 10 THEN 0 ELSE task + 1
        /\ moved' = (task = 10 \/ moved) /\ staging' = staging /\ touched' = touched
        /\ task = 6 <=> Commands[task] = "etl_rooms"
        /\ task = 9 <=> Commands[task] = "reset_sequences"
    BY CommandAt DEF RunCommand, OverInv, OverTypeOK
  <1>2. ASSUME task' > 6 \/ moved' PROVE ReportsAgree'
    <2>1. CASE task = 6
      <3>1. RebuildReports /\ site.rooms = House
        BY <1>1, <2>1 DEF RunCommand, MovedInv
      <3> QED
        BY <1>1, <3>1, RebuildAgrees
    <2>2. CASE task # 6
      <3>1. task > 6 \/ moved
        <4>1. task' > 6 => task > 6
          BY <1>1, <2>2
        <4>2. moved' => task = 10 \/ moved
          BY <1>1
        <4>3. task = 10 => task > 6
          OBVIOUS
        <4> QED
          BY <1>2, <4>1, <4>2, <4>3
      <3>2. reports' = reports
        BY <1>1, <2>2 DEF RunCommand, tjekVars
      <3>3. \A room, d : ReportsOn(room, d)' = ReportsOn(room, d)
        BY <3>2 DEF ReportsOn, Filed
      <3> QED
        BY <1>1, <3>1, <3>3, SameReportsAgree DEF CarriedInv
    <2> QED
      BY <2>1, <2>2
  <1>3. ASSUME ~touched', task' > 5 \/ moved' PROVE BalancesAgree' /\ LogThere'
    <2>1. CASE task = 5
      <3>1. Known = DOMAIN Remap
        BY <2>1, KnownAre DEF MovedInv, OverInv
      <3> QED
        BY <1>1, <2>1, <3>1, LedgersAfter, AkAgrees
    <2>2. CASE task # 5
      <3>1. task > 5 \/ moved
        <4>1. task' > 5 => task > 5
          BY <1>1, <2>2
        <4>2. moved' => task = 10 \/ moved
          BY <1>1
        <4>3. task = 10 => task > 5
          OBVIOUS
        <4> QED
          BY <1>3, <4>1, <4>2, <4>3
      <3>2. BalancesAgree /\ LogThere
        BY <1>1, <1>3, <3>1 DEF CarriedInv
      <3> QED
        BY <1>1, <2>2, <3>2, LedgersAfter, SameLedgersAgree
    <2> QED
      BY <2>1, <2>2
  <1>4. ASSUME ~touched', task' > 7 \/ moved' PROVE SharesAgree' /\ SalesThere'
    <2>1. CASE task = 7
      BY <1>1, <2>1, LedgersAfter, SalesAgree
    <2>2. CASE task # 7
      <3>1. task > 7 \/ moved
        <4>1. task' > 7 => task > 7
          BY <1>1, <2>2
        <4>2. moved' => task = 10 \/ moved
          BY <1>1
        <4>3. task = 10 => task > 7
          OBVIOUS
        <4> QED
          BY <1>4, <4>1, <4>2, <4>3
      <3>2. SharesAgree /\ SalesThere
        BY <1>1, <1>4, <3>1 DEF CarriedInv
      <3> QED
        BY <1>1, <2>2, <3>2, LedgersAfter, SameLedgersAgree
    <2> QED
      BY <2>1, <2>2
  <1> QED
    BY <1>2, <1>3, <1>4 DEF CarriedInv

\* What else happens: the same rows in the tables, and the task where it was or before its first command.
LEMMA SameRowsCarry ==
  ASSUME CarriedInv, staging' = staging, moved' = moved, task' \in {0, 1, task},
         task \in Nat, (site' = site /\ touched' = touched) \/ touched',
         ReportsAgree /\ (task > 6 \/ moved) => ReportsAgree'
  PROVE  CarriedInv'
  <1>1. (task' > 6 => task > 6) /\ (task' > 5 => task > 5) /\ (task' > 7 => task > 7)
    OBVIOUS
  <1>2. task' > 6 \/ moved' => ReportsAgree'
    BY <1>1 DEF CarriedInv
  <1>3. ASSUME ~touched'
        PROVE  /\ task' > 5 \/ moved' => BalancesAgree' /\ LogThere'
               /\ task' > 7 \/ moved' => SharesAgree' /\ SalesThere'
    <2>1. site' = site /\ touched' = touched
      BY <1>3
    <2>2. ~touched
      BY <1>3, <2>1
    <2>3. (task > 5 \/ moved => BalancesAgree /\ LogThere) /\ (task > 7 \/ moved => SharesAgree /\ SalesThere)
      BY <2>2 DEF CarriedInv
    <2>4. (BalancesAgree => BalancesAgree') /\ (LogThere => LogThere') /\ (SharesAgree => SharesAgree')
          /\ (SalesThere => SalesThere')
      BY <2>1, SameLedgersAgree
    <2> QED
      BY <1>1, <2>3, <2>4
  <1> QED
    BY <1>2, <1>3 DEF CarriedInv

LEMMA CarriedHolds == Spec => []CarriedInv
  <1>1. Init => CarriedInv
    <2> SUFFICES ASSUME task = 0, moved = FALSE PROVE CarriedInv
      BY DEF Init, HverdagInit, OverInit
    <2> QED
      BY DEF CarriedInv
  <1>2. OverInv /\ MovedInv /\ TjekInv /\ CarriedInv /\ [Next]_vars => CarriedInv'
    <2> SUFFICES ASSUME OverInv, MovedInv, TjekInv, CarriedInv, [Next]_vars PROVE CarriedInv'
      OBVIOUS
    <2>1. task \in Nat
      BY DEF OverInv, OverTypeOK, Commands
    <2>2. ASSUME reports' = reports, staging' = staging, ReportsAgree PROVE ReportsAgree'
      <3>1. \A room, d : ReportsOn(room, d)' = ReportsOn(room, d)
        BY <2>2 DEF ReportsOn, Filed
      <3> QED
        BY <2>2, <3>1, SameReportsAgree
    <2>3. CASE RunCommand
      BY <2>3, RunCommandCarries
    <2>4. CASE LoadDump
      <3>1. task' = 0 /\ moved' = FALSE
        BY <2>4 DEF LoadDump
      <3> QED
        BY <3>1 DEF CarriedInv
    <2>5. CASE StartTask \/ CommandFails \/ CommandDies \/ \E t \in Tables : WriteRow(t)
      <3>1. /\ staging' = staging /\ moved' = moved /\ task' \in {0, 1, task} /\ reports' = reports
            /\ (site' = site /\ touched' = touched) \/ touched'
        BY <2>5 DEF StartTask, CommandFails, CommandDies, WriteRow, tjekVars
      <3> QED
        BY <2>1, <2>2, <3>1, SameRowsCarry
    <2>6. CASE BackfillRoomHistory
      <3>1. staging' = staging /\ moved' = moved /\ task' = task /\ site' = site /\ touched' = touched
        BY <2>6 DEF BackfillRoomHistory
      <3>2. (task > 6 \/ moved) /\ ReportsAgree => ReportsAgree'
        <4>1. task > 6 \/ moved => site.rooms = House
          BY <2>1 DEF MovedInv
        <4> QED
          BY <2>6, <4>1, BackfillAgrees
      <3> QED
        BY <2>1, <3>1, <3>2, SameRowsCarry
    <2>7. CASE UNCHANGED overVars /\ (TjekStep \/ UNCHANGED tjekVars)
      <3>1. staging' = staging /\ moved' = moved /\ task' = task /\ site' = site /\ touched' = touched
        BY <2>7 DEF overVars
      <3>2. ReportsAgree => ReportsAgree'
        BY <2>2, <2>7, <3>1, EndReportAgrees DEF TjekStep, BeginReport, tjekVars
      <3> QED
        BY <2>1, <3>1, <3>2, SameRowsCarry
    <2>8. OverStep => RunCommand \/ LoadDump \/ BackfillRoomHistory
                      \/ (StartTask \/ CommandFails \/ CommandDies \/ \E t \in Tables : WriteRow(t))
      BY DEF OverStep
    <2> QED
      BY <2>3, <2>4, <2>5, <2>6, <2>7, <2>8, MovingOrNot, CheckingOrNot
  <1> QED
    BY <1>1, <1>2, OverHolds, MovedHolds, TjekHolds, PTL DEF Spec

\* When the task has ended, whatever commands died before, how often it was started over and which
\* earlier dump it had begun with, a resident with one AK total has that balance, the shares of a sale
\* add up to its price, and every report is there as often as it was (etl_ak, etl_oelkaelder, etl_rooms
\* and backfill_room_history in src/app).
THEOREM TablesAlwaysAgree == Spec => []TablesAgree
  <1>1. CarriedInv => TablesAgree
    BY DEF CarriedInv, TablesAgree, JustMoved
  <1> QED
    BY <1>1, CarriedHolds, PTL

-----------------------------------------------------------------------------
(* What etl_verify counts *)

\* One of the old lists has the resident of a slot in its month.
OnAList(slot) ==
    /\ slot = <<slot[1], slot[2]>> /\ slot[1] \in DOMAIN site.residents
    /\ \E n \in DOMAIN dump.liste :
          /\ dump.liste[n].month = slot[2] /\ dump.liste[n].who \in DOMAIN dump.alumner
          /\ dump.alumner[dump.liste[n].who] = dump.alumner[slot[1]]

\* Where the old site only adds, what the task has moved from any dump is in the one that is loaded.
PeopleStay ==
    /\ \A r \in DOMAIN site.residents :
          r \in DOMAIN dump.alumner /\ site.residents[r] = dump.alumner[r]
    /\ \A slot \in DOMAIN site.residencies : OnAList(slot)
RowsStay ==
    /\ ~touched => /\ DOMAIN site.letters \subseteq DOMAIN dump.letters
                   /\ DOMAIN site.wishes \subseteq DOMAIN dump.wishes
    /\ task > 3 \/ moved => DOMAIN dump.letters \subseteq DOMAIN site.letters
    /\ DOMAIN site.visits \subseteq DOMAIN dump.visits
    /\ task > 8 \/ moved => DOMAIN dump.visits \subseteq DOMAIN site.visits

\* Each of the other tables, too, is written by one command.
RowsAfter(s) ==
    /\ task # 2 => s.residents = site.residents /\ s.residencies = site.residencies
    /\ task # 3 => s.letters = site.letters
    /\ task # 6 => s.wishes = site.wishes
    /\ task # 8 => s.visits = site.visits

LEMMA OneCommandEach ==
  ASSUME OverInv, RunCommand
  PROVE  /\ RowsAfter(site')
         /\ task = 2 => site' = EtlResidents
         /\ task = 3 => site' = EtlAdmissions
         /\ task = 6 => site' = EtlRooms
         /\ task = 8 => site' = EtlStats
  <1>1. /\ task \in 1..10 /\ site' = AfterCommand(Commands[task])
        /\ task = 1 <=> Commands[task] = "seed_rooms"
        /\ task = 2 <=> Commands[task] = "etl_residents"
        /\ task = 3 <=> Commands[task] = "etl_admissions"
        /\ task = 4 <=> Commands[task] = "etl_cms"
        /\ task = 5 <=> Commands[task] = "etl_ak"
        /\ task = 6 <=> Commands[task] = "etl_rooms"
        /\ task = 7 <=> Commands[task] = "etl_oelkaelder"
        /\ task = 8 <=> Commands[task] = "etl_stats"
        /\ task = 9 <=> Commands[task] = "reset_sequences"
        /\ task = 10 <=> Commands[task] = "sync_cms_media"
    BY CommandAt DEF RunCommand, OverInv, OverTypeOK
  <1>2. DOMAIN site = DOMAIN EmptySite
    BY DEF OverInv, TablesFit
  <1> DEFINE same(s, t) == s[t] = site[t]
             kept == {"residents", "residencies", "letters", "wishes", "visits"}
  <1>3. \A t \in kept : /\ same(SeedRooms, t) /\ same(EtlAk, t) /\ same(EtlOelkaelder, t)
                        /\ same(ResetSequences, t)
    BY <1>2, SiteKeys DEF SeedRooms, EtlAk, EtlOelkaelder, ResetSequences
  <1>4. /\ \A t \in kept \ {"residents", "residencies"} : same(EtlResidents, t)
        /\ \A t \in kept \ {"letters"} : same(EtlAdmissions, t)
        /\ \A t \in kept \ {"wishes"} : same(EtlRooms, t)
        /\ \A t \in kept \ {"visits"} : same(EtlStats, t)
    BY <1>2, SiteKeys DEF EtlResidents, EtlAdmissions, EtlRooms, EtlStats
  <1>5. CASE task \in {2, 3, 6, 8}
    <2>1. /\ task = 2 => site' = EtlResidents
          /\ task = 3 => site' = EtlAdmissions
          /\ task = 6 => site' = EtlRooms
          /\ task = 8 => site' = EtlStats
      BY <1>1, <1>5 DEF AfterCommand
    <2> QED
      BY <1>4, <1>5, <2>1 DEF RowsAfter
  <1>6. CASE task \notin {2, 3, 6, 8}
    <2>1. site' \in {SeedRooms, EtlAk, EtlOelkaelder, ResetSequences, site}
      BY <1>1, <1>6 DEF AfterCommand
    <2> QED
      BY <1>3, <1>6, <2>1 DEF RowsAfter
  <1> QED
    BY <1>5, <1>6

LEMMA ResidentsStay ==
  ASSUME OverInv, PeopleStay, site' = EtlResidents, staging' = staging
  PROVE  PeopleStay'
  <1>1. dump' = dump
    BY SameSource
  <1> DEFINE fresh == [i \in KeptIds |-> dump.alumner[i]]
             rows == Residencies
  <1>2. CASE site.rooms = {}
    <2>1. site' = site
      BY <1>2 DEF EtlResidents
    <2> QED
      BY <1>1, <2>1 DEF PeopleStay, OnAList
  <1>3. CASE site.rooms # {}
    <2>1. /\ site'.residents = Upserted(site.residents, fresh)
          /\ site'.residencies = Upserted(site.residencies, rows)
      BY <1>3, SiteKeys DEF EtlResidents, OverInv, TablesFit
    <2>2. DOMAIN fresh = KeptIds
      OBVIOUS
    <2>3. DOMAIN site'.residents = DOMAIN site.residents \cup KeptIds
      BY <2>1, <2>2 DEF Upserted
    <2>4. ASSUME NEW r \in DOMAIN site'.residents
          PROVE  r \in DOMAIN dump.alumner /\ site'.residents[r] = dump.alumner[r]
      <3>1. CASE r \in KeptIds
        <4>1. r \in DOMAIN dump.alumner
          BY <3>1, RemapIs DEF OverInv
        <4> QED
          BY <2>1, <2>4, <3>1, <4>1 DEF Upserted
      <3>2. CASE r \notin KeptIds
        BY <2>1, <2>3, <2>4, <3>2 DEF Upserted, PeopleStay
      <3> QED
        BY <3>1, <3>2
    <2>5. DOMAIN rows = {SlotOf(n) : n \in Placeable}
      BY DEF Residencies
    <2>6. DOMAIN site'.residencies = DOMAIN site.residencies \cup {SlotOf(n) : n \in Placeable}
      BY <2>1, <2>5 DEF Upserted
    <2>7. ASSUME NEW slot \in DOMAIN site'.residencies PROVE OnAList(slot)'
      <3>1. CASE slot \in DOMAIN site.residencies
        <4>1. OnAList(slot)
          BY <3>1 DEF PeopleStay
        <4> QED
          BY <1>1, <2>3, <4>1 DEF OnAList
      <3>2. ASSUME NEW n \in Placeable, slot = SlotOf(n) PROVE OnAList(slot)'
        <4> DEFINE who == dump.liste[n].who
        <4>1. n \in DOMAIN dump.liste /\ who \in DOMAIN Remap
          BY DEF Placeable
        <4>2. /\ who \in DOMAIN dump.alumner /\ Remap[who] \in KeptIds
              /\ dump.alumner[Remap[who]] = dump.alumner[who]
          BY <4>1, RemapIs DEF OverInv
        <4>3. slot = <<Remap[who], dump.liste[n].month>>
          BY <3>2 DEF SlotOf
        <4>4. /\ slot = <<slot[1], slot[2]>> /\ slot[1] \in DOMAIN site'.residents
              /\ dump.liste[n].month = slot[2] /\ dump.alumner[who] = dump.alumner[slot[1]]
          BY <2>3, <4>2, <4>3
        <4> QED
          BY <1>1, <4>1, <4>2, <4>4 DEF OnAList
      <3> QED
        BY <2>6, <2>7, <3>1, <3>2
    <2> QED
      BY <1>1, <2>4, <2>7 DEF PeopleStay
  <1> QED
    BY <1>2, <1>3

LEMMA SamePeopleStay ==
  ASSUME PeopleStay, staging' = staging, site'.residents = site.residents,
         site'.residencies = site.residencies
  PROVE  PeopleStay'
  <1>1. dump' = dump
    BY SameSource
  <1> QED
    BY <1>1 DEF PeopleStay, OnAList

LEMMA RunCommandStays ==
  ASSUME OverInv, MovedInv, PeopleStay, RowsStay, RunCommand
  PROVE  PeopleStay' /\ RowsStay'
  <1>1. /\ task \in 1..10
        /\ task' = IF task = 10 THEN 0 ELSE task + 1
        /\ moved' = (task = 10 \/ moved) /\ staging' = staging /\ touched' = touched
    BY CommandAt DEF RunCommand, OverInv, OverTypeOK
  <1>2. /\ RowsAfter(site')
        /\ task = 2 => site' = EtlResidents
        /\ task = 3 => site' = EtlAdmissions
        /\ task = 6 => site' = EtlRooms
        /\ task = 8 => site' = EtlStats
    BY OneCommandEach
  <1>3. PeopleStay'
    <2>1. CASE task = 2
      BY <1>1, <1>2, <2>1, ResidentsStay
    <2>2. CASE task # 2
      BY <1>1, <1>2, <2>2, SamePeopleStay DEF RowsAfter
    <2> QED
      BY <2>1, <2>2
  <1>4. dump' = dump
    BY <1>1, SameSource
  <1>5. DOMAIN site = DOMAIN EmptySite
    BY DEF OverInv, TablesFit
  <1>6. DOMAIN site'.letters = IF task = 3 THEN DOMAIN site.letters \cup DOMAIN dump.letters
                               ELSE DOMAIN site.letters
    BY <1>2, <1>5, SiteKeys DEF EtlAdmissions, Upserted, RowsAfter
  <1>7. DOMAIN site'.wishes \subseteq DOMAIN site.wishes \cup DOMAIN dump.wishes
    <2>1. CASE task = 6
      <3> DEFINE rows == [w \in {w \in DOMAIN dump.wishes : dump.wishes[w] \in Known} |->
                             ResidentOf(dump.wishes[w])]
      <3>1. site'.wishes = Upserted(site.wishes, rows)
        BY <1>2, <1>5, <2>1, SiteKeys DEF EtlRooms
      <3>2. DOMAIN rows \subseteq DOMAIN dump.wishes
        OBVIOUS
      <3> HIDE DEF rows
      <3> QED
        BY <3>1, <3>2 DEF Upserted
    <2>2. CASE task # 6
      BY <1>2, <2>2 DEF RowsAfter
    <2> QED
      BY <2>1, <2>2
  <1>8. DOMAIN site'.visits = IF task = 8 THEN DOMAIN site.visits \cup DOMAIN dump.visits
                              ELSE DOMAIN site.visits
    BY <1>2, <1>5, SiteKeys DEF EtlStats, Upserted, RowsAfter
  <1>9. ASSUME task' > 3 \/ moved' PROVE DOMAIN dump.letters \subseteq DOMAIN site'.letters
    <2>1. task' > 3 => task = 3 \/ task > 3
      BY <1>1
    <2>2. moved' => task = 10 \/ moved
      BY <1>1
    <2>3. task = 10 => task > 3
      OBVIOUS
    <2>4. task = 3 \/ task > 3 \/ moved
      BY <1>9, <2>1, <2>2, <2>3
    <2> QED
      BY <1>6, <2>4 DEF RowsStay
  <1>10. ASSUME task' > 8 \/ moved' PROVE DOMAIN dump.visits \subseteq DOMAIN site'.visits
    <2>1. task' > 8 => task = 8 \/ task > 8
      BY <1>1
    <2>2. moved' => task = 10 \/ moved
      BY <1>1
    <2>3. task = 10 => task > 8
      OBVIOUS
    <2>4. task = 8 \/ task > 8 \/ moved
      BY <1>10, <2>1, <2>2, <2>3
    <2> QED
      BY <1>8, <2>4 DEF RowsStay
  <1>11. RowsStay'
    BY <1>1, <1>4, <1>6, <1>7, <1>8, <1>9, <1>10 DEF RowsStay
  <1> QED
    BY <1>3, <1>11

\* Whatever leaves the people, the letters and the visits as they are, and the task where it was or
\* before its first command.
LEMMA SameRowsStay ==
  ASSUME PeopleStay, RowsStay, task \in Nat, staging' = staging, moved' = moved, task' \in {0, 1, task},
         site'.residents = site.residents, site'.residencies = site.residencies,
         site'.visits = site.visits, DOMAIN site.letters \subseteq DOMAIN site'.letters,
         (site' = site /\ touched' = touched) \/ touched'
  PROVE  PeopleStay' /\ RowsStay'
  <1>1. PeopleStay' /\ dump' = dump
    BY SamePeopleStay, SameSource
  <1>2. (task' > 3 => task > 3) /\ (task' > 8 => task > 8)
    OBVIOUS
  <1>3. task' > 3 \/ moved' => DOMAIN dump.letters \subseteq DOMAIN site'.letters
    BY <1>2 DEF RowsStay
  <1>4. task' > 8 \/ moved' => DOMAIN dump.visits \subseteq DOMAIN site'.visits
    BY <1>2 DEF RowsStay
  <1>5. ~touched' => /\ DOMAIN site'.letters \subseteq DOMAIN dump.letters
                     /\ DOMAIN site'.wishes \subseteq DOMAIN dump.wishes
    BY DEF RowsStay
  <1>6. DOMAIN site'.visits \subseteq DOMAIN dump.visits
    BY DEF RowsStay
  <1> QED
    BY <1>1, <1>3, <1>4, <1>5, <1>6 DEF RowsStay

LEMMA LoadDumpStays ==
  ASSUME DumpsGrow, OverInv, PeopleStay, RowsStay, LoadDump
  PROVE  PeopleStay' /\ RowsStay'
  <1>1. PICK n \in (staging + 1)..Len(Dumps) : staging' = n
    BY DEF LoadDump
  <1>2. site' = site /\ touched' = touched /\ task' = 0 /\ moved' = FALSE
    BY DEF LoadDump
  <1>3. staging \in DOMAIN Dumps /\ n \in DOMAIN Dumps /\ staging < n
    BY <1>1, OverflytningAssumption DEF OverInv, OverTypeOK
  <1>4. /\ Extends(dump.alumner, dump'.alumner) /\ Extends(dump.liste, dump'.liste)
        /\ DOMAIN dump.letters \subseteq DOMAIN dump'.letters
        /\ DOMAIN dump.wishes \subseteq DOMAIN dump'.wishes
        /\ DOMAIN dump.visits \subseteq DOMAIN dump'.visits
    <2>1. dump = Dumps[staging] /\ dump' = Dumps[n]
      BY <1>1 DEF dump
    <2> QED
      BY <1>3, <2>1 DEF DumpsGrow
  <1>5. ASSUME NEW slot \in DOMAIN site.residencies PROVE OnAList(slot)'
    <2>1. /\ slot = <<slot[1], slot[2]>> /\ slot[1] \in DOMAIN site.residents
          /\ slot[1] \in DOMAIN dump.alumner
      BY DEF PeopleStay, OnAList
    <2>2. PICK m \in DOMAIN dump.liste :
             /\ dump.liste[m].month = slot[2] /\ dump.liste[m].who \in DOMAIN dump.alumner
             /\ dump.alumner[dump.liste[m].who] = dump.alumner[slot[1]]
      BY DEF PeopleStay, OnAList
    <2>3. /\ m \in DOMAIN dump'.liste /\ dump'.liste[m] = dump.liste[m]
          /\ dump.liste[m].who \in DOMAIN dump'.alumner
          /\ dump'.alumner[dump.liste[m].who] = dump.alumner[dump.liste[m].who]
          /\ dump'.alumner[slot[1]] = dump.alumner[slot[1]]
      BY <1>4, <2>1, <2>2 DEF Extends
    <2> QED
      BY <1>2, <2>1, <2>2, <2>3 DEF OnAList
  <1>6. \A r \in DOMAIN site.residents :
           r \in DOMAIN dump'.alumner /\ site.residents[r] = dump'.alumner[r]
    BY <1>4 DEF PeopleStay, Extends
  <1>7. PeopleStay'
    BY <1>2, <1>5, <1>6 DEF PeopleStay
  <1>8. RowsStay'
    BY <1>2, <1>4 DEF RowsStay
  <1> QED
    BY <1>7, <1>8

LEMMA StayHolds ==
  ASSUME DumpsGrow
  PROVE  Spec => [](PeopleStay /\ RowsStay)
  <1>1. Init => PeopleStay /\ RowsStay
    <2> SUFFICES ASSUME site = EmptySite, task = 0, moved = FALSE PROVE PeopleStay /\ RowsStay
      BY DEF Init, HverdagInit, OverInit
    <2>1. /\ DOMAIN site.residents = {} /\ DOMAIN site.residencies = {} /\ DOMAIN site.letters = {}
          /\ DOMAIN site.wishes = {} /\ DOMAIN site.visits = {}
      BY DEF EmptySite
    <2> QED
      BY <2>1 DEF PeopleStay, RowsStay
  <1>2. OverInv /\ MovedInv /\ (PeopleStay /\ RowsStay) /\ [Next]_vars => (PeopleStay /\ RowsStay)'
    <2> SUFFICES ASSUME OverInv, MovedInv, PeopleStay, RowsStay, [Next]_vars
                 PROVE  PeopleStay' /\ RowsStay'
      OBVIOUS
    <2>1. task \in Nat /\ DOMAIN site = DOMAIN EmptySite
      BY DEF OverInv, OverTypeOK, TablesFit, Commands
    <2>2. CASE RunCommand
      BY <2>2, RunCommandStays
    <2>3. CASE LoadDump
      BY <2>3, LoadDumpStays
    <2>4. CASE StartTask \/ CommandFails \/ CommandDies \/ BackfillRoomHistory \/ UNCHANGED overVars
      <3>1. /\ staging' = staging /\ moved' = moved /\ task' \in {0, 1, task}
            /\ site' = site /\ touched' = touched
        BY <2>4 DEF StartTask, CommandFails, CommandDies, BackfillRoomHistory, overVars
      <3> QED
        BY <2>1, <3>1, SameRowsStay
    <2>5. ASSUME NEW t \in Tables, WriteRow(t) PROVE PeopleStay' /\ RowsStay'
      <3> DEFINE id == site.last[t] + 1
                 rows == IF id \in DOMAIN site[t] THEN site[t]
                         ELSE Upserted([j \in {id} |-> Null], site[t])
      <3>1. site' = [site EXCEPT !.last[t] = id, ![t] = rows]
        BY <2>5 DEF WriteRow
      <3>2. DOMAIN site[t] \subseteq DOMAIN rows
        BY DEF Upserted
      <3> HIDE DEF rows
      <3>3. /\ site'.residents = site.residents /\ site'.residencies = site.residencies
            /\ site'.visits = site.visits
            /\ site'.letters = IF t = "letters" THEN rows ELSE site.letters
        BY <2>1, <3>1, SiteKeys DEF Tables
      <3>4. staging' = staging /\ moved' = moved /\ task' = task /\ touched'
        BY <2>5 DEF WriteRow
      <3>5. DOMAIN site.letters \subseteq DOMAIN site'.letters
        BY <3>2, <3>3
      <3> QED
        BY <2>1, <3>3, <3>4, <3>5, SameRowsStay
    <2> QED
      BY <2>2, <2>3, <2>4, <2>5, MovingOrNot DEF OverStep
  <1> QED
    BY <1>1, <1>2, OverHolds, MovedHolds, PTL DEF Spec

\* There are no more residencies than rows of the old lists: nobody has two accounts, so no two slots
\* are of one row.
LEMMA NoMoreResidencies ==
  ASSUME OverInv, MovedInv, PeopleStay, moved
  PROVE  SmallerOrSame(DOMAIN site.residencies, DOMAIN dump.liste)
  <1> DEFINE S == DOMAIN site.residencies
             T == DOMAIN dump.liste
             fits(slot, n) == /\ dump.liste[n].month = slot[2] /\ dump.liste[n].who \in DOMAIN dump.alumner
                              /\ dump.alumner[dump.liste[n].who] = dump.alumner[slot[1]]
             row == [slot \in S |-> CHOOSE n \in T : fits(slot, n)]
  <1>1. IsFiniteSet(T)
    BY DumpFits DEF OldIds, OverInv, IdsOK
  <1>2. ASSUME NEW slot \in S
        PROVE  /\ slot = <<slot[1], slot[2]>> /\ slot[1] \in DOMAIN site.residents
               /\ row[slot] \in T /\ fits(slot, row[slot])
    <2>1. /\ slot = <<slot[1], slot[2]>> /\ slot[1] \in DOMAIN site.residents
          /\ \E n \in T : fits(slot, n)
      BY DEF PeopleStay, OnAList
    <2> HIDE DEF T, fits
    <2> QED
      BY <2>1
  <1>3. ASSUME NEW slot \in S
        PROVE  slot[1] = Remap[dump.liste[row[slot]].who] /\ slot[2] = dump.liste[row[slot]].month
    <2> DEFINE r == slot[1]
               i == dump.liste[row[slot]].who
    <2>1. /\ r \in DOMAIN site.residents /\ i \in DOMAIN dump.alumner
          /\ dump.alumner[i] = dump.alumner[r] /\ dump.liste[row[slot]].month = slot[2]
      BY <1>2
    <2> HIDE DEF row, fits, S, T, r, i
    <2>2. site.residents[r] = dump.alumner[r] /\ site.residents[r] \in Residents
      BY <2>1 DEF PeopleStay, OverInv, TablesFit
    <2>3. i \in DOMAIN Remap
      BY <2>1, <2>2, ListAssumption DEF Remap
    <2>4. Remap[i] \in KeptIds /\ dump.alumner[Remap[i]] = dump.alumner[i]
      BY <2>3, RemapIs DEF OverInv
    <2>5. site.residents[r] = dump.alumner[Remap[i]]
      BY <2>1, <2>2, <2>4
    <2>6. \A k \in KeptIds, j \in DOMAIN site.residents : site.residents[j] = dump.alumner[k] => j = k
      BY DEF MovedInv
    <2>7. r = Remap[i]
      BY <2>1, <2>4, <2>5, <2>6
    <2> QED
      BY <2>1, <2>7 DEF r, i
  <1> HIDE DEF row, fits
  <1>4. \A x, y \in S : row[x] = row[y] => x = y
    BY <1>2, <1>3
  <1>5. row \in [S -> T]
    <2>1. row = [slot \in S |-> row[slot]]
      BY DEF row
    <2> QED
      BY <1>2, <2>1
  <1> HIDE DEF S, T
  <1>6. row \in Injection(S, T)
    BY <1>4, <1>5 DEF Injection, IsInjective
  <1>7. IsFiniteSet(S) /\ Cardinality(S) <= Cardinality(T)
    BY <1>1, <1>6, FS_Injection
  <1> QED
    BY <1>7 DEF SmallerOrSame, S, T

\* When the task has ended and nobody has written on the new site, etl_verify says OK to all but the
\* reports, of which it counts the current ones against all (src/app/core/management/commands/
\* etl_verify.py), where the old site has only added between two dumps.
THEOREM VerifyFindsNothing ==
  ASSUME DumpsGrow
  PROVE  Spec => []NothingFlagged
  <1>1. OverInv /\ MovedInv /\ CarriedInv /\ (PeopleStay /\ RowsStay) => NothingFlagged
    <2> SUFFICES ASSUME OverInv, MovedInv, CarriedInv, PeopleStay, RowsStay, moved, ~touched
                 PROVE  Flagged \subseteq {"room conditions"}
      BY DEF NothingFlagged, JustMoved
    <2>1. SmallerOrSame(DOMAIN site.residencies, DOMAIN dump.liste)
      BY NoMoreResidencies
    <2>2. LogThere /\ SalesThere
      BY DEF CarriedInv
    <2>3. /\ DOMAIN site.letters = DOMAIN dump.letters /\ DOMAIN site.visits = DOMAIN dump.visits
          /\ DOMAIN site.sales = DOMAIN dump.sales
      BY <2>2 DEF RowsStay, SalesThere
    <2>4. /\ DOMAIN site.residents \in SUBSET DOMAIN dump.alumner
          /\ DOMAIN site.wishes \in SUBSET DOMAIN dump.wishes
          /\ DOMAIN site.deposits \in SUBSET DOMAIN dump.deposits
      BY <2>2 DEF PeopleStay, RowsStay, SalesThere
    <2>5. /\ IsFiniteSet(DOMAIN dump.alumner) /\ IsFiniteSet(DOMAIN dump.wishes)
          /\ IsFiniteSet(DOMAIN dump.deposits)
      BY DumpFits DEF OldIds, OverInv, IdsOK
    <2>6. \A big, small : IsFiniteSet(big) /\ small \in SUBSET big => SmallerOrSame(small, big)
      BY FS_Subset DEF SmallerOrSame
    <2>7. /\ SmallerOrSame(DOMAIN site.residents, DOMAIN dump.alumner)
          /\ SmallerOrSame(DOMAIN site.wishes, DOMAIN dump.wishes)
          /\ SmallerOrSame(DOMAIN site.deposits, DOMAIN dump.deposits)
      BY <2>4, <2>5, <2>6
    <2>8. /\ SameSize(DOMAIN site.letters, DOMAIN dump.letters)
          /\ SameSize(DOMAIN site.visits, DOMAIN dump.visits)
          /\ SameSize(DOMAIN site.sales, DOMAIN dump.sales)
      BY <2>3 DEF SameSize
    <2> QED
      BY <2>1, <2>2, <2>7, <2>8 DEF Flagged, LogThere
  <1> QED
    BY <1>1, OverHolds, MovedHolds, CarriedHolds, StayHolds, PTL

\* The move as it was meant: what the sequences will give is free, nobody has two accounts, the tables
\* say what the dump says, and etl_verify has nothing to say but of the reports.
THEOREM AlwaysMovedAsItWas ==
  ASSUME DumpsGrow
  PROVE  Spec => []MovedAsItWas
  <1>1. SequencesLead /\ OneAccountEach /\ TablesAgree /\ NothingFlagged => MovedAsItWas
    BY DEF MovedAsItWas
  <1> QED
    BY <1>1, SequencesAlwaysLead, OneAccountForEach, TablesAlwaysAgree, VerifyFindsNothing, PTL

-----------------------------------------------------------------------------
(* The uploaded files *)

\* No other row has the name of p's file in the other store.
NoNamesake(p) ==
    \A q \in Photos \ {p} :
        attached[q] # Null /\ attached[q].name = attached[p].name => attached[q].made = attached[p].made

\* The rows whose file has been put on the volume, under a name that is not taken in the bucket.
FromVolume ==
    {p \in KeptPhotos : /\ NoNamesake(p) /\ attached[p].made # "bucket"
                        /\ attached[p].made = "old" => relocated}

\* The rows of the old site have their old names, and no other row has one of those.
NamesFit ==
    \A p \in Photos :
        /\ p \in DOMAIN OldPhotos =>
              attached[p] # Null /\ attached[p].made = "old" /\ attached[p].name = OldPhotos[p]
        /\ p \notin DOMAIN OldPhotos /\ attached[p] # Null =>
              attached[p].made # "old" /\ attached[p].name \notin OldNames

\* What is on the volume was put there under its row's name; once it has been emptied, by
\* relocate_media alone.
VolumeFits ==
    /\ \A n \in Names : volume[n] # Null =>
          /\ attached[volume[n]] # Null /\ attached[volume[n]].name = n
          /\ attached[volume[n]].made # "bucket"
          /\ attached[volume[n]].made = "old" => relocated
          /\ emptied => attached[volume[n]].made = "old"
    /\ emptied => onBucket

\* Whatever the site runs on, a file stays where it was uploaded, until the volume is emptied of what
\* the bucket has.
FilesStay ==
    /\ \A p \in KeptPhotos :
          NoNamesake(p) /\ attached[p].made = "bucket" => bucket[attached[p].name] = p
    /\ \A p \in FromVolume :
          volume[attached[p].name] = p \/ (emptied /\ bucket[attached[p].name] = p)

\* The copy after the cutover misses no file.
CopyFits ==
    /\ settled => onBucket /\ \A p \in FromVolume : bucket[attached[p].name] = p
    /\ copying # Null /\ onBucket =>
          \A p \in FromVolume : attached[p].name \in copying \/ bucket[attached[p].name] = p

StoreInv == MedierTypeOK /\ NamesFit /\ VolumeFits /\ FilesStay /\ CopyFits

LEMMA StoreInitInv ==
  ASSUME MedierInit
  PROVE  StoreInv
  <1>1. \A p \in DOMAIN OldPhotos : p \in Photos /\ OldPhotos[p] \in Names
    BY MedierAssumption DEF OldNames
  <1>2. /\ volume \in [Names -> Photos \cup {Null}] /\ bucket \in [Names -> Photos \cup {Null}]
        /\ \A n \in Names : volume[n] = Null
    BY DEF MedierInit
  <1>3. attached \in [Photos -> PhotoRow \cup {Null}]
    BY <1>1 DEF MedierInit, PhotoRow
  <1>4. MedierTypeOK
    <2>1. {onBucket, copied, settled, relocated, emptied} \subseteq BOOLEAN
      BY DEF MedierInit
    <2>2. quarter \in 0..LastQuarter /\ visitor \in Visitors /\ stored \subseteq Redirect
      BY MedierAssumption DEF MedierInit, Visitors
    <2> QED
      BY <1>2, <1>3, <2>1, <2>2 DEF MedierInit, MedierTypeOK
  <1>5. NamesFit
    <2>1. ASSUME NEW p \in DOMAIN OldPhotos
          PROVE  attached[p] # Null /\ attached[p].made = "old" /\ attached[p].name = OldPhotos[p]
      <3>1. attached[p] = [name |-> OldPhotos[p], made |-> "old", kept |-> TRUE]
        BY <1>1, <2>1 DEF MedierInit
      <3>2. attached[p] \in PhotoRow
        BY <1>1, <2>1, <3>1 DEF PhotoRow
      <3>3. attached[p] # Null
        BY <3>2, MedierAssumption
      <3> QED
        BY <3>1, <3>3
    <2>2. \A p \in Photos \ DOMAIN OldPhotos : attached[p] = Null
      BY DEF MedierInit
    <2> QED
      BY <2>1, <2>2 DEF NamesFit
  <1>6. FromVolume = {}
    BY <1>5 DEF FromVolume, KeptPhotos, NamesFit, MedierInit
  <1>7. \A p \in KeptPhotos : attached[p].made = "old"
    BY <1>5 DEF KeptPhotos, MedierInit
  <1> QED
    BY <1>2, <1>4, <1>5, <1>6, <1>7 DEF MedierInit, StoreInv, VolumeFits, FilesStay, CopyFits

\* The types of a row.
LEMMA PhotoFields ==
  ASSUME MedierTypeOK, NEW p \in Photos, attached[p] # Null
  PROVE  /\ attached[p] \in PhotoRow /\ attached[p].name \in Names
         /\ attached[p].made \in {"old", "volume", "bucket"} /\ attached[p].kept \in BOOLEAN
  BY DEF MedierTypeOK, PhotoRow

\* There is one row that is kept to a name that nothing in the other store has.
LEMMA OneOfAName ==
  ASSUME StoreInv, NEW p \in KeptPhotos, NEW q \in KeptPhotos, attached[p].name = attached[q].name,
         NoNamesake(p), attached[p].made = "old" => relocated
  PROVE  p = q
  <1> SUFFICES ASSUME p # q PROVE FALSE
    OBVIOUS
  <1>1. p \in Photos /\ q \in Photos /\ attached[p] # Null /\ attached[q] # Null
    BY DEF KeptPhotos
  <1>2. attached[q].made = attached[p].made /\ attached[p].name \in Names
    BY <1>1, PhotoFields DEF NoNamesake, StoreInv
  <1>3. NoNamesake(q)
    BY <1>1, <1>2 DEF NoNamesake
  <1>4. attached[p].made # "bucket"
    BY <1>2, <1>3 DEF StoreInv, FilesStay
  <1>5. attached[p].made # "old"
    BY <1>1, <1>2, MedierAssumption DEF StoreInv, NamesFit
  <1>6. p \in FromVolume /\ q \in FromVolume
    BY <1>2, <1>3, <1>4, <1>5 DEF FromVolume
  <1>7. volume[attached[p].name] # p /\ bucket[attached[p].name] = p /\ emptied
    <2> DEFINE n == attached[p].name
    <2>1. volume[n] = p \/ (emptied /\ bucket[n] = p)
      BY <1>6 DEF StoreInv, FilesStay
    <2>2. volume[n] = q \/ (emptied /\ bucket[n] = q)
      BY <1>6 DEF StoreInv, FilesStay
    <2>3. emptied
      BY <2>1, <2>2
    <2>4. volume[n] # p
      BY <1>1, <1>2, <1>5, <2>3, MedierAssumption DEF StoreInv, VolumeFits
    <2> QED
      BY <2>1, <2>3, <2>4
  <1>8. volume[attached[p].name] # q
    BY <1>1, <1>2, <1>5, <1>7, MedierAssumption DEF StoreInv, VolumeFits
  <1> QED
    BY <1>2, <1>6, <1>7, <1>8 DEF StoreInv, FilesStay

\* What is on the volume under the name of such a row is its own file.
LEMMA VolumeShows ==
  ASSUME StoreInv, NEW p \in FromVolume, volume[attached[p].name] # Null
  PROVE  volume[attached[p].name] = p
  <1> DEFINE n == attached[p].name
  <1> SUFFICES ASSUME volume[n] # p PROVE FALSE
    OBVIOUS
  <1>1. p \in Photos /\ attached[p] # Null /\ n \in Names /\ emptied
    BY PhotoFields DEF FromVolume, KeptPhotos, StoreInv, FilesStay
  <1>2. PICK q \in Photos : volume[n] = q
    BY <1>1 DEF StoreInv, MedierTypeOK
  <1>3. attached[q] # Null /\ attached[q].name = n /\ attached[q].made = "old"
    BY <1>1, <1>2 DEF StoreInv, VolumeFits
  <1>4. q \in DOMAIN OldPhotos /\ OldPhotos[q] = n
    BY <1>2, <1>3 DEF StoreInv, NamesFit
  <1>5. p \in DOMAIN OldPhotos /\ OldPhotos[p] = n
    BY <1>1, <1>4 DEF StoreInv, NamesFit, OldNames
  <1> QED
    BY <1>2, <1>4, <1>5, MedierAssumption

\* A step that changes no row changes nothing of which rows are kept and of which names they have.
LEMMA SameRows ==
  ASSUME attached' = attached, relocated' = relocated
  PROVE  /\ KeptPhotos' = KeptPhotos /\ FromVolume' = FromVolume /\ (NamesFit => NamesFit')
         /\ \A p \in Photos : NoNamesake(p)' <=> NoNamesake(p)
  <1>1. KeptPhotos' = KeptPhotos
    BY DEF KeptPhotos
  <1>2. \A p \in Photos : NoNamesake(p)' <=> NoNamesake(p)
    BY DEF NoNamesake
  <1>3. FromVolume' = FromVolume
    BY <1>1 DEF FromVolume, NoNamesake
  <1>4. NamesFit => NamesFit'
    BY DEF NamesFit
  <1> QED
    BY <1>1, <1>2, <1>3, <1>4

\* What is written to the store that the site runs on.
LEMMA PutDoes ==
  ASSUME MedierTypeOK, NEW n \in Names, NEW file \in Photos \cup {Null}, PutInStore(n, file)
  PROVE  /\ volume' \in [Names -> Photos \cup {Null}] /\ bucket' \in [Names -> Photos \cup {Null}]
         /\ \A m \in Names : m # n => volume'[m] = volume[m] /\ bucket'[m] = bucket[m]
         /\ IF onBucket THEN bucket'[n] = file /\ volume' = volume
                        ELSE volume'[n] = file /\ bucket' = bucket
  <1>1. CASE onBucket
    BY <1>1 DEF PutInStore, MedierTypeOK
  <1>2. CASE ~onBucket
    BY <1>2 DEF PutInStore, MedierTypeOK
  <1> QED
    BY <1>1, <1>2

LEMMA UploadKeeps ==
  ASSUME StoreInv, NEW p \in Photos, NEW n \in Names, UploadPhoto(p, n)
  PROVE  StoreInv'
  <1> DEFINE row == [name |-> n, made |-> IF onBucket THEN "bucket" ELSE "volume", kept |-> TRUE]
  <1>1. /\ attached[p] = Null /\ n \notin OldNames /\ PutInStore(n, p)
        /\ attached' = [attached EXCEPT ![p] = row]
        /\ IF onBucket THEN bucket[n] = Null ELSE volume[n] = Null
        /\ UNCHANGED <<onBucket, copying, copied, settled, relocated, emptied>>
        /\ UNCHANGED <<quarter, visitor, stored, shown>>
    BY DEF UploadPhoto, Store, browserVars
  <1>2. row \in PhotoRow /\ row # Null
    <2>1. row \in PhotoRow
      BY DEF PhotoRow
    <2> QED
      BY <2>1, MedierAssumption
  <1>3. row.name = n /\ row.made = (IF onBucket THEN "bucket" ELSE "volume") /\ row.kept
    OBVIOUS
  <1> HIDE DEF row
  <1>4. /\ attached' \in [Photos -> PhotoRow \cup {Null}] /\ attached'[p] = row
        /\ \A q \in Photos : q # p => attached'[q] = attached[q]
    BY <1>1, <1>2 DEF StoreInv, MedierTypeOK
  <1>5. /\ volume' \in [Names -> Photos \cup {Null}] /\ bucket' \in [Names -> Photos \cup {Null}]
        /\ \A m \in Names : m # n => volume'[m] = volume[m] /\ bucket'[m] = bucket[m]
        /\ IF onBucket THEN bucket'[n] = p /\ volume' = volume
                       ELSE volume'[n] = p /\ bucket' = bucket
    BY <1>1, PutDoes DEF StoreInv
  <1>6. MedierTypeOK'
    BY <1>1, <1>4, <1>5 DEF StoreInv, MedierTypeOK, Visitors, Redirect
  <1>7. NamesFit'
    BY <1>1, <1>3, <1>4 DEF StoreInv, NamesFit
  <1>8. VolumeFits'
    <2>1. emptied' => onBucket'
      BY <1>1 DEF StoreInv, VolumeFits
    <2>2. ASSUME NEW m \in Names, volume'[m] # Null
          PROVE  /\ attached'[volume'[m]] # Null /\ attached'[volume'[m]].name = m
                 /\ attached'[volume'[m]].made # "bucket"
                 /\ attached'[volume'[m]].made = "old" => relocated'
                 /\ emptied' => attached'[volume'[m]].made = "old"
      <3>1. CASE ~onBucket /\ m = n
        BY <1>1, <1>2, <1>3, <1>4, <1>5, <2>1, <3>1
      <3>2. CASE onBucket \/ m # n
        <4>1. volume'[m] = volume[m] /\ volume[m] \in Photos
          BY <1>5, <2>2, <3>2 DEF StoreInv, MedierTypeOK
        <4>2. attached[volume[m]] # Null
          BY <2>2, <4>1 DEF StoreInv, VolumeFits
        <4>3. attached'[volume[m]] = attached[volume[m]]
          BY <1>1, <1>4, <4>1, <4>2
        <4> QED
          BY <1>1, <2>2, <4>1, <4>3 DEF StoreInv, VolumeFits
      <3> QED
        BY <3>1, <3>2
    <2> QED
      BY <2>1, <2>2 DEF VolumeFits
  <1>9. ASSUME NEW q \in KeptPhotos', q # p, NoNamesake(q)'
        PROVE  /\ q \in KeptPhotos /\ NoNamesake(q) /\ attached'[q] = attached[q]
               /\ attached[q].name \in Names
               /\ attached[q].name = n => attached[q].made = row.made
    <2>1. q \in KeptPhotos /\ attached'[q] = attached[q]
      BY <1>4, <1>9 DEF KeptPhotos
    <2>2. NoNamesake(q)
      <3> SUFFICES ASSUME NEW r \in Photos \ {q}, attached[r] # Null, attached[r].name = attached[q].name
                   PROVE  attached[r].made = attached[q].made
        BY DEF NoNamesake
      <3>1. attached'[r] = attached[r]
        BY <1>1, <1>4
      <3> QED
        BY <1>9, <2>1, <3>1 DEF NoNamesake
    <2>3. attached[q].name = n => attached[q].made = row.made
      BY <1>2, <1>3, <1>4, <1>9, <2>1 DEF NoNamesake
    <2> QED
      BY <2>1, <2>2, <2>3, PhotoFields DEF KeptPhotos, StoreInv
  <1>10. ASSUME NEW q \in FromVolume', q # p
         PROVE  /\ q \in FromVolume /\ attached'[q] = attached[q] /\ attached[q].name \in Names
                /\ attached[q].name # n
    <2>1. q \in KeptPhotos' /\ NoNamesake(q)' /\ attached'[q].made # "bucket"
          /\ (attached'[q].made = "old" => relocated)
      BY <1>1, <1>10 DEF FromVolume
    <2>2. /\ q \in KeptPhotos /\ NoNamesake(q) /\ attached'[q] = attached[q]
          /\ attached[q].name \in Names
          /\ attached[q].name = n => attached[q].made = row.made
      BY <1>9, <1>10, <2>1
    <2>3. q \in FromVolume
      BY <2>1, <2>2 DEF FromVolume
    <2>4. ASSUME attached[q].name = n PROVE FALSE
      <3>1. ~onBucket /\ volume[n] = Null
        BY <1>1, <1>3, <2>1, <2>2, <2>4
      <3>2. volume[n] = q
        BY <2>3, <2>4, <3>1 DEF StoreInv, FilesStay, VolumeFits
      <3> QED
        BY <3>1, <3>2, MedierAssumption DEF FromVolume, KeptPhotos
    <2> QED
      BY <2>2, <2>3, <2>4
  <1>11. p \in FromVolume' => ~onBucket /\ ~emptied
    BY <1>1, <1>3, <1>4 DEF FromVolume, StoreInv, VolumeFits
  <1>12. FilesStay'
    <2>1. ASSUME NEW q \in KeptPhotos', NoNamesake(q)', attached'[q].made = "bucket"
          PROVE  bucket'[attached'[q].name] = q
      <3>1. CASE q = p
        BY <1>3, <1>4, <1>5, <2>1, <3>1
      <3>2. CASE q # p
        <4>1. bucket[attached[q].name] = q /\ q \in Photos /\ attached[q].name \in Names
              /\ attached'[q] = attached[q] /\ (attached[q].name = n => row.made = "bucket")
          BY <1>9, <2>1, <3>2 DEF StoreInv, FilesStay, KeptPhotos
        <4>2. attached[q].name # n \/ ~onBucket
          BY <1>1, <4>1, MedierAssumption
        <4> QED
          BY <1>5, <4>1, <4>2
      <3> QED
        BY <3>1, <3>2
    <2>2. ASSUME NEW q \in FromVolume'
          PROVE  volume'[attached'[q].name] = q \/ (emptied' /\ bucket'[attached'[q].name] = q)
      <3>1. CASE q = p
        BY <1>3, <1>4, <1>5, <1>11, <2>2, <3>1
      <3>2. CASE q # p
        BY <1>1, <1>5, <1>10, <2>2, <3>2 DEF StoreInv, FilesStay
      <3> QED
        BY <3>1, <3>2
    <2> QED
      BY <2>1, <2>2 DEF FilesStay
  <1>13. CopyFits'
    <2>1. ASSUME onBucket, NEW q \in FromVolume'
          PROVE  /\ q \in FromVolume /\ attached'[q].name = attached[q].name
                 /\ bucket'[attached[q].name] = bucket[attached[q].name]
      <3>1. q # p
        BY <1>11, <2>1
      <3> QED
        BY <1>5, <1>10, <2>1, <3>1
    <2> QED
      BY <1>1, <2>1 DEF StoreInv, CopyFits
  <1> QED
    BY <1>6, <1>7, <1>8, <1>12, <1>13 DEF StoreInv

LEMMA DeleteKeeps ==
  ASSUME StoreInv, NEW p \in Photos, DeletePhoto(p)
  PROVE  StoreInv'
  <1> DEFINE n == attached[p].name
             row == [attached[p] EXCEPT !.kept = FALSE]
  <1>1. /\ p \in KeptPhotos /\ attached[p].made # "old" /\ attached[p] # Null
        /\ attached[p] \in PhotoRow /\ n \in Names
        /\ attached' = [attached EXCEPT ![p] = row]
        /\ UNCHANGED <<onBucket, copying, copied, settled, relocated, emptied>>
        /\ UNCHANGED <<quarter, visitor, stored, shown>>
    BY PhotoFields DEF DeletePhoto, KeptPhotos, browserVars, StoreInv
  <1>2. PICK file \in Photos \cup {Null} :
          PutInStore(n, file) /\ file \in {Null, IF onBucket THEN bucket[n] ELSE volume[n]}
    <2>1. bucket[n] \in Photos \cup {Null} /\ volume[n] \in Photos \cup {Null}
      BY <1>1 DEF StoreInv, MedierTypeOK
    <2> QED
      BY <2>1 DEF DeletePhoto, Store
  <1>3. /\ row \in PhotoRow /\ row.name = n /\ row.made = attached[p].made /\ row.kept = FALSE
    BY <1>1 DEF PhotoRow
  <1>4. row # Null
    BY <1>3, MedierAssumption
  <1> HIDE DEF row
  <1>5. /\ attached' \in [Photos -> PhotoRow \cup {Null}] /\ attached'[p] = row
        /\ \A q \in Photos : q # p => attached'[q] = attached[q]
    BY <1>1, <1>3 DEF StoreInv, MedierTypeOK
  <1>6. \A q \in Photos : /\ attached'[q] # Null <=> attached[q] # Null
                          /\ attached[q] # Null => attached'[q].name = attached[q].name
                                                   /\ attached'[q].made = attached[q].made
    BY <1>1, <1>3, <1>4, <1>5
  <1>7. /\ volume' \in [Names -> Photos \cup {Null}] /\ bucket' \in [Names -> Photos \cup {Null}]
        /\ \A m \in Names : m # n => volume'[m] = volume[m] /\ bucket'[m] = bucket[m]
        /\ \A m \in Names : volume'[m] \in {volume[m], Null}
    <2> HIDE DEF n
    <2>1. /\ volume' \in [Names -> Photos \cup {Null}] /\ bucket' \in [Names -> Photos \cup {Null}]
          /\ \A m \in Names : m # n => volume'[m] = volume[m] /\ bucket'[m] = bucket[m]
          /\ IF onBucket THEN bucket'[n] = file /\ volume' = volume
                         ELSE volume'[n] = file /\ bucket' = bucket
      BY <1>1, <1>2, PutDoes DEF StoreInv
    <2> QED
      BY <1>2, <2>1
  <1>8. MedierTypeOK'
    BY <1>1, <1>5, <1>7 DEF StoreInv, MedierTypeOK, Visitors, Redirect
  <1>9. NamesFit'
    BY <1>6 DEF StoreInv, NamesFit
  <1>10. VolumeFits'
    <2>1. \A m \in Names : volume'[m] # Null => volume'[m] = volume[m] /\ volume[m] \in Photos
      BY <1>7 DEF StoreInv, MedierTypeOK
    <2> QED
      BY <1>1, <1>6, <2>1 DEF StoreInv, VolumeFits
  <1>11. ASSUME NEW q \in KeptPhotos', NoNamesake(q)', attached'[q].made = "old" => relocated
         PROVE  /\ q \in KeptPhotos /\ NoNamesake(q) /\ attached'[q] = attached[q]
                /\ attached[q].name \in Names /\ attached[q].name # n
    <2>1. q \in KeptPhotos /\ q # p /\ attached'[q] = attached[q] /\ q \in Photos
      BY <1>3, <1>5, <1>11 DEF KeptPhotos
    <2>2. NoNamesake(q)
      BY <1>6, <1>11, <2>1 DEF NoNamesake
    <2>3. attached[q].name # n
      BY <1>1, <1>11, <2>1, <2>2, OneOfAName
    <2> QED
      BY <2>1, <2>2, <2>3, PhotoFields DEF KeptPhotos, StoreInv
  <1>12. ASSUME NEW q \in FromVolume'
         PROVE  /\ q \in FromVolume /\ attached'[q].name = attached[q].name
                /\ volume'[attached[q].name] = volume[attached[q].name]
                /\ bucket'[attached[q].name] = bucket[attached[q].name]
    <2>1. q \in KeptPhotos' /\ NoNamesake(q)' /\ (attached'[q].made = "old" => relocated)
          /\ attached'[q].made # "bucket"
      BY <1>1, <1>12 DEF FromVolume
    <2>2. /\ q \in KeptPhotos /\ NoNamesake(q) /\ attached'[q] = attached[q]
          /\ attached[q].name \in Names /\ attached[q].name # n
      BY <1>11, <2>1
    <2>3. q \in FromVolume
      BY <2>1, <2>2 DEF FromVolume
    <2> QED
      BY <1>7, <2>2, <2>3
  <1>13. FilesStay'
    <2>1. ASSUME NEW q \in KeptPhotos', NoNamesake(q)', attached'[q].made = "bucket"
          PROVE  bucket'[attached'[q].name] = q
      <3>1. /\ q \in KeptPhotos /\ NoNamesake(q) /\ attached'[q] = attached[q]
            /\ attached[q].name \in Names /\ attached[q].name # n
        BY <1>11, <2>1
      <3> QED
        BY <1>7, <2>1, <3>1 DEF StoreInv, FilesStay
    <2>2. \A q \in FromVolume' :
            volume'[attached'[q].name] = q \/ (emptied' /\ bucket'[attached'[q].name] = q)
      BY <1>1, <1>12 DEF StoreInv, FilesStay
    <2> QED
      BY <2>1, <2>2 DEF FilesStay
  <1>14. CopyFits'
    BY <1>1, <1>12 DEF StoreInv, CopyFits
  <1> QED
    BY <1>8, <1>9, <1>10, <1>13, <1>14 DEF StoreInv

\* The steps that write no file and change no row: they only say what has been copied.
LEMMA ManagedKeeps ==
  ASSUME StoreInv, StartCopying \/ CopyingEnds \/ CopyingDies \/ FlipToBucket \/ RollBack
  PROVE  StoreInv'
  <1>1. /\ UNCHANGED <<volume, bucket, attached, relocated, emptied>>
        /\ UNCHANGED <<quarter, visitor, stored, shown>>
    BY DEF StartCopying, CopyingEnds, CopyingDies, FlipToBucket, RollBack, browserVars
  <1>2. /\ KeptPhotos' = KeptPhotos /\ FromVolume' = FromVolume /\ NamesFit'
        /\ \A p \in Photos : NoNamesake(p)' <=> NoNamesake(p)
    BY <1>1, SameRows DEF StoreInv
  <1>3. MedierTypeOK'
    <2>1. /\ copying' = Null \/ copying' \subseteq Names
          /\ onBucket' \in BOOLEAN /\ copied' \in BOOLEAN /\ settled' \in BOOLEAN
      BY DEF StartCopying, CopyingEnds, CopyingDies, FlipToBucket, RollBack, StoreInv, MedierTypeOK
    <2> QED
      BY <1>1, <2>1 DEF StoreInv, MedierTypeOK, Visitors, Redirect
  <1>4. VolumeFits'
    <2>1. emptied => onBucket'
      BY DEF StartCopying, CopyingEnds, CopyingDies, FlipToBucket, RollBack, MayRunOnVolume, StoreInv,
             VolumeFits
    <2> QED
      BY <1>1, <2>1 DEF StoreInv, VolumeFits
  <1>5. FilesStay'
    BY <1>1, <1>2 DEF StoreInv, FilesStay, KeptPhotos
  <1>6. CopyFits'
    <2>1. CASE StartCopying
      <3>1. copying' = {n \in Names : volume[n] # Null} /\ UNCHANGED <<onBucket, settled>>
        BY <2>1 DEF StartCopying
      <3>2. ASSUME NEW p \in FromVolume
            PROVE  attached[p].name \in copying' \/ bucket[attached[p].name] = p
        <4>1. attached[p].name \in Names /\ p # Null
          BY <3>2, PhotoFields, MedierAssumption DEF FromVolume, KeptPhotos, StoreInv
        <4> QED
          BY <3>1, <3>2, <4>1 DEF StoreInv, FilesStay
      <3> QED
        BY <1>1, <1>2, <3>1, <3>2 DEF StoreInv, CopyFits
    <2>2. CASE CopyingEnds
      <3>1. copying = {} /\ copying # Null /\ copying' = Null /\ settled' = onBucket /\ onBucket' = onBucket
        BY <2>2, MedierAssumption DEF CopyingEnds
      <3> QED
        BY <1>1, <1>2, <3>1 DEF StoreInv, CopyFits
    <2>3. CASE CopyingDies
      BY <1>1, <1>2, <2>3 DEF StoreInv, CopyFits, CopyingDies
    <2>4. CASE FlipToBucket \/ RollBack
      <3>1. copying' = Null /\ settled' = FALSE
        BY <2>4 DEF FlipToBucket, RollBack
      <3> QED
        BY <3>1 DEF CopyFits
    <2> QED
      BY <2>1, <2>2, <2>3, <2>4
  <1> QED
    BY <1>2, <1>3, <1>4, <1>5, <1>6 DEF StoreInv

\* The old site's files are put on the volume where there is none of that name.
LEMMA RelocateKeeps ==
  ASSUME StoreInv, RelocateMedia
  PROVE  StoreInv'
  <1>1. /\ copying = Null /\ relocated' = TRUE /\ settled' = (settled /\ volume' = volume)
        /\ UNCHANGED <<bucket, onBucket, attached, copying, copied, emptied>>
        /\ UNCHANGED <<quarter, visitor, stored, shown>>
    BY DEF RelocateMedia, browserVars
  <1>2. ASSUME NEW n \in Names
        PROVE  \/ volume'[n] = volume[n] /\ (n \in OldNames => volume[n] # Null)
               \/ /\ n \in OldNames /\ volume[n] = Null
                  /\ volume'[n] \in DOMAIN OldPhotos /\ OldPhotos[volume'[n]] = n
    <2>1. volume'[n] = IF n \in OldNames /\ volume[n] = Null
                       THEN CHOOSE p \in DOMAIN OldPhotos : OldPhotos[p] = n ELSE volume[n]
      BY DEF RelocateMedia
    <2>2. n \in OldNames => \E p \in DOMAIN OldPhotos : OldPhotos[p] = n
      BY DEF OldNames
    <2> QED
      BY <2>1, <2>2
  <1>3. volume' \in [Names -> Photos \cup {Null}]
    <2>1. \A n \in Names : volume'[n] \in Photos \cup {Null}
      BY <1>2, MedierAssumption DEF StoreInv, MedierTypeOK
    <2>2. volume' = [n \in Names |-> volume'[n]]
      BY DEF RelocateMedia
    <2> QED
      BY <2>1, <2>2
  <1>4. MedierTypeOK'
    <2>1. settled' \in BOOLEAN
      BY <1>1
    <2> QED
      BY <1>1, <1>3, <2>1 DEF StoreInv, MedierTypeOK, Visitors, Redirect
  <1>5. NamesFit' /\ KeptPhotos' = KeptPhotos /\ \A p \in Photos : NoNamesake(p)' <=> NoNamesake(p)
    BY <1>1 DEF StoreInv, NamesFit, KeptPhotos, NoNamesake
  <1>6. ASSUME NEW n \in Names, n \in OldNames
        PROVE  volume'[n] \in DOMAIN OldPhotos /\ OldPhotos[volume'[n]] = n
    <2>1. CASE volume'[n] = volume[n] /\ volume[n] # Null
      <3>1. volume[n] \in Photos /\ attached[volume[n]] # Null /\ attached[volume[n]].name = n
        BY <2>1 DEF StoreInv, MedierTypeOK, VolumeFits
      <3> QED
        BY <1>6, <2>1, <3>1 DEF StoreInv, NamesFit
    <2> QED
      BY <1>2, <1>6, <2>1
  <1>7. VolumeFits'
    <2>1. ASSUME NEW n \in Names, volume'[n] # Null
          PROVE  /\ attached[volume'[n]] # Null /\ attached[volume'[n]].name = n
                 /\ attached[volume'[n]].made # "bucket"
                 /\ emptied => attached[volume'[n]].made = "old"
      <3>1. CASE n \in OldNames
        <4>1. volume'[n] \in DOMAIN OldPhotos /\ volume'[n] \in Photos /\ OldPhotos[volume'[n]] = n
          BY <1>6, <3>1, MedierAssumption
        <4> QED
          BY <4>1 DEF StoreInv, NamesFit
      <3>2. CASE n \notin OldNames
        BY <1>2, <2>1, <3>2 DEF StoreInv, VolumeFits
      <3> QED
        BY <3>1, <3>2
    <2> QED
      BY <1>1, <2>1 DEF StoreInv, VolumeFits
  <1>8. ASSUME NEW p \in FromVolume'
        PROVE  /\ p \in Photos /\ attached[p].name \in Names
               /\ \/ attached[p].made = "old" /\ volume'[attached[p].name] = p
                  \/ p \in FromVolume /\ volume'[attached[p].name] = volume[attached[p].name]
    <2>1. /\ p \in KeptPhotos /\ NoNamesake(p) /\ attached[p].made # "bucket"
          /\ p \in Photos /\ attached[p] # Null
      BY <1>1, <1>5, <1>8 DEF FromVolume, KeptPhotos
    <2>2. attached[p].name \in Names
      BY <2>1, PhotoFields DEF StoreInv
    <2>3. CASE attached[p].made = "old"
      <3>1. p \in DOMAIN OldPhotos /\ attached[p].name = OldPhotos[p] /\ OldPhotos[p] \in OldNames
        BY <2>1, <2>3 DEF StoreInv, NamesFit, OldNames
      <3>2. volume'[OldPhotos[p]] = p
        BY <1>6, <2>2, <3>1, MedierAssumption
      <3> QED
        BY <2>1, <2>2, <2>3, <3>1, <3>2
    <2>4. CASE attached[p].made # "old"
      <3>1. attached[p].name \notin OldNames
        BY <2>1, <2>4 DEF StoreInv, NamesFit
      <3>2. p \in FromVolume
        BY <2>1, <2>4 DEF FromVolume
      <3> QED
        BY <1>2, <2>1, <2>2, <3>1, <3>2
    <2> QED
      BY <2>3, <2>4
  <1>9. FilesStay'
    <2>1. \A p \in KeptPhotos' :
            NoNamesake(p)' /\ attached'[p].made = "bucket" => bucket'[attached'[p].name] = p
      BY <1>1, <1>5 DEF StoreInv, FilesStay, KeptPhotos
    <2>2. \A p \in FromVolume' :
            volume'[attached'[p].name] = p \/ (emptied' /\ bucket'[attached'[p].name] = p)
      BY <1>1, <1>8 DEF StoreInv, FilesStay
    <2> QED
      BY <2>1, <2>2 DEF FilesStay
  <1>10. CopyFits'
    <2>1. ASSUME settled, volume' = volume, NEW p \in FromVolume' PROVE bucket[attached[p].name] = p
      <3>1. CASE p \in FromVolume
        BY <2>1, <3>1 DEF StoreInv, CopyFits
      <3>2. CASE attached[p].made = "old" /\ volume'[attached[p].name] = p
        <4>1. volume[attached[p].name] = p /\ p # Null /\ attached[p].name \in Names
          BY <1>8, <2>1, <3>2, MedierAssumption
        <4>2. relocated
          BY <3>2, <4>1 DEF StoreInv, VolumeFits
        <4>3. p \in FromVolume
          BY <1>1, <1>5, <2>1, <4>2, <1>8 DEF FromVolume
        <4> QED
          BY <2>1, <4>3 DEF StoreInv, CopyFits
      <3> QED
        BY <1>8, <2>1, <3>1, <3>2
    <2> QED
      BY <1>1, <2>1 DEF StoreInv, CopyFits
  <1> QED
    BY <1>4, <1>5, <1>7, <1>9, <1>10 DEF StoreInv

\* A file of the volume is written to the bucket over whatever has its name there.
LEMMA CopyFileKeeps ==
  ASSUME StoreInv, CopyFile
  PROVE  StoreInv'
  <1>1. /\ UNCHANGED <<volume, onBucket, attached, copied, settled, relocated, emptied>>
        /\ UNCHANGED <<quarter, visitor, stored, shown>>
        /\ copying # Null /\ copying \subseteq Names
    BY DEF CopyFile, browserVars, StoreInv, MedierTypeOK
  <1>2. PICK n \in copying :
          \/ volume[n] = Null /\ copying' = Null /\ UNCHANGED bucket
          \/ volume[n] # Null /\ copying' = copying \ {n} /\ bucket' = [bucket EXCEPT ![n] = volume[n]]
    <2>1. \E n \in copying : \A m \in copying : n <= m
      BY <1>1, LeastOf, MedierAssumption DEF CopyFile
    <2> QED
      BY <2>1 DEF CopyFile, WrittenUnder
  <1>3. /\ KeptPhotos' = KeptPhotos /\ FromVolume' = FromVolume /\ NamesFit'
        /\ \A p \in Photos : NoNamesake(p)' <=> NoNamesake(p)
    BY <1>1, SameRows DEF StoreInv
  <1>4. /\ bucket' \in [Names -> Photos \cup {Null}]
        /\ \A m \in Names : m # n \/ volume[n] = Null => bucket'[m] = bucket[m]
        /\ volume[n] # Null => bucket'[n] = volume[n]
    BY <1>1, <1>2 DEF StoreInv, MedierTypeOK
  <1>5. MedierTypeOK'
    BY <1>1, <1>2, <1>4 DEF StoreInv, MedierTypeOK, Visitors, Redirect
  <1>6. VolumeFits'
    BY <1>1 DEF StoreInv, VolumeFits
  <1>7. ASSUME NEW p \in FromVolume
        PROVE  /\ attached[p].name \in Names
               /\ bucket[attached[p].name] = p => bucket'[attached[p].name] = p
               /\ attached[p].name = n /\ volume[n] # Null => bucket'[attached[p].name] = p
    <2>1. attached[p].name \in Names
      BY <1>7, PhotoFields DEF FromVolume, KeptPhotos, StoreInv
    <2>2. volume[attached[p].name] # Null => volume[attached[p].name] = p
      BY <1>7, VolumeShows
    <2> QED
      BY <1>4, <2>1, <2>2
  <1>8. FilesStay'
    <2>1. ASSUME NEW p \in KeptPhotos, NoNamesake(p), attached[p].made = "bucket"
          PROVE  bucket'[attached[p].name] = p
      <3>1. p \in Photos /\ attached[p].name \in Names /\ bucket[attached[p].name] = p
        BY <2>1, PhotoFields DEF KeptPhotos, StoreInv, FilesStay
      <3>2. ASSUME attached[p].name = n, volume[n] # Null PROVE FALSE
        <4>1. /\ volume[n] \in Photos /\ attached[volume[n]] # Null /\ attached[volume[n]].name = n
              /\ attached[volume[n]].made # "bucket"
          BY <1>1, <3>2 DEF StoreInv, MedierTypeOK, VolumeFits
        <4> QED
          BY <2>1, <3>2, <4>1 DEF NoNamesake
      <3> QED
        BY <1>4, <3>1, <3>2
    <2>2. \A p \in FromVolume :
            volume[attached[p].name] = p \/ (emptied /\ bucket'[attached[p].name] = p)
      BY <1>7 DEF StoreInv, FilesStay
    <2> QED
      BY <1>1, <1>3, <2>1, <2>2 DEF FilesStay, KeptPhotos
  <1>9. CopyFits'
    <2>1. settled => onBucket /\ \A p \in FromVolume : bucket'[attached[p].name] = p
      BY <1>7 DEF StoreInv, CopyFits
    <2>2. ASSUME copying' # Null, onBucket, NEW p \in FromVolume
          PROVE  attached[p].name \in copying' \/ bucket'[attached[p].name] = p
      <3>1. volume[n] # Null /\ copying' = copying \ {n}
        BY <1>2, <2>2
      <3>2. attached[p].name \in copying \/ bucket[attached[p].name] = p
        BY <1>1, <2>2 DEF StoreInv, CopyFits
      <3> QED
        BY <1>7, <2>2, <3>1, <3>2
    <2> QED
      BY <1>1, <1>3, <2>1, <2>2 DEF CopyFits
  <1> QED
    BY <1>3, <1>5, <1>6, <1>8, <1>9 DEF StoreInv

LEMMA EmptyVolumeKeeps ==
  ASSUME StoreInv, EmptyVolume
  PROVE  StoreInv'
  <1>1. /\ onBucket /\ settled /\ copying = Null /\ emptied' = TRUE
        /\ volume' = [n \in Names |-> Null]
        /\ UNCHANGED <<bucket, onBucket, attached, copying, copied, settled, relocated>>
        /\ UNCHANGED <<quarter, visitor, stored, shown>>
    BY DEF EmptyVolume, browserVars
  <1>2. /\ KeptPhotos' = KeptPhotos /\ FromVolume' = FromVolume /\ NamesFit'
        /\ \A p \in Photos : NoNamesake(p)' <=> NoNamesake(p)
    BY <1>1, SameRows DEF StoreInv
  <1>3. volume' \in [Names -> Photos \cup {Null}] /\ \A n \in Names : volume'[n] = Null
    BY <1>1
  <1>4. MedierTypeOK'
    BY <1>1, <1>3 DEF StoreInv, MedierTypeOK, Visitors, Redirect
  <1>5. VolumeFits' /\ CopyFits'
    BY <1>1, <1>2, <1>3 DEF StoreInv, VolumeFits, CopyFits
  <1>6. FilesStay'
    BY <1>1, <1>2 DEF StoreInv, FilesStay, CopyFits, KeptPhotos
  <1> QED
    BY <1>2, <1>4, <1>5, <1>6 DEF StoreInv

\* What the site's files and rows are does not depend on who looks at them.
LEMMA StoreKeeps ==
  ASSUME StoreInv, UNCHANGED storeVars, MedierTypeOK'
  PROVE  StoreInv'
  <1>1. /\ KeptPhotos' = KeptPhotos /\ FromVolume' = FromVolume /\ NamesFit'
        /\ \A p \in Photos : NoNamesake(p)' <=> NoNamesake(p)
    BY SameRows DEF storeVars, StoreInv
  <1> QED
    BY <1>1 DEF storeVars, StoreInv, VolumeFits, FilesStay, CopyFits, KeptPhotos

\* What a browser has stored was signed before now, and for nobody in particular only if everybody
\* may see it.
StoredFits ==
    \A s \in stored : /\ s.cookie = Null => Cleaned(s.path)[1] = PublicPrefix
                      /\ s.signed <= quarter

MedierInv == StoreInv /\ StoredFits /\ PicturesForWhoMaySee

LEMMA LookAtKeeps ==
  ASSUME MedierInv, NEW path \in Paths, LookAt(path)
  PROVE  MedierInv'
  <1>1. /\ UNCHANGED storeVars /\ UNCHANGED <<quarter, visitor>>
        /\ quarter \in Nat /\ visitor \in Visitors /\ quarter \in 0..LastQuarter
        /\ stored \subseteq Redirect
    BY MedierAssumption DEF LookAt, MedierInv, StoreInv, MedierTypeOK
  <1>2. CASE StillStored(path) # {}
    <2>1. PICK s \in StillStored(path) : shown' = Given(path, s.signed) /\ UNCHANGED stored
      BY <1>2 DEF LookAt
    <2>2. /\ s \in stored /\ s.path = path /\ s.cookie = visitor
          /\ quarter - s.signed < RedirectMaxAge /\ s.signed \in Nat
      BY <1>1, <2>1 DEF StillStored, Redirect
    <2>3. quarter - s.signed < PresignTtl
      BY <1>1, <2>2, MedierAssumption
    <2>4. /\ shown'.to = visitor /\ shown'.name = Cleaned(path)
          /\ shown'.valid = (quarter - s.signed < PresignTtl)
      BY <2>1 DEF Given
    <2>5. PicturesForWhoMaySee'
      BY <2>2, <2>3, <2>4 DEF MedierInv, StoredFits, PicturesForWhoMaySee
    <2>6. StoredFits'
      BY <1>1, <2>1 DEF MedierInv, StoredFits
    <2>7. StoreInv'
      BY <1>1, <2>1, StoreKeeps DEF MedierInv, StoreInv, MedierTypeOK, storeVars, Visitors, Redirect
    <2> QED
      BY <2>5, <2>6, <2>7 DEF MedierInv
  <1>3. CASE StillStored(path) = {}
    <2> DEFINE new == [path |-> path, cookie |-> visitor, signed |-> quarter]
    <2>1. /\ MaySee(path, visitor) /\ shown' = Given(path, quarter)
          /\ stored' \in {stored, {s \in stored : s.path # path} \cup {new}}
      BY <1>3 DEF LookAt
    <2>2. new \in Redirect /\ new.path = path /\ new.cookie = visitor /\ new.signed = quarter
      BY <1>1 DEF Redirect
    <2> HIDE DEF new
    <2>3. visitor = Null => Cleaned(path)[1] = PublicPrefix
      BY <2>1 DEF MaySee
    <2>4. /\ shown'.to = visitor /\ shown'.name = Cleaned(path)
          /\ shown'.valid = (quarter - quarter < PresignTtl)
      BY <2>1 DEF Given
    <2>5. quarter - quarter < PresignTtl
      BY <1>1, MedierAssumption
    <2>6. PicturesForWhoMaySee'
      BY <2>3, <2>4, <2>5 DEF PicturesForWhoMaySee
    <2>7. \A s \in stored' : s \in stored \/ s = new
      BY <2>1
    <2>8. StoredFits'
      BY <1>1, <2>2, <2>3, <2>7 DEF MedierInv, StoredFits
    <2>9. StoreInv'
      <3>1. stored' \subseteq Redirect
        BY <1>1, <2>2, <2>7
      <3> QED
        BY <1>1, <3>1, StoreKeeps DEF MedierInv, StoreInv, MedierTypeOK, storeVars, Visitors, Redirect
    <2> QED
      BY <2>6, <2>8, <2>9 DEF MedierInv
  <1> QED
    BY <1>2, <1>3

LEMMA VisitorKeeps ==
  ASSUME MedierInv, QuarterPasses \/ \E who \in Visitors : ChangeSession(who)
  PROVE  MedierInv'
  <1>1. /\ UNCHANGED storeVars /\ UNCHANGED <<stored, shown>> /\ visitor' \in Visitors
        /\ quarter' \in 0..LastQuarter /\ quarter' >= quarter /\ quarter \in Nat
        /\ stored \subseteq Redirect
    BY MedierAssumption DEF QuarterPasses, ChangeSession, MedierInv, StoreInv, MedierTypeOK
  <1>2. StoreInv'
    BY <1>1, StoreKeeps DEF MedierInv, StoreInv, MedierTypeOK, storeVars, Visitors, Redirect
  <1>3. StoredFits'
    <2>1. \A s \in stored : s.signed \in Nat
      BY <1>1 DEF Redirect
    <2>2. quarter' \in Nat
      BY <1>1, MedierAssumption
    <2> QED
      BY <1>1, <2>1, <2>2 DEF MedierInv, StoredFits
  <1> QED
    BY <1>1, <1>2, <1>3 DEF MedierInv, PicturesForWhoMaySee

LEMMA LookingKeeps ==
  ASSUME MedierInv, MedierStep
  PROVE  MedierInv'
  <1>1. ASSUME StoreInv', UNCHANGED browserVars PROVE MedierInv'
    BY <1>1 DEF MedierInv, StoredFits, PicturesForWhoMaySee, browserVars
  <1>2. StoreInv
    BY DEF MedierInv
  <1>3. ASSUME NEW p \in Photos, DeletePhoto(p) PROVE MedierInv'
    BY <1>1, <1>2, <1>3, DeleteKeeps DEF DeletePhoto
  <1>4. ASSUME NEW p \in Photos, NEW n \in Names, UploadPhoto(p, n) PROVE MedierInv'
    BY <1>1, <1>2, <1>4, UploadKeeps DEF UploadPhoto
  <1>5. ASSUME StartCopying \/ CopyingEnds \/ CopyingDies \/ FlipToBucket \/ RollBack PROVE MedierInv'
    <2>1. UNCHANGED browserVars
      BY <1>5 DEF StartCopying, CopyingEnds, CopyingDies, FlipToBucket, RollBack
    <2> QED
      BY <1>1, <1>2, <1>5, <2>1, ManagedKeeps
  <1>6. ASSUME RelocateMedia \/ CopyFile \/ EmptyVolume PROVE MedierInv'
    <2>1. UNCHANGED browserVars
      BY <1>6 DEF RelocateMedia, CopyFile, EmptyVolume
    <2> QED
      BY <1>1, <1>2, <1>6, <2>1, RelocateKeeps, CopyFileKeeps, EmptyVolumeKeeps
  <1> QED
    BY <1>3, <1>4, <1>5, <1>6, LookAtKeeps, VisitorKeeps DEF MedierStep

LEMMA MedierHolds == Spec => []MedierInv
  <1>1. Init => MedierInv
    <2> SUFFICES ASSUME MedierInit PROVE MedierInv
      BY DEF Init, HverdagInit
    <2>1. stored = {} /\ shown = Null
      BY DEF MedierInit
    <2> QED
      BY <2>1, StoreInitInv DEF MedierInv, StoredFits, PicturesForWhoMaySee
  <1>2. MedierInv /\ [Next]_vars => MedierInv'
    <2> SUFFICES ASSUME MedierInv, [Next]_vars PROVE MedierInv'
      OBVIOUS
    <2>1. MedierStep \/ UNCHANGED medierVars
      BY DEF Next, Rooming, Deducting, Repairing, Posting, Noticing, Reading, Admitting, Publishing,
             Living, HverdagStep, Checking, MovingIn, Looking, Inviting, Signing, vars, hverdagVars
    <2>2. CASE UNCHANGED medierVars
      <3>1. MedierTypeOK' /\ UNCHANGED storeVars
        BY <2>2 DEF medierVars, storeVars, MedierInv, StoreInv, MedierTypeOK, Visitors, Redirect
      <3>2. StoreInv'
        BY <3>1, StoreKeeps DEF MedierInv
      <3> QED
        BY <2>2, <3>2 DEF medierVars, MedierInv, StoredFits, PicturesForWhoMaySee
    <2> QED
      BY <2>1, <2>2, LookingKeeps
  <1> QED
    BY <1>1, <1>2, PTL DEF Spec

\* Every row finds its own file in the store that the site runs on, through the move to the bucket and
\* back (src/app/core/management/commands/migrate_media_to_s3.py, storage.py, DEPLOY.md).
THEOREM PhotosAlwaysFindTheirFiles == Spec => []PhotosFindTheirFiles
  <1>1. MedierInv => PhotosFindTheirFiles
    <2> SUFFICES ASSUME MedierInv, NEW p \in KeptPhotos,
                        IF onBucket THEN attached[p].made = "bucket" \/ settled ELSE attached[p].made # "bucket",
                        attached[p].made = "old" => relocated,
                        NoNamesake(p)
                 PROVE  Store[attached[p].name] = p
      BY DEF PhotosFindTheirFiles, NoNamesake
    <2>1. attached[p].made # "bucket" => p \in FromVolume
      BY DEF FromVolume
    <2>2. CASE onBucket
      BY <2>1, <2>2 DEF MedierInv, StoreInv, FilesStay, CopyFits, Store
    <2>3. CASE ~onBucket
      BY <2>1, <2>3 DEF MedierInv, StoreInv, FilesStay, VolumeFits, Store
    <2> QED
      BY <2>2, <2>3
  <1> QED
    BY <1>1, MedierHolds, PTL

\* /media/ gives a visitor who is not logged in only what is under the public prefix, and no browser
\* follows a stored redirect to a signature that has run out (src/app/core/media.py).
THEOREM PicturesAlwaysForWhoMaySee == Spec => []PicturesForWhoMaySee
  <1>1. MedierInv => PicturesForWhoMaySee
    BY DEF MedierInv
  <1> QED
    BY <1>1, MedierHolds, PTL

-----------------------------------------------------------------------------
(* The types of all of it *)

\* Whatever the parts do at the same time, every row and every page of the intranet is one that its
\* model knows (the models of src/app, and the two scripts of the browser).
THEOREM TypesAlwaysHold == Spec => []TypeOK
  <1>1. KontiInv /\ FestInv /\ OverInv /\ TjekInv /\ MedierInv => HverdagTypeOK
    BY DEF KontiInv, FestInv, OverInv, TjekInv, MedierInv, StoreInv, HverdagTypeOK
  <1>2. ReaderInv => ReaderTypeOK
    BY DEF ReaderInv, TraadInv, GestusInv, ReaderTypeOK
  <1>3. /\ OmfangTypeOK /\ ListTypeOK /\ SoegTypeOK /\ AkTypeOK /\ RepTypeOK /\ DhTypeOK /\ OpsTypeOK
        /\ ReaderTypeOK /\ AdmTypeOK /\ CmsTypeOK /\ HverdagTypeOK
        => TypeOK
    BY DEF TypeOK
  <1> QED
    BY <1>1, <1>2, <1>3, KontiHolds, FestHolds, OverHolds, TjekHolds, MedierHolds, ReaderHolds,
       ListHolds, SoegTypesHold, AkTypesHold, RepTypesHold, DhTypesHold, OpsTypesHold, AdmTypesHold,
       CmsTypesHold, PTL

================================================================================
