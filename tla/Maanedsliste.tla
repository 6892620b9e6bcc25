----------------------------- MODULE Maanedsliste -----------------------------
(***************************************************************************)
(* The alumneliste (src/app/residents): one row per resident and month,    *)
(* the roles somebody holds in a month, the month that is in effect, and   *)
(* Indstillingen's editor for that month and the next.                     *)
(*                                                                         *)
(* A request to the editor is one step: Indstillingen is taken to do one   *)
(* thing at a time.  Any number of other requests read what is here.       *)
(***************************************************************************)
EXTENDS Integers, FiniteSets, Omfang

CONSTANTS
    Residents,    \* everybody who has an account or will be given one
    Rooms,
    Groups,       \* the embedsgrupper
    GroupRole,    \* WORKGROUP_ROLE: the role that a group grants; Null: none
    GroupSize,    \* Workgroup.size: exactly so many members; 0: any number
    Rosters,      \* the list, the administrators and the accounts it may start with
    LastMonth,    \* bound: the last month there is
    Null

Roles == {"indstilling", "inspektion", "kokkengruppe", "ak", "oelkaelder", "regnskab",
          "pr", "repper", "vicevaert", "administrator"}
GroupRoles == Roles \ {"administrator"}
Months == 1..LastMonth

\* A Residency: the room, and the embedsgruppe if there is one.
Row == [room: Rooms, group: Groups \cup {Null}]
Lists == [Residents -> Row \cup {Null}]

ASSUME ListAssumption ==
    /\ LastMonth \in Nat /\ LastMonth > 1
    /\ Null \notin Rooms \cup Groups \cup Residents \cup Roles \cup Row
    /\ GroupRole \in [Groups -> GroupRoles \cup {Null}]
    /\ GroupSize \in [Groups -> Nat]
    /\ Rosters \subseteq [list: Lists, administrators: SUBSET Residents,
                          accounts: SUBSET Residents]

VARIABLES
    today,      \* the calendar month
    list,       \* Residency: the row of each resident in each month
    roles,      \* RoleAssignment: the roles of each resident in each month
    accounts,   \* Resident: who has an account
    staff       \* Resident.is_staff: who may enter /django-admin/

listVars == <<today, list, roles, accounts, staff>>

OnList(m) == {r \in Residents : list[m][r] # Null}

\* active_period: the newest list that has started; with none, the calendar month.
Active ==
    LET started == {m \in 1..today : OnList(m) # {}}
    IN  IF started = {} THEN today
        ELSE CHOOSE m \in started : \A n \in started : n <= m

\* next_period
Target == Active + 1

\* role_required("indstilling"): an administrator has every role.
MayEdit(me) == roles[Active][me] \cap {"indstilling", "administrator"} # {}

\* Mutant: the role of the group is created, whether there is one or not.
RolesOfAnybody(group) == {IF group = Null THEN Null ELSE GroupRole[group]}

\* The role that a group grants, if there is a group and it grants one.
RolesOf(group) == IF group = Null \/ GroupRole[group] = Null THEN {} ELSE {GroupRole[group]}

Administrators == {r \in Residents : "administrator" \in roles[Active][r]}

\* _sync_month_roles
Synced(held, group, isAdmin) ==
    (held \ GroupRoles) \cup RolesOf(group) \cup (IF isAdmin THEN {"administrator"} ELSE {})

ListTypeOK ==
    /\ today \in 1..(LastMonth - 1)
    /\ list \in [Months -> Lists]
    /\ roles \in [Months -> [Residents -> SUBSET Roles]]
    /\ accounts \subseteq Residents
    /\ staff \subseteq Residents

HoldsARole(r) == \E n \in Months : roles[n][r] # {}

\* Mutant: of the month that is written, as if the roles of the others did not count.
HeldThen(m) == {r \in Residents : roles'[m][r] # {}}

HeldNow(m) == {r \in Residents : HoldsARole(r)'}

\* role_added, role_removed: each row of month m that is made or deleted has is_staff looked up
\* afresh; of those in rewritten rows are deleted and made again.
Signals(m, rewritten) ==
    LET touched == {r \in Residents : r \in rewritten \/ roles'[m][r] # roles[m][r]}
    IN  staff' = (staff \ touched) \cup (touched \cap HeldNow(m))

ListInit ==
    \E first \in Rosters :
        /\ today = 1
        /\ list = [m \in Months |->
                      IF m = 1 THEN first.list ELSE [r \in Residents |-> Null]]
        /\ roles = [m \in Months |-> [r \in Residents |->
                      IF m = 1 /\ first.list[r] # Null
                      THEN Synced({}, first.list[r].group, r \in first.administrators)
                      ELSE {}]]
        /\ accounts = first.accounts
    /\ staff = {r \in Residents : HoldsARole(r)}

-----------------------------------------------------------------------------
(* The editor, on the month in effect and on the next *)

\* The month changes; the next list comes into effect if somebody is on it.
TurnMonth ==
    /\ Make("month")
    /\ today + 1 < LastMonth
    /\ today' = today + 1
    /\ UNCHANGED <<list, roles, accounts, staff>>

\* Those of them whose roles _sync_month_roles clears before it grants that of the group.
Resynced(m, who) == {r \in who : roles[m][r] \cap GroupRoles # {}}

\* "copy": everybody on the list in effect, over what month m has.
CopyList(m, me) ==
    /\ Make("copy")
    /\ MayEdit(me)
    /\ list' = [list EXCEPT ![m] = [r \in Residents |->
          IF r \in OnList(Active) THEN list[Active][r] ELSE @[r]]]
    /\ roles' = [roles EXCEPT ![m] = [r \in Residents |->
          IF r \in OnList(Active)
          THEN Synced(@[r], list[Active][r].group, r \in Administrators) ELSE @[r]]]
    /\ Signals(m, Resynced(m, OnList(Active)))
    /\ UNCHANGED <<today, accounts>>

NobodySharesIn(rows, who) ==
    \A r, s \in who : rows[r].room = rows[s].room => r = s

SizesKept(rows, who) ==
    \A g \in Groups : GroupSize[g] # 0 =>
        Cardinality({r \in who : rows[r].group = g}) = GroupSize[g]

\* Mutant: the rows go, and the roles stay.
RolesAfterSaveLeft(m, removed, kept, rows) ==
    [r \in Residents |->
        IF r \in kept THEN Synced(roles[m][r], rows[r].group, r \in Administrators)
        ELSE roles[m][r]]

RolesAfterSave(m, removed, kept, rows) ==
    [r \in Residents |->
        IF r \in kept THEN Synced(roles[m][r], rows[r].group, r \in Administrators)
        ELSE IF r \in removed THEN {} ELSE roles[m][r]]

\* "save": rows is what the form says of those it keeps.  Whoever ticks himself in the month in
\* effect is passed over: he is not removed, and his row is not looked at either.
SaveList(m, me, ticked, rows) ==
    LET removed == ticked \ (IF m = Active THEN {me} ELSE {})
        kept == OnList(m) \ ticked
    IN  /\ Make("save")
        /\ MayEdit(me)
        /\ NobodySharesIn(rows, kept) /\ SizesKept(rows, kept)
        /\ list' = [list EXCEPT ![m] = [r \in Residents |->
              IF r \in kept THEN rows[r] ELSE IF r \in removed THEN Null ELSE @[r]]]
        /\ roles' = [roles EXCEPT ![m] = RolesAfterSave(m, removed, kept, rows)]
        /\ Signals(m, Resynced(m, kept))
        /\ UNCHANGED <<today, accounts>>

RoomTaken(m, room, besides) ==
    \E r \in OnList(m) \ besides : list[m][r].room = room

\* "add_existing" and "add_new", which makes the account first and makes no administrator.
AddToList(m, me, r, row) ==
    /\ Make("add")
    /\ MayEdit(me)
    /\ ~RoomTaken(m, row.room, {r})
    /\ list' = [list EXCEPT ![m][r] = row]
    /\ roles' = [roles EXCEPT ![m][r] =
                    Synced(@, row.group, r \in accounts /\ r \in Administrators)]
    /\ Signals(m, Resynced(m, {r}))
    /\ accounts' = accounts \cup {r}
    /\ UNCHANGED today

\* The administrator's page of roles, for the month in effect; whoever is given one is made staff.
SetRole(me, r, role, given) ==
    /\ Make("role")
    /\ "administrator" \in roles[Active][me]
    /\ r \in accounts
    /\ roles' = [roles EXCEPT ![Active][r] = IF given THEN @ \cup {role} ELSE @ \ {role}]
    /\ IF given THEN staff' = staff \cup {r} ELSE Signals(Active, {})
    /\ UNCHANGED <<today, list, accounts>>

ListStep ==
    /\ UNCHANGED mix
    /\ \/ TurnMonth
       \/ \E me \in Residents :
           \/ \E m \in {Active, Target} : CopyList(m, me)
           \/ /\ Within("save")
              /\ \E m \in {Active, Target} : \E ticked \in SUBSET OnList(m) :
                 \E rows \in [OnList(m) \ ticked -> Row] : SaveList(m, me, ticked, rows)
           \/ /\ Within("add")
              /\ \E m \in {Active, Target}, r \in Residents, row \in Row : AddToList(m, me, r, row)
           \/ \E r \in Residents, role \in {"indstilling", "administrator"}, given \in BOOLEAN :
                SetRole(me, r, role, given)

ListSpec == ListInit /\ [][ListStep]_listVars

-----------------------------------------------------------------------------
(* Properties *)

\* Whoever is taken off a list, by Indstillingen's editor or by a round that gives his room to
\* somebody else, holds no role in that month any more: the list and the roles of a month are two
\* tables, and each of the two places that delete rows has to empty both.
LeavingTakesTheRoles ==
    [][\A m \in Months, r \in Residents :
          list[m][r] # Null /\ list'[m][r] = Null => roles'[m][r] = {}]_listVars

==============================================================================
