--------------------------------- MODULE Konti ---------------------------------
(***************************************************************************)
(* A resident's account (src/app/residents): the forms that edit its row,  *)
(* of which a save writes every column, is_staff with them; the roles that *)
(* an administrator views the site as; and the sidebar, which offers the   *)
(* pages of those roles.                                                   *)
(*                                                                         *)
(* Of the columns only is_staff matters here.  A page asks for the roles   *)
(* once and is answered in one step: the memo of a request is the state it *)
(* is answered in.                                                         *)
(***************************************************************************)
EXTENDS Maanedsliste

ASSUME KontiAssumption == {"row", "preview"} \subseteq Kinds

VARIABLES
    rowSaves,      \* requests that have read a resident's row and will save it
    preview,       \* session: the roles that somebody views the site as; Null: his own
    overwritten    \* history: whose is_staff a save has put back to what it was

kontiVars == <<rowSaves, preview, overwritten>>

\* A request: the row, what its is_staff was when it was read, and which request it is.
RowSave == [of: Residents, staff: BOOLEAN, n: Nat]

KontiTypeOK ==
    /\ rowSaves \subseteq RowSave
    /\ preview \in [Residents -> {Null} \cup SUBSET Roles]
    /\ overwritten \subseteq Residents

KontiInit ==
    /\ rowSaves = {}
    /\ preview = [r \in Residents |-> Null]
    /\ overwritten = {}

-----------------------------------------------------------------------------
(* permissions.py *)

\* real_roles: an administrator has them all.
RealRoles(r) == IF "administrator" \in roles[Active][r] THEN Roles ELSE roles[Active][r]

CanPreview(r) == "administrator" \in RealRoles(r)

AllIfAdministrator(some) == IF "administrator" \in some THEN Roles ELSE some

\* Mutant: what the session says goes, whoever it is now.
SessionRoles(r) == IF preview[r] # Null THEN AllIfAdministrator(preview[r]) ELSE RealRoles(r)

\* effective_roles
EffectiveRoles(r) ==
    IF preview[r] # Null /\ CanPreview(r) THEN AllIfAdministrator(preview[r]) ELSE RealRoles(r)

\* role_required, and request_has_role
HasRole(r, some) == EffectiveRoles(r) \cap some # {}

CmsEditorRoles == {"administrator", "indstilling", "inspektion", "pr"}

-----------------------------------------------------------------------------
(* The sidebar, and the pages it leads to *)

\* _nav_intern: whose role each of its items is for; the others are for everybody.
NavIntern ==
    [soegvaerelse |-> {"indstilling"}, ak |-> {"ak"}, oelkaelder |-> {"oelkaelder"},
     regnskab |-> {"regnskab"}, optagelse |-> {"indstilling"}, cms |-> CmsEditorRoles,
     siteadmin |-> {"administrator"}]

Offered(r) == {item \in DOMAIN NavIntern : EffectiveRoles(r) \cap NavIntern[item] # {}}

\* The decorators of the pages.
Required ==
    [soegvaerelse |-> {"indstilling"}, ak |-> {"ak"}, oelkaelder |-> {"oelkaelder"},
     regnskab |-> {"regnskab"}, optagelse |-> {"indstilling"}, siteadmin |-> {"administrator"}]

\* /django-admin/ is for staff, and ContentEditorAdmin asks for the real roles.
Opens(r, item) ==
    IF item = "cms" THEN r \in staff /\ RealRoles(r) \cap CmsEditorRoles # {}
    ELSE HasRole(r, Required[item])

-----------------------------------------------------------------------------
(* The forms *)

\* edit_resident by Indstillingen, edit_profile by the resident himself: the row is read...
BeginRowSave(me, r) ==
    /\ Make("row")
    /\ r \in accounts
    /\ HasRole(me, {"indstilling"}) \/ (me = r)
    /\ rowSaves' = rowSaves \cup {[of |-> r, staff |-> r \in staff, n |-> made["row"]]}
    /\ UNCHANGED <<listVars, preview, overwritten>>

\* ...and saved, with every column as it was read but those of the form.
EndRowSave(s) ==
    /\ s \in rowSaves
    /\ rowSaves' = rowSaves \ {s}
    /\ staff' = {r \in Residents : IF r = s.of THEN s.staff ELSE r \in staff}
    /\ overwritten' = overwritten \cup (IF s.staff = (s.of \in staff) THEN {} ELSE {s.of})
    /\ UNCHANGED <<today, list, roles, accounts, preview, made>>

\* preview_set: nobody, one role, the administrator, or back to oneself.
SetPreview(me, as) ==
    /\ Make("preview")
    /\ CanPreview(me)
    /\ preview' = [preview EXCEPT ![me] = as]
    /\ UNCHANGED <<listVars, rowSaves, overwritten>>

KontiStep ==
    /\ UNCHANGED mix
    /\ \/ \E me, r \in Residents : BeginRowSave(me, r)
       \/ \E s \in rowSaves : EndRowSave(s)
       \/ \E me \in Residents, as \in {{}, Null} \cup {{role} : role \in Roles} : SetPreview(me, as)

-----------------------------------------------------------------------------
(* Properties *)

\* "is_staff ... True exactly when a resident holds at least one RoleAssignment (any period)", as
\* signals.py has it and not models.py: whichever of the pages, the editor of a month or a round of the
\* lottery makes or deletes the roles, somebody who has had one in an earlier month alone stays staff, and
\* somebody who is to have one in a coming month is; as far as no form that read the row before has put
\* back what it read.
StaffHoldsARole ==
    \A r \in Residents \ overwritten : r \in staff <=> HoldsARole(r)

\* The sidebar never advertises a page that would answer 403, whatever becomes of somebody's roles
\* while he views the site as somebody else: context_processors.py asks for the effective roles, the
\* admin of the public pages for the real ones and for is_staff.
SidebarLeadsThere ==
    \A r \in accounts \ overwritten : \A item \in Offered(r) : Opens(r, item)

================================================================================
