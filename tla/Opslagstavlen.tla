----------------------------- MODULE Opslagstavlen -----------------------------
(***************************************************************************)
(* Opslagstavlen (src/app/opslagstavle): notices, the pictures that their  *)
(* bodies refer to, pins, and the nightly sweep of pictures that no notice *)
(* has claimed.                                                            *)
(*                                                                         *)
(* An edit and a pin read the notice first and write later, the edit the   *)
(* whole row.  The sweep and the deletion of a notice read which pictures  *)
(* they are going to delete, and delete them by number.                    *)
(* Reactions are those of DenHurtige (core.reactions), and so is the       *)
(* deletion of files (core.files).                                         *)
(***************************************************************************)
EXTENDS Maanedsliste

CONSTANTS
    Notices,     \* bound: the notices there may be, numbered from 1
    Pictures,    \* bound: the uploads there may be, numbered from 1
    MaxPinned,   \* MAX_PINNED
    Grace,       \* ORPHAN_IMAGE_GRACE, in days
    LastDate     \* bound: the last day there is

Notice == [author: Residents, refs: SUBSET Pictures, group: Groups \cup {Null},
           pinned: BOOLEAN, edited: BOOLEAN]
Picture == [by: Residents, notice: Notices \cup {Null}, uploaded: Nat]

ASSUME OpslagAssumption ==
    /\ {"upload", "notice", "edit", "unpost"} \subseteq Kinds
    /\ Notices \subseteq Nat \ {0} /\ Pictures \subseteq Nat \ {0}
    /\ MaxPinned \in Nat /\ Grace \in Nat /\ LastDate \in Nat
    /\ Null \notin Notices \cup Notice \cup Picture

VARIABLES
    date,
    notices,    \* Notice: author, the pictures in its body, the author's group, pinned, edited
    remarks,    \* NoticeComment: who has one on a notice
    pictures,   \* NoticeImage: uploaded_by, the notice that has claimed it, uploaded_at
    sweeping,   \* the pictures that a sweep has collected
    unposts,    \* the deletions of notices that have collected the notice's pictures
    edits,      \* the edits and pins that have read their notice
    atOnce      \* history: the most edits and pins there have been at once

opsVars == <<date, notices, remarks, pictures, sweeping, unposts, edits, atOnce>>

\* What a request has read; n tells requests apart.
Edit == [kind: {"edit", "pin", "unpin"}, n: Nat, notice: Notices, copy: Notice]
Unpost == [n: Nat, notice: Notices, pictures: SUBSET Pictures]

OpsTypeOK ==
    /\ date \in 0..LastDate
    /\ notices \in [Notices -> Notice \cup {Null}]
    /\ remarks \in [Notices -> SUBSET Residents]
    /\ pictures \in [Pictures -> Picture \cup {Null}]
    /\ sweeping \subseteq Pictures
    /\ unposts \subseteq Unpost
    /\ edits \subseteq Edit
    /\ atOnce \in Nat

OpsInit ==
    /\ date = 0
    /\ notices = [n \in Notices |-> Null]
    /\ remarks = [n \in Notices |-> {}]
    /\ pictures = [i \in Pictures |-> Null]
    /\ sweeping = {}
    /\ unposts = {}
    /\ edits = {}
    /\ atOnce = 0

OnBoard == {n \in Notices : notices[n] # Null}
Pinned == {n \in OnBoard : notices[n].pinned}

\* can_moderate, which is can_pin
Moderates(r) == roles[Active][r] \cap {"inspektion", "administrator"} # {}

NextDate ==
    /\ Make("date")
    /\ date < LastDate
    /\ date' = date + 1
    /\ UNCHANGED <<notices, remarks, pictures, sweeping, unposts, edits, atOnce>>

-----------------------------------------------------------------------------
(* Pictures *)

Upload(r) ==
    LET i == made["upload"] + 1
    IN  /\ Make("upload")
        /\ r \in accounts /\ i \in Pictures
        /\ pictures' = [pictures EXCEPT ![i] = [by |-> r, notice |-> Null, uploaded |-> date]]
        /\ UNCHANGED <<date, notices, remarks, sweeping, unposts, edits, atOnce>>

\* The pictures there have been: what a body can refer to, gone or not.
Uploaded == {i \in Pictures : i <= made["upload"]}

\* Mutant: a notice takes a picture that another one has claimed.
ClaimsAny(i, n, author) == pictures[i].by = author

\* One's own upload, that no other notice has.
Claims(i, n, author) == pictures[i].by = author /\ pictures[i].notice \in {Null, n}

\* sync_images, after notice n of author has been saved with refs in its body.
SyncedPictures(n, author, refs) ==
    [i \in Pictures |->
        IF pictures[i] = Null THEN Null
        ELSE IF i \in refs
        THEN IF Claims(i, n, author) THEN [pictures[i] EXCEPT !.notice = n] ELSE pictures[i]
        ELSE IF pictures[i].notice = n THEN [pictures[i] EXCEPT !.notice = Null] ELSE pictures[i]]

\* purge_notices: the orphans that are older than the grace, counted from their upload.
BeginSweep ==
    /\ Make("sweep")
    /\ sweeping = {}
    /\ sweeping' = {i \in Pictures : /\ pictures[i] # Null /\ pictures[i].notice = Null
                                     /\ pictures[i].uploaded + Grace < date}
    /\ UNCHANGED <<date, notices, remarks, pictures, unposts, edits, atOnce>>

EndSweep ==
    /\ sweeping # {}
    /\ pictures' = [i \in Pictures |-> IF i \in sweeping THEN Null ELSE pictures[i]]
    /\ sweeping' = {}
    /\ UNCHANGED <<date, notices, remarks, unposts, edits, atOnce, made>>

-----------------------------------------------------------------------------
(* Notices *)

\* embedsgruppe_of: the author's group on the list in effect.
GroupOf(r) == IF list[Active][r] = Null THEN Null ELSE list[Active][r].group

CreateNotice(r, refs) ==
    LET n == made["notice"] + 1
    IN  /\ Make("notice")
        /\ r \in accounts /\ n \in Notices
        /\ notices' = [notices EXCEPT ![n] = [author |-> r, refs |-> refs, group |-> GroupOf(r),
                                              pinned |-> FALSE, edited |-> FALSE]]
        /\ pictures' = SyncedPictures(n, r, refs)
        /\ UNCHANGED <<date, remarks, sweeping, unposts, edits, atOnce>>

\* delete by the author or a moderator: the collector selects the pictures of the notice, each of
\* which has a signal to send, before its transaction begins.
CollectNotice(r, n) ==
    /\ Make("unpost")
    /\ n \in OnBoard
    /\ r = notices[n].author \/ Moderates(r)
    /\ unposts' = unposts \cup
          {[n |-> made'["unpost"], notice |-> n,
            pictures |-> {i \in Pictures : pictures[i] # Null /\ pictures[i].notice = n}]}
    /\ UNCHANGED <<date, notices, remarks, pictures, sweeping, edits, atOnce>>

\* The foreign key, checked at the commit: the notice has claimed no more pictures since.
NoMoreClaimed(d) ==
    \A i \in Pictures \ d.pictures : pictures[i] # Null => pictures[i].notice # d.notice

\* In one transaction the comments of the notice go, the pictures that were collected, whatever
\* claims them by now, and the notice; or nothing does, files included.
DeleteNotice(d) ==
    /\ unposts' = unposts \ {d}
    /\ IF NoMoreClaimed(d)
       THEN /\ notices' = [notices EXCEPT ![d.notice] = Null]
            /\ remarks' = [remarks EXCEPT ![d.notice] = {}]
            /\ pictures' = [i \in Pictures |-> IF i \in d.pictures THEN Null ELSE pictures[i]]
       ELSE UNCHANGED <<notices, remarks, pictures>>
    /\ UNCHANGED <<date, sweeping, edits, atOnce, made>>

AddRemark(r, n) ==
    /\ Make("remark")
    /\ r \in accounts /\ n \in OnBoard
    /\ remarks' = [remarks EXCEPT ![n] = @ \cup {r}]
    /\ UNCHANGED <<date, notices, pictures, sweeping, unposts, edits, atOnce>>

\* delete_comment: its author or a moderator, and not the author of the notice.
DeleteRemark(me, r, n) ==
    /\ Make("remark")
    /\ r \in remarks[n] /\ (me = r \/ Moderates(me))
    /\ remarks' = [remarks EXCEPT ![n] = @ \ {r}]
    /\ UNCHANGED <<date, notices, pictures, sweeping, unposts, edits, atOnce>>

Reads(kind, n) ==
    /\ edits' = edits \cup {[kind |-> kind, n |-> made'["edit"], notice |-> n, copy |-> notices[n]]}
    /\ atOnce' = IF Cardinality(edits') > atOnce THEN Cardinality(edits') ELSE atOnce
    /\ UNCHANGED <<date, notices, remarks, pictures, sweeping, unposts>>

BeginEdit(r, n) ==
    /\ Make("edit")
    /\ n \in OnBoard /\ r = notices[n].author
    /\ Reads("edit", n)

\* save() stamps a notice that is new, and no other.
CopyAsSaved(copy) == copy

\* edit saves every column as it was read, also of a notice that is gone by now.
EndEdit(q, refs) ==
    /\ q.kind = "edit"
    /\ notices' = [notices EXCEPT ![q.notice] =
                      [CopyAsSaved(q.copy) EXCEPT !.refs = refs, !.edited = TRUE]]
    /\ pictures' = SyncedPictures(q.notice, q.copy.author, refs)
    /\ edits' = edits \ {q}
    /\ UNCHANGED <<date, remarks, sweeping, unposts, atOnce, made>>

MayPin == Cardinality(Pinned) < MaxPinned

\* toggle_pin reads the notice, and counts the others if it is not pinned.
BeginPin(r, n) ==
    /\ Make("edit")
    /\ Moderates(r) /\ n \in OnBoard
    /\ \/ notices[n].pinned /\ Reads("unpin", n)
       \/ ~notices[n].pinned /\ MayPin /\ Reads("pin", n)

\* It saves the pin alone, which fails if the notice is gone.
EndPin(q) ==
    /\ q.kind \in {"pin", "unpin"}
    /\ notices' = IF q.notice \in OnBoard
                  THEN [notices EXCEPT ![q.notice].pinned = (q.kind = "pin")]
                  ELSE notices
    /\ edits' = edits \ {q}
    /\ UNCHANGED <<date, remarks, pictures, sweeping, unposts, atOnce, made>>

-----------------------------------------------------------------------------

OpsStep ==
    /\ \/ NextDate
       \/ BeginSweep \/ EndSweep
       \/ \E r \in Residents :
            \/ Upload(r)
            \/ \E refs \in SUBSET Uploaded : CreateNotice(r, refs)
            \/ \E n \in Notices :
                 \/ CollectNotice(r, n) \/ AddRemark(r, n) \/ BeginEdit(r, n) \/ BeginPin(r, n)
                 \/ \E author \in Residents : DeleteRemark(r, author, n)
       \/ \E d \in unposts : DeleteNotice(d)
       \/ \E q \in edits : EndPin(q) \/ \E refs \in SUBSET Uploaded : EndEdit(q, refs)
    /\ UNCHANGED <<listVars, mix>>

-----------------------------------------------------------------------------
(* Properties *)

\* The cap on pins is one `if' before the write, and an edit writes back the pin that it read.  It
\* can be exceeded, and the board then shows the newest and none of the rest: but never by as many
\* notices as there are edits and pins at once, so not at all if they come one by one.
PinCap ==
    Cardinality(Pinned) <= MaxPinned + (IF atOnce = 0 THEN 0 ELSE atOnce - 1)

\* What a sweep or a deletion under way is going to delete by number.
Collected == sweeping \cup UNION {d.pictures : d \in unposts}

\* A picture that a notice has claimed stays, and stays its own, while the body refers to it: neither
\* another notice of the same author that shows it too, nor the edit or the deletion of that one, nor
\* the sweep takes it, but for a sweep, or a deletion of the notice that had it, that had collected it
\* before it was claimed.
PictureStays ==
    [][\A i \in Pictures, n \in Notices :
          /\ pictures[i] # Null /\ pictures[i].notice = n /\ i \notin Collected
          /\ notices'[n] # Null /\ i \in notices'[n].refs
          => pictures'[i] # Null /\ pictures'[i].notice = n]_<<listVars, opsVars>>

\* The group beside the author's name is the one he had when he wrote the notice: editing it, pinning
\* it or a new list of the month leaves it as it is.
GroupStays ==
    [][\A n \in Notices : notices[n] # Null /\ notices'[n] # Null =>
          notices'[n].group = notices[n].group]_<<listVars, opsVars>>

==============================================================================
