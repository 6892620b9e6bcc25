---------------------------------- MODULE Cms ----------------------------------
(***************************************************************************)
(* The public pages (src/app/cms): their addresses, the redirects from     *)
(* addresses they have had, and the versions kept of what they said.       *)
(*                                                                         *)
(* A save, like the restoring of a version, is one transaction that reads  *)
(* the page first and writes the page, its versions and its redirects at   *)
(* the end; other requests may commit in between.  A text stands for the   *)
(* header, the body that the sanitizer leaves, and the background.         *)
(***************************************************************************)
EXTENDS Maanedsliste, Sequences

CONSTANTS
    Pages,        \* bound: the pages there may be, numbered from 1
    Addresses,    \* bound: the addresses somebody types; an address is its segments
    Segments,     \* the segments that SEGMENT_RE matches
    Reserved,     \* RESERVED_TOP_SEGMENTS
    Texts,        \* bound: what pages say
    Legacy,       \* SLUG_BY_PAGE_ID and gahk_page: what the import makes of the first pages
    Cap           \* VERSIONS_PER_PAGE_CAP

Content == [slug: Addresses \cup {Null}, text: Texts]

ASSUME CmsAssumption ==
    /\ {"revise", "newpage"} \subseteq Kinds
    /\ Pages \subseteq Nat \ {0}
    /\ Addresses \subseteq Seq(STRING) \ {<< >>}
    /\ Legacy \in Seq(Content) /\ DOMAIN Legacy \subseteq Pages
    /\ Cap \in Nat /\ Cap >= 3
    /\ Null \notin Pages /\ Null \notin Addresses /\ Null \notin Content

VARIABLES
    pages,        \* Page: the address, or Null, and the text
    redirects,    \* PageRedirect: the page that an old address leads to
    versions,     \* PageVersion of each page, the newest last
    orphans,      \* the versions of pages that have been deleted
    saves,        \* the saves that have read their page
    told,         \* history: the page that an editor was told an address now leads to
    imported      \* history: the pages that were imported since somebody saved them

cmsVars == <<pages, redirects, versions, orphans, saves, told, imported>>

\* A save: what it will write, what it has read, and whether it snapshots that as well.
Save == [n: Nat, page: Pages, as: Content, before: Content \cup {Null}, keeps: BOOLEAN]

CmsTypeOK ==
    /\ pages \in [Pages -> Content \cup {Null}]
    /\ redirects \in [Addresses -> Pages \cup {Null}]
    /\ versions \in [Pages -> Seq(Content)]
    /\ orphans \subseteq Content
    /\ saves \subseteq Save
    /\ told \in [Addresses -> Pages \cup {Null}]
    /\ imported \subseteq Pages

CmsInit ==
    /\ pages = [p \in Pages |-> IF p \in DOMAIN Legacy THEN Legacy[p] ELSE Null]
    /\ redirects = [a \in Addresses |-> Null]
    /\ versions = [p \in Pages |-> << >>]
    /\ orphans = {}
    /\ saves = {}
    /\ told = [a \in Addresses |-> Null]
    /\ imported = {}

Routed == {p \in Pages : pages[p] # Null /\ pages[p].slug # Null}
LiveAddresses == {pages[p].slug : p \in Routed}
TakenBesides(p, a) == \E q \in Routed \ {p} : pages[q].slug = a

\* cms.views.page: a live page wins, then an old address; what is left is no page of the CMS.
Resolve(a) ==
    IF a \in LiveAddresses THEN CHOOSE p \in Routed : pages[p].slug = a
    ELSE IF redirects[a] \in Routed THEN redirects[a]
    ELSE Null

\* ContentEditorAdmin
MayWrite(r) ==
    roles[Active][r] \cap {"administrator", "indstilling", "inspektion", "pr"} # {}

\* validate_page_path
Legal(a) ==
    /\ Len(a) <= 2
    /\ \A i \in 1..Len(a) : a[i] \in Segments
    /\ a[1] \notin Reserved

\* PageAdminForm: a page is filed under a top-level page, or where it is already.
MayFile(p, a) ==
    Len(a) = 2 =>
        \/ TakenBesides(p, <<a[1]>>)
        \/ p \in Routed /\ Len(pages[p].slug) = 2 /\ pages[p].slug[1] = a[1]

FormAccepts(p, a) == a # Null => Legal(a) /\ MayFile(p, a) /\ ~TakenBesides(p, a)

-----------------------------------------------------------------------------
(* Pages *)

\* The form, save_model as far as it reads: before the first edit what was there is kept as well.
BeginSave(r, p, as) ==
    /\ Make("revise")
    /\ MayWrite(r)
    /\ pages[p] # Null
    /\ FormAccepts(p, as.slug)
    /\ saves' = saves \cup {[n |-> made'["revise"], page |-> p, as |-> as, before |-> pages[p],
                             keeps |-> versions[p] = << >>]}
    /\ UNCHANGED <<pages, redirects, versions, orphans, told, imported>>

BeginPage(r, as) ==
    LET p == Len(Legacy) + made["newpage"] + 1
    IN  /\ Make("newpage")
        /\ MayWrite(r)
        /\ p \in Pages
        /\ FormAccepts(p, as.slug)
        /\ saves' = saves \cup {[n |-> 0, page |-> p, as |-> as, before |-> Null,
                                 keeps |-> FALSE]}
        /\ UNCHANGED <<pages, redirects, versions, orphans, told, imported>>

\* _restorable_slug: the version's address, if it is legal and free.
Restorable(p, a) == a # Null /\ Legal(a) /\ ~TakenBesides(p, a)

\* restore_view as far as it reads.
BeginRestore(r, p, i) ==
    LET v == versions[p][i]
    IN  /\ Make("revise")
        /\ MayWrite(r)
        /\ pages[p] # Null
        /\ saves' = saves \cup
              {[n |-> made'["revise"], page |-> p, before |-> pages[p], keeps |-> TRUE,
                as |-> [slug |-> IF Restorable(p, v.slug) THEN v.slug ELSE pages[p].slug,
                        text |-> v.text]]}
        /\ UNCHANGED <<pages, redirects, versions, orphans, told, imported>>

\* Mutant: the object in hand is snapshotted, which the form has overwritten by then.
SnapshotOfTheForm(q) == IF q.keeps THEN <<q.as, q.as>> ELSE <<q.as>>

\* What a save adds to the history of its page.
Snapshots(q) == IF q.keeps THEN <<q.before, q.as>> ELSE <<q.as>>

\* _trim_history
Trimmed(history) ==
    IF Len(history) <= Cap THEN history
    ELSE SubSeq(history, Len(history) - Cap + 1, Len(history))

\* An address is left for another one: nothing is recorded when one of the two is none.
Leaves(q) ==
    /\ q.before # Null
    /\ q.before.slug # Null /\ q.as.slug # Null /\ q.before.slug # q.as.slug

\* Mutant: an address that leads somewhere already is left as it is.
RedirectsCreated(q) ==
    [a \in Addresses |->
        IF ~Leaves(q) THEN redirects[a]
        ELSE IF a = q.as.slug THEN Null
        ELSE IF a = q.before.slug /\ redirects[a] = Null THEN q.page
        ELSE redirects[a]]

\* record_slug_change: the newest claimant owns an old address.
RedirectsAfter(q) ==
    [a \in Addresses |->
        IF ~Leaves(q) THEN redirects[a]
        ELSE IF a = q.as.slug THEN Null
        ELSE IF a = q.before.slug THEN q.page
        ELSE redirects[a]]

\* The transaction commits.  A page that has been deleted meanwhile is inserted again, without what
\* its redirects and its history were.  The order of snapshots that overlap is not modelled.
EndSave(q) ==
    /\ ~TakenBesides(q.page, q.as.slug)
    /\ pages' = [pages EXCEPT ![q.page] = q.as]
    /\ versions' = [versions EXCEPT ![q.page] = Trimmed(@ \o Snapshots(q))]
    /\ redirects' = RedirectsAfter(q)
    /\ told' = [a \in Addresses |->
          IF a = q.as.slug \/ TakenBesides(q.page, a) THEN Null
          ELSE IF Leaves(q) /\ a = q.before.slug THEN q.page
          ELSE told[a]]
    /\ imported' = imported \ {q.page}
    /\ saves' = saves \ {q}
    /\ UNCHANGED <<orphans, made>>

\* Another page has taken the address after the form was checked: nothing is written.
ClashSave(q) ==
    /\ TakenBesides(q.page, q.as.slug)
    /\ saves' = saves \ {q}
    /\ UNCHANGED <<pages, redirects, versions, orphans, told, imported, made>>

\* Only an administrator: redirects go with the page, versions lose it and stay.
DeletePage(r, p) ==
    /\ Make("unpage")
    /\ "administrator" \in roles[Active][r]
    /\ pages[p] # Null
    /\ pages' = [pages EXCEPT ![p] = Null]
    /\ redirects' = [a \in Addresses |-> IF redirects[a] = p THEN Null ELSE redirects[a]]
    /\ orphans' = orphans \cup {versions[p][i] : i \in DOMAIN versions[p]}
    /\ versions' = [versions EXCEPT ![p] = << >>]
    /\ told' = [a \in Addresses |-> IF told[a] = p THEN Null ELSE told[a]]
    /\ UNCHANGED <<saves, imported>>

-----------------------------------------------------------------------------
(* Old addresses by hand, and the import *)

\* PageRedirectAdmin: what one says of an old address is what it leads to from now on.
AddRedirect(r, a, p) ==
    /\ Make("redirect")
    /\ MayWrite(r)
    /\ Legal(a) /\ redirects[a] = Null /\ pages[p] # Null
    /\ redirects' = [redirects EXCEPT ![a] = p]
    /\ told' = [told EXCEPT ![a] = Null]
    /\ UNCHANGED <<pages, versions, orphans, saves, imported>>

ChangeRedirect(r, a, b, p) ==
    /\ Make("redirect")
    /\ MayWrite(r)
    /\ redirects[a] # Null /\ pages[p] # Null
    /\ Legal(b) /\ (b = a \/ redirects[b] = Null)
    /\ redirects' = [redirects EXCEPT ![a] = Null, ![b] = p]
    /\ told' = [told EXCEPT ![a] = Null, ![b] = Null]
    /\ UNCHANGED <<pages, versions, orphans, saves, imported>>

DeleteRedirect(r, a) ==
    /\ Make("redirect")
    /\ MayWrite(r)
    /\ redirects[a] # Null
    /\ redirects' = [redirects EXCEPT ![a] = Null]
    /\ told' = [told EXCEPT ![a] = Null]
    /\ UNCHANGED <<pages, versions, orphans, saves, imported>>

\* etl_cms writes the pages in turn, in one transaction that an address in use undoes; it leaves no
\* version and asks no validator.
Import ==
    /\ Make("import")
    /\ \A p \in DOMAIN Legacy, q \in Routed :
          p # q /\ (q \in DOMAIN Legacy => q > p) => pages[q].slug # Legacy[p].slug
    /\ pages' = [p \in Pages |-> IF p \in DOMAIN Legacy THEN Legacy[p] ELSE pages[p]]
    /\ imported' = imported \cup DOMAIN Legacy
    /\ told' = [a \in Addresses |->
          IF \E p \in DOMAIN Legacy : Legacy[p].slug = a THEN Null ELSE told[a]]
    /\ UNCHANGED <<redirects, versions, orphans, saves>>

-----------------------------------------------------------------------------

CmsStep ==
    /\ \/ Import
       \/ \E r \in Residents :
            \/ \E as \in Content : BeginPage(r, as) \/ \E p \in Pages : BeginSave(r, p, as)
            \/ \E p \in Pages : DeletePage(r, p) \/ \E i \in DOMAIN versions[p] : BeginRestore(r, p, i)
            \/ \E a \in Addresses :
                 \/ DeleteRedirect(r, a)
                 \/ \E p \in Pages : \/ AddRedirect(r, a, p)
                                     \/ \E b \in Addresses : ChangeRedirect(r, a, b, p)
       \/ \E q \in saves : EndSave(q) \/ ClashSave(q)
    /\ UNCHANGED <<listVars, mix>>

-----------------------------------------------------------------------------
(* Properties *)

\* "/a sender nu automatisk videre": an address that an editor was told leads to a page does, whatever
\* that page and others are renamed to and whoever else saves or deletes meanwhile: until another page
\* has taken it, somebody changes the old address by hand, or the page has no address or is gone.
LeftAddressesLead ==
    \A a \in Addresses : told[a] \in Routed => Resolve(a) = told[a]

\* "Models exist purely so a runtime edit cannot lose anything": what a save, a restore or a deletion
\* writes over is in the history of the page, or with the versions of those that are gone, also when
\* two of them overlap and the history is full.  But not what an import has put there over a page that
\* had a history, and not a page that is deleted before anybody has edited it.
NothingIsLost ==
    [][\A p \in Pages :
          pages[p] # Null /\ pages'[p] # pages[p] /\ p \notin imported \cup imported' =>
              \/ \E i \in DOMAIN versions'[p] : versions'[p][i] = pages[p]
              \/ pages[p] \in orphans'
              \/ pages'[p] = Null /\ versions[p] = << >>]_cmsVars

================================================================================
