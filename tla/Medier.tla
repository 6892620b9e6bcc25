--------------------------------- MODULE Medier ---------------------------------
(***************************************************************************)
(* The uploaded files (src/app/core/storage.py, media.py): one name space, *)
(* kept on the volume or in the bucket, whichever S3_BUCKET says; the move *)
(* from the one to the other on a live site (migrate_media_to_s3, with the *)
(* runbook of src/DEPLOY.md); and /media/, which says who may see what.    *)
(*                                                                         *)
(* A file is known by the row that it was uploaded for, so that a store    *)
(* shows whose bytes are under a name.                                     *)
(***************************************************************************)
EXTENDS Maanedsliste, Sequences

CONSTANTS
    Photos,           \* bound: the rows that have a file
    Names,            \* bound: the names in storage
    OldPhotos,        \* the rows of the old site, with the names that they give their files
    Paths,            \* bound: what is asked for under /media/, as sequences of segments
    PublicPrefix,     \* PUBLIC_PREFIXES: the first segment of what everybody may see
    PresignTtl,       \* PRESIGN_TTL
    RedirectMaxAge,   \* REDIRECT_MAX_AGE
    LastQuarter       \* bound: the last time somebody looks

OldNames == {OldPhotos[p] : p \in DOMAIN OldPhotos}

\* A row: the name of its file, where it was uploaded to, and whether the row is still there.
PhotoRow == [name: Names, made: {"old", "volume", "bucket"}, kept: BOOLEAN]

ASSUME MedierAssumption ==
    /\ {"photo", "unphoto", "relocate", "migrate", "halt", "flip", "empty",
        "look", "session", "quarter"} \subseteq Kinds
    /\ Photos \subseteq Nat /\ Names \subseteq Nat
    /\ DOMAIN OldPhotos \subseteq Photos /\ OldNames \subseteq Names
    /\ \A p, q \in DOMAIN OldPhotos : OldPhotos[p] = OldPhotos[q] => p = q
    /\ Null \notin Photos /\ Null \notin PhotoRow /\ \A S \in SUBSET Names : S # Null
    /\ PresignTtl \in Nat \ {0} /\ LastQuarter \in Nat
    /\ RedirectMaxAge \in 0..PresignTtl    \* "the ordering is the whole point"

VARIABLES
    volume,      \* MEDIA_ROOT: whose file is under each name
    bucket,      \* the same of the bucket, under its prefix
    onBucket,    \* whether S3_BUCKET is set
    attached,    \* the rows that have a file
    copying,     \* the names that migrate_media_to_s3 has yet to visit; Null: it is not running
    copied,      \* history: it has ended since the site was last put on the volume
    settled,     \* history: it has ended since the volume was last written to, on the bucket
    relocated,   \* history: relocate_media has run
    emptied,     \* history: the volume has been emptied
    quarter,     \* the time, in quarters of an hour
    visitor,     \* who is logged in at the browser; Null: nobody
    stored,      \* the redirects that the browser has stored
    shown        \* history: the file that the browser has last been given

medierVars == <<volume, bucket, onBucket, attached, copying, copied, settled, relocated, emptied,
                quarter, visitor, stored, shown>>
storeVars == <<volume, bucket, onBucket, attached, copying, copied, settled, relocated, emptied>>
browserVars == <<quarter, visitor, stored, shown>>

Visitors == Residents \cup {Null}
Redirect == [path: Paths, cookie: Visitors, signed: Nat]

MedierTypeOK ==
    /\ volume \in [Names -> Photos \cup {Null}] /\ bucket \in [Names -> Photos \cup {Null}]
    /\ attached \in [Photos -> PhotoRow \cup {Null}]
    /\ copying = Null \/ copying \subseteq Names
    /\ {onBucket, copied, settled, relocated, emptied} \subseteq BOOLEAN
    /\ quarter \in 0..LastQuarter /\ visitor \in Visitors
    /\ stored \subseteq Redirect

MedierInit ==
    /\ volume = [n \in Names |-> Null] /\ bucket = volume
    /\ onBucket = FALSE
    /\ attached = [p \in Photos |->
          IF p \in DOMAIN OldPhotos THEN [name |-> OldPhotos[p], made |-> "old", kept |-> TRUE]
          ELSE Null]
    /\ copying = Null
    /\ copied = FALSE /\ settled = FALSE /\ relocated = FALSE /\ emptied = FALSE
    /\ quarter = 0 /\ visitor = Null /\ stored = {} /\ shown = Null

-----------------------------------------------------------------------------
(* Rows and their files *)

\* STORAGES["default"]
Store == IF onBucket THEN bucket ELSE volume
PutInStore(n, file) ==
    IF onBucket
    THEN bucket' = [bucket EXCEPT ![n] = file] /\ UNCHANGED volume
    ELSE volume' = [volume EXCEPT ![n] = file] /\ UNCHANGED bucket

KeptPhotos == {p \in Photos : attached[p] # Null /\ attached[p].kept}

\* check_image_upload passes it; file_overwrite is off: a name that is taken in this store is not
\* used, and get_available_name makes up another.
UploadPhoto(p, n) ==
    /\ Make("photo")
    /\ attached[p] = Null /\ \A q \in Photos : q < p => attached[q] # Null
    /\ Store[n] = Null /\ n \notin OldNames
    /\ attached' = [attached EXCEPT
          ![p] = [name |-> n, made |-> IF onBucket THEN "bucket" ELSE "volume", kept |-> TRUE]]
    /\ PutInStore(n, p)
    /\ UNCHANGED <<onBucket, copying, copied, settled, relocated, emptied, browserVars>>

\* delete_attached_files: the file goes after the commit, unless the storage fails, which is logged.
\* The paths of the old site are in a column of text that nothing deletes files for.
DeletePhoto(p) ==
    /\ Make("unphoto")
    /\ p \in KeptPhotos /\ attached[p].made # "old"
    /\ attached' = [attached EXCEPT ![p].kept = FALSE]
    /\ \E failed \in BOOLEAN :
          PutInStore(attached[p].name, IF failed THEN Store[attached[p].name] ELSE Null)
    /\ UNCHANGED <<onBucket, copying, copied, settled, relocated, emptied, browserVars>>

\* audit_media, over all six places that a name may be in.
Referenced == {attached[p].name : p \in KeptPhotos}
Present == {n \in Names : Store[n] # Null}

-----------------------------------------------------------------------------
(* The move; whoever runs a command waits for it to end *)

\* relocate_media copies to MEDIA_ROOT whatever the store is, and leaves alone what is there.
RelocateMedia ==
    /\ Make("relocate")
    /\ copying = Null
    /\ volume' = [n \in Names |->
          IF n \in OldNames /\ volume[n] = Null
          THEN CHOOSE p \in DOMAIN OldPhotos : OldPhotos[p] = n ELSE volume[n]]
    /\ relocated' = TRUE
    /\ settled' = (settled /\ volume' = volume)
    /\ UNCHANGED <<bucket, onBucket, attached, copying, copied, emptied, browserVars>>

\* migrate_media_to_s3 lists the volume,
StartCopying ==
    /\ Make("migrate")
    /\ copying = Null
    /\ copying' = {n \in Names : volume[n] # Null}
    /\ UNCHANGED <<volume, bucket, onBucket, attached, copied, settled, relocated, emptied, browserVars>>

\* Mutant: the file is written with save, which makes up a name when there is another under its own.
SavedUnder(n) ==
    IF bucket[n] \in {Null, volume[n]} THEN [bucket EXCEPT ![n] = volume[n]]
    ELSE [m \in Names |->
             IF bucket[m] = Null /\ \A k \in Names : bucket[k] = Null => m <= k THEN volume[n]
             ELSE bucket[m]]

\* One that is there with the same bytes is skipped, any other is overwritten.
WrittenUnder(n) == [bucket EXCEPT ![n] = volume[n]]

\* and visits the names in their order; it dies at one whose file has been deleted meanwhile.
CopyFile ==
    /\ copying # Null /\ copying # {}
    /\ LET n == CHOOSE n \in copying : \A m \in copying : n <= m
       IN  IF volume[n] = Null
           THEN copying' = Null /\ UNCHANGED bucket
           ELSE copying' = copying \ {n} /\ bucket' = WrittenUnder(n)
    /\ UNCHANGED <<volume, onBucket, attached, copied, settled, relocated, emptied, browserVars>>

CopyingEnds ==
    /\ copying = {}
    /\ copying' = Null
    /\ copied' = TRUE
    /\ settled' = onBucket
    /\ UNCHANGED <<volume, bucket, onBucket, attached, relocated, emptied, browserVars>>

\* It is interrupted.
CopyingDies ==
    /\ Make("halt")
    /\ copying # Null
    /\ copying' = Null
    /\ UNCHANGED <<volume, bucket, onBucket, attached, copied, settled, relocated, emptied, browserVars>>

\* Stage 3: S3_BUCKET is set and the container restarted, after the files have been copied.
FlipToBucket ==
    /\ Make("flip")
    /\ ~onBucket /\ copied
    /\ onBucket' = TRUE
    /\ copying' = Null
    /\ settled' = FALSE
    /\ UNCHANGED <<volume, bucket, attached, copied, relocated, emptied, browserVars>>

\* core.E010: without the bucket the site starts only if ALLOW_LOCAL_MEDIA is set, for which the one
\* honest reason is that the volume has the files.
MayRunOnVolume == ~emptied

\* The rollback: S3_BUCKET is unset.
RollBack ==
    /\ Make("flip")
    /\ onBucket /\ MayRunOnVolume
    /\ onBucket' = FALSE
    /\ copying' = Null
    /\ copied' = FALSE /\ settled' = FALSE
    /\ UNCHANGED <<volume, bucket, attached, relocated, emptied, browserVars>>

\* Everything has been copied once more, and audit_media finds nothing missing.
EmptyVolume ==
    /\ Make("empty")
    /\ onBucket /\ settled /\ copying = Null
    /\ Referenced \subseteq Present
    /\ volume' = [n \in Names |-> Null]
    /\ emptied' = TRUE
    /\ UNCHANGED <<bucket, onBucket, attached, copying, copied, settled, relocated, browserVars>>

-----------------------------------------------------------------------------
(* /media/ *)

\* normpath: "." and ".." are taken out, and one that climbs above the root stays there.
Cleaned(path) ==
    LET walk[k \in 0..Len(path)] ==
          IF k = 0 THEN << >>
          ELSE CASE path[k] = "." -> walk[k - 1]
                 [] path[k] = ".." ->
                      IF walk[k - 1] = << >> THEN << >>
                      ELSE SubSeq(walk[k - 1], 1, Len(walk[k - 1]) - 1)
                 [] OTHER -> Append(walk[k - 1], path[k])
    IN  walk[Len(path)]

\* Mutant: the prefix of what was asked for is looked at, not of what it comes to.
GateAsAsked(path, who) == who # Null \/ (path # << >> /\ path[1] = PublicPrefix)

\* serve_media: a resident may see everything, everybody what is under the prefix.
MaySee(path, who) == who # Null \/ Cleaned(path)[1] = PublicPrefix

\* What the browser need not ask for: what it was told as the same person, not too long ago.
StillStored(path) ==
    {s \in stored : s.path = path /\ s.cookie = visitor /\ quarter - s.signed < RedirectMaxAge}

\* The bucket gives the file while the signature is valid.
Given(path, signed) ==
    [name |-> Cleaned(path), to |-> visitor, valid |-> quarter - signed < PresignTtl]

\* A picture is looked at.  The redirect to the bucket may be stored; a file of the volume is not,
\* nor is the way to the login page.
LookAt(path) ==
    /\ Make("look")
    /\ IF StillStored(path) # {}
       THEN \E s \in StillStored(path) : shown' = Given(path, s.signed) /\ UNCHANGED stored
       ELSE /\ Cleaned(path) # << >> /\ MaySee(path, visitor)
            /\ shown' = Given(path, quarter)
            /\ stored' = IF onBucket
                         THEN {s \in stored : s.path # path} \cup
                                {[path |-> path, cookie |-> visitor, signed |-> quarter]}
                         ELSE stored
    /\ UNCHANGED <<storeVars, quarter, visitor>>

\* Somebody logs in or out.
ChangeSession(who) ==
    /\ Make("session")
    /\ who # visitor
    /\ visitor' = who
    /\ UNCHANGED <<storeVars, quarter, stored, shown>>

QuarterPasses ==
    /\ Make("quarter")
    /\ quarter < LastQuarter
    /\ quarter' = quarter + 1
    /\ UNCHANGED <<storeVars, visitor, stored, shown>>

MedierStep ==
    /\ \/ \E p \in Photos : DeletePhoto(p) \/ \E n \in Names : UploadPhoto(p, n)
       \/ RelocateMedia \/ StartCopying \/ FlipToBucket \/ RollBack \/ EmptyVolume \/ CopyingDies
       \/ (CopyFile \/ CopyingEnds) /\ UNCHANGED made
       \/ \E path \in Paths : LookAt(path)
       \/ \E who \in Visitors : ChangeSession(who)
       \/ QuarterPasses
    /\ UNCHANGED <<listVars, mix>>

-----------------------------------------------------------------------------
(* Properties *)

\* "Safe to interrupt, re-run, and run once more after the cutover", on a live site: every row finds
\* its own file on the volume until the site is on the bucket and after a rollback, in the bucket if
\* it was uploaded there, and in the bucket too once the copy has been run after the cutover; whatever
\* was uploaded, deleted or interrupted meanwhile.  All but the rows whose name was also given in
\* the other store: the name is taken in one of the two only, and the next copy overwrites the file.
PhotosFindTheirFiles ==
    \A p \in KeptPhotos :
        LET row == attached[p]
            there == IF onBucket THEN row.made = "bucket" \/ settled ELSE row.made # "bucket"
        IN  /\ there
            /\ row.made = "old" => relocated
            /\ \A q \in Photos \ {p} : attached[q] # Null /\ attached[q].name = row.name => attached[q].made = row.made
            => Store[row.name] = p

\* Only the pictures of the public pages are for everybody, however a path is spelt and whoever was
\* logged in at the browser before; and a redirect that the browser has stored never leads to a
\* signature that has run out.
PicturesForWhoMaySee ==
    shown # Null => /\ shown.to = Null => shown.name[1] = PublicPrefix
                       /\ shown.valid

================================================================================
