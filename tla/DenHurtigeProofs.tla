--------------------------- MODULE DenHurtigeProofs ---------------------------
(* What Den Hurtige guarantees for every number of posts, residents, requests *)
(* and deletions at once.                                                     *)
EXTENDS IntranetProofs, SequenceTheorems

\* Numbers are not given twice, so a deletion that has begun never meets a newer post.
PostsGiven ==
    /\ \A p \in There : p <= made["post"]
    /\ \A w \in DhWorkers : \A p \in deletions[w].posts : p <= made["post"]

\* Photos are deleted when their posts are gone, and no sooner.
GoneBeforeTheirPhotos ==
    /\ There \subseteq photos
    /\ \A w \in DhWorkers : deletions[w].pc = "files" => deletions[w].posts \cap There = {}

\* uniq_reaction_per_author
RowsAreUnique == \A p \in Posts : \A x, y \in reactions[p] : x.who = y.who => x = y

DhInv == OmfangTypeOK /\ DhTypeOK /\ PostsGiven /\ GoneBeforeTheirPhotos /\ RowsAreUnique

LEMMA NoDeletionType == NoDeletion \in Deletion /\ NoDeletion.posts = {} /\ NoDeletion.pc = "idle"
  BY DEF NoDeletion, Deletion

LEMMA DhInitInv ==
  ASSUME Init
  PROVE  DhInv
  <1>1. DhInit /\ OmfangTypeOK
    BY OmfangInit DEF Init
  <1>2. DhTypeOK
    BY <1>1, NoDeletionType, DhAssumption DEF DhInit, DhTypeOK
  <1>3. There = {}
    BY <1>1 DEF DhInit, There
  <1>4. PostsGiven /\ GoneBeforeTheirPhotos
    BY <1>1, <1>3, NoDeletionType DEF DhInit, PostsGiven, GoneBeforeTheirPhotos
  <1>5. RowsAreUnique
    BY <1>1 DEF DhInit, RowsAreUnique
  <1> QED
    BY <1>1, <1>2, <1>4, <1>5 DEF DhInv

-----------------------------------------------------------------------------
(* Types *)

LEMMA CollectType ==
  ASSUME DhTypeOK, NEW w \in DhWorkers, NEW gone \in SUBSET There, Collect(w, gone)
  PROVE  /\ DhTypeOK'
         /\ \E seen \in [Posts -> SUBSET Nat] :
              deletions' = [deletions EXCEPT ![w] = [pc |-> "rows", posts |-> gone, seen |-> seen]]
  <1> DEFINE seen == [p \in Posts |-> IF p \in gone THEN comments[p] ELSE {}]
             x == [pc |-> "rows", posts |-> gone, seen |-> seen]
  <1>1. seen \in [Posts -> SUBSET Nat] /\ gone \subseteq Posts
    BY DEF DhTypeOK, There
  <1>2. deletions' = [deletions EXCEPT ![w] = x]
    BY DEF Collect
  <1> HIDE DEF seen
  <1>3. x \in Deletion
    BY <1>1 DEF Deletion
  <1>4. deletions' \in [DhWorkers -> Deletion]
    BY <1>2, <1>3 DEF DhTypeOK
  <1> QED
    BY <1>1, <1>2, <1>4 DEF Collect, DhTypeOK

LEMMA DeletionStopsType ==
  ASSUME DhTypeOK, NEW w \in DhWorkers
  PROVE  /\ [deletions EXCEPT ![w] = NoDeletion] \in [DhWorkers -> Deletion]
         /\ [deletions EXCEPT ![w].pc = "files"] \in [DhWorkers -> Deletion]
  <1>1. deletions[w] \in Deletion
    BY DEF DhTypeOK
  <1>2. [deletions[w] EXCEPT !.pc = "files"] \in Deletion
    BY <1>1 DEF Deletion
  <1> QED
    BY <1>2, NoDeletionType DEF DhTypeOK

LEMMA BeginsType ==
  ASSUME DhTypeOK, NEW x \in Request, writing' = writing \cup {x},
         UNCHANGED <<clock, posts, comments, photos, reactions, mutes, deletions, leaked>>
  PROVE  DhTypeOK'
  BY DEF DhTypeOK

LEMMA TapType ==
  ASSUME DhTypeOK, NEW q \in writing, WriteTap(q)
  PROVE  DhTypeOK'
  <1>1. /\ q.n \in Nat /\ q.post \in Posts /\ q.who \in Residents /\ q.emoji \in Emoji
    BY DEF DhTypeOK, Request, WriteTap
  <1>2. reactions' \in [Posts -> SUBSET Reaction]
    <2>1. CASE TapCreates(q)
      <3>1. [n |-> q.n, who |-> q.who, emoji |-> q.emoji] \in Reaction
        BY <1>1 DEF Reaction
      <3> QED
        BY <1>1, <2>1, <3>1 DEF TapCreates, DhTypeOK
    <2>2. CASE TapClears(q)
      BY <1>1, <2>2 DEF TapClears, DhTypeOK
    <2>3. CASE TapMoves(q)
      <3>1. \A x \in Reaction : [x EXCEPT !.emoji = q.emoji] \in Reaction
        BY <1>1 DEF Reaction
      <3> QED
        BY <1>1, <2>3, <3>1 DEF TapMoves, DhTypeOK
    <2> QED
      BY <2>1, <2>2, <2>3 DEF WriteTap
  <1> QED
    BY <1>2 DEF WriteTap, DhTypeOK

LEMMA DhStepType ==
  ASSUME DhTypeOK, OmfangTypeOK, DhStep
  PROVE  DhTypeOK'
  <1>1. CASE Tick
    BY <1>1, DhAssumption DEF Tick, DhTypeOK
  <1>2. ASSUME NEW r \in Residents, NEW channel \in Channels, NEW duration \in Durations,
               CreatePost(r, channel, duration)
        PROVE  DhTypeOK'
    <2> DEFINE x == [author |-> r, channel |-> channel, expires |-> clock + duration]
    <2>1. clock + duration \in Nat
      BY DhAssumption DEF DhTypeOK
    <2>2. x \in Post
      BY <2>1 DEF Post
    <2>3. made["post"] + 1 \in Posts /\ posts' = [posts EXCEPT ![made["post"] + 1] = x]
      BY <1>2 DEF CreatePost
    <2> HIDE DEF x
    <2> QED
      BY <1>2, <2>2, <2>3 DEF CreatePost, DhTypeOK
  <1>3. ASSUME NEW r \in Residents, NEW channel \in Channels, ToggleMute(r, channel)
        PROVE  DhTypeOK'
    <2> DEFINE x == [kind |-> "mute", n |-> made'["mute"], who |-> r, channel |-> channel]
    <2>1. made'["mute"] \in Nat
      BY <1>3, MadeOneMore, DhAssumption DEF ToggleMute
    <2>2. x \in Request
      BY <2>1 DEF Request
    <2> QED
      BY <1>3, <2>2 DEF ToggleMute, DhTypeOK
  <1>4. ASSUME NEW r \in Residents, NEW p \in Posts, NEW emoji \in Emoji, BeginTap(r, p, emoji)
        PROVE  DhTypeOK'
    <2>1. PICK found \in (IF RowsOf(p, r) = {} THEN {Null} ELSE RowsOf(p, r)) :
            writing' = writing \cup {[kind |-> "tap", n |-> made'["tap"], post |-> p, who |-> r,
                                      emoji |-> emoji, found |-> found]}
      BY <1>4 DEF BeginTap
    <2>2. found \in Reaction \cup {Null}
      BY DEF RowsOf, DhTypeOK
    <2>3. made'["tap"] \in Nat
      BY <1>4, MadeOneMore, DhAssumption DEF BeginTap
    <2>4. [kind |-> "tap", n |-> made'["tap"], post |-> p, who |-> r,
           emoji |-> emoji, found |-> found] \in Request
      BY <2>2, <2>3 DEF Request
    <2> QED
      BY <1>4, <2>1, <2>4, BeginsType DEF BeginTap
  <1>5. ASSUME NEW p \in Posts, BeginComment(p) PROVE DhTypeOK'
    <2>1. made'["comment"] \in Nat
      BY <1>5, MadeOneMore, DhAssumption DEF BeginComment
    <2>2. [kind |-> "comment", n |-> made'["comment"], post |-> p] \in Request
      BY <2>1 DEF Request
    <2> QED
      BY <1>5, <2>2, BeginsType DEF BeginComment
  <1>6. ASSUME NEW q \in writing, WriteComment(q) PROVE DhTypeOK'
    <2>1. q.n \in Nat /\ q.post \in Posts
      BY <1>6 DEF WriteComment, DhTypeOK, Request
    <2> QED
      BY <1>6, <2>1 DEF WriteComment, DhTypeOK
  <1>7. ASSUME NEW q \in writing, WriteMute(q) PROVE DhTypeOK'
    <2>1. q.who \in Residents /\ q.channel \in Channels
      BY <1>7 DEF WriteMute, DhTypeOK, Request
    <2> QED
      BY <1>7, <2>1 DEF WriteMute, DhTypeOK
  <1>8. ASSUME NEW w \in DhWorkers, NEW gone \in SUBSET There, Collect(w, gone) PROVE DhTypeOK'
    BY <1>8, CollectType
  <1>9. ASSUME NEW w \in DhWorkers, Deletes(w) \/ FailPhotos(w) PROVE DhTypeOK'
    <2>1. CASE DeleteRows(w)
      BY <2>1, DeletionStopsType DEF DeleteRows, DhTypeOK
    <2>2. CASE FailToDelete(w)
      BY <2>2, DeletionStopsType DEF FailToDelete, PhotosAfterFailure, DhTypeOK
    <2>3. CASE DeletePhotos(w)
      BY <2>3, DeletionStopsType DEF DeletePhotos, DhTypeOK
    <2>4. CASE FailPhotos(w)
      BY <2>4, DeletionStopsType DEF FailPhotos, DhTypeOK
    <2> QED
      BY <1>9, <2>1, <2>2, <2>3, <2>4 DEF Deletes
  <1>10. \A channel : SweptOn(channel) \subseteq There /\ Expired \subseteq There
    BY DEF SweptOn, Expired
  <1> QED
    BY <1>1, <1>2, <1>3, <1>4, <1>5, <1>6, <1>7, <1>8, <1>9, <1>10, TapType
    DEF DhStep, LoadFeed, PurgeCommand, DeletePost

-----------------------------------------------------------------------------
(* Posts and photos *)

LEMMA DhStepPosts ==
  ASSUME DhTypeOK, OmfangTypeOK, PostsGiven, GoneBeforeTheirPhotos, DhStep,
         OmfangTypeOK', \A k \in Kinds : made'[k] >= made[k]
  PROVE  PostsGiven' /\ GoneBeforeTheirPhotos'
  <1> USE DEF DhTypeOK, PostsGiven, GoneBeforeTheirPhotos
  <1>0. /\ made["post"] \in Nat /\ made'["post"] \in Nat /\ made'["post"] >= made["post"]
        /\ Posts \subseteq Nat /\ There \subseteq Posts
        /\ \A w \in DhWorkers : deletions[w].posts \subseteq Posts
    BY DhAssumption DEF OmfangTypeOK, There, Deletion
  <1>a. ASSUME There' \subseteq There,
               \A w \in DhWorkers : deletions'[w].posts \subseteq deletions[w].posts \cup There
        PROVE  PostsGiven'
    <2>1. \A p \in There' : p \in Nat /\ p <= made["post"]
      BY <1>0, <1>a
    <2>2. \A w \in DhWorkers : \A p \in deletions'[w].posts : p \in Nat /\ p <= made["post"]
      BY <1>0, <1>a
    <2> QED
      BY <1>0, <2>1, <2>2
  <1>1. CASE UNCHANGED <<posts, photos, deletions>>
    <2>1. There' = There
      BY <1>1 DEF There
    <2> QED
      BY <1>1, <1>a, <2>1
  <1>2. ASSUME NEW r \in Residents, NEW channel \in Channels, NEW duration \in Durations,
               CreatePost(r, channel, duration)
        PROVE  PostsGiven' /\ GoneBeforeTheirPhotos'
    <2> DEFINE n == made["post"] + 1
    <2>1. /\ There' \subseteq There \cup {n} /\ made'["post"] = n
          /\ deletions' = deletions /\ photos' = photos \cup {n}
      BY <1>2, MadeOneMore, DhAssumption DEF CreatePost, There
    <2>2. \A w \in DhWorkers : n \notin deletions[w].posts
      BY <1>0
    <2>3. PostsGiven'
      <3>1. \A p \in There : p \in Nat /\ p <= n
        BY <1>0
      <3>2. ASSUME NEW w \in DhWorkers, NEW p \in deletions[w].posts PROVE p \in Nat /\ p <= n
        <4>1. p \in Nat /\ p <= made["post"]
          BY <1>0
        <4> QED
          BY <1>0, <4>1
      <3> QED
        BY <1>0, <2>1, <3>1, <3>2
    <2> QED
      BY <2>1, <2>2, <2>3
  <1>3. ASSUME NEW w \in DhWorkers, NEW gone \in SUBSET There, Collect(w, gone)
        PROVE  PostsGiven' /\ GoneBeforeTheirPhotos'
    <2>1. PICK seen : deletions' =
            [deletions EXCEPT ![w] = [pc |-> "rows", posts |-> gone, seen |-> seen]]
      BY <1>3, CollectType
    <2>2. There' = There /\ photos' = photos
      BY <1>3 DEF Collect, There
    <2>3. deletions'[w].posts = gone /\ deletions'[w].pc = "rows"
      BY <2>1
    <2>4. \A v \in DhWorkers : v # w => deletions'[v] = deletions[v]
      BY <2>1
    <2>5. PostsGiven'
      BY <1>a, <2>2, <2>3, <2>4
    <2> QED
      BY <2>2, <2>3, <2>4, <2>5
  <1>4. ASSUME NEW w \in DhWorkers, DeleteRows(w)
        PROVE  PostsGiven' /\ GoneBeforeTheirPhotos'
    <2>1. There' = There \ deletions[w].posts /\ photos' = photos
      BY <1>4 DEF DeleteRows, There
    <2>2. deletions'[w].posts = deletions[w].posts
      BY <1>4 DEF DeleteRows, Deletion
    <2>3. \A v \in DhWorkers : v # w => deletions'[v] = deletions[v]
      BY <1>4 DEF DeleteRows
    <2>4. PostsGiven'
      BY <1>a, <2>1, <2>2, <2>3
    <2> QED
      BY <2>1, <2>2, <2>3, <2>4
  <1>5. ASSUME NEW w \in DhWorkers, FailToDelete(w) \/ DeletePhotos(w) \/ FailPhotos(w)
        PROVE  PostsGiven' /\ GoneBeforeTheirPhotos'
    <2>1. There' = There /\ deletions' = [deletions EXCEPT ![w] = NoDeletion]
      BY <1>5 DEF FailToDelete, DeletePhotos, FailPhotos, There
    <2>2. deletions'[w].posts = {} /\ deletions'[w].pc = "idle"
      BY <2>1, NoDeletionType
    <2>3. \A v \in DhWorkers : v # w => deletions'[v] = deletions[v]
      BY <2>1
    <2>4. PostsGiven'
      BY <1>a, <2>1, <2>2, <2>3
    <2>5. There' \subseteq photos'
      BY <1>5, <2>1 DEF FailToDelete, PhotosAfterFailure, DeletePhotos, FailPhotos
    <2> QED
      BY <2>1, <2>2, <2>3, <2>4, <2>5
  <1>6. \A channel : SweptOn(channel) \subseteq There /\ Expired \subseteq There
    BY DEF SweptOn, Expired
  <1> QED
    BY <1>1, <1>2, <1>3, <1>4, <1>5, <1>6
    DEF DhStep, Tick, ToggleMute, BeginTap, BeginComment, WriteComment, WriteTap, WriteMute,
        LoadFeed, PurgeCommand, DeletePost, Deletes

-----------------------------------------------------------------------------
(* Reactions *)

LEMMA DhStepReactions ==
  ASSUME DhTypeOK, RowsAreUnique, DhStep
  PROVE  RowsAreUnique'
  <1> USE DEF DhTypeOK, RowsAreUnique
  <1>1. CASE UNCHANGED reactions
    BY <1>1
  <1>2. ASSUME NEW q \in writing, WriteTap(q) PROVE RowsAreUnique'
    <2>0. q.post \in Posts /\ q.n \in Nat /\ q.who \in Residents /\ q.emoji \in Emoji
      BY <1>2 DEF Request, WriteTap
    <2>1. CASE TapCreates(q)
      <3> DEFINE row == [n |-> q.n, who |-> q.who, emoji |-> q.emoji]
      <3>1. CASE MayCreate(q)
        <4>1. \A x \in reactions[q.post] : x.who # q.who
          BY <3>1 DEF MayCreate, RowsOf
        <4>2. reactions' = [reactions EXCEPT ![q.post] = @ \cup {row}] /\ row.who = q.who
          BY <2>1, <3>1 DEF TapCreates
        <4> HIDE DEF row
        <4> QED
          BY <2>0, <4>1, <4>2
      <3> QED
        BY <1>1, <2>1, <3>1 DEF TapCreates
    <2>2. CASE TapClears(q)
      BY <2>0, <2>2 DEF TapClears
    <2>3. CASE TapMoves(q)
      <3> DEFINE Moved(x) == IF x.n = q.found.n THEN [x EXCEPT !.emoji = q.emoji] ELSE x
      <3>1. reactions' = [reactions EXCEPT ![q.post] = {Moved(x) : x \in reactions[q.post]}]
        BY <2>3 DEF TapMoves
      <3>2. \A x \in reactions[q.post] : Moved(x).who = x.who
        BY <2>0 DEF Reaction
      <3> HIDE DEF Moved
      <3>3. \A x, y \in reactions'[q.post] : x.who = y.who => x = y
        BY <2>0, <3>1, <3>2
      <3>4. \A p \in Posts : p # q.post => reactions'[p] = reactions[p]
        BY <3>1
      <3> QED
        BY <3>3, <3>4
    <2> QED
      BY <1>2, <2>1, <2>2, <2>3 DEF WriteTap
  <1>3. ASSUME NEW w \in DhWorkers, DeleteRows(w) PROVE RowsAreUnique'
    BY <1>3 DEF DeleteRows
  <1> QED
    BY <1>1, <1>2, <1>3
    DEF DhStep, Tick, CreatePost, ToggleMute, BeginTap, BeginComment, WriteComment, WriteMute,
        LoadFeed, PurgeCommand, DeletePost, Collect, Deletes, FailToDelete, DeletePhotos, FailPhotos

-----------------------------------------------------------------------------
(* Theorems *)

LEMMA DhHolds == Spec => []DhInv
  <1>1. DhInv /\ [Next]_vars => DhInv'
    <2> SUFFICES ASSUME DhInv, [Next]_vars PROVE DhInv'
      OBVIOUS
    <2>0. OmfangTypeOK' /\ \A k \in Kinds : made'[k] >= made[k]
      BY MadeGrows DEF DhInv
    <2>1. DhStep \/ UNCHANGED dhVars
      BY DEF Next, Rooming, Deducting, Repairing, Posting, Noticing, Reading, Admitting,
         Publishing, Living, vars
    <2>2. CASE DhStep
      BY <2>0, <2>2, DhStepType, DhStepPosts, DhStepReactions DEF DhInv
    <2>3. CASE UNCHANGED dhVars
      <3>1. /\ made["post"] \in Nat /\ made'["post"] \in Nat /\ made'["post"] >= made["post"]
        BY <2>0, DhAssumption DEF DhInv, OmfangTypeOK
      <3>2. There' = There /\ There \subseteq Nat
              /\ \A w \in DhWorkers : deletions[w].posts \subseteq Nat
        BY <2>3, DhAssumption DEF dhVars, There, DhInv, DhTypeOK, Deletion
      <3>3. PostsGiven'
        BY <2>3, <3>1, <3>2 DEF dhVars, DhInv, PostsGiven
      <3> QED
        BY <2>0, <2>3, <3>2, <3>3
        DEF dhVars, DhInv, DhTypeOK, GoneBeforeTheirPhotos, RowsAreUnique
    <2> QED
      BY <2>1, <2>2, <2>3
  <1> QED
    BY <1>1, DhInitInv, PTL DEF Spec

\* Posts, comments, photos, reactions, mutes and the deletions under way keep their types.
THEOREM DhTypesHold == Spec => []DhTypeOK
  BY DhHolds, PTL DEF DhInv

\* However many deletions run, fail and are tried again, a post that is there has its photo.
THEOREM EveryPostHasItsPhoto == Spec => []PhotoOfAPost
  <1>1. DhInv => PhotoOfAPost
    BY DEF DhInv, GoneBeforeTheirPhotos, PhotoOfAPost
  <1> QED
    BY <1>1, DhHolds, PTL

\* However many taps overlap, nobody ever has two reactions on a post.
THEOREM AlwaysOneReactionEach == Spec => []OneReactionEach
  <1>1. DhInv => OneReactionEach
    <2> SUFFICES ASSUME RowsAreUnique, NEW p \in Posts, NEW who \in Residents
                 PROVE  Cardinality(RowsOf(p, who)) <= 1
      BY DEF DhInv, OneReactionEach
    <2>1. CASE RowsOf(p, who) = {}
      BY <2>1, FS_EmptySet
    <2>2. ASSUME NEW x \in RowsOf(p, who) PROVE Cardinality(RowsOf(p, who)) <= 1
      <3>1. RowsOf(p, who) = {x}
        BY <2>2 DEF RowsOf, RowsAreUnique
      <3> QED
        BY <3>1, FS_Singleton
    <2> QED
      BY <2>1, <2>2
  <1> QED
    BY <1>1, DhHolds, PTL

-----------------------------------------------------------------------------
(* The reader's page: its panel, and the browser's history *)

\* Whatever the fingers do, the panel and the history only change in the ways that clicks, answers
\* and the browser change them.
TraadMoves ==
    \/ \E t \in Threads : Ask(t) \/ ThreadArrives(t) \/ GoneArrives(t)
    \/ Shut \/ BackHappens \/ BackGesture \/ ForwardGesture
    \/ UNCHANGED traadVars

\* An entry that the page has stamped is of the thread that its address names.
Stamped(entry) == entry.state # Nothing => entry.traad = entry.state

\* At most one thread is asked for at a time, and none over another one.
OneAtATime ==
    /\ \A s, t \in asked : s = t
    /\ asked # {} => panel = Nothing

\* The way to the page's own entry has been left only once, and leads back to an entry of its own.
WayBack ==
    /\ trail[1].traad # Nothing =>
          /\ Len(trail) = 1 /\ ~pushed /\ ~opener
          /\ asked \subseteq {trail[1].traad}
          /\ asked # {} \/ panel # Nothing
    /\ pushed => pos # 1
    /\ backs # 0 => backs = 1 /\ pushed

\* Behind the entry that the browser is at there is none that a thread is shown at.
NoThreadBehind ==
    /\ \A i \in 1..Len(trail) : i < pos => trail[i].state = Nothing
    /\ pos > 0 /\ trail[pos].state # Nothing => panel # Nothing

TraadInv ==
    /\ TraadTypeOK
    /\ Len(trail) >= 1
    /\ \A i \in 1..Len(trail) : Stamped(trail[i])
    /\ "over" \notin slips => OneAtATime
    /\ slips \subseteq {"gone", "forward"} => WayBack /\ ~left
    /\ slips \subseteq {"gone", "twice"} => NoThreadBehind

LEMMA TraadInitInv ==
  ASSUME TraadInit
  PROVE  TraadInv
  <1>1. PICK link \in Threads \cup {Nothing} :
          trail = <<[traad |-> link, state |-> Nothing]>> /\ asked = {link} \ {Nothing}
    BY DEF TraadInit
  <1>2. /\ trail \in Seq(TraadEntry) /\ Len(trail) = 1
        /\ trail[1] = [traad |-> link, state |-> Nothing]
    BY <1>1 DEF TraadEntry
  <1>3. TraadTypeOK
    <2>1. asked \subseteq Threads /\ slips \subseteq Slips /\ backs \in Nat
      BY <1>1 DEF TraadInit
    <2>2. pos \in 0..Len(trail)
      BY <1>2 DEF TraadInit
    <2>3. panel \in Threads \cup {Nothing, Gone} /\ opener \in BOOLEAN /\ pushed \in BOOLEAN /\ left \in BOOLEAN
      BY DEF TraadInit
    <2> QED
      BY <1>2, <2>1, <2>2, <2>3 DEF TraadTypeOK
  <1>4. WayBack /\ NoThreadBehind /\ OneAtATime
    BY <1>1, <1>2 DEF TraadInit, WayBack, NoThreadBehind, OneAtATime
  <1> QED
    BY <1>2, <1>3, <1>4 DEF TraadInit, TraadInv, Stamped

\* What an entry is without the thread in its address.
LEMMA DroppedEntry ==
  ASSUME NEW entry \in TraadEntry, Stamped(entry)
  PROVE  /\ ParamDropped(entry) \in TraadEntry
         /\ ParamDropped(entry).traad = Nothing /\ ParamDropped(entry).state = Nothing
  BY DEF TraadEntry, Stamped, ParamDropped

\* An entry that is stamped or pushed.
LEMMA OurEntry ==
  ASSUME NEW t \in Threads
  PROVE  /\ Ours(t) \in TraadEntry /\ Ours(t).traad = t /\ Ours(t).state = t
         /\ Stamped(Ours(t)) /\ t # Nothing
  BY TraadAssumption DEF Ours, TraadEntry, Stamped

\* The history with one entry changed.
LEMMA ChangedTrail ==
  ASSUME trail \in Seq(TraadEntry), NEW p \in 1..Len(trail), NEW e \in TraadEntry,
         trail' = [trail EXCEPT ![p] = e]
  PROVE  /\ trail' \in Seq(TraadEntry) /\ Len(trail') = Len(trail)
         /\ trail'[p] = e /\ \A i \in 1..Len(trail) : i # p => trail'[i] = trail[i]
  BY ExceptSeq

\* The history with an entry pushed behind the one that the browser is at.
LEMMA PushedTrail ==
  ASSUME trail \in Seq(TraadEntry), NEW p \in 1..Len(trail), NEW e \in TraadEntry,
         trail' = Append(SubSeq(trail, 1, p), e)
  PROVE  /\ trail' \in Seq(TraadEntry) /\ Len(trail') = p + 1
         /\ trail'[p + 1] = e /\ \A i \in 1..p : trail'[i] = trail[i]
  <1> DEFINE s == SubSeq(trail, 1, p)
  <1>1. p \in Nat /\ p >= 1 /\ \A i \in 1..p : trail[i] \in TraadEntry
    BY ElementOfSeq, LenProperties
  <1>2. s \in Seq(TraadEntry) /\ Len(s) = p /\ \A i \in 1..p : s[i] = trail[i]
    BY <1>1, SubSeqProperties
  <1> HIDE DEF s
  <1> QED
    BY <1>2, AppendProperties DEF s

\* Types, and that a stamp is of the thread in the address.
LEMMA TraadMovesType ==
  ASSUME TraadInv, TraadMoves
  PROVE  /\ TraadTypeOK' /\ Len(trail') >= 1
         /\ \A i \in 1..Len(trail') : Stamped(trail'[i])
  <1> DEFINE Kept == /\ trail' \in Seq(TraadEntry) /\ Len(trail') >= 1
                     /\ \A i \in 1..Len(trail') : Stamped(trail'[i])
  <1> USE DEF TraadTypeOK
  <1>0. /\ trail \in Seq(TraadEntry) /\ Len(trail) \in Nat /\ Len(trail) >= 1 /\ pos \in Nat
        /\ \A i \in 1..Len(trail) : trail[i] \in TraadEntry /\ Stamped(trail[i])
        /\ pos > 0 => pos \in 1..Len(trail)
    BY ElementOfSeq, LenProperties DEF TraadInv
  <1>1. ASSUME NEW p \in 1..Len(trail), ClearThread(p)
        PROVE  Kept /\ Len(trail') = Len(trail) /\ panel' = Nothing /\ opener' = FALSE
    <2>1. /\ ParamDropped(trail[p]) \in TraadEntry /\ Stamped(ParamDropped(trail[p]))
          /\ trail' = [trail EXCEPT ![p] = ParamDropped(trail[p])]
      BY <1>0, <1>1, DroppedEntry DEF ClearThread, Stamped
    <2> QED
      BY <1>0, <1>1, <2>1, ChangedTrail DEF ClearThread
  <1>2. ASSUME NEW to \in 0..Len(trail), Traverse(to)
        PROVE  /\ Kept /\ Len(trail') = Len(trail) /\ pos' = to /\ asked' = asked
               /\ panel' \in {panel, Nothing} /\ opener' \in {opener, FALSE}
               /\ pushed' \in {pushed, FALSE}
    <2>1. CASE to > 0 /\ trail[to].state = Nothing
      <3>1. ClearThread(to) /\ pushed' = FALSE /\ pos' = to /\ asked' = asked /\ to \in 1..Len(trail)
        BY <1>2, <2>1 DEF Traverse
      <3>2. Kept /\ Len(trail') = Len(trail) /\ panel' = Nothing /\ opener' = FALSE
        BY <1>1, <3>1
      <3> HIDE DEF Kept
      <3> QED
        BY <3>1, <3>2
    <2>2. CASE ~(to > 0 /\ trail[to].state = Nothing)
      BY <1>0, <1>2, <2>2 DEF Traverse
    <2> QED
      BY <2>1, <2>2
  <1>3. ASSUME NEW t \in Threads, Ask(t) PROVE TraadTypeOK' /\ Kept
    BY <1>0, <1>3 DEF Ask, Slip, TraadInv, Slips
  <1>4. ASSUME NEW t \in Threads, ThreadArrives(t) PROVE TraadTypeOK' /\ Kept
    <2>1. CASE UNCHANGED <<trail, pos, pushed>>
      BY <1>0, <1>4, <2>1 DEF ThreadArrives, TraadInv
    <2>2. CASE StampLink(t)
      <3>1. pos > 0 /\ trail' = [trail EXCEPT ![pos] = Ours(t)]
        BY <1>4, <2>2 DEF ThreadArrives, StampLink
      <3>2. Kept /\ Len(trail') = Len(trail)
        BY <1>0, <3>1, OurEntry, ChangedTrail
      <3> QED
        BY <1>0, <1>4, <2>2, <3>2 DEF ThreadArrives, StampLink, TraadInv
    <2>3. CASE PushEntry(t)
      <3>1. pos > 0 /\ trail' = Append(SubSeq(trail, 1, pos), Ours(t))
        BY <1>4, <2>3 DEF ThreadArrives, PushEntry
      <3>2. Kept /\ Len(trail') = pos + 1
        <4>1. /\ trail' \in Seq(TraadEntry) /\ Len(trail') = pos + 1
              /\ trail'[pos + 1] = Ours(t) /\ \A i \in 1..pos : trail'[i] = trail[i]
          BY <1>0, <3>1, OurEntry, PushedTrail
        <4> QED
          BY <1>0, <4>1, OurEntry
      <3> QED
        BY <1>0, <1>4, <2>3, <3>2 DEF ThreadArrives, PushEntry, TraadInv
    <2> QED
      BY <1>4, <2>1, <2>2, <2>3 DEF ThreadArrives
  <1>5. ASSUME NEW t \in Threads, GoneArrives(t) PROVE TraadTypeOK' /\ Kept
    BY <1>0, <1>5 DEF GoneArrives, Slip, TraadInv, Slips
  <1>6. ASSUME Shut PROVE TraadTypeOK' /\ Kept
    <2>1. CASE pushed
      <3>1. /\ UNCHANGED <<panel, opener, trail, asked, pushed, pos, left>>
            /\ backs' = backs + 1 /\ slips' \in {slips, slips \cup {"twice"}}
        BY <1>6, <2>1 DEF Shut, Slip
      <3>2. slips' \subseteq Slips /\ backs' \in Nat
        BY <3>1 DEF TraadInv, Slips
      <3> QED
        BY <1>0, <3>1, <3>2 DEF TraadInv
    <2>2. CASE ~pushed
      BY <1>0, <1>1, <1>6, <2>2 DEF Shut, TraadInv
    <2> QED
      BY <2>1, <2>2
  <1>7. ASSUME BackHappens \/ BackGesture \/ ForwardGesture PROVE TraadTypeOK' /\ Kept
    <2>1. PICK to \in 0..Len(trail) : Traverse(to)
      <3>1. CASE BackHappens \/ BackGesture
        <4>1. pos - 1 \in 0..Len(trail) /\ Traverse(pos - 1)
          BY <1>0, <3>1 DEF BackHappens, BackGesture
        <4> QED
          BY <4>1
      <3>2. CASE ForwardGesture
        <4>1. pos + 1 \in 0..Len(trail) /\ Traverse(pos + 1)
          BY <1>0, <3>2 DEF ForwardGesture
        <4> QED
          BY <4>1
      <3> QED
        BY <1>7, <3>1, <3>2
    <2>2. backs' \in Nat /\ left' \in BOOLEAN /\ slips' \subseteq Slips
      <3>1. slips' \in {slips, slips \cup {"forward"}} /\ left' \in BOOLEAN
        BY <1>7 DEF BackHappens, BackGesture, ForwardGesture, Slip, TraadInv
      <3>2. backs' \in Nat
        <4>1. backs \in Nat /\ (backs' = backs \/ (backs > 0 /\ backs' = backs - 1))
          BY <1>7 DEF BackHappens, BackGesture, ForwardGesture, TraadInv
        <4> QED
          BY <4>1
      <3> QED
        BY <3>1, <3>2 DEF TraadInv, Slips
    <2> QED
      BY <1>2, <2>1, <2>2 DEF TraadInv
  <1>8. CASE UNCHANGED traadVars
    BY <1>0, <1>8 DEF traadVars, TraadInv
  <1> QED
    BY <1>3, <1>4, <1>5, <1>6, <1>7, <1>8 DEF TraadMoves

\* What a move to another entry does: one that no thread is shown at is cleared of its thread, and the
\* page with it; at any other nothing changes.
LEMMA TraverseDoes ==
  ASSUME TraadInv, NEW to \in 0..Len(trail), Traverse(to)
  PROVE  /\ pos' = to /\ asked' = asked
         /\ \/ /\ to > 0 /\ trail[to].state = Nothing
               /\ panel' = Nothing /\ opener' = FALSE /\ pushed' = FALSE
               /\ Len(trail') = Len(trail)
               /\ trail'[to].traad = Nothing /\ trail'[to].state = Nothing
               /\ \A i \in 1..Len(trail) : i # to => trail'[i] = trail[i]
            \/ /\ to > 0 => trail[to].state # Nothing
               /\ UNCHANGED <<panel, opener, trail, pushed>>
  <1>1. CASE to > 0 /\ trail[to].state = Nothing
    <2>1. to \in 1..Len(trail) /\ trail \in Seq(TraadEntry)
      BY <1>1, LenProperties DEF TraadInv, TraadTypeOK
    <2>2. trail[to] \in TraadEntry /\ Stamped(trail[to])
      BY <2>1, ElementOfSeq DEF TraadInv
    <2>3. /\ pos' = to /\ asked' = asked /\ panel' = Nothing /\ opener' = FALSE /\ pushed' = FALSE
          /\ trail' = [trail EXCEPT ![to] = ParamDropped(trail[to])]
      BY <1>1 DEF Traverse, ClearThread
    <2>4. /\ ParamDropped(trail[to]) \in TraadEntry
          /\ ParamDropped(trail[to]).traad = Nothing /\ ParamDropped(trail[to]).state = Nothing
      BY <2>2, DroppedEntry
    <2>5. /\ Len(trail') = Len(trail) /\ trail'[to] = ParamDropped(trail[to])
          /\ \A i \in 1..Len(trail) : i # to => trail'[i] = trail[i]
      BY <2>1, <2>3, <2>4, ChangedTrail
    <2> QED
      BY <1>1, <2>3, <2>4, <2>5
  <1>2. CASE ~(to > 0 /\ trail[to].state = Nothing)
    BY <1>2 DEF Traverse
  <1> QED
    BY <1>1, <1>2

\* What the arrival of a thread does to the history.
LEMMA ArrivalDoes ==
  ASSUME TraadInv, NEW t \in Threads, ThreadArrives(t)
  PROVE  /\ pos > 0 /\ t \in asked /\ t # Nothing
         /\ panel' = t /\ asked' = asked \ {t} /\ UNCHANGED <<opener, backs, slips, left>>
         /\ \/ trail[pos].state = t /\ UNCHANGED <<trail, pos, pushed>>
            \/ /\ trail[pos].state # t /\ trail[pos].traad = t /\ ~opener
               /\ Len(trail') = Len(trail) /\ trail'[pos].traad = t
               /\ \A i \in 1..Len(trail) : i # pos => trail'[i] = trail[i]
               /\ UNCHANGED <<pushed, pos>>
            \/ /\ trail[pos].state # t /\ (trail[pos].traad # t \/ opener)
               /\ Len(trail') = pos + 1 /\ \A i \in 1..pos : trail'[i] = trail[i]
               /\ pos' = pos + 1 /\ pushed' = TRUE
  <1>1. trail \in Seq(TraadEntry) /\ pos \in 1..Len(trail) /\ Len(trail) \in Nat
    BY LenProperties DEF TraadInv, TraadTypeOK, ThreadArrives
  <1>2. ASSUME StampLink(t)
        PROVE  /\ Len(trail') = Len(trail) /\ trail'[pos].traad = t
               /\ \A i \in 1..Len(trail) : i # pos => trail'[i] = trail[i]
               /\ UNCHANGED <<pushed, pos>>
    BY <1>1, <1>2, OurEntry, ChangedTrail DEF StampLink
  <1>3. ASSUME PushEntry(t)
        PROVE  /\ Len(trail') = pos + 1 /\ \A i \in 1..pos : trail'[i] = trail[i]
               /\ pos' = pos + 1 /\ pushed' = TRUE
    BY <1>1, <1>3, OurEntry, PushedTrail DEF PushEntry
  <1> QED
    BY <1>2, <1>3, TraadAssumption DEF ThreadArrives

\* What closing a thread without an entry of its own does.
LEMMA ShutDoes ==
  ASSUME TraadInv, Shut, ~pushed
  PROVE  /\ pos \in 1..Len(trail) /\ panel' = Nothing /\ opener' = FALSE
         /\ Len(trail') = Len(trail)
         /\ trail'[pos].traad = Nothing /\ trail'[pos].state = Nothing
         /\ \A i \in 1..Len(trail) : i # pos => trail'[i] = trail[i]
         /\ UNCHANGED <<backs, slips, asked, pushed, pos, left>>
  <1>1. trail \in Seq(TraadEntry) /\ pos \in 1..Len(trail)
    BY LenProperties DEF TraadInv, TraadTypeOK, Shut
  <1>2. trail[pos] \in TraadEntry /\ Stamped(trail[pos])
    BY <1>1, ElementOfSeq DEF TraadInv
  <1>3. /\ panel' = Nothing /\ opener' = FALSE /\ UNCHANGED <<backs, slips, asked, pushed, pos, left>>
        /\ trail' = [trail EXCEPT ![pos] = ParamDropped(trail[pos])]
    BY DEF Shut, ClearThread
  <1>4. /\ ParamDropped(trail[pos]) \in TraadEntry
        /\ ParamDropped(trail[pos]).traad = Nothing /\ ParamDropped(trail[pos]).state = Nothing
    BY <1>2, DroppedEntry
  <1>5. /\ Len(trail') = Len(trail) /\ trail'[pos] = ParamDropped(trail[pos])
        /\ \A i \in 1..Len(trail) : i # pos => trail'[i] = trail[i]
    BY <1>1, <1>3, <1>4, ChangedTrail
  <1> QED
    BY <1>1, <1>3, <1>4, <1>5

\* A move of the browser is to an entry next to the one it is at, or off the page.
LEMMA BrowserMoves ==
  ASSUME TraadInv, BackHappens \/ BackGesture \/ ForwardGesture
  PROVE  /\ pos \in 1..Len(trail) /\ Len(trail) \in Nat
         /\ \/ (BackHappens \/ BackGesture) /\ pos - 1 \in 0..Len(trail) /\ Traverse(pos - 1)
               /\ slips' = slips
            \/ ForwardGesture /\ pos + 1 \in 2..Len(trail) /\ Traverse(pos + 1)
               /\ "forward" \in slips' /\ slips' = slips \cup {"forward"} /\ left' = left
         /\ \/ backs' = backs /\ backs = 0
            \/ BackHappens /\ backs > 0 /\ backs' = backs - 1
  <1>1. pos \in 1..Len(trail) /\ Len(trail) \in Nat /\ backs \in Nat
    <2>1. pos \in 0..Len(trail) /\ Len(trail) \in Nat /\ backs \in Nat
      BY LenProperties DEF TraadInv, TraadTypeOK
    <2>2. pos # 0
      <3>1. BackHappens => pos > 0
        BY DEF BackHappens
      <3>2. BackGesture => pos > 0
        BY DEF BackGesture
      <3>3. ForwardGesture => pos \in 1..(Len(trail) - 1)
        BY DEF ForwardGesture
      <3> QED
        BY <2>1, <3>1, <3>2, <3>3
    <2> QED
      BY <2>1, <2>2
  <1>2. CASE BackHappens
    BY <1>1, <1>2 DEF BackHappens
  <1>3. CASE BackGesture
    BY <1>1, <1>3 DEF BackGesture
  <1>4. CASE ForwardGesture
    BY <1>1, <1>4 DEF ForwardGesture, Slip
  <1> QED
    BY <1>2, <1>3, <1>4

\* The rest: asking, an answer that the message is gone, closing a thread that has its own entry.
LEMMA OtherwiseDoes ==
  ASSUME TraadInv, TraadMoves
  PROVE  \/ \E t \in Threads : ThreadArrives(t)
         \/ BackHappens \/ BackGesture \/ ForwardGesture
         \/ Shut /\ ~pushed
         \/ /\ UNCHANGED <<pushed, trail, pos, left>>
            /\ \/ /\ opener' = TRUE /\ UNCHANGED <<panel, backs>>
                  /\ \E t \in Threads : asked' = asked \cup {t}
                  /\ panel # Nothing \/ asked # {} => "over" \in slips'
                  /\ slips \subseteq slips'
               \/ /\ panel' # Nothing /\ UNCHANGED <<opener, backs>> /\ slips \subseteq slips'
                  /\ \E t \in asked : asked' = asked \ {t}
               \/ /\ pushed /\ pos > 0 /\ panel # Nothing /\ UNCHANGED <<panel, opener, asked>>
                  /\ backs' = backs + 1 /\ (backs > 0 => "twice" \in slips') /\ slips \subseteq slips'
               \/ UNCHANGED <<panel, opener, asked, backs, slips>>
  <1>1. ASSUME NEW t \in Threads, Ask(t)
        PROVE  /\ UNCHANGED <<pushed, trail, pos, left>>
               /\ opener' = TRUE /\ UNCHANGED <<panel, backs>>
               /\ asked' = asked \cup {t}
               /\ panel # Nothing \/ asked # {} => "over" \in slips'
               /\ slips \subseteq slips'
    BY <1>1 DEF Ask, Slip
  <1>2. ASSUME NEW t \in Threads, GoneArrives(t)
        PROVE  /\ UNCHANGED <<pushed, trail, pos, left>>
               /\ panel' # Nothing /\ UNCHANGED <<opener, backs>> /\ slips \subseteq slips'
               /\ t \in asked /\ asked' = asked \ {t}
    BY <1>2, TraadAssumption DEF GoneArrives, Slip, Gone
  <1>3. ASSUME Shut, pushed
        PROVE  /\ UNCHANGED <<pushed, trail, pos, left>>
               /\ pos > 0 /\ panel # Nothing /\ UNCHANGED <<panel, opener, asked>>
               /\ backs' = backs + 1 /\ (backs > 0 => "twice" \in slips') /\ slips \subseteq slips'
    BY <1>3 DEF Shut, Slip
  <1>4. CASE UNCHANGED traadVars
    BY <1>4 DEF traadVars
  <1> QED
    BY <1>1, <1>2, <1>3, <1>4 DEF TraadMoves

\* While no thread has been opened over another one, there is one at a time.
LEMMA OneAtATimeKept ==
  ASSUME TraadInv, TraadMoves, "over" \notin slips'
  PROVE  OneAtATime'
  <1>1. slips \subseteq slips'
    BY OtherwiseDoes, ArrivalDoes, BrowserMoves, ShutDoes
  <1>2. OneAtATime
    BY <1>1 DEF TraadInv
  <1>3. CASE \E t \in Threads : ThreadArrives(t)
    BY <1>2, <1>3, ArrivalDoes DEF OneAtATime
  <1>4. CASE BackHappens \/ BackGesture \/ ForwardGesture
    <2>1. PICK to \in 0..Len(trail) : Traverse(to)
      <3>1. /\ pos \in 1..Len(trail) /\ Len(trail) \in Nat
            /\ \/ pos - 1 \in 0..Len(trail) /\ Traverse(pos - 1)
               \/ pos + 1 \in 2..Len(trail) /\ Traverse(pos + 1)
        BY <1>4, BrowserMoves
      <3> QED
        BY <3>1
    <2>2. asked' = asked /\ panel' \in {panel, Nothing}
      BY <2>1, TraverseDoes
    <2> QED
      BY <1>2, <2>2 DEF OneAtATime
  <1>5. CASE Shut /\ ~pushed
    BY <1>2, <1>5, ShutDoes DEF OneAtATime
  <1> QED
    BY <1>2, <1>3, <1>4, <1>5, OtherwiseDoes DEF OneAtATime

\* While nothing was opened over another thread or closed twice, the way back stays on the page.
LEMMA WayBackKept ==
  ASSUME TraadInv, TraadMoves, slips' \subseteq {"gone", "forward"}
  PROVE  WayBack' /\ ~left'
  <1>1. slips \subseteq slips'
    BY OtherwiseDoes, ArrivalDoes, BrowserMoves, ShutDoes
  <1>2. WayBack /\ ~left /\ OneAtATime /\ backs \in Nat /\ Len(trail) \in Nat /\ Len(trail) >= 1
    BY <1>1, LenProperties DEF TraadInv, TraadTypeOK
  <1>3. ASSUME NEW t \in Threads, ThreadArrives(t) PROVE WayBack' /\ ~left'
    <2>1. pos \in 1..Len(trail) /\ Stamped(trail[pos])
      BY <1>3 DEF ThreadArrives, TraadInv, TraadTypeOK
    <2>2. /\ t \in asked /\ t # Nothing /\ panel' = t /\ asked' = asked \ {t}
          /\ UNCHANGED <<opener, backs, left>>
      BY <1>3, ArrivalDoes
    <2>3. trail[1].traad # Nothing =>
            pos = 1 /\ Len(trail) = 1 /\ ~pushed /\ ~opener /\ trail[1].traad = t /\ asked \subseteq {t}
      BY <1>2, <2>1, <2>2 DEF WayBack
    <2>4. CASE trail[pos].state = t /\ UNCHANGED <<trail, pos, pushed>>
      BY <1>2, <2>2, <2>3, <2>4 DEF WayBack
    <2>5. CASE /\ trail[pos].traad = t
               /\ Len(trail') = Len(trail) /\ trail'[pos].traad = t
               /\ \A i \in 1..Len(trail) : i # pos => trail'[i] = trail[i]
               /\ UNCHANGED <<pushed, pos>>
      <3>1. trail'[1].traad = trail[1].traad
        BY <1>2, <2>1, <2>5
      <3> QED
        BY <1>2, <2>2, <2>3, <2>5, <3>1 DEF WayBack
    <2>6. CASE /\ trail[pos].traad # t \/ opener
               /\ Len(trail') = pos + 1 /\ \A i \in 1..pos : trail'[i] = trail[i]
               /\ pos' = pos + 1 /\ pushed' = TRUE
      <3>1. trail'[1] = trail[1] /\ trail[1].traad = Nothing /\ pos' # 1
        BY <1>2, <2>1, <2>3, <2>6
      <3> QED
        BY <1>2, <2>2, <2>6, <3>1 DEF WayBack
    <2> QED
      BY <1>3, <2>4, <2>5, <2>6, ArrivalDoes
  <1>4. ASSUME BackHappens \/ BackGesture \/ ForwardGesture PROVE WayBack' /\ ~left'
    <2>0. /\ pos \in 1..Len(trail)
          /\ \/ pos - 1 \in 0..Len(trail) /\ Traverse(pos - 1)
             \/ pos + 1 \in 2..Len(trail) /\ Traverse(pos + 1)
          /\ (backs' = backs /\ backs = 0) \/ (backs > 0 /\ backs' = backs - 1)
      <3> HIDE DEF Traverse, BackHappens, BackGesture, ForwardGesture
      <3>1. CASE BackHappens
        BY <3>1, BrowserMoves
      <3>2. CASE ~BackHappens
        BY <1>4, <3>2, BrowserMoves
      <3> QED
        BY <3>1, <3>2
    <2>1. PICK to \in 0..Len(trail) :
            Traverse(to) /\ (to = pos - 1 \/ to = pos + 1)
      BY <1>2, <2>0
    <2>2. backs' = 0
      <3>1. backs # 0 => backs = 1
        BY <1>2 DEF WayBack
      <3> QED
        BY <1>2, <2>0, <3>1
    <2>3. trail[1].traad # Nothing => to = 0
      <3>1. trail[1].traad # Nothing => Len(trail) = 1
        BY <1>2 DEF WayBack
      <3>2. Len(trail) = 1 => pos = 1
        BY <2>0
      <3>3. to \in 0..Len(trail)
        BY <2>1
      <3>4. Len(trail) = 1 => to \in {0, 1} /\ (to = pos - 1 \/ to = pos + 1)
        BY <2>1, <3>3
      <3> QED
        BY <3>1, <3>2, <3>4
    <2>4. to = 1 => trail[1].state = Nothing
      <3>1. Stamped(trail[1])
        BY <1>2 DEF TraadInv
      <3> QED
        BY <2>3, <3>1 DEF Stamped
    <2>5. trail'[1].traad # Nothing =>
            trail[1].traad # Nothing /\ UNCHANGED <<panel, opener, trail, pushed, asked>>
      <3>1. CASE /\ to > 0 /\ trail[to].state = Nothing
                 /\ trail'[to].traad = Nothing
                 /\ \A i \in 1..Len(trail) : i # to => trail'[i] = trail[i]
        <4>1. trail[1].traad = Nothing
          BY <2>3, <3>1
        <4>2. to # 1 => trail'[1] = trail[1]
          BY <1>2, <3>1
        <4> QED
          BY <3>1, <4>1, <4>2
      <3>2. CASE UNCHANGED <<panel, opener, trail, pushed, asked>>
        BY <3>2
      <3> QED
        BY <2>1, <3>1, <3>2, TraverseDoes
    <2>6. pushed' => pos' # 1
      <3>1. CASE to > 0 /\ trail[to].state = Nothing
        BY <2>1, <3>1, TraverseDoes
      <3>2. CASE ~(to > 0 /\ trail[to].state = Nothing)
        <4>1. pos' = to
          BY <2>1, TraverseDoes
        <4>2. to # 1
          BY <2>4, <3>2
        <4> QED
          BY <4>1, <4>2
      <3> QED
        BY <3>1, <3>2
    <2>7. ~left'
      <3>1. CASE BackHappens
        <4>1. backs # 0
          BY <1>2, <3>1 DEF BackHappens
        <4>2. pos # 1
          BY <1>2, <4>1 DEF WayBack
        <4> QED
          BY <1>2, <3>1, <4>2 DEF BackHappens
      <3>2. CASE BackGesture
        BY <1>2, <3>2 DEF WayBack, BackGesture
      <3>3. CASE ForwardGesture
        BY <1>2, <3>3 DEF ForwardGesture
      <3> QED
        BY <1>4, <3>1, <3>2, <3>3
    <2> QED
      BY <1>2, <2>2, <2>5, <2>6, <2>7 DEF WayBack
  <1>5. ASSUME Shut, ~pushed PROVE WayBack' /\ ~left'
    <2>1. /\ pos \in 1..Len(trail) /\ Len(trail') = Len(trail) /\ trail'[pos].traad = Nothing
          /\ \A i \in 1..Len(trail) : i # pos => trail'[i] = trail[i]
          /\ UNCHANGED <<backs, asked, pushed, pos, left>>
      BY <1>5, ShutDoes
    <2>2. trail'[1].traad = Nothing
      <3>1. trail[1].traad # Nothing => pos = 1
        BY <1>2, <2>1 DEF WayBack
      <3> QED
        BY <1>2, <2>1, <3>1
    <2> QED
      BY <1>2, <2>1, <2>2 DEF WayBack
  <1>6. CASE /\ UNCHANGED <<pushed, trail, pos, left>>
             /\ opener' = TRUE /\ UNCHANGED <<panel, backs>>
             /\ \E t \in Threads : asked' = asked \cup {t}
             /\ panel # Nothing \/ asked # {} => "over" \in slips'
    BY <1>2, <1>6 DEF WayBack
  <1>7. CASE /\ UNCHANGED <<pushed, trail, pos, left>>
             /\ panel' # Nothing /\ UNCHANGED <<opener, backs>>
             /\ \E t \in asked : asked' = asked \ {t}
    BY <1>2, <1>7 DEF WayBack
  <1>8. CASE /\ UNCHANGED <<pushed, trail, pos, left>>
             /\ pushed /\ UNCHANGED <<panel, opener, asked>>
             /\ backs' = backs + 1 /\ (backs > 0 => "twice" \in slips')
    BY <1>2, <1>8 DEF WayBack
  <1>9. CASE /\ UNCHANGED <<pushed, trail, pos, left>>
             /\ UNCHANGED <<panel, opener, asked, backs>>
    BY <1>2, <1>9 DEF WayBack
  <1> QED
    BY <1>3, <1>4, <1>5, <1>6, <1>7, <1>8, <1>9, OtherwiseDoes

\* While nothing was opened over another thread and nobody went forward, going back clears the page.
LEMMA NoThreadBehindKept ==
  ASSUME TraadInv, TraadMoves, slips' \subseteq {"gone", "twice"}
  PROVE  NoThreadBehind'
  <1>1. slips \subseteq slips'
    BY OtherwiseDoes, ArrivalDoes, BrowserMoves, ShutDoes
  <1>2. NoThreadBehind /\ OneAtATime /\ Len(trail) \in Nat /\ pos \in 0..Len(trail)
    BY <1>1, LenProperties DEF TraadInv, TraadTypeOK
  <1>3. ASSUME NEW t \in Threads, ThreadArrives(t) PROVE NoThreadBehind'
    <2>1. panel = Nothing /\ pos \in 1..Len(trail) /\ trail[pos].state = Nothing
      <3>1. pos > 0 /\ t \in asked
        BY <1>3, ArrivalDoes
      <3>2. panel = Nothing
        BY <1>2, <3>1 DEF OneAtATime
      <3> QED
        BY <1>2, <3>1, <3>2 DEF NoThreadBehind
    <2>2. panel' # Nothing
      BY <1>3, ArrivalDoes
    <2>3. CASE UNCHANGED pos /\ Len(trail') = Len(trail) /\ \A i \in 1..Len(trail) : i # pos => trail'[i] = trail[i]
      BY <1>2, <2>2, <2>3 DEF NoThreadBehind
    <2>4. CASE pos' = pos + 1 /\ Len(trail') = pos + 1 /\ \A i \in 1..pos : trail'[i] = trail[i]
      BY <1>2, <2>1, <2>2, <2>4 DEF NoThreadBehind
    <2> QED
      BY <1>3, <2>3, <2>4, ArrivalDoes
  <1>4. ASSUME BackHappens \/ BackGesture \/ ForwardGesture PROVE NoThreadBehind'
    <2>1. pos \in 1..Len(trail) /\ pos - 1 \in 0..Len(trail) /\ Traverse(pos - 1)
      <3>1. "forward" \notin slips'
        OBVIOUS
      <3> QED
        BY <1>4, <3>1, BrowserMoves
    <2>2. pos - 1 > 0 => trail[pos - 1].state = Nothing
      BY <1>2, <2>1 DEF NoThreadBehind
    <2> DEFINE to == pos - 1
    <2>3. to \in Nat /\ to < pos /\ to \in 0..Len(trail) /\ pos' = to
      <3>1. pos' = to /\ to \in 0..Len(trail)
        BY <2>1, TraverseDoes
      <3> QED
        BY <1>2, <2>1, <3>1
    <2>4. CASE to > 0
      <3>1. /\ Len(trail') = Len(trail) /\ trail'[to].state = Nothing
            /\ \A i \in 1..Len(trail) : i # to => trail'[i] = trail[i]
        BY <2>1, <2>2, <2>4, TraverseDoes
      <3> QED
        BY <1>2, <2>1, <2>3, <2>4, <3>1 DEF NoThreadBehind
    <2>5. CASE to = 0
      BY <2>3, <2>5 DEF NoThreadBehind
    <2> HIDE DEF to
    <2> QED
      BY <2>3, <2>4, <2>5
  <1>5. ASSUME Shut, ~pushed PROVE NoThreadBehind'
    BY <1>2, <1>5, ShutDoes DEF NoThreadBehind
  <1> QED
    BY <1>2, <1>3, <1>4, <1>5, OtherwiseDoes DEF NoThreadBehind

LEMMA TraadKept ==
  ASSUME TraadInv, TraadMoves
  PROVE  TraadInv'
  BY TraadMovesType, OneAtATimeKept, WayBackKept, NoThreadBehindKept DEF TraadInv

\* What a finger that ends a swipe does to the panel and the history.
LEMMA FireMoves ==
  ASSUME NEW el, NEW action, inFeed \subseteq Threads, Fire(el, action)
  PROVE  TraadMoves
  <1>1. CASE action = "close" /\ panel # Nothing /\ pos > 0
    BY <1>1 DEF Fire, TraadMoves
  <1>2. CASE action = "thread" /\ el \in inFeed /\ pos > 0
    BY <1>2 DEF Fire, TraadMoves
  <1>3. CASE /\ ~(action = "close" /\ panel # Nothing /\ pos > 0)
             /\ ~(action = "thread" /\ el \in inFeed /\ pos > 0)
    BY <1>3 DEF Fire, TraadMoves
  <1> QED
    BY <1>1, <1>2, <1>3

\* Every step of the intranet that touches the reader's page is one of these.
LEMMA ReaderMoves ==
  ASSUME GestusTypeOK, ReaderStep
  PROVE  TraadMoves
  <1>1. inFeed \subseteq Threads
    BY DEF GestusTypeOK
  <1>2. CASE TraadStep
    BY <1>2 DEF TraadStep, OpenThread, CloseThread, TraadMoves
  <1>3. CASE GestusStep
    <2>1. ASSUME NEW f \in Down, Lift(f) PROVE TraadMoves
      <3>1. CASE Dragging(f)
        BY <1>1, <2>1, <3>1, FireMoves DEF Lift, EndDrag, TraadMoves
      <3>2. CASE ~Dragging(f)
        BY <2>1, <3>2 DEF Lift, TraadMoves
      <3> QED
        BY <3>1, <3>2
    <2>2. ASSUME NEW f \in Down, Interrupt(f) PROVE TraadMoves
      BY <2>2 DEF Interrupt, EndDrag, TraadMoves
    <2>3. ASSUME NEW f \in Down, NEW spot \in Spots, MoveFinger(f, spot) PROVE UNCHANGED traadVars
      BY <2>3 DEF MoveFinger
    <2>4. ASSUME NEW el \in Draggable, TouchText(el) PROVE UNCHANGED traadVars
      BY <2>4 DEF TouchText
    <2>5. ASSUME NEW m \in Threads, TouchPill(m) PROVE UNCHANGED traadVars
      BY <2>5 DEF TouchPill
    <2>6. HoldFires \/ Poll => UNCHANGED traadVars
      BY DEF HoldFires, Poll
    <2> QED
      BY <1>3, <2>1, <2>2, <2>3, <2>4, <2>5, <2>6 DEF GestusStep, TraadMoves
  <1> QED
    BY <1>2, <1>3 DEF ReaderStep

-----------------------------------------------------------------------------
(* Fingers *)

\* The drag that runs is of a finger that is down on what it drags, and is what that finger's way
\* has made of it.
DragIsMeant ==
    drag # Nothing =>
        /\ drag.finger \in Down
        /\ hands[drag.finger].on = drag.el /\ ~hands[drag.finger].pill
        /\ drag.action = Nothing => hands[drag.finger].first = Nothing /\ ~drag.armed
        /\ drag.action # Nothing =>
              /\ hands[drag.finger].first # Nothing /\ Sideways(hands[drag.finger].first)
              /\ drag.action = ActionFor(drag.el, hands[drag.finger].first.x)
        /\ drag.armed => Along(drag.action, hands[drag.finger].at) >= SwipeTrigger

\* A finger that no other has been down with is the only one, and its long press swallows its click.
Lonely ==
    \A f \in Fingers : hands[f] # Nothing /\ hands[f].alone =>
        Down = {f} /\ (hands[f].held => swallow)

\* The timer is of a finger that is down on a reaction.
HoldIsMeant == hold # Nothing => hold.finger \in Down /\ hands[hold.finger].pill

GestusInv == GestusTypeOK /\ DragIsMeant /\ Lonely /\ HoldIsMeant /\ SwipesAreMeant

\* The types of a finger and of a drag, and what none of them is.
LEMMA HandFields ==
  ASSUME GestusTypeOK, NEW f \in Down
  PROVE  /\ f \in Fingers /\ hands[f] \in Hand /\ hands[f] # Nothing
         /\ hands[f].on \in Draggable /\ hands[f].pill \in BOOLEAN /\ hands[f].at \in Spots \cup {Origin}
         /\ hands[f].first \in Spots \cup {Nothing} /\ hands[f].held \in BOOLEAN /\ hands[f].alone \in BOOLEAN
  BY DEF GestusTypeOK, Down, Hand

LEMMA FreeIsFree ==
  ASSUME Down # Fingers
  PROVE  Free \in Fingers /\ Free \notin Down
  <1>1. \E f \in Fingers : f \notin Down
    BY DEF Down
  <1> QED
    BY <1>1 DEF Free

\* How far a drag is, is a number; a drag to the left is a delete.
LEMMA AlongIs ==
  ASSUME NEW action, NEW spot \in [x: Int, y: Int]
  PROVE  /\ Along(action, spot) \in Int /\ Eased(Along(action, spot)) \in Int
         /\ Along(action, spot) >= SwipeTrigger =>
              IF action = "delete" THEN spot.x <= -SwipeTrigger ELSE spot.x >= SwipeTrigger
  <1>1. spot.x \in Int
    OBVIOUS
  <1>2. /\ Along(action, spot) \in Int
        /\ Along(action, spot) >= SwipeTrigger =>
              IF action = "delete" THEN spot.x <= -SwipeTrigger ELSE spot.x >= SwipeTrigger
    BY <1>1 DEF Along, SwipeTrigger
  <1>3. \A a \in Int : Eased(a) \in Int
    BY DEF Eased, SwipeTrigger, SwipeMax
  <1> QED
    BY <1>2, <1>3

\* What a swipe is for says which way it went, and a message is deleted by its author only.
LEMMA ActionIsMeant ==
  ASSUME NEW el \in Draggable, NEW spot \in [x: Int, y: Int], Sideways(spot),
         ActionFor(el, spot.x) # Nothing
  PROVE  /\ ActionFor(el, spot.x) \in Actions
         /\ IF ActionFor(el, spot.x) = "delete" THEN spot.x < 0 /\ el \in Mine ELSE spot.x > 0
  <1>1. spot.x \in Int /\ spot.y \in Int /\ spot.x # 0
    BY DEF Sideways, Size
  <1> QED
    BY <1>1 DEF ActionFor, Actions, Draggable

LEMMA GestusInitInv ==
  ASSUME GestusInit
  PROVE  GestusInv
  <1>1. hands \in [Fingers -> Hand \cup {Nothing}] /\ tilt \in [Draggable -> Int]
    BY DEF GestusInit
  <1>2. GestusTypeOK
    BY <1>1 DEF GestusInit, GestusTypeOK
  <1> QED
    BY <1>2 DEF GestusInit, GestusInv, DragIsMeant, Lonely, HoldIsMeant, SwipesAreMeant, Down

\* A finger that goes down: the others stay where they are, and none of them is alone.
LEMMA TouchDoes ==
  ASSUME GestusTypeOK, NEW el \in Draggable, NEW pill \in BOOLEAN, Touch(el, pill)
  PROVE  /\ hands' \in [Fingers -> Hand \cup {Nothing}]
         /\ Free \in Fingers /\ Free \notin Down /\ Down' = Down \cup {Free}
         /\ hands'[Free].on = el /\ hands'[Free].pill = pill /\ hands'[Free].first = Nothing
         /\ hands'[Free].held = FALSE /\ (hands'[Free].alone => Down = {})
         /\ \A g \in Down : /\ hands'[g].on = hands[g].on /\ hands'[g].pill = hands[g].pill
                            /\ hands'[g].at = hands[g].at /\ hands'[g].first = hands[g].first
                            /\ ~hands'[g].alone
  <1>1. Free \in Fingers /\ Free \notin Down
    BY FreeIsFree DEF Touch
  <1> DEFINE new == [on |-> el, pill |-> pill, at |-> Origin, first |-> Nothing,
                     held |-> FALSE, alone |-> Down = {}]
             old(g) == [hands[g] EXCEPT !.alone = FALSE]
  <1>2. new \in Hand /\ new # Nothing
    <2>1. (Down = {}) \in BOOLEAN
      OBVIOUS
    <2>2. new \in Hand
      BY <2>1 DEF Hand
    <2> QED
      BY <2>2, NothingAssumption
  <1>3. ASSUME NEW g \in Down
        PROVE  /\ old(g) \in Hand /\ old(g) # Nothing /\ g # Free
               /\ old(g).on = hands[g].on /\ old(g).pill = hands[g].pill
               /\ old(g).at = hands[g].at /\ old(g).first = hands[g].first /\ ~old(g).alone
    <2>1. hands[g] \in Hand
      BY <1>3, HandFields
    <2> QED
      BY <1>1, <1>3, <2>1, NothingAssumption DEF Hand
  <1>4. hands' = [g \in Fingers |-> IF g = Free THEN new ELSE IF g \in Down THEN old(g) ELSE Nothing]
    BY DEF Touch
  <1>5. new.on = el /\ new.pill = pill /\ new.first = Nothing /\ new.held = FALSE /\ (new.alone => Down = {})
    OBVIOUS
  <1>6. Down \subseteq Fingers
    BY DEF Down
  <1> HIDE DEF new, old
  <1>7. hands' \in [Fingers -> Hand \cup {Nothing}]
    BY <1>2, <1>3, <1>4
  <1>8. hands'[Free] = new /\ \A g \in Down : hands'[g] = old(g)
    BY <1>1, <1>3, <1>4, <1>6
  <1>9. Down' = Down \cup {Free}
    BY <1>1, <1>2, <1>3, <1>4, <1>6 DEF Down
  <1> QED
    BY <1>1, <1>3, <1>5, <1>7, <1>8, <1>9

LEMMA TouchTextKeeps ==
  ASSUME GestusInv, NEW el \in Draggable, TouchText(el)
  PROVE  GestusInv'
  <1> DEFINE new == [finger |-> Free, el |-> el, action |-> Nothing, armed |-> FALSE]
  <1>1. Touch(el, FALSE) /\ GestusTypeOK
    BY DEF TouchText, GestusInv
  <1>2. /\ hands' \in [Fingers -> Hand \cup {Nothing}]
        /\ Free \in Fingers /\ Free \notin Down /\ Down' = Down \cup {Free}
        /\ hands'[Free].on = el /\ hands'[Free].pill = FALSE /\ hands'[Free].first = Nothing
        /\ hands'[Free].held = FALSE /\ (hands'[Free].alone => Down = {})
        /\ \A g \in Down : /\ hands'[g].on = hands[g].on /\ hands'[g].pill = hands[g].pill
                           /\ hands'[g].at = hands[g].at /\ hands'[g].first = hands[g].first
                           /\ ~hands'[g].alone
    BY <1>1, TouchDoes
  <1>3. UNCHANGED <<inFeed, tilt, hold, popped, swallow, deed>>
    BY DEF TouchText
  <1>4. drag' = drag \/ (drag = Nothing /\ popped = {} /\ drag' = new)
    BY DEF TouchText
  <1>5. new \in Swipe /\ new # Nothing
    <2>1. new \in Swipe
      BY <1>2 DEF Swipe
    <2> QED
      BY <2>1, NothingAssumption
  <1>6. new.finger = Free /\ new.el = el /\ new.action = Nothing /\ new.armed = FALSE
    OBVIOUS
  <1> HIDE DEF new
  <1>7. GestusTypeOK'
    BY <1>1, <1>2, <1>3, <1>4, <1>5 DEF GestusTypeOK
  <1>8. DragIsMeant'
    <2>1. CASE drag' = drag
      <3>1. drag # Nothing => drag.finger \in Down
        BY DEF GestusInv, DragIsMeant
      <3> QED
        BY <1>2, <2>1, <3>1 DEF GestusInv, DragIsMeant
    <2>2. CASE drag' = new
      BY <1>2, <1>6, <2>2 DEF DragIsMeant
    <2> QED
      BY <1>4, <2>1, <2>2
  <1>9. Lonely'
    <2> SUFFICES ASSUME NEW f \in Fingers, hands'[f] # Nothing, hands'[f].alone
                 PROVE  Down' = {f} /\ (hands'[f].held => swallow')
      BY DEF Lonely
    <2>1. f \in Down'
      BY DEF Down
    <2> QED
      BY <1>2, <2>1
  <1>10. HoldIsMeant'
    BY <1>2, <1>3 DEF GestusInv, HoldIsMeant
  <1>11. SwipesAreMeant'
    <2>1. /\ drag' # Nothing => drag'.finger \in Down'
          /\ drag' # Nothing /\ popped' # {} => ~hands'[drag'.finger].alone
      BY <1>2, <1>3, <1>4, <1>6 DEF GestusInv, SwipesAreMeant
    <2>2. \A e \in Draggable : tilt'[e] # 0 => drag' # Nothing /\ drag'.el = e /\ drag'.action # Nothing
      <3>1. drag = Nothing => \A e \in Draggable : tilt'[e] = 0
        BY <1>3 DEF GestusInv, SwipesAreMeant
      <3> QED
        BY <1>3, <1>4, <3>1 DEF GestusInv, SwipesAreMeant
    <2> QED
      BY <1>3, <2>1, <2>2 DEF GestusInv, SwipesAreMeant
  <1> QED
    BY <1>7, <1>8, <1>9, <1>10, <1>11 DEF GestusInv

LEMMA TouchPillKeeps ==
  ASSUME GestusInv, NEW m \in Threads, TouchPill(m)
  PROVE  GestusInv'
  <1>1. Touch(m, TRUE) /\ GestusTypeOK /\ m \in Draggable
    BY DEF TouchPill, GestusInv, Draggable
  <1>2. /\ hands' \in [Fingers -> Hand \cup {Nothing}]
        /\ Free \in Fingers /\ Free \notin Down /\ Down' = Down \cup {Free}
        /\ hands'[Free].pill = TRUE
        /\ hands'[Free].held = FALSE /\ (hands'[Free].alone => Down = {})
        /\ \A g \in Down : /\ hands'[g].on = hands[g].on /\ hands'[g].pill = hands[g].pill
                           /\ hands'[g].at = hands[g].at /\ hands'[g].first = hands[g].first
                           /\ ~hands'[g].alone
    BY <1>1, TouchDoes
  <1>3. /\ UNCHANGED <<inFeed, drag, tilt, popped, swallow, deed>>
        /\ hold' = [finger |-> Free, on |-> m]
    BY DEF TouchPill
  <1>4. hold' \in [finger: Fingers, on: Threads] /\ hold'.finger = Free
    BY <1>2, <1>3
  <1>5. GestusTypeOK'
    BY <1>1, <1>2, <1>3, <1>4 DEF GestusTypeOK
  <1>6. DragIsMeant'
    <2>1. drag # Nothing => drag.finger \in Down
      BY DEF GestusInv, DragIsMeant
    <2> QED
      BY <1>2, <1>3, <2>1 DEF GestusInv, DragIsMeant
  <1>7. Lonely'
    <2> SUFFICES ASSUME NEW f \in Fingers, hands'[f] # Nothing, hands'[f].alone
                 PROVE  Down' = {f} /\ (hands'[f].held => swallow')
      BY DEF Lonely
    <2>1. f \in Down'
      BY DEF Down
    <2> QED
      BY <1>2, <2>1
  <1>8. HoldIsMeant'
    BY <1>2, <1>4 DEF HoldIsMeant
  <1>9. SwipesAreMeant'
    BY <1>2, <1>3 DEF GestusInv, SwipesAreMeant
  <1> QED
    BY <1>5, <1>6, <1>7, <1>8, <1>9 DEF GestusInv

\* What a long press does: its click will be swallowed, and a finger that is down beside it is not alone.
LEMMA HoldFiresKeeps ==
  ASSUME GestusInv, HoldFires
  PROVE  GestusInv'
  <1> DEFINE f == hold.finger
             new == [hands[f] EXCEPT !.held = TRUE]
  <1>1. /\ GestusTypeOK /\ hold # Nothing /\ f \in Down /\ hands[f].pill
        /\ hold \in [finger: Fingers, on: Threads]
    BY DEF HoldFires, GestusInv, GestusTypeOK, HoldIsMeant
  <1>2. f \in Fingers /\ hands[f] \in Hand /\ hold.on \in Threads
    BY <1>1, HandFields
  <1>3. /\ new \in Hand /\ new # Nothing
        /\ new.on = hands[f].on /\ new.pill = hands[f].pill /\ new.at = hands[f].at
        /\ new.first = hands[f].first /\ new.alone = hands[f].alone
    BY <1>2, NothingAssumption DEF Hand
  <1>4. /\ hold' = Nothing /\ swallow' = TRUE /\ UNCHANGED <<inFeed, drag, tilt, deed>>
        /\ popped' \in {popped, {hold.on}}
        /\ hands' = [hands EXCEPT ![f] = new]
    BY DEF HoldFires
  <1> HIDE DEF new, f
  <1>5. /\ hands' \in [Fingers -> Hand \cup {Nothing}] /\ hands'[f] = new
        /\ \A g \in Fingers : g # f => hands'[g] = hands[g]
    BY <1>1, <1>2, <1>3, <1>4 DEF GestusTypeOK
  <1>6. Down' = Down
    BY <1>1, <1>2, <1>3, <1>5 DEF Down
  <1>7. GestusTypeOK'
    BY <1>1, <1>2, <1>4, <1>5 DEF GestusTypeOK
  <1>8. \A g \in Down : /\ g \in Fingers /\ hands'[g].on = hands[g].on /\ hands'[g].pill = hands[g].pill
                        /\ hands'[g].at = hands[g].at /\ hands'[g].first = hands[g].first
                        /\ hands'[g].alone = hands[g].alone
    BY <1>3, <1>5 DEF Down
  <1>9. drag # Nothing => drag.finger \in Down /\ drag.finger # f /\ ~hands[drag.finger].alone
    <2>1. drag # Nothing => drag.finger \in Down /\ drag.finger # f
      BY <1>1 DEF GestusInv, DragIsMeant
    <2>2. drag # Nothing => hands[drag.finger] # Nothing /\ Down # {drag.finger} /\ drag.finger \in Fingers
      BY <1>1, <2>1 DEF Down
    <2> QED
      BY <2>1, <2>2 DEF GestusInv, Lonely
  <1>10. DragIsMeant'
    BY <1>4, <1>6, <1>8, <1>9 DEF GestusInv, DragIsMeant
  <1>11. Lonely'
    <2> SUFFICES ASSUME NEW g \in Fingers, hands'[g] # Nothing, hands'[g].alone
                 PROVE  Down' = {g} /\ swallow'
      BY DEF Lonely
    <2>1. g \in Down
      BY <1>6 DEF Down
    <2>2. hands[g] # Nothing /\ hands[g].alone
      BY <1>8, <2>1 DEF Down
    <2> QED
      BY <1>4, <1>6, <2>2 DEF GestusInv, Lonely
  <1>12. HoldIsMeant' /\ SwipesAreMeant'
    BY <1>4, <1>6, <1>8, <1>9 DEF GestusInv, HoldIsMeant, SwipesAreMeant
  <1> QED
    BY <1>7, <1>10, <1>11, <1>12 DEF GestusInv

\* A drag that follows its finger: it is armed only past the trigger, and nothing else is moved.
LEMMA FollowDoes ==
  ASSUME tilt \in [Draggable -> Int], NEW d \in Swipe, d.action # Nothing,
         NEW spot \in [x: Int, y: Int], Follow(d, spot)
  PROVE  /\ drag' \in Swipe /\ drag' # Nothing
         /\ drag'.finger = d.finger /\ drag'.el = d.el /\ drag'.action = d.action
         /\ drag'.armed => Along(d.action, spot) >= SwipeTrigger
         /\ tilt' \in [Draggable -> Int]
         /\ \A el \in Draggable : el # d.el => tilt'[el] = tilt[el]
  <1> DEFINE along == Along(d.action, spot)
             off == IF d.action = "delete" THEN -Eased(along) ELSE Eased(along)
  <1>1. along \in Int /\ Eased(along) \in Int
    BY AlongIs
  <1>2. off \in Int /\ ArmedAt(d, along) \in BOOLEAN /\ (ArmedAt(d, along) => along >= SwipeTrigger)
    BY <1>1 DEF ArmedAt, SwipeTrigger
  <1>3. drag' = [d EXCEPT !.armed = ArmedAt(d, along)] /\ tilt' = [tilt EXCEPT ![d.el] = off]
    BY DEF Follow
  <1>4. d.el \in Draggable
    BY DEF Swipe
  <1> HIDE DEF along, off
  <1>5. drag' \in Swipe /\ drag'.armed = ArmedAt(d, along)
        /\ drag'.finger = d.finger /\ drag'.el = d.el /\ drag'.action = d.action
    BY <1>2, <1>3 DEF Swipe
  <1> QED
    BY <1>2, <1>3, <1>4, <1>5, NothingAssumption DEF along

\* The four things that a move of the dragging finger does.
LEMMA DragToDoes ==
  ASSUME GestusTypeOK, drag # Nothing, NEW spot \in Spots, DragTo(spot)
  PROVE  \/ drag.action = Nothing /\ Inside(spot, SwipeSlop) /\ UNCHANGED <<drag, tilt>>
         \/ drag.action = Nothing /\ drag' = Nothing /\ UNCHANGED tilt
         \/ /\ drag' \in Swipe /\ drag' # Nothing /\ drag'.finger = drag.finger /\ drag'.el = drag.el
            /\ drag'.action # Nothing
            /\ drag'.armed => Along(drag'.action, spot) >= SwipeTrigger
            /\ tilt' \in [Draggable -> Int]
            /\ \A el \in Draggable : el # drag.el => tilt'[el] = tilt[el]
            /\ \/ drag.action # Nothing /\ drag'.action = drag.action
               \/ /\ drag.action = Nothing /\ ~Inside(spot, SwipeSlop) /\ Sideways(spot)
                  /\ drag'.action = ActionFor(drag.el, spot.x)
  <1>1. /\ drag \in Swipe /\ drag.el \in Draggable /\ drag.finger \in Fingers
        /\ tilt \in [Draggable -> Int] /\ spot \in [x: Int, y: Int]
    BY GestusAssumption DEF GestusTypeOK, Swipe
  <1>2. CASE drag.action # Nothing /\ Follow(drag, spot)
    BY <1>1, <1>2, FollowDoes
  <1>3. CASE /\ drag.action = Nothing /\ ~Inside(spot, SwipeSlop)
             /\ Sideways(spot) /\ ActionFor(drag.el, spot.x) # Nothing
             /\ Follow([drag EXCEPT !.action = ActionFor(drag.el, spot.x)], spot)
    <2> DEFINE d == [drag EXCEPT !.action = ActionFor(drag.el, spot.x)]
    <2>1. ActionFor(drag.el, spot.x) \in Actions
      BY <1>1, <1>3, ActionIsMeant
    <2>2. /\ d \in Swipe /\ d.finger = drag.finger /\ d.el = drag.el
          /\ d.action = ActionFor(drag.el, spot.x)
      BY <1>1, <2>1 DEF Swipe
    <2>3. Follow(d, spot) /\ d.action # Nothing
      BY <1>3, <2>2
    <2> HIDE DEF d
    <2> QED
      BY <1>1, <1>3, <2>2, <2>3, FollowDoes
  <1> QED
    BY <1>2, <1>3 DEF DragTo

\* A finger that moves: where it was first out of the slop is where its drag is judged.
LEMMA MoveFingerKeeps ==
  ASSUME GestusInv, NEW f \in Down, NEW spot \in Spots, MoveFinger(f, spot)
  PROVE  GestusInv'
  <1> DEFINE went == IF hands[f].first = Nothing /\ ~Inside(spot, SwipeSlop) THEN spot ELSE hands[f].first
             new == [hands[f] EXCEPT !.at = spot, !.first = went]
  <1>1. GestusTypeOK /\ f \in Fingers /\ hands[f] \in Hand /\ hands[f] # Nothing
    BY HandFields DEF GestusInv
  <1>2. /\ UNCHANGED <<inFeed, popped, swallow, deed>> /\ hold' \in {hold, Nothing}
        /\ hands' = [hands EXCEPT ![f] = new]
        /\ IF Dragging(f) THEN DragTo(spot) ELSE UNCHANGED <<drag, tilt>>
    BY DEF MoveFinger
  <1>3. went \in Spots \cup {Nothing} /\ (hands[f].first # Nothing => went = hands[f].first)
        /\ (hands[f].first = Nothing /\ Inside(spot, SwipeSlop) => went = Nothing)
        /\ (hands[f].first = Nothing /\ ~Inside(spot, SwipeSlop) => went = spot)
    BY <1>1 DEF Hand
  <1> HIDE DEF went
  <1>4. /\ new \in Hand /\ new # Nothing
        /\ new.on = hands[f].on /\ new.pill = hands[f].pill /\ new.at = spot
        /\ new.first = went /\ new.alone = hands[f].alone /\ new.held = hands[f].held
    <2>1. new \in Hand
      BY <1>1, <1>3 DEF Hand
    <2> QED
      BY <1>1, <2>1, NothingAssumption DEF Hand
  <1> HIDE DEF new
  <1>5. /\ hands' \in [Fingers -> Hand \cup {Nothing}] /\ hands'[f] = new
        /\ \A g \in Fingers : g # f => hands'[g] = hands[g]
    BY <1>1, <1>2, <1>4 DEF GestusTypeOK
  <1>6. Down' = Down
    BY <1>1, <1>4, <1>5 DEF Down
  <1>7. \A g \in Fingers : hands'[g] # Nothing =>
          /\ hands[g] # Nothing /\ hands'[g].on = hands[g].on /\ hands'[g].pill = hands[g].pill
          /\ hands'[g].alone = hands[g].alone /\ hands'[g].held = hands[g].held
    BY <1>1, <1>4, <1>5
  <1>8. Lonely'
    BY <1>2, <1>6, <1>7 DEF GestusInv, Lonely
  <1>9. HoldIsMeant'
    <2>1. hold' # Nothing => hold' = hold /\ hold.finger \in Down /\ hold.finger \in Fingers
      BY <1>2 DEF GestusInv, HoldIsMeant, Down
    <2>2. hold' # Nothing => hands'[hold.finger] # Nothing
      BY <1>6, <2>1 DEF Down
    <2> QED
      BY <1>6, <1>7, <2>1, <2>2 DEF GestusInv, HoldIsMeant
  <1>10. drag # Nothing => drag.finger \in Down /\ drag.finger \in Fingers /\ hands'[drag.finger] # Nothing
    <2>1. drag # Nothing => drag.finger \in Down
      BY DEF GestusInv, DragIsMeant
    <2> QED
      BY <1>6, <2>1 DEF Down
  <1>11. drag # Nothing /\ popped # {} => ~hands'[drag.finger].alone
    BY <1>7, <1>10 DEF GestusInv, SwipesAreMeant
  <1>12. CASE ~Dragging(f)
    <2>1. UNCHANGED <<drag, tilt>> /\ (drag # Nothing => drag.finger # f)
      BY <1>2, <1>12 DEF Dragging
    <2>2. GestusTypeOK'
      BY <1>1, <1>2, <1>5, <2>1 DEF GestusTypeOK
    <2>3. DragIsMeant'
      BY <1>5, <1>6, <1>10, <2>1 DEF GestusInv, DragIsMeant
    <2>4. SwipesAreMeant'
      BY <1>2, <1>6, <1>11, <2>1 DEF GestusInv, SwipesAreMeant
    <2> QED
      BY <1>8, <1>9, <2>2, <2>3, <2>4 DEF GestusInv
  <1>13. CASE Dragging(f)
    <2>1. /\ drag # Nothing /\ drag.finger = f /\ DragTo(spot)
          /\ drag.action = Nothing => hands[f].first = Nothing /\ ~drag.armed
          /\ drag.action # Nothing =>
                /\ hands[f].first # Nothing /\ Sideways(hands[f].first)
                /\ drag.action = ActionFor(drag.el, hands[f].first.x)
          /\ hands[f].on = drag.el /\ ~hands[f].pill
      BY <1>2, <1>13 DEF Dragging, GestusInv, DragIsMeant
    <2>2. CASE drag.action = Nothing /\ Inside(spot, SwipeSlop) /\ UNCHANGED <<drag, tilt>>
      <3>1. GestusTypeOK'
        BY <1>1, <1>2, <1>5, <2>2 DEF GestusTypeOK
      <3>2. DragIsMeant'
        BY <1>3, <1>4, <1>5, <1>6, <2>1, <2>2 DEF DragIsMeant
      <3>3. SwipesAreMeant'
        BY <1>2, <1>6, <1>11, <1>10, <2>2 DEF GestusInv, SwipesAreMeant
      <3> QED
        BY <1>8, <1>9, <3>1, <3>2, <3>3 DEF GestusInv
    <2>3. CASE drag.action = Nothing /\ drag' = Nothing /\ UNCHANGED tilt
      <3>1. GestusTypeOK'
        BY <1>1, <1>2, <1>5, <2>3 DEF GestusTypeOK
      <3>2. DragIsMeant'
        BY <2>3 DEF DragIsMeant
      <3>3. SwipesAreMeant'
        BY <1>2, <2>3 DEF GestusInv, SwipesAreMeant
      <3> QED
        BY <1>8, <1>9, <3>1, <3>2, <3>3 DEF GestusInv
    <2>4. CASE /\ drag' \in Swipe /\ drag' # Nothing /\ drag'.finger = drag.finger /\ drag'.el = drag.el
               /\ drag'.action # Nothing
               /\ drag'.armed => Along(drag'.action, spot) >= SwipeTrigger
               /\ tilt' \in [Draggable -> Int]
               /\ \A el \in Draggable : el # drag.el => tilt'[el] = tilt[el]
               /\ \/ drag.action # Nothing /\ drag'.action = drag.action
                  \/ /\ drag.action = Nothing /\ ~Inside(spot, SwipeSlop) /\ Sideways(spot)
                     /\ drag'.action = ActionFor(drag.el, spot.x)
      <3>1. GestusTypeOK'
        BY <1>1, <1>2, <1>5, <2>4 DEF GestusTypeOK
      <3>2. /\ hands'[f].first # Nothing /\ Sideways(hands'[f].first)
            /\ drag'.action = ActionFor(drag.el, hands'[f].first.x)
        <4>1. CASE drag.action # Nothing
          BY <1>3, <1>4, <1>5, <2>1, <2>4, <4>1
        <4>2. CASE drag.action = Nothing
          BY <1>3, <1>4, <1>5, <2>1, <2>4, <4>2, NothingAssumption
        <4> QED
          BY <4>1, <4>2
      <3>3. DragIsMeant'
        BY <1>4, <1>5, <1>6, <2>1, <2>4, <3>2 DEF DragIsMeant
      <3>4. \A el \in Draggable : tilt'[el] # 0 => drag' # Nothing /\ drag'.el = el /\ drag'.action # Nothing
        <4>1. \A el \in Draggable : el # drag.el => tilt[el] = 0
          BY DEF GestusInv, SwipesAreMeant
        <4> QED
          BY <2>4, <4>1
      <3>5. SwipesAreMeant'
        <4>1. drag'.finger \in Down' /\ (popped' # {} => ~hands'[drag'.finger].alone)
          BY <1>2, <1>6, <1>10, <1>11, <2>1, <2>4
        <4> QED
          BY <1>2, <3>4, <4>1 DEF GestusInv, SwipesAreMeant
      <3> QED
        BY <1>8, <1>9, <3>1, <3>3, <3>5 DEF GestusInv
    <2> QED
      BY <1>1, <2>1, <2>2, <2>3, <2>4, DragToDoes
  <1> QED
    BY <1>12, <1>13

\* A finger that goes: its drag ends and all that is out of its place goes back.
LEMMA GoneFinger ==
  ASSUME GestusInv, NEW f \in Down,
         hands' = [hands EXCEPT ![f] = Nothing], hold' = Nothing, inFeed' = inFeed,
         IF Dragging(f) THEN drag' = Nothing /\ tilt' = [tilt EXCEPT ![drag.el] = 0]
                        ELSE UNCHANGED <<drag, tilt>>,
         popped' \in SUBSET Threads, swallow' \in BOOLEAN
  PROVE  /\ GestusTypeOK' /\ DragIsMeant' /\ Lonely' /\ HoldIsMeant'
         /\ \A el \in Draggable : tilt'[el] # 0 => drag' # Nothing /\ drag'.el = el /\ drag'.action # Nothing
         /\ drag' # Nothing => drag'.finger \in Down' /\ ~hands'[drag'.finger].alone
  <1>1. GestusTypeOK /\ f \in Fingers
    BY DEF GestusInv, Down
  <1>2. /\ hands' \in [Fingers -> Hand \cup {Nothing}] /\ hands'[f] = Nothing
        /\ \A g \in Fingers : g # f => hands'[g] = hands[g]
    BY <1>1 DEF GestusTypeOK
  <1>3. Down' = Down \ {f}
    BY <1>1, <1>2 DEF Down
  <1>4. \A g \in Fingers : hands'[g] # Nothing => ~hands'[g].alone
    <2> SUFFICES ASSUME NEW g \in Fingers, hands'[g] # Nothing, hands'[g].alone PROVE FALSE
      OBVIOUS
    <2>1. g # f /\ hands[g] # Nothing /\ hands[g].alone
      BY <1>2
    <2> QED
      BY <2>1 DEF GestusInv, Lonely
  <1>5. Lonely' /\ HoldIsMeant'
    BY <1>4 DEF Lonely, HoldIsMeant
  <1>6. CASE Dragging(f)
    <2>1. drag.el \in Draggable /\ drag # Nothing
      BY <1>1, <1>6 DEF GestusTypeOK, Swipe, Dragging
    <2>2. /\ drag' = Nothing /\ tilt' \in [Draggable -> Int]
          /\ \A el \in Draggable : tilt'[el] = 0
      BY <1>1, <1>6, <2>1 DEF GestusTypeOK, GestusInv, SwipesAreMeant
    <2> QED
      BY <1>1, <1>2, <1>5, <2>2 DEF GestusTypeOK, DragIsMeant
  <1>7. CASE ~Dragging(f)
    <2>1. UNCHANGED <<drag, tilt>> /\ (drag # Nothing => drag.finger # f /\ drag.finger \in Down)
      BY <1>7 DEF Dragging, GestusInv, DragIsMeant
    <2>2. drag # Nothing => drag.finger \in Fingers /\ hands'[drag.finger] = hands[drag.finger]
                            /\ hands[drag.finger] # Nothing
      BY <1>2, <2>1 DEF Down
    <2>3. GestusTypeOK'
      BY <1>1, <1>2, <2>1 DEF GestusTypeOK
    <2>4. DragIsMeant'
      BY <1>3, <2>1, <2>2 DEF GestusInv, DragIsMeant
    <2> QED
      BY <1>3, <1>4, <1>5, <2>1, <2>2, <2>3, <2>4 DEF GestusInv, SwipesAreMeant
  <1> QED
    BY <1>6, <1>7

\* What is remembered of the last thing that a finger has done.
DeedIsMeant ==
    deed # Nothing =>
        CASE deed.what = "toggle" -> deed.hand.alone => ~deed.hand.held
          [] OTHER ->
               /\ deed.hand.first # Nothing /\ Sideways(deed.hand.first) /\ ~deed.hand.pill
               /\ deed.hand.on = deed.el
               /\ IF deed.what = "delete"
                  THEN deed.hand.first.x < 0 /\ deed.hand.at.x <= -SwipeTrigger /\ deed.el \in Mine
                  ELSE deed.hand.first.x > 0 /\ deed.hand.at.x >= SwipeTrigger

\* A drag that is armed when its finger is lifted is what the finger has done.
LEMMA ArmedIsMeant ==
  ASSUME GestusInv, NEW f \in Down, Dragging(f), drag.armed
  PROVE  /\ drag.action # "toggle"
         /\ hands[f].first # Nothing /\ Sideways(hands[f].first) /\ ~hands[f].pill
         /\ hands[f].on = drag.el
         /\ IF drag.action = "delete"
            THEN hands[f].first.x < 0 /\ hands[f].at.x <= -SwipeTrigger /\ drag.el \in Mine
            ELSE hands[f].first.x > 0 /\ hands[f].at.x >= SwipeTrigger
  <1>1. /\ drag # Nothing /\ drag.finger = f
        /\ hands[f].on = drag.el /\ ~hands[f].pill /\ drag.action # Nothing
        /\ hands[f].first # Nothing /\ Sideways(hands[f].first)
        /\ drag.action = ActionFor(drag.el, hands[f].first.x)
        /\ Along(drag.action, hands[f].at) >= SwipeTrigger
    BY DEF Dragging, GestusInv, DragIsMeant
  <1>2. /\ drag.el \in Draggable /\ hands[f].first \in [x: Int, y: Int] /\ hands[f].at \in [x: Int, y: Int]
    <2>1. hands[f].first \in Spots \cup {Nothing} /\ hands[f].at \in Spots \cup {Origin}
      BY HandFields DEF GestusInv
    <2>2. Origin \in [x: Int, y: Int] /\ Spots \subseteq [x: Int, y: Int]
      BY GestusAssumption DEF Origin
    <2>3. drag.el \in Draggable
      BY <1>1 DEF GestusInv, GestusTypeOK, Swipe
    <2> QED
      BY <1>1, <2>1, <2>2, <2>3
  <1>3. /\ drag.action \in Actions
        /\ IF drag.action = "delete" THEN hands[f].first.x < 0 /\ drag.el \in Mine ELSE hands[f].first.x > 0
    BY <1>1, <1>2, ActionIsMeant
  <1>4. IF drag.action = "delete" THEN hands[f].at.x <= -SwipeTrigger ELSE hands[f].at.x >= SwipeTrigger
    BY <1>1, <1>2, AlongIs
  <1> QED
    BY <1>1, <1>3, <1>4 DEF Actions

LEMMA LiftKeeps ==
  ASSUME GestusInv, NEW f \in Down, Lift(f)
  PROVE  GestusInv'
  <1>1. /\ hands' = [hands EXCEPT ![f] = Nothing] /\ hold' = Nothing /\ inFeed' = inFeed
        /\ IF Dragging(f) THEN drag' = Nothing /\ tilt' = [tilt EXCEPT ![drag.el] = 0]
                          ELSE UNCHANGED <<drag, tilt>>
    BY DEF Lift, EndDrag
  <1>2. popped' \in SUBSET Threads /\ swallow' \in BOOLEAN
    BY DEF Lift, Click, GestusInv, GestusTypeOK
  <1>3. /\ GestusTypeOK' /\ DragIsMeant' /\ Lonely' /\ HoldIsMeant'
        /\ \A el \in Draggable : tilt'[el] # 0 => drag' # Nothing /\ drag'.el = el /\ drag'.action # Nothing
        /\ drag' # Nothing => drag'.finger \in Down' /\ ~hands'[drag'.finger].alone
    BY <1>1, <1>2, GoneFinger
  <1>4. DeedIsMeant
    BY DEF GestusInv, SwipesAreMeant, DeedIsMeant
  <1>5. DeedIsMeant'
    <2>1. CASE deed' = deed
      BY <1>4, <2>1 DEF DeedIsMeant
    <2>2. CASE Toggles(f) /\ deed' = [what |-> "toggle", el |-> hands[f].on, hand |-> hands[f]]
      <3>1. hands[f].alone => ~hands[f].held
        BY <2>2, HandFields DEF Toggles, GestusInv, Lonely
      <3>2. deed'.what = "toggle" /\ deed'.hand = hands[f]
        BY <2>2
      <3> QED
        BY <3>1, <3>2 DEF DeedIsMeant
    <2>3. CASE Fires(f) /\ deed' = [what |-> drag.action, el |-> drag.el, hand |-> hands[f]]
      <3>1. deed'.what = drag.action /\ deed'.el = drag.el /\ deed'.hand = hands[f]
        BY <2>3
      <3>2. Dragging(f) /\ drag.armed
        BY <2>3 DEF Fires
      <3>3. /\ drag.action # "toggle"
            /\ hands[f].first # Nothing /\ Sideways(hands[f].first) /\ ~hands[f].pill
            /\ hands[f].on = drag.el
            /\ IF drag.action = "delete"
               THEN hands[f].first.x < 0 /\ hands[f].at.x <= -SwipeTrigger /\ drag.el \in Mine
               ELSE hands[f].first.x > 0 /\ hands[f].at.x >= SwipeTrigger
        BY <3>2, ArmedIsMeant
      <3> QED
        BY <3>1, <3>3 DEF DeedIsMeant
    <2> QED
      BY <2>1, <2>2, <2>3 DEF Lift
  <1> QED
    BY <1>3, <1>5 DEF GestusInv, SwipesAreMeant, DeedIsMeant

LEMMA InterruptKeeps ==
  ASSUME GestusInv, NEW f \in Down, Interrupt(f)
  PROVE  GestusInv'
  <1>1. /\ hands' = [hands EXCEPT ![f] = Nothing] /\ hold' = Nothing /\ inFeed' = inFeed
        /\ IF Dragging(f) THEN drag' = Nothing /\ tilt' = [tilt EXCEPT ![drag.el] = 0]
                          ELSE UNCHANGED <<drag, tilt>>
        /\ UNCHANGED <<popped, swallow, deed>>
    BY DEF Interrupt, EndDrag
  <1>2. popped' \in SUBSET Threads /\ swallow' \in BOOLEAN
    BY <1>1 DEF GestusInv, GestusTypeOK
  <1>3. /\ GestusTypeOK' /\ DragIsMeant' /\ Lonely' /\ HoldIsMeant'
        /\ \A el \in Draggable : tilt'[el] # 0 => drag' # Nothing /\ drag'.el = el /\ drag'.action # Nothing
        /\ drag' # Nothing => drag'.finger \in Down' /\ ~hands'[drag'.finger].alone
    BY <1>1, <1>2, GoneFinger
  <1> QED
    BY <1>1, <1>3 DEF GestusInv, SwipesAreMeant

LEMMA PollKeeps ==
  ASSUME GestusInv, Poll
  PROVE  GestusInv'
  <1>1. /\ inFeed' \subseteq inFeed /\ popped' \subseteq popped
        /\ tilt' = [el \in Draggable |-> IF drag # Nothing /\ drag.el = el THEN tilt[el] ELSE 0]
        /\ UNCHANGED <<hands, drag, hold, swallow, deed>>
    BY DEF Poll
  <1>2. /\ tilt' \in [Draggable -> Int]
        /\ \A el \in Draggable : tilt'[el] # 0 => tilt'[el] = tilt[el]
    BY <1>1 DEF GestusInv, GestusTypeOK
  <1>3. GestusTypeOK'
    BY <1>1, <1>2 DEF GestusInv, GestusTypeOK
  <1>4. DragIsMeant' /\ Lonely' /\ HoldIsMeant'
    BY <1>1 DEF GestusInv, DragIsMeant, Lonely, HoldIsMeant, Down
  <1>5. SwipesAreMeant'
    BY <1>1, <1>2 DEF GestusInv, SwipesAreMeant, Down
  <1> QED
    BY <1>3, <1>4, <1>5 DEF GestusInv

\* Everything that the fingers of a reader depend on, and the panel and the history with it.
ReaderInv == GestusInv /\ TraadInv

LEMMA ReaderHolds == Spec => []ReaderInv
  <1>1. Init => ReaderInv
    BY GestusInitInv, TraadInitInv DEF Init, ReaderInit, ReaderInv
  <1>2. ReaderInv /\ [Next]_vars => ReaderInv'
    <2> SUFFICES ASSUME ReaderInv, [Next]_vars PROVE ReaderInv'
      OBVIOUS
    <2>1. CASE ReaderStep
      <3>1. TraadInv'
        BY <2>1, ReaderMoves, TraadKept DEF ReaderInv, GestusInv
      <3>2. ASSUME UNCHANGED gestusVars PROVE GestusInv'
        BY <3>2 DEF gestusVars, ReaderInv, GestusInv, GestusTypeOK, DragIsMeant, Lonely, HoldIsMeant,
                    SwipesAreMeant, Down
      <3>3. CASE GestusStep
        <4>1. ASSUME NEW f \in Down, NEW spot \in Spots, MoveFinger(f, spot) PROVE GestusInv'
          BY <4>1, MoveFingerKeeps DEF ReaderInv
        <4>2. ASSUME NEW f \in Down, Lift(f) \/ Interrupt(f) PROVE GestusInv'
          BY <4>2, LiftKeeps, InterruptKeeps DEF ReaderInv
        <4>3. ASSUME NEW el \in Draggable, TouchText(el) PROVE GestusInv'
          BY <4>3, TouchTextKeeps DEF ReaderInv
        <4>4. ASSUME NEW m \in Threads, TouchPill(m) PROVE GestusInv'
          BY <4>4, TouchPillKeeps DEF ReaderInv
        <4>5. ASSUME HoldFires \/ Poll PROVE GestusInv'
          BY <4>5, HoldFiresKeeps, PollKeeps DEF ReaderInv
        <4>6. GestusInv'
          BY <3>3, <4>1, <4>2, <4>3, <4>4, <4>5 DEF GestusStep
        <4> QED
          BY <3>1, <4>6 DEF ReaderInv
      <3>4. UNCHANGED gestusVars => ReaderInv'
        BY <3>1, <3>2 DEF ReaderInv
      <3> QED
        BY <2>1, <3>3, <3>4 DEF ReaderStep
    <2>2. CASE UNCHANGED readerVars
      <3>1. TraadInv'
        BY <2>2, TraadKept DEF readerVars, TraadMoves, ReaderInv
      <3>2. GestusInv'
        BY <2>2 DEF readerVars, gestusVars, ReaderInv, GestusInv, GestusTypeOK, DragIsMeant, Lonely,
                    HoldIsMeant, SwipesAreMeant, Down
      <3> QED
        BY <3>1, <3>2 DEF ReaderInv
    <2> QED
      BY <2>1, <2>2 DEF Next, Rooming, Deducting, Repairing, Posting, Noticing, Reading, Admitting,
                        Publishing, Living, vars
  <1> QED
    BY <1>1, <1>2, PTL DEF Spec

\* The panel's button and the back gesture close a thread without leaving the installed app
\* (feed.ts, closeThread and popstate).
THEOREM ClosingStays == Spec => []StaysInTheApp
  <1>1. ReaderInv => StaysInTheApp
    BY DEF ReaderInv, TraadInv, StaysInTheApp
  <1> QED
    BY <1>1, ReaderHolds, PTL

\* A thread that has been closed is gone from the page and from the address (feed.ts, clearThread and
\* dropThreadParam).
THEOREM ClosingCloses == Spec => ClosedIsClosed
  <1>1. ReaderInv /\ [Next]_vars =>
          [(Shut /\ ~pushed) \/ BackHappens =>
             (slips' \subseteq {"gone", "twice"} /\ pos' > 0 =>
                 panel' = Nothing /\ trail'[pos'].traad = Nothing)]_<<traadVars, made>>
    <2> SUFFICES ASSUME ReaderInv, slips' \subseteq {"gone", "twice"}, pos' > 0,
                        (Shut /\ ~pushed) \/ BackHappens
                 PROVE  panel' = Nothing /\ trail'[pos'].traad = Nothing
      OBVIOUS
    <2>1. TraadInv
      BY DEF ReaderInv
    <2>2. CASE Shut /\ ~pushed
      BY <2>1, <2>2, ShutDoes
    <2>3. CASE BackHappens
      <3>1. /\ slips' = slips /\ pos \in 1..Len(trail) /\ pos - 1 \in 0..Len(trail) /\ Traverse(pos - 1)
        <4>1. slips' = slips /\ Traverse(pos - 1)
          BY <2>3 DEF BackHappens
        <4>2. pos \in 1..Len(trail) /\ Len(trail) \in Nat
          BY <2>1, <2>3, BrowserMoves
        <4> QED
          BY <4>1, <4>2
      <3>2. pos' = pos - 1
        BY <2>1, <3>1, TraverseDoes
      <3>3. trail[pos - 1].state = Nothing
        <4>1. pos - 1 \in 1..Len(trail) /\ pos - 1 < pos
          BY <3>1, <3>2
        <4> QED
          BY <2>1, <3>1, <4>1 DEF TraadInv, NoThreadBehind
      <3> QED
        BY <2>1, <3>1, <3>2, <3>3, TraverseDoes
    <2> QED
      BY <2>2, <2>3
  <1> QED
    BY <1>1, ReaderHolds, PTL DEF Spec, ClosedIsClosed

\* No finger does what it did not mean, and nothing is left out of its place (feed.ts, the swipe and
\* the long press).
THEOREM SwipesStayMeant == Spec => []SwipesAreMeant
  <1>1. ReaderInv => SwipesAreMeant
    BY DEF ReaderInv, GestusInv
  <1> QED
    BY <1>1, ReaderHolds, PTL

==============================================================================
