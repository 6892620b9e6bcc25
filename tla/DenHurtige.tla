------------------------------ MODULE DenHurtige ------------------------------
(***************************************************************************)
(* Den Hurtige (src/app/den_hurtige): posts that expire, their comments,   *)
(* photos and reactions, and the channels that a resident has muted.       *)
(*                                                                         *)
(* An expired post is deleted by whoever loads a feed, by the half-hourly  *)
(* command, or by hand; a deletion reads what it is going to delete, is    *)
(* one transaction, and deletes the photos when it has committed.  Each    *)
(* post here has a photo: one without has nothing more to lose.            *)
(***************************************************************************)
EXTENDS Maanedsliste

CONSTANTS
    Posts,         \* bound: the posts there may be, numbered from 1
    Channels,
    MainChannel,   \* the channel that somebody always looks at
    Durations,     \* how long a post may last
    Emoji,
    DhWorkers,     \* feed loads, commands and deletions at once
    LastTick       \* bound: the last moment there is

ASSUME DhAssumption ==
    /\ {"post", "comment", "tap", "mute"} \subseteq Kinds
    /\ Posts \subseteq Nat \ {0}
    /\ MainChannel \in Channels
    /\ Durations \subseteq Nat \ {0} /\ LastTick \in Nat
    /\ Null \notin [author: Residents, channel: Channels, expires: Nat]
    /\ Null \notin [n: Nat, who: Residents, emoji: Emoji]

VARIABLES
    clock,
    posts,       \* QuickPost
    comments,    \* QuickComment, by number
    photos,      \* the files in storage, each by its post
    reactions,   \* QuickReaction: rows, by number
    mutes,       \* ChannelMute
    writing,     \* comments, taps and mutes that have been read for and not written
    deletions,   \* what each deletion is at
    leaked       \* history: the photos whose deletion failed

dhVars == <<clock, posts, comments, photos, reactions, mutes, writing, deletions, leaked>>

Post == [author: Residents, channel: Channels, expires: Nat]
Reaction == [n: Nat, who: Residents, emoji: Emoji]

\* n tells the requests of a kind apart; found is the reaction that a tap has read.
Request ==
    [kind: {"comment"}, n: Nat, post: Posts]
        \cup [kind: {"tap"}, n: Nat, post: Posts, who: Residents, emoji: Emoji,
              found: Reaction \cup {Null}]
        \cup [kind: {"mute"}, n: Nat, who: Residents, channel: Channels]

Deletion == [pc: {"idle", "rows", "files"}, posts: SUBSET Posts, seen: [Posts -> SUBSET Nat]]
NoDeletion == [pc |-> "idle", posts |-> {}, seen |-> [p \in Posts |-> {}]]

DhTypeOK ==
    /\ clock \in 0..LastTick
    /\ posts \in [Posts -> Post \cup {Null}]
    /\ comments \in [Posts -> SUBSET Nat]
    /\ photos \subseteq Posts
    /\ reactions \in [Posts -> SUBSET Reaction]
    /\ mutes \in [Residents -> SUBSET Channels]
    /\ writing \subseteq Request
    /\ deletions \in [DhWorkers -> Deletion]
    /\ leaked \subseteq Posts

DhInit ==
    /\ clock = 0
    /\ posts = [p \in Posts |-> Null]
    /\ comments = [p \in Posts |-> {}]
    /\ photos = {}
    /\ reactions = [p \in Posts |-> {}]
    /\ mutes = [r \in Residents |-> {}]
    /\ writing = {}
    /\ deletions = [w \in DhWorkers |-> NoDeletion]
    /\ leaked = {}

There == {p \in Posts : posts[p] # Null}
Live == {p \in There : posts[p].expires > clock}
Expired == There \ Live

Tick ==
    /\ Make("tick")
    /\ clock < LastTick
    /\ clock' = clock + 1
    /\ UNCHANGED <<posts, comments, photos, reactions, mutes, writing, deletions, leaked>>

-----------------------------------------------------------------------------
(* Posts and comments *)

CreatePost(r, channel, duration) ==
    LET p == made["post"] + 1
    IN  /\ Make("post")
        /\ r \in accounts /\ p \in Posts
        /\ posts' = [posts EXCEPT ![p] =
              [author |-> r, channel |-> channel, expires |-> clock + duration]]
        /\ photos' = photos \cup {p}
        /\ UNCHANGED <<clock, comments, reactions, mutes, writing, deletions, leaked>>

\* create_comment looks for a live post, and writes later.
BeginComment(p) ==
    /\ Make("comment")
    /\ p \in Live
    /\ writing' = writing \cup {[kind |-> "comment", n |-> made'["comment"], post |-> p]}
    /\ UNCHANGED <<clock, posts, comments, photos, reactions, mutes, deletions, leaked>>

\* The foreign key refuses a comment on a post that is gone.
WriteComment(q) ==
    /\ q.kind = "comment"
    /\ writing' = writing \ {q}
    /\ comments' = IF q.post \in There THEN [comments EXCEPT ![q.post] = @ \cup {q.n}]
                   ELSE comments
    /\ UNCHANGED <<clock, posts, photos, reactions, mutes, deletions, leaked, made>>

-----------------------------------------------------------------------------
(* Deletions *)

\* A deletion collects the rows and the comments that hang on them.
Collect(w, gone) ==
    /\ deletions[w].pc = "idle" /\ gone # {}
    /\ deletions' = [deletions EXCEPT ![w] =
          [pc |-> "rows", posts |-> gone,
           seen |-> [p \in Posts |-> IF p \in gone THEN comments[p] ELSE {}]]]
    /\ UNCHANGED <<clock, posts, comments, photos, reactions, mutes, writing, leaked>>

\* Mutant: the channel that is being looked at is swept, and no other.
SweptOfChannel(channel) == {p \in Expired : posts[p].channel = channel}

\* _active_posts: whichever channel is loaded, every channel is swept.
SweptOn(channel) == Expired

\* A feed, or the poll of one every 20 seconds.
LoadFeed(w, channel) == Collect(w, SweptOn(channel)) /\ UNCHANGED made

\* purge_quick_posts
PurgeCommand(w) == Make("purge") /\ Collect(w, Expired)

\* delete_post, also of a post that has expired.
DeletePost(w, r, p) ==
    /\ Make("remove")
    /\ p \in There
    /\ posts[p].author = r \/ roles[Active][r] \cap {"inspektion", "administrator"} # {}
    /\ Collect(w, {p})

\* The comments that a deletion has not seen, and that still hang on a post it deletes.
Unseen(job) == \E p \in job.posts \cap There : comments[p] \ job.seen[p] # {}

\* The transaction commits; reactions go by their post.
DeleteRows(w) ==
    LET job == deletions[w]
        Left(f, nothing) == [p \in Posts |-> IF p \in job.posts THEN nothing ELSE f[p]]
    IN  /\ job.pc = "rows" /\ ~Unseen(job)
        /\ posts' = Left(posts, Null)
        /\ comments' = Left(comments, {})
        /\ reactions' = Left(reactions, {})
        /\ deletions' = [deletions EXCEPT ![w].pc = "files"]
        /\ UNCHANGED <<clock, photos, mutes, writing, leaked, made>>

\* Mutant: the photos go with the rows, and not when the deletion has committed.
PhotosGoFirst(w) == photos \ deletions[w].posts

PhotosAfterFailure(w) == photos

\* A comment came in between: the foreign key refuses, and everything is rolled back.
FailToDelete(w) ==
    /\ deletions[w].pc = "rows" /\ Unseen(deletions[w])
    /\ deletions' = [deletions EXCEPT ![w] = NoDeletion]
    /\ photos' = PhotosAfterFailure(w)
    /\ UNCHANGED <<clock, posts, comments, reactions, mutes, writing, leaked, made>>

\* delete_attached_files, on commit.
DeletePhotos(w) ==
    /\ deletions[w].pc = "files"
    /\ photos' = photos \ deletions[w].posts
    /\ deletions' = [deletions EXCEPT ![w] = NoDeletion]
    /\ UNCHANGED <<clock, posts, comments, reactions, mutes, writing, leaked, made>>

\* The storage does not answer, or the worker is gone: the photos stay, and nothing knows of them.
FailPhotos(w) ==
    /\ Make("leak")
    /\ deletions[w].pc = "files"
    /\ leaked' = leaked \cup (deletions[w].posts \cap photos)
    /\ deletions' = [deletions EXCEPT ![w] = NoDeletion]
    /\ UNCHANGED <<clock, posts, comments, photos, reactions, mutes, writing>>

-----------------------------------------------------------------------------
(* Reactions and mutes *)

RowsOf(p, who) == {x \in reactions[p] : x.who = who}

\* apply_toggle reads the reaction that is there, and writes later.
BeginTap(who, p, emoji) ==
    /\ Make("tap")
    /\ who \in accounts /\ p \in Live
    /\ \E found \in (IF RowsOf(p, who) = {} THEN {Null} ELSE RowsOf(p, who)) :
         writing' = writing \cup {[kind |-> "tap", n |-> made'["tap"], post |-> p, who |-> who,
                                   emoji |-> emoji, found |-> found]}
    /\ UNCHANGED <<clock, posts, comments, photos, reactions, mutes, deletions, leaked>>

\* The foreign key, and uniq_reaction_per_author.
MayCreate(q) == q.post \in There /\ RowsOf(q.post, q.who) = {}

\* The tap found none: the row is created, unless the database refuses it.
TapCreates(q) ==
    /\ q.found = Null
    /\ reactions' = IF MayCreate(q)
                    THEN [reactions EXCEPT ![q.post] = @ \cup
                            {[n |-> q.n, who |-> q.who, emoji |-> q.emoji]}]
                    ELSE reactions

\* It found one of its own emoji: the row goes, whatever it says by now.
TapClears(q) ==
    /\ q.found # Null /\ q.found.emoji = q.emoji
    /\ reactions' = [reactions EXCEPT ![q.post] = {x \in @ : x.n # q.found.n}]

\* It found another: the row is changed, if it is still there.
TapMoves(q) ==
    /\ q.found # Null /\ q.found.emoji # q.emoji
    /\ reactions' = [reactions EXCEPT ![q.post] =
          {IF x.n = q.found.n THEN [x EXCEPT !.emoji = q.emoji] ELSE x : x \in @}]

WriteTap(q) ==
    /\ q.kind = "tap"
    /\ TapCreates(q) \/ TapClears(q) \/ TapMoves(q)
    /\ writing' = writing \ {q}
    /\ UNCHANGED <<clock, posts, comments, photos, mutes, deletions, leaked, made>>

ToggleMute(who, channel) ==
    /\ Make("mute")
    /\ who \in accounts
    /\ IF channel \in mutes[who]
       THEN mutes' = [mutes EXCEPT ![who] = @ \ {channel}] /\ UNCHANGED writing
       ELSE /\ writing' = writing \cup
                  {[kind |-> "mute", n |-> made'["mute"], who |-> who, channel |-> channel]}
            /\ UNCHANGED mutes
    /\ UNCHANGED <<clock, posts, comments, photos, reactions, deletions, leaked>>

\* get_or_create
WriteMute(q) ==
    /\ q.kind = "mute"
    /\ mutes' = [mutes EXCEPT ![q.who] = @ \cup {q.channel}]
    /\ writing' = writing \ {q}
    /\ UNCHANGED <<clock, posts, comments, photos, reactions, deletions, leaked, made>>

-----------------------------------------------------------------------------

\* What a deletion does once it has begun.
Deletes(w) == DeleteRows(w) \/ FailToDelete(w) \/ DeletePhotos(w)

DhStep ==
    /\ \/ Tick
       \/ \E r \in Residents, channel \in Channels :
            \/ \E duration \in Durations : CreatePost(r, channel, duration)
            \/ ToggleMute(r, channel)
       \/ \E r \in Residents, p \in Posts, emoji \in Emoji : BeginTap(r, p, emoji)
       \/ \E p \in Posts : BeginComment(p)
       \/ \E q \in writing : WriteComment(q) \/ WriteTap(q) \/ WriteMute(q)
       \/ \E w \in DhWorkers :
            \/ \E channel \in Channels : LoadFeed(w, channel)
            \/ PurgeCommand(w)
            \/ \E r \in Residents, p \in Posts : DeletePost(w, r, p)
            \/ Deletes(w) \/ FailPhotos(w)
    /\ UNCHANGED <<listVars, mix>>

\* A deletion goes on, and somebody has the main channel open, which polls.
DhFairness ==
    \A w \in DhWorkers :
        /\ WF_<<listVars, dhVars, made>>(Deletes(w) /\ UNCHANGED listVars)
        /\ WF_<<listVars, dhVars, made>>(LoadFeed(w, MainChannel) /\ UNCHANGED listVars)

-----------------------------------------------------------------------------
(* Properties *)

\* A post that is there has its photo, however many deletions of it have begun, and failed because
\* somebody commented meanwhile: the file goes when the transaction has committed, and no sooner.
PhotoOfAPost == There \subseteq photos

\* Whatever the double taps, nobody has two reactions on a post: each tap looks for one before it
\* writes, and only the unique constraint keeps the second of two first taps out.
OneReactionEach ==
    \A p \in Posts, who \in Residents : Cardinality(RowsOf(p, who)) <= 1

\* "Gone in an hour", in every channel: an expired post goes, and its photo with it unless the storage
\* failed, when there is somebody who looks at the main channel, though nobody looks at the post's
\* own, and though comments keep coming in between the reads and the writes of a deletion.
GoneInTheEnd ==
    \A p \in Posts : p \in Expired ~> (p \notin There /\ (p \in photos => p \in leaked))

==============================================================================
