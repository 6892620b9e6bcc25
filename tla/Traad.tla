-------------------------------- MODULE Traad --------------------------------
(***************************************************************************)
(* The thread panel of Den Hurtige in a browser (src/frontend/src/feed.ts): *)
(* a panel beside the feed, or over all of it on a phone, and the entries  *)
(* that it makes in the browser's history so that the back gesture closes  *)
(* it.  history.back() only asks: the browser goes back later, and then    *)
(* says so.  The way a thread's own poll renews the panel is left out.     *)
(***************************************************************************)
EXTENDS Sequences, Omfang

CONSTANTS Threads, Nothing

ASSUME TraadAssumption == Nothing \notin Threads \cup {"gone"}

Gone == "gone"

VARIABLES
    panel,      \* the thread that is shown; Gone: its message has expired
    asked,      \* the threads that have been asked for
    opener,     \* threadOpener: somebody has clicked on a message
    pushed,     \* pushedThreadEntry
    trail,      \* the history's entries of this page: ?traad= and the state
    pos,        \* the entry the browser is at; 0: it has left the page
    backs,      \* history.back() calls that have not happened yet
    slips,      \* history: what the code does not provide for
    left        \* history: a close, or the back gesture over our own entry, left the page

traadVars == <<panel, asked, opener, pushed, trail, pos, backs, slips, left>>

TraadEntry == [traad: Threads \cup {Nothing}, state: Threads \cup {Nothing}]
Slips == {"over", "twice", "forward", "gone"}

TraadTypeOK ==
    /\ panel \in Threads \cup {Nothing, Gone}
    /\ asked \subseteq Threads
    /\ opener \in BOOLEAN /\ pushed \in BOOLEAN /\ left \in BOOLEAN
    /\ trail \in Seq(TraadEntry) /\ pos \in 0..Len(trail)
    /\ backs \in Nat
    /\ slips \subseteq Slips

\* The feed, or a notification's link to a thread, which the page asks for when it has loaded.
TraadInit ==
    /\ \E link \in Threads \cup {Nothing} :
        /\ trail = <<[traad |-> link, state |-> Nothing]>>
        /\ asked = {link} \ {Nothing}
    /\ panel = Nothing /\ opener = FALSE /\ pushed = FALSE
    /\ pos = 1 /\ backs = 0 /\ slips = {} /\ left = FALSE

Slip(what, when) == slips' = IF when THEN slips \cup {what} ELSE slips

-----------------------------------------------------------------------------
(* Opening *)

\* The replies of a message are asked for.
Ask(t) ==
    /\ pos > 0
    /\ asked' = asked \cup {t}
    /\ opener' = TRUE
    /\ Slip("over", panel # Nothing \/ asked # {})
    /\ UNCHANGED <<panel, pushed, trail, pos, backs, left>>

\* A click on them.
OpenThread(t) == Make("open") /\ Ask(t)

Ours(t) == [traad |-> t, state |-> t]

\* Mutant: a thread that was linked to counts as an entry of ours.
LinkIsOurs(t) ==
    /\ trail' = [trail EXCEPT ![pos] = Ours(t)]
    /\ pushed' = TRUE
    /\ UNCHANGED pos

\* The page was loaded at ?traad=: its entry is stamped, and no other is made.
StampLink(t) ==
    /\ trail' = [trail EXCEPT ![pos] = Ours(t)]
    /\ UNCHANGED <<pushed, pos>>

PushEntry(t) ==
    /\ trail' = Append(SubSeq(trail, 1, pos), Ours(t))
    /\ pos' = pos + 1
    /\ pushed' = TRUE

\* htmx:afterSwap of a thread.
ThreadArrives(t) ==
    /\ pos > 0 /\ t \in asked
    /\ panel' = t /\ asked' = asked \ {t}
    /\ \/ trail[pos].state = t /\ UNCHANGED <<trail, pos, pushed>>
       \/ trail[pos].state # t /\ trail[pos].traad = t /\ ~opener /\ StampLink(t)
       \/ trail[pos].state # t /\ (trail[pos].traad # t \/ opener) /\ PushEntry(t)
    /\ UNCHANGED <<opener, backs, slips, left, made>>

\* The message has expired: the answer names no thread, and no entry is made.
GoneArrives(t) ==
    /\ pos > 0 /\ t \in asked
    /\ panel' = Gone /\ asked' = asked \ {t}
    /\ Slip("gone", TRUE)
    /\ UNCHANGED <<opener, pushed, trail, pos, backs, left, made>>

-----------------------------------------------------------------------------
(* Closing *)

\* Mutant: the address is left as it is.
ParamLeft(entry) == entry

\* dropThreadParam: replaceState with no state, if there is a ?traad.
ParamDropped(entry) ==
    IF entry.traad = Nothing THEN entry ELSE [traad |-> Nothing, state |-> Nothing]

\* clearThread, when the browser is at entry p.
ClearThread(p) ==
    /\ panel' = Nothing /\ opener' = FALSE
    /\ trail' = [trail EXCEPT ![p] = ParamDropped(@)]

\* closeThread
Shut ==
    /\ pos > 0 /\ panel # Nothing
    /\ \/ /\ pushed
          /\ backs' = backs + 1
          /\ Slip("twice", backs > 0)
          /\ UNCHANGED <<panel, opener, trail>>
       \/ /\ ~pushed
          /\ ClearThread(pos)
          /\ UNCHANGED <<backs, slips>>
    /\ UNCHANGED <<asked, pushed, pos, left>>

\* The close button, or Escape.
CloseThread == Make("shut") /\ Shut

\* The browser goes to another entry, and popstate is fired if that is still this page.
Traverse(to) ==
    /\ pos' = to
    /\ IF to > 0 /\ trail[to].state = Nothing
       THEN ClearThread(to) /\ pushed' = FALSE
       ELSE UNCHANGED <<panel, opener, trail, pushed>>
    /\ UNCHANGED asked

\* What history.back() asked for.
BackHappens ==
    /\ pos > 0 /\ backs > 0
    /\ backs' = backs - 1
    /\ Traverse(pos - 1)
    /\ left' = (left \/ pos = 1)
    /\ UNCHANGED <<slips, made>>

\* The reader's own back gesture.
BackGesture ==
    /\ Make("back")
    /\ pos > 0 /\ backs = 0
    /\ Traverse(pos - 1)
    /\ left' = (left \/ (pos = 1 /\ panel # Nothing /\ pushed))
    /\ UNCHANGED <<backs, slips>>

ForwardGesture ==
    /\ Make("back")
    /\ pos \in 1..(Len(trail) - 1) /\ backs = 0
    /\ Traverse(pos + 1)
    /\ Slip("forward", TRUE)
    /\ UNCHANGED <<backs, left>>

TraadStep ==
    /\ UNCHANGED mix
    /\ \/ \E t \in Threads : OpenThread(t) \/ ThreadArrives(t) \/ GoneArrives(t)
       \/ CloseThread \/ BackHappens \/ BackGesture \/ ForwardGesture

-----------------------------------------------------------------------------
(* Properties *)

\* Closing a thread never leaves the page, in the installed app the app, and neither does the back
\* gesture over a thread for which the page made an entry: so long as no thread is opened over
\* another one, and close is not pressed again before the browser has gone back.  In those two cases
\* it may.
StaysInTheApp == slips \subseteq {"gone", "forward"} => ~left

\* A thread that has been closed is closed, and a reload does not open it again: it is gone from the
\* page and from the address that the browser shows, whether it was linked to or clicked on.  But
\* not if it was opened over another one or after going forward, when the entry that the browser
\* goes back to has a thread of its own and nothing is cleared.
ClosedIsClosed ==
    [][(Shut /\ ~pushed) \/ BackHappens =>
          (slips' \subseteq {"gone", "twice"} /\ pos' > 0 =>
              panel' = Nothing /\ trail'[pos'].traad = Nothing)]_<<traadVars, made>>

==============================================================================
