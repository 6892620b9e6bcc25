-------------------------------- MODULE Gestus --------------------------------
(***************************************************************************)
(* Fingers on the page of Den Hurtige (src/frontend/src/feed.ts): a        *)
(* message or the panel is dragged aside to open its thread, to delete it  *)
(* or to close it, and a reaction is held to see who used it.  All fingers *)
(* share one drag, one timer and one flag, and the poll morphs the page    *)
(* under them.                                                             *)
(*                                                                         *)
(* Where a finger is, is said relative to where it went down; fingers are  *)
(* far from each other.                                                    *)
(***************************************************************************)
EXTENDS Traad, Integers, FiniteSets

CONSTANTS
    Fingers,
    Spots,     \* bound: where a finger may be, in px
    Mine       \* the messages that have a form to delete them with

Origin == [x |-> 0, y |-> 0]

ASSUME GestusAssumption ==
    /\ {"touch", "travel", "poll"} \subseteq Kinds
    /\ Spots \subseteq [x: Int, y: Int]
    /\ Mine \subseteq Threads

SwipeSlop == 12
SwipeTrigger == 68
SwipeMax == 96
HoldSlop == 10        \* WHO_MOVE_SLOP

VARIABLES
    inFeed,     \* the messages of the page
    hands,      \* each finger that is down
    drag,
    tilt,       \* the inline translate of each message and of the panel, and with it its hint
    hold,       \* the timer that runs, of which finger and on whose reaction
    popped,     \* the panel of who reacted that is open
    swallow,    \* swallowClick
    deed        \* history: what a finger has done last, and its way there

gestusVars == <<inFeed, hands, drag, tilt, hold, popped, swallow, deed>>

Panel == "panel"
Draggable == Threads \cup {Panel}
Actions == {"thread", "delete", "close"}

\* A finger: what it went down on, where it is, where it was first when it had left the slop;
\* whether its hold has opened a panel, and whether no other has been down with it.
Hand == [on: Draggable, pill: BOOLEAN, at: Spots \cup {Origin}, first: Spots \cup {Nothing},
         held: BOOLEAN, alone: BOOLEAN]

Swipe == [finger: Fingers, el: Draggable, action: Actions \cup {Nothing}, armed: BOOLEAN]

ASSUME NothingAssumption == Nothing \notin Hand \cup Swipe \cup Spots \cup Actions \cup {Origin}

GestusTypeOK ==
    /\ inFeed \subseteq Threads
    /\ hands \in [Fingers -> Hand \cup {Nothing}]
    /\ drag \in Swipe \cup {Nothing}
    /\ tilt \in [Draggable -> Int]
    /\ hold = Nothing \/ hold \in [finger: Fingers, on: Threads]
    /\ popped \subseteq Threads
    /\ swallow \in BOOLEAN

GestusInit ==
    /\ inFeed = Threads
    /\ hands = [f \in Fingers |-> Nothing]
    /\ drag = Nothing /\ hold = Nothing /\ deed = Nothing
    /\ tilt = [el \in Draggable |-> 0]
    /\ popped = {} /\ swallow = FALSE

Size(n) == IF n < 0 THEN -n ELSE n
Inside(spot, slop) == Size(spot.x) < slop /\ Size(spot.y) < slop

-----------------------------------------------------------------------------
(* Down *)

Down == {f \in Fingers : hands[f] # Nothing}

\* The pointerId of a finger that goes down: one that is free, and they are all alike.
Free == CHOOSE f \in Fingers : f \notin Down

Touch(el, pill) ==
    /\ Make("touch")
    /\ Down # Fingers
    /\ hands' = [g \in Fingers |->
          IF g = Free THEN [on |-> el, pill |-> pill, at |-> Origin, first |-> Nothing,
                            held |-> FALSE, alone |-> Down = {}]
          ELSE IF g \in Down THEN [hands[g] EXCEPT !.alone = FALSE] ELSE Nothing]

\* pointerdown beside the reactions and links: a drag begins, unless there is one or a panel is open.
TouchText(el) ==
    /\ Touch(el, FALSE)
    /\ el \in inFeed \/ (el = Panel /\ panel # Nothing)
    /\ drag' = IF drag # Nothing \/ popped # {} THEN drag
               ELSE [finger |-> Free, el |-> el, action |-> Nothing, armed |-> FALSE]
    /\ UNCHANGED <<inFeed, tilt, hold, popped, swallow, deed, traadVars>>

\* pointerdown on a reaction: the timer is set.  Behind an open panel there is nothing to touch.
TouchPill(m) ==
    /\ Touch(m, TRUE)
    /\ m \in inFeed /\ popped = {}
    /\ hold' = [finger |-> Free, on |-> m]
    /\ UNCHANGED <<inFeed, drag, tilt, popped, swallow, deed, traadVars>>

\* The timer goes off: the names are shown, if the reaction is still there to have any.
HoldFires ==
    /\ hold # Nothing
    /\ hold' = Nothing
    /\ swallow' = TRUE
    /\ popped' = IF hold.on \in inFeed THEN {hold.on} ELSE popped
    /\ hands' = [hands EXCEPT ![hold.finger].held = TRUE]
    /\ UNCHANGED <<inFeed, drag, tilt, deed, traadVars, made>>

-----------------------------------------------------------------------------
(* On the move *)

\* actionFor: the replies can always be opened, the panel closed, and one's own deleted.
ActionFor(el, dx) ==
    CASE el = Panel -> IF dx > 0 THEN "close" ELSE Nothing
      [] dx > 0 -> "thread"
      [] OTHER -> IF el \in Mine THEN "delete" ELSE Nothing

Sideways(spot) == 10 * Size(spot.x) > 13 * Size(spot.y)

Along(action, spot) ==
    LET forth == IF action = "delete" THEN -spot.x ELSE spot.x
    IN  IF forth > 0 THEN forth ELSE 0

\* Past the trigger it follows at a quarter of the speed.
Eased(along) ==
    LET eased == IF along <= SwipeTrigger THEN along
                 ELSE SwipeTrigger + (along - SwipeTrigger) \div 4
    IN  IF eased < SwipeMax THEN eased ELSE SwipeMax

\* Mutant: a drag that is wound back stays armed.
ArmedOnce(d, along) == d.armed \/ along >= SwipeTrigger

ArmedAt(d, along) == along >= SwipeTrigger

Follow(d, spot) ==
    LET along == Along(d.action, spot)
    IN  /\ drag' = [d EXCEPT !.armed = ArmedAt(d, along)]
        /\ tilt' = [tilt EXCEPT ![d.el] = IF d.action = "delete" THEN -Eased(along) ELSE Eased(along)]

\* pointermove of the finger that drags: the first time it has left the slop says what it is.
DragTo(spot) ==
    LET action == ActionFor(drag.el, spot.x)
    IN  \/ /\ drag.action # Nothing
           /\ Follow(drag, spot)
        \/ /\ drag.action = Nothing /\ Inside(spot, SwipeSlop)
           /\ UNCHANGED <<drag, tilt>>
        \/ /\ drag.action = Nothing /\ ~Inside(spot, SwipeSlop)
           /\ ~Sideways(spot) \/ action = Nothing
           /\ drag' = Nothing /\ UNCHANGED tilt
        \/ /\ drag.action = Nothing /\ ~Inside(spot, SwipeSlop)
           /\ Sideways(spot) /\ action # Nothing
           /\ Follow([drag EXCEPT !.action = action], spot)

Dragging(f) == drag # Nothing /\ drag.finger = f

\* pointermove; the timer stops for any finger that is not near to where the last one went down.
MoveFinger(f, spot) ==
    /\ Make("travel")
    /\ spot # hands[f].at
    /\ hands' = [hands EXCEPT
          ![f].at = spot,
          ![f].first = IF @ = Nothing /\ ~Inside(spot, SwipeSlop) THEN spot ELSE @]
    /\ hold' = IF hold # Nothing /\ hold.finger = f /\ Inside(spot, HoldSlop + 1) THEN hold
               ELSE Nothing
    /\ IF Dragging(f) THEN DragTo(spot) ELSE UNCHANGED <<drag, tilt>>
    /\ UNCHANGED <<inFeed, popped, swallow, deed, traadVars>>

-----------------------------------------------------------------------------
(* Up *)

\* fireSwipe: the control that is there anyway.  Of a message that has left the page nothing is
\* submitted; its link would lead the browser away, which is not followed here.
Fire(el, action) ==
    CASE action = "close" /\ panel # Nothing /\ pos > 0 -> Shut
      [] action = "thread" /\ el \in inFeed /\ pos > 0 -> Ask(el)
      [] OTHER -> UNCHANGED traadVars

Fires(f) ==
    /\ Dragging(f) /\ drag.armed
    /\ drag.el \in inFeed \/ drag.action = "close"

\* endDrag
EndDrag(commit) ==
    /\ drag' = Nothing
    /\ tilt' = [tilt EXCEPT ![drag.el] = 0]
    /\ IF commit THEN Fire(drag.el, drag.action) ELSE UNCHANGED traadVars

\* The click that a touch ends with: the capture handler swallows it, or it closes the panel that is
\* open, and on a reaction it toggles that.
Click == popped' = (IF swallow THEN popped ELSE {}) /\ swallow' = FALSE
Toggles(f) == hands[f].pill /\ hands[f].on \in inFeed /\ ~swallow

\* pointerup, and the click of a finger that has not moved; after a long press some browsers make
\* none.
Lift(f) ==
    /\ hands' = [hands EXCEPT ![f] = Nothing]
    /\ hold' = Nothing
    /\ IF Dragging(f) THEN EndDrag(drag.armed) ELSE UNCHANGED <<drag, tilt, traadVars>>
    /\ \/ /\ hands[f].first = Nothing
          /\ Click
          /\ deed' = IF Toggles(f) THEN [what |-> "toggle", el |-> hands[f].on, hand |-> hands[f]]
                     ELSE deed
       \/ /\ hands[f].first # Nothing \/ hands[f].held
          /\ deed' = IF Fires(f) THEN [what |-> drag.action, el |-> drag.el, hand |-> hands[f]]
                     ELSE deed
          /\ UNCHANGED <<popped, swallow>>
    /\ UNCHANGED <<inFeed, made>>

\* pointercancel: the browser scrolls, or the system has interrupted.
Interrupt(f) ==
    /\ hands' = [hands EXCEPT ![f] = Nothing]
    /\ hold' = Nothing
    /\ IF Dragging(f) THEN EndDrag(FALSE) ELSE UNCHANGED <<drag, tilt, traadVars>>
    /\ UNCHANGED <<inFeed, popped, swallow, deed, made>>

-----------------------------------------------------------------------------
(* The poll *)

\* The page is morphed: messages leave it, and whatever is not being dragged is laid out as the
\* server has it.  The panels that are open stay open.
Poll ==
    /\ Make("poll")
    /\ \E stay \in SUBSET inFeed : inFeed' = stay
    /\ popped' = popped \cap inFeed'
    /\ tilt' = [el \in Draggable |-> IF drag # Nothing /\ drag.el = el THEN tilt[el] ELSE 0]
    /\ UNCHANGED <<hands, drag, hold, swallow, deed, traadVars>>

GestusStep ==
    /\ \/ \E el \in Draggable : TouchText(el)
       \/ \E m \in Threads : TouchPill(m)
       \/ \E f \in Down : Lift(f) \/ Interrupt(f) \/ \E spot \in Spots : MoveFinger(f, spot)
       \/ HoldFires \/ Poll
    /\ UNCHANGED mix

-----------------------------------------------------------------------------
(* The reader's page: fingers and everything else that opens and closes threads *)

readerVars == <<traadVars, gestusVars>>

ReaderInit == TraadInit /\ GestusInit

ReaderStep == (TraadStep /\ UNCHANGED gestusVars) \/ GestusStep

ReaderTypeOK == TraadTypeOK /\ GestusTypeOK

-----------------------------------------------------------------------------
(* Properties *)

\* A swipe does what the finger meant: it went sideways, in the direction of what it did, before it
\* went anywhere else, and was past the trigger when it was lifted, with no panel of names in the way
\* when it came down; so nothing is deleted by a scroll, by a finger that turned back, or by one that
\* opened a thread on its way.  A long press alone does not toggle the reaction that it is held on.
\* And "neither may hold one at rest": whatever the poll, a second finger or the system did meanwhile,
\* only what a finger is dragging is out of its place, and while it is, a panel of names is opened by
\* a second finger only.
SwipesAreMeant ==
    /\ deed # Nothing =>
          CASE deed.what = "toggle" -> deed.hand.alone => ~deed.hand.held
            [] OTHER ->
                 /\ deed.hand.first # Nothing /\ Sideways(deed.hand.first) /\ ~deed.hand.pill
                 /\ deed.hand.on = deed.el
                 /\ IF deed.what = "delete"
                    THEN deed.hand.first.x < 0 /\ deed.hand.at.x <= -SwipeTrigger /\ deed.el \in Mine
                    ELSE deed.hand.first.x > 0 /\ deed.hand.at.x >= SwipeTrigger
    /\ \A el \in Draggable : tilt[el] # 0 => drag # Nothing /\ drag.el = el /\ drag.action # Nothing
    /\ drag # Nothing => drag.finger \in Down
    /\ drag # Nothing /\ popped # {} => ~hands[drag.finger].alone

===============================================================================
