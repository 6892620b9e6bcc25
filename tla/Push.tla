-------------------------------- MODULE Push --------------------------------
(***************************************************************************)
(* Web Push: a browser's one push endpoint, the residents who log in on    *)
(* it, the pages whose button turns a topic on and off (push.ts), the      *)
(* server's row per endpoint (core.push, core.models.PushSubscription) and *)
(* the fan-out of a notification in its background thread.                 *)
(*                                                                         *)
(* A page, the server and the fan-out are three actors: a click sends a    *)
(* request, the server takes one or two database statements to answer it,  *)
(* either message may be lost, and a tab may be closed while it waits.     *)
(* The push service and the browser's PushManager are external.            *)
(***************************************************************************)
EXTENDS Integers, FiniteSets

CONSTANTS
    Residents,      \* the residents
    Browsers,       \* their browsers; each has at most one push subscription
    Pages,          \* the tabs that can be open at once
    Topics,         \* TOPIC_FIELDS
    MaxEndpoints,   \* bound: endpoints the push service hands out
    MaxClicks,      \* bound: clicks on the buttons
    MaxLosses,      \* bound: lost messages and deliveries that fail for now
    MaxTabs,        \* bound: tabs of one browser that are open or awaited by the server
    None            \* JavaScript's null, SQL NULL

ASSUME PushAssumption ==
    /\ {MaxEndpoints, MaxClicks, MaxLosses, MaxTabs} \subseteq Nat
    /\ None \notin Nat \cup Residents \cup Browsers \cup Topics

VARIABLES
    sub,        \* per browser: the endpoint its PushManager holds
    session,    \* per browser: who is logged in
    issued,     \* how many endpoints the push service has handed out
    rows,       \* per endpoint: the server's row
    pages,      \* per tab: the variables of push.ts
    requests,   \* per tab: the request it has sent, until the server is done with it
    fanout,     \* per topic: the rows a notification has yet to be sent to
    told,       \* per browser and topic: what the resident logged in there was last told
    asked,      \* who has clicked which topic on, on which endpoint
    clicks, losses

vars == <<sub, session, issued, rows, pages, requests, fanout, told, asked, clicks, losses>>

-----------------------------------------------------------------------------

Endpoints == 1..MaxEndpoints

\* pk tells a row from one created later for the same endpoint.
Row == [live: BOOLEAN, pk: Nat, user: Residents \cup {None}, wants: SUBSET Topics]

\* token: its CSRF token is still the browser's.
Page == [pc: {"closed", "ready", "waiting"}, browser: Browsers \cup {None},
         topic: Topics \cup {None}, sub: Endpoints \cup {None}, enabled: BOOLEAN,
         token: BOOLEAN]

Closed == [pc |-> "closed", browser |-> None, topic |-> None, sub |-> None, enabled |-> FALSE,
           token |-> FALSE]

\* copy and pk: the instance an unsubscribe has in memory.
Request == [stage: {"none", "sent", "read", "done", "failed"},
            kind: {"subscribe", "unsubscribe"}, browser: Browsers \cup {None},
            user: Residents \cup {None}, topic: Topics \cup {None},
            endpoint: Endpoints \cup {None}, pk: Nat, copy: SUBSET Topics]

NoRequest == [stage |-> "none", kind |-> "subscribe", browser |-> None, user |-> None,
              topic |-> None, endpoint |-> None, pk |-> 0, copy |-> {}]

TypeOK ==
    /\ sub \in [Browsers -> Endpoints \cup {None}]
    /\ session \in [Browsers -> Residents]
    /\ issued \in 0..MaxEndpoints
    /\ rows \in [Endpoints -> Row]
    /\ \A e \in Endpoints : rows[e].live => rows[e].user \in Residents
    /\ pages \in [Pages -> Page]
    /\ \A p \in Pages : pages[p].pc # "closed" => /\ pages[p].browser \in Browsers
                                                  /\ pages[p].topic \in Topics
    /\ requests \in [Pages -> Request]
    /\ \A p \in Pages : requests[p].stage # "none" => /\ requests[p].browser \in Browsers
                                                      /\ requests[p].user \in Residents
                                                      /\ requests[p].topic \in Topics
                                                      /\ requests[p].endpoint \in Endpoints
    /\ fanout \in [Topics -> SUBSET (Endpoints \X Nat)]
    /\ told \in [Browsers -> [Topics -> {"on", "off", "unsure"}]]
    /\ asked \subseteq Residents \X Endpoints \X Topics
    /\ clicks \in 0..MaxClicks
    /\ losses \in 0..MaxLosses

-----------------------------------------------------------------------------

\* The push service answers 410 for an endpoint no browser holds any more.
Dead(e) == e <= issued /\ \A b \in Browsers : sub[b] # e

\* core.push.subscribers(topic).filter(user=resident).exists()
Subscribed(r, t) == \E e \in Endpoints : rows[e].live /\ rows[e].user = r /\ t \in rows[e].wants

\* The tabs of b, and the requests a closed tab of b has left behind.
TabsOf(b) ==
    {p \in Pages : \/ pages[p].pc # "closed" /\ pages[p].browser = b
                   \/ requests[p].stage # "none" /\ requests[p].browser = b}

\* PushSubscription.unsubscribe(), on the object that stands for e.
Released(b, e) == IF sub[b] = e THEN [sub EXCEPT ![b] = None] ELSE sub

Init ==
    /\ sub = [b \in Browsers |-> None]
    /\ session \in [Browsers -> Residents]
    /\ issued = 0
    /\ rows = [e \in Endpoints |-> [live |-> FALSE, pk |-> 0, user |-> None, wants |-> {}]]
    /\ pages = [p \in Pages |-> Closed]
    /\ requests = [p \in Pages |-> NoRequest]
    /\ fanout = [t \in Topics |-> {}]
    /\ told = [b \in Browsers |-> [t \in Topics |-> "off"]]
    /\ asked = {}
    /\ clicks = 0
    /\ losses = 0

-----------------------------------------------------------------------------
(* The browser and push.ts *)

\* A page of topic t loads: the server renders whether its resident is subscribed, on
\* whichever device, and init() reads the browser's own subscription.
Load(p, b, t) ==
    /\ pages[p].pc = "closed" /\ requests[p].stage = "none"
    /\ Cardinality(TabsOf(b)) < MaxTabs
    /\ pages' = [pages EXCEPT ![p] =
                    [pc |-> "ready", browser |-> b, topic |-> t, sub |-> sub[b],
                     enabled |-> Subscribed(session[b], t) /\ sub[b] # None,
                     token |-> TRUE]]
    /\ UNCHANGED <<sub, session, issued, rows, requests, fanout, told, asked, clicks, losses>>

\* The tab is closed; the server does not notice.
Close(p) ==
    /\ pages[p].pc # "closed"
    /\ pages' = [pages EXCEPT ![p] = Closed]
    /\ UNCHANGED <<sub, session, issued, rows, requests, fanout, told, asked, clicks, losses>>

\* Somebody else logs in on the browser, which rotates its CSRF token; open pages stay open.
SwitchResident(b, r) ==
    /\ session[b] # r
    /\ session' = [session EXCEPT ![b] = r]
    /\ pages' = [p \in Pages |-> IF pages[p].browser = b
                                THEN [pages[p] EXCEPT !.token = FALSE] ELSE pages[p]]
    /\ told' = [told EXCEPT ![b] = [t \in Topics |-> "unsure"]]
    /\ UNCHANGED <<sub, issued, rows, requests, fanout, asked, clicks, losses>>

Click(p) ==
    /\ pages[p].pc = "ready" /\ requests[p].stage = "none"
    /\ clicks < MaxClicks
    /\ clicks' = clicks + 1
    /\ pages' = [pages EXCEPT ![p].pc = "waiting"]
    /\ told' = [told EXCEPT ![pages[p].browser][pages[p].topic] = "unsure"]

\* The middleware answers 403 to a page whose token is not the browser's.
Post(p, kind, e) ==
    requests' = [requests EXCEPT ![p] =
                    [NoRequest EXCEPT !.stage = IF pages[p].token THEN "sent" ELSE "failed",
                                      !.kind = kind, !.endpoint = e,
                                      !.browser = pages[p].browser, !.topic = pages[p].topic,
                                      !.user = session[pages[p].browser]]]

ClickOff(p) ==
    /\ Click(p)
    /\ pages[p].enabled /\ pages[p].sub # None
    /\ Post(p, "unsubscribe", pages[p].sub)
    /\ UNCHANGED <<sub, session, issued, rows, fanout, asked, losses>>

\* The subscription the page has, else the one the browser has, else a new one.
ClickOn(p) ==
    LET b == pages[p].browser
        held == IF pages[p].sub # None THEN pages[p].sub ELSE sub[b]
        fresh == IF held # None THEN held ELSE issued + 1
    IN  /\ Click(p)
        /\ ~(pages[p].enabled /\ pages[p].sub # None)
        /\ fresh \in Endpoints
        /\ IF held # None THEN UNCHANGED <<sub, issued>>
                          ELSE issued' = fresh /\ sub' = [sub EXCEPT ![b] = fresh]
        /\ Post(p, "subscribe", fresh)
        /\ asked' = asked \cup {<<session[b], fresh, pages[p].topic>>}
        /\ UNCHANGED <<session, rows, fanout, losses>>

\* The answer arrives.  What the resident reads is true or not: that is the question.
Receive(p) ==
    LET page == pages[p]
        request == requests[p]
        off == request.kind = "unsubscribe"
        last == off /\ request.copy = {}
    IN  /\ page.pc = "waiting" /\ request.stage = "done"
        /\ pages' = [pages EXCEPT ![p].pc = "ready", ![p].enabled = ~off,
                                  ![p].sub = IF last THEN None ELSE request.endpoint]
        /\ sub' = IF last THEN Released(page.browser, request.endpoint) ELSE sub
        /\ told' = IF ~page.token THEN told
                   ELSE [told EXCEPT ![page.browser][page.topic] = IF off THEN "off" ELSE "on"]
        /\ requests' = [requests EXCEPT ![p] = NoRequest]
        /\ UNCHANGED <<session, issued, rows, fanout, asked, clicks, losses>>

\* The fetch fails, or the status is not ok: a subscription made for this click is released.
ReceiveFailure(p) ==
    LET page == pages[p]
        request == requests[p]
    IN  /\ page.pc = "waiting" /\ request.stage = "failed"
        /\ pages' = [pages EXCEPT ![p].pc = "ready"]
        /\ sub' = IF request.kind = "subscribe" /\ page.sub = None
                  THEN Released(page.browser, request.endpoint) ELSE sub
        /\ requests' = [requests EXCEPT ![p] = NoRequest]
        /\ UNCHANGED <<session, issued, rows, fanout, told, asked, clicks, losses>>

\* The network loses the request before the server has it, or the answer.
Lose(p) ==
    /\ losses < MaxLosses
    /\ requests[p].stage \in {"sent", "done"}
    /\ losses' = losses + 1
    /\ requests' = [requests EXCEPT ![p].stage = "failed"]
    /\ UNCHANGED <<sub, session, issued, rows, pages, fanout, told, asked, clicks>>

\* Nobody is waiting for the answer any more.
Drop(p) ==
    /\ pages[p].pc = "closed"
    /\ requests[p].stage \in {"done", "failed"}
    /\ requests' = [requests EXCEPT ![p] = NoRequest]
    /\ UNCHANGED <<sub, session, issued, rows, pages, fanout, told, asked, clicks, losses>>

-----------------------------------------------------------------------------
(* core.push.handle_subscription_request *)

\* Mutant: the defaults carry every topic's flag.
UpsertedForAll(row, r, t) ==
    IF row.live THEN [row EXCEPT !.user = r, !.wants = Topics]
                ELSE [live |-> TRUE, pk |-> row.pk + 1, user |-> r, wants |-> Topics]

\* update_or_create on the endpoint, under the row's lock: the row moves to this
\* resident and gains this topic.
Upserted(row, r, t) ==
    IF row.live THEN [row EXCEPT !.user = r, !.wants = @ \cup {t}]
                ELSE [live |-> TRUE, pk |-> row.pk + 1, user |-> r, wants |-> {t}]

HandleSubscribe(p) ==
    LET request == requests[p]
    IN  /\ request.stage = "sent" /\ request.kind = "subscribe"
        /\ rows' = [rows EXCEPT ![request.endpoint] = Upserted(@, request.user, request.topic)]
        /\ requests' = [requests EXCEPT ![p].stage = "done"]
        /\ UNCHANGED <<sub, session, issued, pages, fanout, told, asked, clicks, losses>>

\* Mutant: the first opt-out leaves nothing to keep the row for.
NothingRemains(wants, t) == {}

\* The topics left on the copy once this one is cleared.
Remaining(wants, t) == wants \ {t}

\* The row is looked up for this resident only, and cleared in memory.
ReadUnsubscribe(p) ==
    LET request == requests[p]
        row == rows[request.endpoint]
    IN  /\ request.stage = "sent" /\ request.kind = "unsubscribe"
        /\ requests' =
              IF row.live /\ row.user = request.user
              THEN [requests EXCEPT ![p].stage = "read", ![p].pk = row.pk,
                                    ![p].copy = Remaining(row.wants, request.topic)]
              ELSE [requests EXCEPT ![p].stage = "done"]
        /\ UNCHANGED <<sub, session, issued, rows, pages, fanout, told, asked, clicks, losses>>

\* The row that was read is still there.
StillThere(e, pk) == rows[e].live /\ rows[e].pk = pk

Cleared(row) == [row EXCEPT !.live = FALSE, !.user = None, !.wants = {}]

Without(row, t) == [row EXCEPT !.wants = @ \ {t}]

\* save(update_fields=[field]), which fails if the row is gone, or delete(), which does not.
WriteUnsubscribe(p) ==
    LET request == requests[p]
        e == request.endpoint
    IN  /\ request.stage = "read"
        /\ IF ~StillThere(e, request.pk)
           THEN UNCHANGED rows
           ELSE rows' = [rows EXCEPT ![e] = IF request.copy = {} THEN Cleared(@)
                                            ELSE Without(@, request.topic)]
        /\ requests' = [requests EXCEPT ![p].stage =
                           IF request.copy # {} /\ ~StillThere(e, request.pk)
                           THEN "failed" ELSE "done"]
        /\ UNCHANGED <<sub, session, issued, pages, fanout, told, asked, clicks, losses>>

-----------------------------------------------------------------------------
(* core.push.send, in its background thread *)

Audience(t) == {<<e, rows[e].pk>> : e \in {e \in Endpoints : rows[e].live /\ t \in rows[e].wants}}

\* Something is posted under t.  Bound: one fan-out of a topic at a time.
Notify(t) ==
    /\ fanout[t] = {}
    /\ Audience(t) # {}
    /\ fanout' = [fanout EXCEPT ![t] = Audience(t)]
    /\ UNCHANGED <<sub, session, issued, rows, pages, requests, told, asked, clicks, losses>>

\* Mutant: an endpoint that is gone is logged and kept.
Unreaped(e, pk) == rows

\* subscription.delete()
Reaped(e, pk) == IF StillThere(e, pk) THEN [rows EXCEPT ![e] = Cleared(@)] ELSE rows

Deliver(t) ==
    \E e \in Endpoints, pk \in 0..MaxClicks :
        /\ <<e, pk>> \in fanout[t]
        /\ fanout' = [fanout EXCEPT ![t] = @ \ {<<e, pk>>}]
        /\ rows' = IF Dead(e) THEN Reaped(e, pk) ELSE rows
        /\ UNCHANGED <<sub, session, issued, pages, requests, told, asked, clicks, losses>>

\* The push service is out of reach for this endpoint: a warning is logged, the row is kept.
DeliveryFails(t) ==
    \E d \in fanout[t] :
        /\ losses < MaxLosses
        /\ losses' = losses + 1
        /\ fanout' = [fanout EXCEPT ![t] = @ \ {d}]
        /\ UNCHANGED <<sub, session, issued, rows, pages, requests, told, asked, clicks>>

-----------------------------------------------------------------------------

Serve(p) == HandleSubscribe(p) \/ ReadUnsubscribe(p) \/ WriteUnsubscribe(p)

Finish(p) == Receive(p) \/ ReceiveFailure(p) \/ Drop(p)

Next ==
    \/ \E p \in Pages :
        \/ \E b \in Browsers, t \in Topics : Load(p, b, t)
        \/ Close(p) \/ ClickOff(p) \/ ClickOn(p) \/ Lose(p)
        \/ Serve(p) \/ Finish(p)
    \/ \E b \in Browsers, r \in Residents : SwitchResident(b, r)
    \/ \E t \in Topics : Notify(t) \/ Deliver(t) \/ DeliveryFails(t)

Spec == Init /\ [][Next]_vars

\* Requests are served and answers read; a fan-out that is started ends; and the board
\* of every topic stays in use.
FairSpec ==
    /\ Spec
    /\ \A p \in Pages : WF_vars(Serve(p)) /\ WF_vars(Finish(p))
    /\ \A t \in Topics : WF_vars(Notify(t)) /\ WF_vars(Deliver(t))

-----------------------------------------------------------------------------

\* Notifications of t reach b.
Reaches(b, t) == sub[b] # None /\ rows[sub[b]].live /\ t \in rows[sub[b]].wants

\* "Du får nu besked" and "slået fra på denne enhed" stay true until the resident
\* clicks again: no other button, lost answer or fan-out makes a liar of them.
ToldIsTrue ==
    \A b \in Browsers, t \in Topics :
        /\ told[b][t] = "on" => Reaches(b, t)
        /\ told[b][t] = "off" => ~Reaches(b, t)

\* Nothing else ever cleans the table up: a row that a topic is sent to and whose
\* endpoint is dead is found out by the fan-out and goes, whatever the races and losses.
DeadRowsAreReaped ==
    \A e \in Endpoints, t \in Topics :
        (Dead(e) /\ rows[e].live /\ t \in rows[e].wants)
            ~> ~(rows[e].live /\ t \in rows[e].wants)

\* A device gets the notifications of a topic only after somebody clicked that topic on,
\* there: nobody is opted in by an upsert for another topic or by another's opt-out.
OnlyWhatWasClicked ==
    \A e \in Endpoints : \A t \in rows[e].wants : \E r \in Residents : <<r, e, t>> \in asked

\* Consent is one's own: what a row says of a resident, that resident has clicked.
ConsentIsOnesOwn ==
    \A e \in Endpoints :
        rows[e].live => \A t \in rows[e].wants : <<rows[e].user, e, t>> \in asked
=============================================================================
