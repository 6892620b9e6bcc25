----------------------------- MODULE PushProofs -----------------------------
(* What Push guarantees for every set of residents, browsers, tabs and topics. *)
EXTENDS Push, FiniteSetTheorems, TLAPS

-----------------------------------------------------------------------------
(* Types *)

LEMMA ClosedIsPage == Closed \in Page
  BY DEF Closed, Page

LEMMA NoRequestIsRequest == NoRequest \in Request
  BY DEF NoRequest, Request

\* A request that is answered a step further, with its resident, topic and endpoint.
LEMMA RequestMoves ==
  ASSUME TypeOK, NEW p \in Pages, NEW new \in Request, requests' = [requests EXCEPT ![p] = new],
         new.stage # "none" => /\ new.browser \in Browsers /\ new.user \in Residents
                               /\ new.topic \in Topics /\ new.endpoint \in Endpoints
  PROVE  /\ requests' \in [Pages -> Request]
         /\ \A q \in Pages : requests'[q].stage # "none" => /\ requests'[q].browser \in Browsers
                                                             /\ requests'[q].user \in Residents
                                                             /\ requests'[q].topic \in Topics
                                                             /\ requests'[q].endpoint \in Endpoints
  <1>1. requests \in [Pages -> Request]
    BY DEF TypeOK
  <1>2. requests' \in [Pages -> Request]
    BY <1>1
  <1>3. ASSUME NEW q \in Pages, requests'[q].stage # "none"
        PROVE  /\ requests'[q].browser \in Browsers /\ requests'[q].user \in Residents
               /\ requests'[q].topic \in Topics /\ requests'[q].endpoint \in Endpoints
    <2>1. CASE q = p
      BY <2>1, <1>1, <1>3
    <2>2. CASE q # p
      <3>1. requests'[q] = requests[q]
        BY <2>2, <1>1
      <3> QED
        BY <3>1, <1>3 DEF TypeOK
    <2> QED
      BY <2>1, <2>2
  <1> QED
    BY <1>2, <1>3

\* A row that is deleted, or loses a topic, is a row still and wants no more than before.
LEMMA RowsShrink ==
  ASSUME TypeOK, NEW e \in Endpoints, NEW t,
         \/ rows' = rows
         \/ rows' = [rows EXCEPT ![e] = Cleared(rows[e])]
         \/ rows' = [rows EXCEPT ![e] = Without(rows[e], t)]
  PROVE  /\ rows' \in [Endpoints -> Row]
         /\ \A f \in Endpoints : rows'[f].live => rows'[f].user \in Residents
         /\ \A f \in Endpoints : rows'[f].wants \subseteq rows[f].wants
  <1>1. /\ rows \in [Endpoints -> Row] /\ rows[e] \in Row
        /\ \A f \in Endpoints : rows[f].live => rows[f].user \in Residents
    BY DEF TypeOK
  <1>2. ASSUME NEW new \in Row, rows' = [rows EXCEPT ![e] = new],
               new.live => rows[e].live /\ new.user = rows[e].user, new.wants \subseteq rows[e].wants
        PROVE  /\ rows' \in [Endpoints -> Row]
               /\ \A f \in Endpoints : rows'[f].live => rows'[f].user \in Residents
               /\ \A f \in Endpoints : rows'[f].wants \subseteq rows[f].wants
    BY <1>1, <1>2
  <1>3. CASE rows' = rows
    BY <1>1, <1>3
  <1>4. CASE rows' = [rows EXCEPT ![e] = Cleared(rows[e])]
    <2>1. /\ Cleared(rows[e]) \in Row /\ ~Cleared(rows[e]).live
          /\ Cleared(rows[e]).wants \subseteq rows[e].wants
      BY <1>1 DEF Cleared, Row
    <2> QED
      BY <1>2, <1>4, <2>1
  <1>5. CASE rows' = [rows EXCEPT ![e] = Without(rows[e], t)]
    <2> DEFINE new == Without(rows[e], t)
    <2>1. /\ new \in Row /\ new.live = rows[e].live /\ new.user = rows[e].user
          /\ new.wants \subseteq rows[e].wants
      BY <1>1 DEF Row, Without
    <2>2. rows' = [rows EXCEPT ![e] = new]
      BY <1>5
    <2> HIDE DEF new
    <2> QED
      BY <1>2, <2>1, <2>2
  <1> QED
    BY <1>3, <1>4, <1>5

\* What WriteUnsubscribe and Deliver do to the table is one of those.
LEMMA WriteShrinks ==
  ASSUME TypeOK, NEW p \in Pages, WriteUnsubscribe(p)
  PROVE  /\ rows' \in [Endpoints -> Row]
         /\ \A f \in Endpoints : rows'[f].live => rows'[f].user \in Residents
         /\ \A f \in Endpoints : rows'[f].wants \subseteq rows[f].wants
  <1> DEFINE e == requests[p].endpoint
             t == requests[p].topic
  <1>1. e \in Endpoints
    BY DEF TypeOK, WriteUnsubscribe
  <1>2. \/ rows' = rows
        \/ rows' = [rows EXCEPT ![e] = Cleared(rows[e])]
        \/ rows' = [rows EXCEPT ![e] = Without(rows[e], t)]
    <2>1. CASE ~StillThere(e, requests[p].pk)
      BY <2>1 DEF WriteUnsubscribe
    <2>2. CASE StillThere(e, requests[p].pk) /\ requests[p].copy = {}
      BY <2>2 DEF WriteUnsubscribe
    <2>3. CASE StillThere(e, requests[p].pk) /\ requests[p].copy # {}
      BY <2>3 DEF WriteUnsubscribe
    <2> QED
      BY <2>1, <2>2, <2>3
  <1> HIDE DEF e, t
  <1> QED
    BY <1>1, <1>2, RowsShrink

LEMMA DeliverShrinks ==
  ASSUME TypeOK, NEW t \in Topics, Deliver(t)
  PROVE  /\ rows' \in [Endpoints -> Row]
         /\ \A f \in Endpoints : rows'[f].live => rows'[f].user \in Residents
         /\ \A f \in Endpoints : rows'[f].wants \subseteq rows[f].wants
  <1>1. PICK e \in Endpoints, pk \in 0..MaxClicks : rows' = IF Dead(e) THEN Reaped(e, pk) ELSE rows
    BY DEF Deliver
  <1>2. rows' = rows \/ rows' = [rows EXCEPT ![e] = Cleared(rows[e])]
    BY <1>1 DEF Reaped
  <1> QED
    BY <1>2, RowsShrink

\* What a tab posts is a request of a resident, for a topic, on an endpoint.
LEMMA PostKeepsType ==
  ASSUME TypeOK, NEW p \in Pages, pages[p].pc # "closed",
         NEW kind \in {"subscribe", "unsubscribe"}, NEW e \in Endpoints, Post(p, kind, e)
  PROVE  /\ requests' \in [Pages -> Request]
         /\ \A q \in Pages : requests'[q].stage # "none" => /\ requests'[q].browser \in Browsers
                                                             /\ requests'[q].user \in Residents
                                                             /\ requests'[q].topic \in Topics
                                                             /\ requests'[q].endpoint \in Endpoints
  <1> DEFINE new == [NoRequest EXCEPT !.stage = IF pages[p].token THEN "sent" ELSE "failed",
                                      !.kind = kind, !.endpoint = e,
                                      !.browser = pages[p].browser, !.topic = pages[p].topic,
                                      !.user = session[pages[p].browser]]
  <1>1. pages[p].browser \in Browsers /\ pages[p].topic \in Topics
    BY DEF TypeOK
  <1>2. session[pages[p].browser] \in Residents
    BY <1>1 DEF TypeOK
  <1>3. /\ new \in Request
        /\ new.browser \in Browsers /\ new.user \in Residents
        /\ new.topic \in Topics /\ new.endpoint \in Endpoints
    BY <1>1, <1>2 DEF Request, NoRequest
  <1>4. requests' = [requests EXCEPT ![p] = new]
    BY DEF Post
  <1> HIDE DEF new
  <1> QED
    BY <1>3, <1>4, RequestMoves

\* The counter and the message a click moves.
LEMMA ClickKeepsType ==
  ASSUME TypeOK, NEW p \in Pages, Click(p)
  PROVE  /\ pages[p].pc # "closed"
         /\ pages' \in [Pages -> Page]
         /\ \A q \in Pages : pages'[q].pc # "closed" => /\ pages'[q].browser \in Browsers
                                                         /\ pages'[q].topic \in Topics
         /\ told' \in [Browsers -> [Topics -> {"on", "off", "unsure"}]]
         /\ clicks' \in 0..MaxClicks
  <1>1. pages[p].browser \in Browsers /\ pages[p].topic \in Topics
    BY DEF TypeOK, Click
  <1>2. pages' \in [Pages -> Page] /\ told' \in [Browsers -> [Topics -> {"on", "off", "unsure"}]]
    BY <1>1 DEF TypeOK, Click, Page
  <1>3. ASSUME NEW q \in Pages, pages'[q].pc # "closed"
        PROVE  pages'[q].browser \in Browsers /\ pages'[q].topic \in Topics
    BY <1>1, <1>3 DEF TypeOK, Click, Page
  <1>4. clicks' \in 0..MaxClicks
    BY PushAssumption DEF TypeOK, Click, PushAssumption
  <1> QED
    BY <1>2, <1>3, <1>4 DEF Click

\* The tabs: loading, closing, clicking, reading an answer.
LEMMA BrowserKeepsType ==
  ASSUME TypeOK, NEW p \in Pages,
         \/ \E b \in Browsers, t \in Topics : Load(p, b, t)
         \/ Close(p) \/ ClickOff(p) \/ ClickOn(p) \/ Lose(p) \/ Finish(p)
  PROVE  TypeOK'
  <1>1. ASSUME NEW b \in Browsers, NEW t \in Topics, Load(p, b, t)
        PROVE  TypeOK'
    <2>1. [pc |-> "ready", browser |-> b, topic |-> t, sub |-> sub[b],
           enabled |-> Subscribed(session[b], t) /\ sub[b] # None, token |-> TRUE] \in Page
      <3>1. (Subscribed(session[b], t) /\ sub[b] # None) \in BOOLEAN
        BY DEF Subscribed
      <3> QED
        BY <3>1 DEF TypeOK, Page
    <2> QED
      BY <1>1, <2>1 DEF TypeOK, Load
  <1>2. CASE Close(p)
    BY <1>2, ClosedIsPage DEF TypeOK, Close, Closed
  <1>3. CASE ClickOff(p)
    <2>1. pages[p].sub \in Endpoints
      BY <1>3 DEF TypeOK, ClickOff, Page
    <2> QED
      BY <1>3, <2>1, ClickKeepsType, PostKeepsType DEF TypeOK, ClickOff
  <1>4. CASE ClickOn(p)
    <2> DEFINE b == pages[p].browser
               held == IF pages[p].sub # None THEN pages[p].sub ELSE sub[b]
               fresh == IF held # None THEN held ELSE issued + 1
    <2>1. b \in Browsers /\ pages[p].topic \in Topics /\ pages[p].pc # "closed"
      BY <1>4 DEF TypeOK, ClickOn, Click
    <2>2. fresh \in Endpoints
      BY <1>4 DEF ClickOn
    <2>3. sub' \in [Browsers -> Endpoints \cup {None}] /\ issued' \in 0..MaxEndpoints
      <3>1. CASE held # None
        BY <1>4, <3>1 DEF TypeOK, ClickOn
      <3>2. CASE held = None
        <4>1. issued' = fresh /\ sub' = [sub EXCEPT ![b] = fresh]
          BY <1>4, <3>2 DEF ClickOn
        <4>2. fresh \in 0..MaxEndpoints
          BY <2>2, PushAssumption DEF Endpoints, PushAssumption
        <4> HIDE DEF fresh
        <4> QED
          BY <4>1, <4>2, <2>1, <2>2 DEF TypeOK
      <3> QED
        BY <3>1, <3>2
    <2>4. asked' \subseteq Residents \X Endpoints \X Topics
      <3>1. <<session[b], fresh, pages[p].topic>> \in Residents \X Endpoints \X Topics
        BY <2>1, <2>2 DEF TypeOK
      <3>2. asked' = asked \cup {<<session[b], fresh, pages[p].topic>>}
        BY <1>4 DEF ClickOn
      <3> QED
        BY <3>1, <3>2 DEF TypeOK
    <2>5. Click(p) /\ Post(p, "subscribe", fresh)
      BY <1>4 DEF ClickOn
    <2>6. UNCHANGED <<session, rows, fanout, losses>>
      BY <1>4 DEF ClickOn
    <2> HIDE DEF fresh, b
    <2> QED
      BY <2>1, <2>2, <2>3, <2>4, <2>5, <2>6, ClickKeepsType, PostKeepsType DEF TypeOK
  <1>5. CASE Lose(p)
    <2>1. losses' \in 0..MaxLosses
      BY <1>5, PushAssumption DEF TypeOK, Lose, PushAssumption
    <2> DEFINE new == [requests[p] EXCEPT !.stage = "failed"]
    <2>2. /\ requests[p] \in Request /\ requests[p].browser \in Browsers
          /\ requests[p].user \in Residents /\ requests[p].topic \in Topics
          /\ requests[p].endpoint \in Endpoints
      BY <1>5 DEF TypeOK, Lose
    <2>3. /\ new \in Request /\ new.browser \in Browsers /\ new.user \in Residents
          /\ new.topic \in Topics /\ new.endpoint \in Endpoints
      BY <2>2 DEF Request
    <2>4. requests' = [requests EXCEPT ![p] = new]
      BY <1>5 DEF Lose
    <2> HIDE DEF new
    <2>5. /\ requests' \in [Pages -> Request]
          /\ \A q \in Pages : requests'[q].stage # "none" => /\ requests'[q].browser \in Browsers
                                                              /\ requests'[q].user \in Residents
                                                              /\ requests'[q].topic \in Topics
                                                              /\ requests'[q].endpoint \in Endpoints
      BY <2>3, <2>4, RequestMoves
    <2> QED
      BY <1>5, <2>1, <2>5 DEF TypeOK, Lose
  <1>6. CASE Receive(p)
    <2>1. /\ pages[p].browser \in Browsers /\ pages[p].topic \in Topics
          /\ requests[p].endpoint \in Endpoints
      BY <1>6 DEF TypeOK, Receive
    <2>2. pages' \in [Pages -> Page]
      <3> DEFINE off == requests[p].kind = "unsubscribe"
                 new == [pages[p] EXCEPT !.pc = "ready", !.enabled = ~off,
                           !.sub = IF off /\ requests[p].copy = {} THEN None
                                   ELSE requests[p].endpoint]
      <3>1. pages[p] \in Page /\ (~off) \in BOOLEAN
        BY DEF TypeOK
      <3>2. new \in Page
        BY <2>1, <3>1 DEF Page
      <3>3. pages' = [pages EXCEPT ![p] = new]
        BY <1>6 DEF Receive
      <3> HIDE DEF new
      <3> QED
        BY <3>2, <3>3 DEF TypeOK
    <2>3. \A q \in Pages : pages'[q].pc # "closed" => /\ pages'[q].browser \in Browsers
                                                       /\ pages'[q].topic \in Topics
      BY <1>6, <2>1 DEF TypeOK, Receive, Page
    <2>4. sub' \in [Browsers -> Endpoints \cup {None}]
      BY <1>6, <2>1 DEF TypeOK, Receive, Released
    <2>5. told' \in [Browsers -> [Topics -> {"on", "off", "unsure"}]]
      BY <1>6, <2>1 DEF TypeOK, Receive
    <2>6. requests' \in [Pages -> Request]
      BY <1>6, NoRequestIsRequest DEF TypeOK, Receive
    <2>7. \A q \in Pages : requests'[q].stage # "none" => requests'[q] = requests[q]
      BY <1>6 DEF TypeOK, Receive, NoRequest
    <2> QED
      BY <1>6, <2>2, <2>3, <2>4, <2>5, <2>6, <2>7 DEF TypeOK, Receive
  <1>7. CASE ReceiveFailure(p)
    <2>1. /\ pages[p].browser \in Browsers /\ pages[p].topic \in Topics
          /\ requests[p].endpoint \in Endpoints
      BY <1>7 DEF TypeOK, ReceiveFailure
    <2>2. pages' \in [Pages -> Page]
      <3> DEFINE new == [pages[p] EXCEPT !.pc = "ready"]
      <3>1. new \in Page
        BY DEF TypeOK, Page
      <3>2. pages' = [pages EXCEPT ![p] = new]
        BY <1>7 DEF ReceiveFailure
      <3> HIDE DEF new
      <3> QED
        BY <3>1, <3>2 DEF TypeOK
    <2>3. \A q \in Pages : pages'[q].pc # "closed" => /\ pages'[q].browser \in Browsers
                                                       /\ pages'[q].topic \in Topics
      BY <1>7, <2>1 DEF TypeOK, ReceiveFailure, Page
    <2>4. sub' \in [Browsers -> Endpoints \cup {None}]
      BY <1>7, <2>1 DEF TypeOK, ReceiveFailure, Released
    <2>5. requests' \in [Pages -> Request]
      BY <1>7, NoRequestIsRequest DEF TypeOK, ReceiveFailure
    <2>6. \A q \in Pages : requests'[q].stage # "none" => requests'[q] = requests[q]
      BY <1>7 DEF TypeOK, ReceiveFailure, NoRequest
    <2> QED
      BY <1>7, <2>2, <2>3, <2>4, <2>5, <2>6 DEF TypeOK, ReceiveFailure
  <1>8. CASE Drop(p)
    <2>1. requests' \in [Pages -> Request]
      BY <1>8, NoRequestIsRequest DEF TypeOK, Drop
    <2>2. \A q \in Pages : requests'[q].stage # "none" => requests'[q] = requests[q]
      BY <1>8 DEF TypeOK, Drop, NoRequest
    <2> QED
      BY <1>8, <2>1, <2>2 DEF TypeOK, Drop
  <1> QED
    BY <1>1, <1>2, <1>3, <1>4, <1>5, <1>6, <1>7, <1>8 DEF Finish

\* The server answering a request.
LEMMA ServeKeepsType ==
  ASSUME TypeOK, NEW p \in Pages, Serve(p)
  PROVE  TypeOK'
  <1> DEFINE e == requests[p].endpoint
  <1>0. /\ e \in Endpoints /\ requests[p].user \in Residents /\ requests[p].topic \in Topics
        /\ requests[p] \in Request /\ rows[e] \in Row
    BY DEF TypeOK, Serve, HandleSubscribe, ReadUnsubscribe, WriteUnsubscribe
  <1>01. requests[p].browser \in Browsers
    BY DEF TypeOK, Serve, HandleSubscribe, ReadUnsubscribe, WriteUnsubscribe
  <1>A. ASSUME NEW stage \in {"read", "done", "failed"}, NEW pk \in Nat, NEW copy \in SUBSET Topics,
               requests' = [requests EXCEPT ![p] =
                              [requests[p] EXCEPT !.stage = stage, !.pk = pk, !.copy = copy]]
        PROVE  /\ requests' \in [Pages -> Request]
               /\ \A q \in Pages : requests'[q].stage # "none" =>
                     /\ requests'[q].browser \in Browsers /\ requests'[q].user \in Residents
                     /\ requests'[q].topic \in Topics /\ requests'[q].endpoint \in Endpoints
    <2> DEFINE new == [requests[p] EXCEPT !.stage = stage, !.pk = pk, !.copy = copy]
    <2>1. /\ new \in Request /\ new.browser \in Browsers /\ new.user \in Residents
          /\ new.topic \in Topics /\ new.endpoint \in Endpoints
      BY <1>0, <1>01 DEF Request
    <2>2. requests' = [requests EXCEPT ![p] = new]
      BY <1>A
    <2> HIDE DEF new
    <2> QED
      BY <2>1, <2>2, RequestMoves
  <1>B. ASSUME NEW stage \in {"read", "done", "failed"},
               requests' = [requests EXCEPT ![p].stage = stage]
        PROVE  /\ requests' \in [Pages -> Request]
               /\ \A q \in Pages : requests'[q].stage # "none" =>
                     /\ requests'[q].browser \in Browsers /\ requests'[q].user \in Residents
                     /\ requests'[q].topic \in Topics /\ requests'[q].endpoint \in Endpoints
    <2>1. [requests[p] EXCEPT !.stage = stage]
            = [requests[p] EXCEPT !.stage = stage, !.pk = requests[p].pk, !.copy = requests[p].copy]
      BY <1>0 DEF Request
    <2>2. requests[p].pk \in Nat /\ requests[p].copy \in SUBSET Topics
      BY <1>0 DEF Request
    <2> QED
      BY <1>A, <1>B, <2>1, <2>2
  <1>1. CASE HandleSubscribe(p)
    <2> DEFINE row == Upserted(rows[e], requests[p].user, requests[p].topic)
    <2>1. row \in Row /\ row.user \in Residents
      <3>1. CASE rows[e].live
        BY <1>0, <3>1 DEF Row, Upserted
      <3>2. CASE ~rows[e].live
        <4>1. rows[e].pk + 1 \in Nat
          BY <1>0 DEF Row
        <4> QED
          BY <1>0, <3>2, <4>1 DEF Row, Upserted
      <3> QED
        BY <3>1, <3>2
    <2>2. rows' = [rows EXCEPT ![e] = row]
      BY <1>1 DEF HandleSubscribe
    <2> HIDE DEF row, e
    <2>3. rows' \in [Endpoints -> Row] /\ \A f \in Endpoints : rows'[f].live => rows'[f].user \in Residents
      BY <1>0, <2>1, <2>2 DEF TypeOK
    <2>4. requests' = [requests EXCEPT ![p].stage = "done"]
      BY <1>1 DEF HandleSubscribe
    <2> QED
      BY <1>1, <1>B, <2>3, <2>4 DEF TypeOK, HandleSubscribe
  <1>2. CASE ReadUnsubscribe(p)
    <2>1. rows[e].pk \in Nat /\ Remaining(rows[e].wants, requests[p].topic) \in SUBSET Topics
      BY <1>0 DEF Row, Remaining
    <2>2. \/ requests' = [requests EXCEPT ![p].stage = "done"]
          \/ requests' = [requests EXCEPT ![p] = [requests[p] EXCEPT !.stage = "read", !.pk = rows[e].pk,
                                   !.copy = Remaining(rows[e].wants, requests[p].topic)]]
      BY <1>2 DEF ReadUnsubscribe
    <2>3. /\ requests' \in [Pages -> Request]
          /\ \A q \in Pages : requests'[q].stage # "none" =>
                /\ requests'[q].browser \in Browsers /\ requests'[q].user \in Residents
                /\ requests'[q].topic \in Topics /\ requests'[q].endpoint \in Endpoints
      <3> HIDE DEF e
      <3> QED
        BY <1>A, <1>B, <2>1, <2>2
    <2> QED
      BY <1>2, <2>3 DEF TypeOK, ReadUnsubscribe
  <1>3. CASE WriteUnsubscribe(p)
    <2>1. PICK stage \in {"done", "failed"} : requests' = [requests EXCEPT ![p].stage = stage]
      BY <1>3 DEF WriteUnsubscribe
    <2> QED
      BY <1>3, <1>B, <2>1, WriteShrinks DEF TypeOK, WriteUnsubscribe
  <1> QED
    BY <1>1, <1>2, <1>3 DEF Serve

\* The fan-out of a notification.
LEMMA FanoutKeepsType ==
  ASSUME TypeOK, NEW t \in Topics, Notify(t) \/ Deliver(t) \/ DeliveryFails(t)
  PROVE  TypeOK'
  <1>1. CASE Notify(t)
    <2>1. Audience(t) \in SUBSET (Endpoints \X Nat)
      BY DEF TypeOK, Audience, Row
    <2> QED
      BY <1>1, <2>1 DEF TypeOK, Notify
  <1>2. CASE Deliver(t)
    BY <1>2, DeliverShrinks DEF TypeOK, Deliver
  <1>3. CASE DeliveryFails(t)
    BY <1>3, PushAssumption DEF TypeOK, DeliveryFails, PushAssumption
  <1> QED
    BY <1>1, <1>2, <1>3

\* TypeOK holds of every behaviour of push.ts, core.push and the fan-out.
THEOREM TypeCorrect == Spec => []TypeOK
  <1>1. Init => TypeOK
    BY PushAssumption, ClosedIsPage, NoRequestIsRequest
       DEF Init, TypeOK, Closed, NoRequest, Row, PushAssumption
  <1>2. TypeOK /\ [Next]_vars => TypeOK'
    <2> SUFFICES ASSUME TypeOK, [Next]_vars
                 PROVE  TypeOK'
      OBVIOUS
    <2>1. ASSUME NEW b \in Browsers, NEW r \in Residents, SwitchResident(b, r)
          PROVE  TypeOK'
      <3>1. pages' = [p \in Pages |-> IF pages[p].browser = b
                                      THEN [pages[p] EXCEPT !.token = FALSE] ELSE pages[p]]
        BY <2>1 DEF SwitchResident
      <3>2. ASSUME NEW p \in Pages
            PROVE  /\ [pages[p] EXCEPT !.token = FALSE] \in Page
                   /\ [pages[p] EXCEPT !.token = FALSE].pc = pages[p].pc
                   /\ [pages[p] EXCEPT !.token = FALSE].browser = pages[p].browser
                   /\ [pages[p] EXCEPT !.token = FALSE].topic = pages[p].topic
        BY DEF TypeOK, Page
      <3>3. /\ pages' \in [Pages -> Page]
            /\ \A p \in Pages : pages'[p].pc # "closed" => /\ pages'[p].browser \in Browsers
                                                           /\ pages'[p].topic \in Topics
        BY <3>1, <3>2 DEF TypeOK
      <3> QED
        BY <2>1, <3>3 DEF TypeOK, SwitchResident
    <2>2. CASE UNCHANGED vars
      BY <2>2 DEF TypeOK, vars
    <2> QED
      BY <2>1, <2>2, BrowserKeepsType, ServeKeepsType, FanoutKeepsType DEF Next
  <1> QED
    BY <1>1, <1>2, PTL DEF Spec

-----------------------------------------------------------------------------
(* Consent *)

\* A subscribe on its way to the server is what somebody clicked.
SentIsAsked ==
    \A p \in Pages :
        (requests[p].stage = "sent" /\ requests[p].kind = "subscribe")
            => <<requests[p].user, requests[p].endpoint, requests[p].topic>> \in asked

ConsentInv == OnlyWhatWasClicked /\ SentIsAsked

\* Rows that only lose topics stay within what was clicked.
LEMMA FewerTopics ==
  ASSUME OnlyWhatWasClicked, asked \subseteq asked',
         \A e \in Endpoints : rows'[e].wants \subseteq rows[e].wants
  PROVE  OnlyWhatWasClicked'
  BY DEF OnlyWhatWasClicked

\* Requests that are answered, lost or dropped leave the rest of them as they were.
LEMMA NothingNewSent ==
  ASSUME SentIsAsked, asked \subseteq asked',
         \A p \in Pages : \/ requests'[p].stage # "sent"
                          \/ requests'[p] = requests[p]
  PROVE  SentIsAsked'
  BY DEF SentIsAsked

LEMMA ConsentInvStep == TypeOK /\ ConsentInv /\ [Next]_vars => ConsentInv'
  <1> SUFFICES ASSUME TypeOK, ConsentInv, [Next]_vars
               PROVE  ConsentInv'
    OBVIOUS
  <1> USE DEF ConsentInv
  <1>1. ASSUME NEW p \in Pages, HandleSubscribe(p)
        PROVE  ConsentInv'
    <2> DEFINE q == requests[p]
    <2>1. /\ q.endpoint \in Endpoints /\ q.user \in Residents
          /\ <<q.user, q.endpoint, q.topic>> \in asked
      BY <1>1 DEF TypeOK, HandleSubscribe, SentIsAsked
    <2>2. asked' = asked
      BY <1>1 DEF HandleSubscribe
    <2>3. ASSUME NEW e \in Endpoints, NEW t \in rows'[e].wants
          PROVE  \E r \in Residents : <<r, e, t>> \in asked'
      <3>1. CASE e = q.endpoint /\ t = q.topic
        BY <3>1, <2>1, <2>2
      <3>2. CASE ~(e = q.endpoint /\ t = q.topic)
        <4>1. t \in rows[e].wants
          BY <1>1, <2>3, <3>2 DEF HandleSubscribe, Upserted, TypeOK, Row
        <4> QED
          BY <4>1, <2>2 DEF OnlyWhatWasClicked
      <3> QED
        BY <3>1, <3>2
    <2>4. SentIsAsked'
      BY <1>1, <2>2, NothingNewSent DEF HandleSubscribe, TypeOK, Request
    <2> QED
      BY <2>3, <2>4 DEF OnlyWhatWasClicked
  <1>2. ASSUME NEW p \in Pages, ReadUnsubscribe(p) \/ WriteUnsubscribe(p)
        PROVE  ConsentInv'
    <2>1. asked' = asked
      BY <1>2 DEF ReadUnsubscribe, WriteUnsubscribe
    <2>2. \A e \in Endpoints : rows'[e].wants \subseteq rows[e].wants
      BY <1>2, WriteShrinks DEF ReadUnsubscribe
    <2>3. \A q \in Pages : requests'[q].stage # "sent" \/ requests'[q] = requests[q]
      BY <1>2 DEF ReadUnsubscribe, WriteUnsubscribe, TypeOK, Request
    <2> QED
      BY <2>1, <2>2, <2>3, FewerTopics, NothingNewSent
  <1>3. ASSUME NEW p \in Pages, Lose(p) \/ Finish(p)
        PROVE  ConsentInv'
    <2>1. UNCHANGED <<asked, rows>>
      BY <1>3 DEF Lose, Finish, Receive, ReceiveFailure, Drop
    <2>2. \A q \in Pages : requests'[q].stage # "sent" \/ requests'[q] = requests[q]
      BY <1>3 DEF Lose, Finish, Receive, ReceiveFailure, Drop, TypeOK, Request, NoRequest
    <2> QED
      BY <2>1, <2>2, FewerTopics, NothingNewSent
  <1>4. ASSUME NEW p \in Pages, ClickOff(p)
        PROVE  ConsentInv'
    <2>1. UNCHANGED <<asked, rows>>
      BY <1>4 DEF ClickOff
    <2>2. SentIsAsked'
      BY <1>4, <2>1 DEF SentIsAsked, ClickOff, Post, NoRequest, TypeOK
    <2> QED
      BY <2>1, <2>2, FewerTopics
  <1>5. ASSUME NEW p \in Pages, ClickOn(p)
        PROVE  ConsentInv'
    <2> DEFINE b == pages[p].browser
               held == IF pages[p].sub # None THEN pages[p].sub ELSE sub[b]
               fresh == IF held # None THEN held ELSE issued + 1
    <2>1. rows' = rows /\ asked' = asked \cup {<<session[b], fresh, pages[p].topic>>}
      BY <1>5 DEF ClickOn
    <2>2. Post(p, "subscribe", fresh)
      BY <1>5 DEF ClickOn
    <2> HIDE DEF fresh
    <2>3. /\ requests'[p].user = session[b] /\ requests'[p].endpoint = fresh
          /\ requests'[p].topic = pages[p].topic
      BY <2>2 DEF Post, NoRequest, TypeOK
    <2>4. \A q \in Pages \ {p} : requests'[q] = requests[q]
      BY <2>2 DEF Post, TypeOK
    <2>5. SentIsAsked'
      BY <2>1, <2>3, <2>4 DEF SentIsAsked
    <2> QED
      BY <2>1, <2>5, FewerTopics
  <1>6. ASSUME NEW p \in Pages, Close(p) \/ \E b \in Browsers, t \in Topics : Load(p, b, t)
        PROVE  ConsentInv'
    BY <1>6, FewerTopics, NothingNewSent DEF Close, Load
  <1>7. ASSUME NEW b \in Browsers, NEW r \in Residents, SwitchResident(b, r)
        PROVE  ConsentInv'
    BY <1>7, FewerTopics, NothingNewSent DEF SwitchResident
  <1>8. ASSUME NEW t \in Topics, Notify(t) \/ Deliver(t) \/ DeliveryFails(t)
        PROVE  ConsentInv'
    <2>1. UNCHANGED <<asked, requests>>
      BY <1>8 DEF Notify, Deliver, DeliveryFails
    <2>2. \A e \in Endpoints : rows'[e].wants \subseteq rows[e].wants
      BY <1>8, DeliverShrinks DEF Notify, DeliveryFails
    <2> QED
      BY <2>1, <2>2, FewerTopics, NothingNewSent
  <1>9. CASE UNCHANGED vars
    BY <1>9, FewerTopics, NothingNewSent DEF vars
  <1> QED
    BY <1>1, <1>2, <1>3, <1>4, <1>5, <1>6, <1>7, <1>8, <1>9 DEF Next, Serve

\* Whatever the tabs, the losses, the logins and the fan-outs: a device is sent a topic
\* only after somebody clicked that topic on, there (core.push.handle_subscription_request
\* writes one consent column and no other).
THEOREM ConsentIsClicked == Spec => []OnlyWhatWasClicked
  <1>1. Init => ConsentInv
    BY DEF Init, ConsentInv, OnlyWhatWasClicked, SentIsAsked, NoRequest
  <1>2. ConsentInv => OnlyWhatWasClicked
    BY DEF ConsentInv
  <1> QED
    BY <1>1, <1>2, ConsentInvStep, TypeCorrect, PTL DEF Spec

-----------------------------------------------------------------------------
(* What a resident was told, on a browser with one tab *)

\* A tab knows its browser's endpoint, but for the one it has just asked for; once somebody else has
\* logged in it can tell him nothing.
PageFits(p) ==
    LET b == pages[p].browser
    IN  /\ requests[p].stage # "none" =>
              requests[p].browser = b /\ requests[p].topic = pages[p].topic
        /\ pages[p].pc = "ready" => requests[p].stage = "none" /\ pages[p].sub = sub[b]
        /\ pages[p].pc = "waiting" =>
              /\ requests[p].stage # "none"
              /\ \/ pages[p].sub = sub[b]
                 \/ /\ pages[p].sub = None
                    /\ requests[p].kind = "subscribe"
                    /\ \A t \in Topics : told[b][t] # "on"
        /\ ~pages[p].token => \A t \in Topics : told[b][t] = "unsure"
        /\ pages[p].token /\ requests[p].stage # "none" => requests[p].user = session[b]

\* A request is about the endpoint that its browser holds, and about a topic of which the resident knows
\* that he does not know; what has been read, done or left undone is what the row says.
RequestFits(p) ==
    LET request == requests[p]
        b == request.browser
        row == rows[request.endpoint]
    IN  /\ request.endpoint = sub[b]
        /\ told[b][request.topic] = "unsure"
        /\ request.user # session[b] => \A t \in Topics : told[b][t] = "unsure"
        /\ request.stage = "sent" => request.copy = {}
        /\ request.stage = "read" =>
              /\ request.kind = "unsubscribe"
              /\ row.live => row.pk = request.pk /\ request.copy = row.wants \ {request.topic}
        /\ request.stage = "done" /\ request.kind = "subscribe" =>
              row.live /\ request.topic \in row.wants /\ row.user = request.user
        /\ request.stage = "done" /\ request.kind = "unsubscribe" =>
              IF request.copy = {} THEN \A t \in Topics : told[b][t] # "on"
              ELSE ~(row.live /\ request.topic \in row.wants)

\* What was said to the one who is logged in is so, of a row of his.
ToldFits(b, t) ==
    /\ told[b][t] = "on" => Reaches(b, t) /\ rows[sub[b]].user = session[b]
    /\ told[b][t] = "off" => ~Reaches(b, t)

\* One tab a browser, and the request that a closed one may have left.
BrowserFits(b) ==
    /\ \A p, q \in TabsOf(b) : p = q
    /\ \A p \in Pages : pages[p].pc # "closed" /\ pages[p].browser = b => PageFits(p)
    /\ \A p \in Pages : requests[p].stage # "none" /\ requests[p].browser = b => RequestFits(p)
    /\ \A t \in Topics : ToldFits(b, t)

\* No endpoint is two browsers', and none has a row before it is handed out.
EndpointsApart ==
    /\ \A b \in Browsers : sub[b] # None =>
          sub[b] <= issued /\ \A c \in Browsers : sub[c] = sub[b] => c = b
    /\ \A e \in Endpoints : rows[e].live => e <= issued

TabInv == EndpointsApart /\ \A b \in Browsers : BrowserFits(b)

\* What happens in other browsers does not matter to one.
LEMMA OthersFit ==
  ASSUME TypeOK, NEW b \in Browsers, BrowserFits(b),
         sub'[b] = sub[b], session'[b] = session[b], told'[b] = told[b],
         sub[b] # None => rows'[sub[b]] = rows[sub[b]],
         \A q \in TabsOf(b) \cup TabsOf(b)' : pages'[q] = pages[q] /\ requests'[q] = requests[q]
  PROVE  BrowserFits(b)'
  <1>1. TabsOf(b)' = TabsOf(b)
    BY DEF TabsOf
  <1>2. ASSUME NEW p \in Pages, pages'[p].pc # "closed", pages'[p].browser = b
        PROVE  PageFits(p)'
    <2>1. p \in TabsOf(b)'
      BY <1>2 DEF TabsOf
    <2>2. pages'[p] = pages[p] /\ requests'[p] = requests[p]
      BY <2>1
    <2>3. PageFits(p)
      BY <1>2, <2>2 DEF BrowserFits
    <2> QED
      BY <1>2, <2>2, <2>3 DEF PageFits
  <1>3. ASSUME NEW p \in Pages, requests'[p].stage # "none", requests'[p].browser = b
        PROVE  RequestFits(p)'
    <2>1. p \in TabsOf(b)'
      BY <1>3 DEF TabsOf
    <2>2. requests'[p] = requests[p]
      BY <2>1
    <2>3. RequestFits(p) /\ requests[p].endpoint = sub[b] /\ sub[b] # None
      BY <1>3, <2>2, PushAssumption DEF BrowserFits, RequestFits, TypeOK, Endpoints
    <2>4. rows'[requests[p].endpoint] = rows[requests[p].endpoint]
      BY <2>3
    <2> QED
      BY <1>3, <2>2, <2>3, <2>4 DEF RequestFits
  <1>4. ASSUME NEW t \in Topics PROVE ToldFits(b, t)'
    BY DEF BrowserFits, ToldFits, Reaches
  <1> QED
    BY <1>1, <1>2, <1>3, <1>4 DEF BrowserFits

\* A browser whose only tab is p.
LEMMA OnlyTab ==
  ASSUME NEW b \in Browsers, NEW p \in Pages, \A q \in TabsOf(b)' : q = p,
         pages'[p].pc # "closed" /\ pages'[p].browser = b => PageFits(p)',
         requests'[p].stage # "none" /\ requests'[p].browser = b => RequestFits(p)',
         \A t \in Topics : ToldFits(b, t)'
  PROVE  BrowserFits(b)'
  <1>1. \A q \in Pages : pages'[q].pc # "closed" /\ pages'[q].browser = b => q = p
    BY DEF TabsOf
  <1>2. \A q \in Pages : requests'[q].stage # "none" /\ requests'[q].browser = b => q = p
    BY DEF TabsOf
  <1> QED
    BY <1>1, <1>2 DEF BrowserFits

\* Browser b has this tab only, and what the tab does not touch stays: the rest of the proof is about
\* tab p of browser b.
LEMMA TabActs ==
  ASSUME TypeOK, TypeOK', TabInv, NEW b \in Browsers, NEW p \in TabsOf(b),
         \A c \in Browsers \ {b} : sub'[c] = sub[c] /\ session'[c] = session[c] /\ told'[c] = told[c],
         \A c \in Browsers \ {b} : sub[c] # None => rows'[sub[c]] = rows[sub[c]],
         \A q \in Pages \ {p} : pages'[q] = pages[q] /\ requests'[q] = requests[q],
         pages'[p].pc # "closed" => pages'[p].browser = b,
         requests'[p].stage # "none" => requests'[p].browser = b
  PROVE  /\ \A c \in Browsers \ {b} : BrowserFits(c)'
         /\ \A q \in TabsOf(b)' : q = p
         /\ pages[p].pc # "closed" => pages[p].browser = b
         /\ requests[p].stage # "none" => requests[p].browser = b
  <1>1. p \in Pages /\ BrowserFits(b)
    BY DEF TabsOf, TabInv
  <1>2. \A q \in TabsOf(b) : q = p
    BY DEF BrowserFits, TabInv
  <1>3. pages[p].pc # "closed" /\ requests[p].stage # "none" => pages[p].browser = requests[p].browser
    <2> SUFFICES ASSUME pages[p].pc # "closed", requests[p].stage # "none"
                 PROVE  pages[p].browser = requests[p].browser
      OBVIOUS
    <2>1. pages[p].browser \in Browsers
      BY <1>1 DEF TypeOK
    <2> QED
      BY <1>1, <2>1 DEF TabInv, BrowserFits, PageFits
  <1>4. /\ pages[p].pc # "closed" => pages[p].browser = b
        /\ requests[p].stage # "none" => requests[p].browser = b
    BY <1>3 DEF TabsOf
  <1>5. \A q \in TabsOf(b)' : q = p
    <2> SUFFICES ASSUME NEW q \in TabsOf(b)', q # p PROVE FALSE
      OBVIOUS
    <2>1. q \in Pages /\ pages'[q] = pages[q] /\ requests'[q] = requests[q]
      BY DEF TabsOf
    <2>2. q \in TabsOf(b)
      BY <2>1 DEF TabsOf
    <2> QED
      BY <1>2, <2>2
  <1>6. ASSUME NEW c \in Browsers \ {b} PROVE BrowserFits(c)'
    <2>1. p \notin TabsOf(c) /\ p \notin TabsOf(c)'
      BY <1>4 DEF TabsOf
    <2>2. \A q \in TabsOf(c) \cup TabsOf(c)' : pages'[q] = pages[q] /\ requests'[q] = requests[q]
      BY <2>1 DEF TabsOf
    <2>3. BrowserFits(c)
      BY DEF TabInv
    <2> QED
      BY <2>2, <2>3, OthersFit
  <1> QED
    BY <1>4, <1>5, <1>6

LEMMA ApartStays ==
  ASSUME TypeOK, TypeOK', EndpointsApart, issued' = issued,
         \A b \in Browsers : sub'[b] \in {sub[b], None},
         \A e \in Endpoints : rows'[e].live => rows[e].live \/ \E b \in Browsers : sub[b] = e
  PROVE  EndpointsApart'
  <1>1. \A e \in Endpoints : e # None
    BY PushAssumption DEF Endpoints
  <1> QED
    BY <1>1 DEF EndpointsApart

LEMMA LoadFits ==
  ASSUME TypeOK, TypeOK', TabInv, MaxTabs = 1, NEW p \in Pages, NEW b \in Browsers, NEW t \in Topics,
         Load(p, b, t)
  PROVE  TabInv'
  <1>1. /\ pages \in [Pages -> Page] /\ requests' = requests /\ requests[p].stage = "none"
        /\ pages[p].pc = "closed"
        /\ sub' = sub /\ session' = session /\ told' = told /\ rows' = rows /\ issued' = issued
        /\ pages' = [pages EXCEPT ![p] =
                    [pc |-> "ready", browser |-> b, topic |-> t, sub |-> sub[b],
                     enabled |-> Subscribed(session[b], t) /\ sub[b] # None,
                     token |-> TRUE]]
    BY DEF Load, TypeOK
  <1>2. TabsOf(b) = {}
    <2>1. Cardinality(TabsOf(b)) < 1
      BY DEF Load
    <2>2. ASSUME NEW q \in TabsOf(b) PROVE FALSE
      <3>1. TabsOf(b) = {q}
        BY DEF TabInv, BrowserFits
      <3>2. Cardinality(TabsOf(b)) = 1
        BY <3>1, FS_Singleton
      <3> QED
        BY <2>1, <3>2
    <2> QED
      BY <2>2
  <1>3. /\ pages'[p].pc = "ready" /\ pages'[p].browser = b /\ pages'[p].sub = sub[b]
        /\ pages'[p].token = TRUE
        /\ \A q \in Pages \ {p} : pages'[q] = pages[q]
    BY <1>1
  <1>4. \A q \in TabsOf(b)' : q = p
    BY <1>1, <1>2, <1>3 DEF TabsOf
  <1>5. PageFits(p)'
    BY <1>1, <1>3 DEF PageFits
  <1>6. \A u \in Topics : ToldFits(b, u)'
    BY <1>1 DEF TabInv, BrowserFits, ToldFits, Reaches
  <1>7. BrowserFits(b)'
    BY <1>1, <1>4, <1>5, <1>6, OnlyTab
  <1>8. ASSUME NEW c \in Browsers \ {b} PROVE BrowserFits(c)'
    <2>1. p \notin TabsOf(c) /\ p \notin TabsOf(c)'
      BY <1>1, <1>3 DEF TabsOf
    <2>2. \A q \in TabsOf(c) \cup TabsOf(c)' : pages'[q] = pages[q] /\ requests'[q] = requests[q]
      BY <1>1, <1>3, <2>1 DEF TabsOf
    <2>3. BrowserFits(c)
      BY DEF TabInv
    <2> QED
      BY <1>1, <2>2, <2>3, OthersFit
  <1> QED
    BY <1>1, <1>7, <1>8, ApartStays DEF TabInv

\* What only changes the tab, or takes its request off: nothing of what was said or held changes.
LEMMA TabOnly ==
  ASSUME TypeOK, TypeOK', TabInv, NEW b \in Browsers, NEW p \in TabsOf(b),
         sub' = sub, session' = session, told' = told, rows' = rows, issued' = issued,
         \A q \in Pages \ {p} : pages'[q] = pages[q] /\ requests'[q] = requests[q],
         pages'[p].pc # "closed" => pages'[p].browser = b,
         requests'[p].stage # "none" => requests'[p].browser = b,
         pages'[p].pc # "closed" => PageFits(p)',
         requests'[p].stage # "none" => RequestFits(p)'
  PROVE  TabInv'
  <1>1. \A u \in Topics : ToldFits(b, u)'
    BY DEF TabInv, BrowserFits, ToldFits, Reaches
  <1>2. (\A c \in Browsers \ {b} : BrowserFits(c)') /\ \A q \in TabsOf(b)' : q = p
    BY TabActs
  <1>3. BrowserFits(b)'
    BY <1>1, <1>2, OnlyTab DEF TabsOf
  <1> QED
    BY <1>2, <1>3, ApartStays DEF TabInv

LEMMA CloseFits ==
  ASSUME TypeOK, TypeOK', TabInv, NEW p \in Pages, Close(p)
  PROVE  TabInv'
  <1> DEFINE b == pages[p].browser
  <1>1. b \in Browsers /\ p \in TabsOf(b)
    BY DEF Close, TypeOK, TabsOf
  <1>2. /\ sub' = sub /\ session' = session /\ told' = told /\ rows' = rows /\ issued' = issued
        /\ requests' = requests
        /\ pages'[p].pc = "closed" /\ \A q \in Pages \ {p} : pages'[q] = pages[q]
    BY DEF Close, TypeOK, Closed
  <1>3. requests[p].stage # "none" => requests[p].browser = b /\ RequestFits(p)
    BY <1>1 DEF TabInv, BrowserFits, PageFits, Close
  <1>4. requests[p].stage # "none" => RequestFits(p)'
    BY <1>2, <1>3 DEF RequestFits
  <1> HIDE DEF b
  <1> QED
    BY <1>1, <1>2, <1>3, <1>4, TabOnly

\* A request is lost, or nobody waits for its answer any more.
LEMMA LoseFits ==
  ASSUME TypeOK, TypeOK', TabInv, NEW p \in Pages, Lose(p)
  PROVE  TabInv'
  <1> DEFINE b == requests[p].browser
             new == [requests[p] EXCEPT !.stage = "failed"]
  <1>1. b \in Browsers /\ p \in TabsOf(b) /\ requests[p] \in Request
    BY DEF Lose, TypeOK, TabsOf
  <1>2. /\ sub' = sub /\ session' = session /\ told' = told /\ rows' = rows /\ issued' = issued
        /\ pages' = pages /\ requests'[p] = new
        /\ \A q \in Pages \ {p} : requests'[q] = requests[q]
    BY DEF Lose, TypeOK
  <1>3. /\ new.stage = "failed" /\ new.kind = requests[p].kind /\ new.browser = b
        /\ new.user = requests[p].user /\ new.topic = requests[p].topic
        /\ new.endpoint = requests[p].endpoint /\ new.copy = requests[p].copy
    BY <1>1 DEF Request
  <1>4. RequestFits(p) /\ requests[p].stage # "none"
    BY <1>1 DEF TabInv, BrowserFits, Lose
  <1>5. pages[p].pc # "closed" => pages[p].browser = b /\ PageFits(p)
    BY <1>1, <1>4 DEF TabInv, BrowserFits, PageFits, TypeOK
  <1> HIDE DEF new
  <1>6. RequestFits(p)'
    BY <1>2, <1>3, <1>4 DEF RequestFits
  <1>7. pages'[p].pc # "closed" => PageFits(p)'
    BY <1>2, <1>3, <1>4, <1>5 DEF PageFits
  <1>8. requests'[p].browser = b
    BY <1>2, <1>3
  <1> HIDE DEF b
  <1> QED
    BY <1>1, <1>2, <1>5, <1>6, <1>7, <1>8, TabOnly

LEMMA DropFits ==
  ASSUME TypeOK, TypeOK', TabInv, NEW p \in Pages, Drop(p)
  PROVE  TabInv'
  <1> DEFINE b == requests[p].browser
  <1>1. b \in Browsers /\ p \in TabsOf(b)
    BY DEF Drop, TypeOK, TabsOf
  <1>2. /\ sub' = sub /\ session' = session /\ told' = told /\ rows' = rows /\ issued' = issued
        /\ pages' = pages /\ pages[p].pc = "closed" /\ requests'[p].stage = "none"
        /\ \A q \in Pages \ {p} : requests'[q] = requests[q]
    BY DEF Drop, TypeOK, NoRequest
  <1> HIDE DEF b
  <1> QED
    BY <1>1, <1>2, TabOnly

\* What a click makes of the page, of what was said, and of the request.
LEMMA ClickDoes ==
  ASSUME TypeOK, TypeOK', NEW p \in Pages, NEW kind \in {"subscribe", "unsubscribe"},
         NEW e \in Endpoints, Click(p), Post(p, kind, e)
  PROVE  LET b == pages[p].browser
             t == pages[p].topic
         IN  /\ b \in Browsers /\ t \in Topics /\ p \in TabsOf(b)
             /\ pages'[p].pc = "waiting" /\ pages'[p].browser = b /\ pages'[p].sub = pages[p].sub
             /\ pages'[p].topic = t /\ pages'[p].token = pages[p].token
             /\ \A q \in Pages \ {p} : pages'[q] = pages[q] /\ requests'[q] = requests[q]
             /\ told'[b][t] = "unsure" /\ \A u \in Topics \ {t} : told'[b][u] = told[b][u]
             /\ \A c \in Browsers \ {b} : told'[c] = told[c]
             /\ requests'[p].stage \in {"sent", "failed"} /\ requests'[p].kind = kind
             /\ requests'[p].browser = b /\ requests'[p].user = session[b] /\ requests'[p].topic = t
             /\ requests'[p].endpoint = e /\ requests'[p].copy = {}
  <1> DEFINE b == pages[p].browser
             t == pages[p].topic
             new == [NoRequest EXCEPT !.stage = IF pages[p].token THEN "sent" ELSE "failed",
                                      !.kind = kind, !.endpoint = e,
                                      !.browser = b, !.topic = t, !.user = session[b]]
  <1>1. b \in Browsers /\ t \in Topics /\ p \in TabsOf(b) /\ pages[p] \in Page
    BY DEF Click, TypeOK, TabsOf
  <1>2. pages' = [pages EXCEPT ![p].pc = "waiting"] /\ pages \in [Pages -> Page]
    BY DEF Click, TypeOK
  <1>3. /\ pages'[p].pc = "waiting" /\ pages'[p].browser = b /\ pages'[p].sub = pages[p].sub
        /\ pages'[p].topic = t /\ pages'[p].token = pages[p].token
        /\ \A q \in Pages \ {p} : pages'[q] = pages[q]
    BY <1>1, <1>2 DEF Page
  <1>4. requests' = [requests EXCEPT ![p] = new] /\ requests \in [Pages -> Request]
    BY DEF Post, TypeOK
  <1>5. /\ new.stage \in {"sent", "failed"} /\ new.kind = kind
        /\ new.browser = b /\ new.user = session[b] /\ new.topic = t
        /\ new.endpoint = e /\ new.copy = {}
    BY DEF NoRequest
  <1> HIDE DEF new
  <1>6. requests'[p] = new /\ \A q \in Pages \ {p} : requests'[q] = requests[q]
    BY <1>4
  <1>7. told' = [told EXCEPT ![b][t] = "unsure"] /\ told \in [Browsers -> [Topics -> {"on", "off", "unsure"}]]
    BY DEF Click, TypeOK
  <1> HIDE DEF b, t
  <1>8. /\ told'[b][t] = "unsure" /\ \A u \in Topics \ {t} : told'[b][u] = told[b][u]
        /\ \A c \in Browsers \ {b} : told'[c] = told[c]
    BY <1>1, <1>7
  <1> QED
    BY <1>1, <1>3, <1>5, <1>6, <1>8 DEF b, t

\* A click, on a page that finds the endpoint that its browser will hold.
LEMMA ClickFits ==
  ASSUME TypeOK, TypeOK', TabInv, NEW p \in Pages, NEW kind \in {"subscribe", "unsubscribe"},
         NEW e \in Endpoints, Click(p), Post(p, kind, e), session' = session, rows' = rows,
         NEW b \in Browsers, b = pages[p].browser,
         \A c \in Browsers \ {b} : sub'[c] = sub[c],
         sub'[b] = e,
         sub[b] # e => sub[b] = None /\ kind = "subscribe" /\ ~rows[e].live
  PROVE  \A c \in Browsers : BrowserFits(c)'
  <1> PICK t \in Topics : t = pages[p].topic
    BY ClickDoes
  <1>0. /\ p \in TabsOf(b)
        /\ pages'[p].pc = "waiting" /\ pages'[p].browser = b /\ pages'[p].sub = pages[p].sub
        /\ pages'[p].topic = t /\ pages'[p].token = pages[p].token
        /\ \A q \in Pages \ {p} : pages'[q] = pages[q] /\ requests'[q] = requests[q]
        /\ told'[b][t] = "unsure" /\ \A u \in Topics \ {t} : told'[b][u] = told[b][u]
        /\ \A c \in Browsers \ {b} : told'[c] = told[c]
        /\ requests'[p].stage \in {"sent", "failed"} /\ requests'[p].kind = kind
        /\ requests'[p].browser = b /\ requests'[p].user = session[b] /\ requests'[p].topic = t
        /\ requests'[p].endpoint = e /\ requests'[p].copy = {}
    BY ClickDoes
  <1>1. pages[p].pc = "ready" /\ requests[p].stage = "none" /\ PageFits(p) /\ BrowserFits(b)
    BY <1>0 DEF Click, TabInv, BrowserFits
  <1>2. pages[p].sub = sub[b]
    BY <1>1 DEF PageFits
  <1>3. /\ sub'[b] = e /\ \A c \in Browsers \ {b} : sub'[c] = sub[c]
        /\ sub[b] # e => sub[b] = None /\ kind = "subscribe" /\ ~rows[e].live
    OBVIOUS
  <1>4. sub[b] # e => \A u \in Topics : told[b][u] # "on"
    BY <1>1, <1>3 DEF BrowserFits, ToldFits, Reaches
  <1>5. ~pages[p].token => \A u \in Topics : told[b][u] = "unsure"
    BY <1>1 DEF PageFits
  <1>6. PageFits(p)'
    <2>1. ~pages'[p].token => \A u \in Topics : told'[b][u] = "unsure"
      BY <1>0, <1>5
    <2>2. sub[b] # e => pages'[p].sub = None /\ kind = "subscribe" /\ \A u \in Topics : told'[b][u] # "on"
      BY <1>0, <1>2, <1>3, <1>4
    <2>3. sub[b] = e => pages'[p].sub = sub'[b]
      BY <1>0, <1>2, <1>3
    <2> QED
      BY <1>0, <2>1, <2>2, <2>3 DEF PageFits
  <1>7. RequestFits(p)'
    BY <1>0, <1>3 DEF RequestFits
  <1>8. ASSUME NEW u \in Topics PROVE ToldFits(b, u)'
    <2>1. CASE u = t
      BY <1>0, <2>1 DEF ToldFits
    <2>2. CASE u # t
      <3>1. told'[b][u] = told[b][u] /\ ToldFits(b, u)
        BY <1>0, <1>1, <2>2 DEF BrowserFits
      <3>2. CASE sub[b] = e
        BY <1>0, <1>3, <3>1, <3>2 DEF ToldFits, Reaches
      <3>3. CASE sub[b] # e
        <4>1. told'[b][u] # "on" /\ ~rows'[sub'[b]].live
          BY <1>3, <1>4, <3>1, <3>3
        <4> QED
          BY <4>1 DEF ToldFits, Reaches
      <3> QED
        BY <3>2, <3>3
    <2> QED
      BY <2>1, <2>2
  <1>9. (\A c \in Browsers \ {b} : BrowserFits(c)') /\ \A q \in TabsOf(b)' : q = p
    BY <1>0, <1>3, TabActs
  <1>10. BrowserFits(b)'
    BY <1>0, <1>6, <1>7, <1>8, <1>9, OnlyTab
  <1> QED
    BY <1>9, <1>10

LEMMA ClickOffFits ==
  ASSUME TypeOK, TypeOK', TabInv, NEW p \in Pages, ClickOff(p)
  PROVE  TabInv'
  <1> DEFINE b == pages[p].browser
             e == pages[p].sub
  <1>1. b \in Browsers /\ pages[p].pc = "ready" /\ e \in Endpoints
    BY DEF ClickOff, Click, TypeOK, Page
  <1>2. e = sub[b]
    BY <1>1 DEF TabInv, BrowserFits, PageFits
  <1>3. sub' = sub /\ issued' = issued /\ rows' = rows /\ session' = session
    BY DEF ClickOff
  <1>4. \A c \in Browsers : BrowserFits(c)'
    <2> HIDE DEF b, e
    <2> QED
      BY <1>1, <1>2, <1>3, ClickFits DEF ClickOff, b, e
  <1> QED
    BY <1>3, <1>4, ApartStays DEF TabInv

LEMMA ClickOnFits ==
  ASSUME TypeOK, TypeOK', TabInv, NEW p \in Pages, ClickOn(p)
  PROVE  TabInv'
  <1> DEFINE b == pages[p].browser
             held == IF pages[p].sub # None THEN pages[p].sub ELSE sub[b]
             fresh == IF held # None THEN held ELSE issued + 1
  <1>0. b = pages[p].browser
    OBVIOUS
  <1>1. b \in Browsers /\ pages[p].pc = "ready"
    BY DEF ClickOn, Click, TypeOK
  <1>2. held = sub[b]
    BY <1>1 DEF TabInv, BrowserFits, PageFits
  <1>3. /\ Click(p) /\ fresh \in Endpoints /\ Post(p, "subscribe", fresh)
        /\ rows' = rows /\ session' = session
        /\ IF held # None THEN UNCHANGED <<sub, issued>>
                          ELSE issued' = fresh /\ sub' = [sub EXCEPT ![b] = fresh]
    BY DEF ClickOn
  <1>4. EndpointsApart /\ issued \in Nat /\ sub \in [Browsers -> Endpoints \cup {None}]
    BY DEF TabInv, TypeOK
  <1> HIDE DEF b, held
  <1>5. CASE held # None
    <2>1. fresh = sub[b] /\ sub' = sub /\ issued' = issued
      BY <1>2, <1>3, <1>5
    <2>2. \A c \in Browsers : BrowserFits(c)'
      <3>1. sub'[b] = fresh /\ \A c \in Browsers \ {b} : sub'[c] = sub[c]
        BY <2>1
      <3> HIDE DEF fresh
      <3> QED
        BY <1>0, <1>1, <1>3, <2>1, <3>1, ClickFits
    <2> QED
      BY <1>3, <1>4, <2>1, <2>2, ApartStays DEF TabInv
  <1>6. CASE held = None
    <2>1. fresh = issued + 1 /\ issued' = issued + 1 /\ sub' = [sub EXCEPT ![b] = issued + 1]
      BY <1>3, <1>6
    <2> HIDE DEF fresh
    <2>2. ~rows[fresh].live /\ \A c \in Browsers : sub[c] # fresh
      <3>1. ~(fresh <= issued) /\ fresh # None /\ fresh \in Endpoints
        BY <1>3, <1>4, <2>1, PushAssumption
      <3> QED
        BY <1>4, <3>1 DEF EndpointsApart
    <2>3. /\ sub'[b] = fresh /\ sub[b] = None
          /\ \A c \in Browsers \ {b} : sub'[c] = sub[c]
      BY <1>1, <1>2, <1>4, <1>6, <2>1
    <2>4. \A c \in Browsers : BrowserFits(c)'
      BY <1>0, <1>1, <1>3, <2>2, <2>3, ClickFits
    <2>5. EndpointsApart'
      <3>1. \A c \in Browsers : sub[c] # None => sub[c] \in Nat /\ sub[c] <= issued + 1
        BY <1>4 DEF EndpointsApart, Endpoints
      <3>2. \A c \in Browsers : sub'[c] # None => sub'[c] <= issued'
        BY <1>1, <1>4, <2>1, <2>3, <3>1
      <3>3. \A c \in Browsers : sub'[c] # None => \A d \in Browsers : sub'[d] = sub'[c] => d = c
        BY <1>1, <1>4, <2>2, <2>3 DEF EndpointsApart
      <3>4. \A e \in Endpoints : rows'[e].live => e <= issued'
        BY <1>3, <1>4, <2>1 DEF EndpointsApart, Endpoints
      <3> QED
        BY <3>2, <3>3, <3>4 DEF EndpointsApart
    <2> QED
      BY <2>4, <2>5 DEF TabInv
  <1> QED
    BY <1>5, <1>6

\* The server takes a request a step further: what is left to show of it.
LEMMA ServeFits ==
  ASSUME TypeOK, TypeOK', TabInv, NEW p \in Pages, NEW b \in Browsers, requests[p].stage # "none",
         requests[p].browser = b,
         sub' = sub, session' = session, told' = told, issued' = issued, pages' = pages,
         \A e \in Endpoints \ {sub[b]} : rows'[e] = rows[e],
         \A q \in Pages \ {p} : requests'[q] = requests[q],
         requests'[p].stage # "none", requests'[p].browser = b, requests'[p].topic = requests[p].topic,
         requests'[p].user = requests[p].user, requests'[p].kind = requests[p].kind,
         RequestFits(p)',
         \A u \in Topics : ToldFits(b, u)'
  PROVE  TabInv'
  <1>1. p \in TabsOf(b)
    BY DEF TabsOf
  <1>2. RequestFits(p) /\ EndpointsApart
    BY DEF TabInv, BrowserFits
  <1>3. sub[b] \in Endpoints /\ sub \in [Browsers -> Endpoints \cup {None}] /\ None \notin Endpoints
    BY <1>2, PushAssumption DEF RequestFits, TypeOK, Endpoints
  <1>4. \A c \in Browsers \ {b} : sub[c] # None => rows'[sub[c]] = rows[sub[c]]
    BY <1>2, <1>3 DEF EndpointsApart
  <1>5. pages[p].pc # "closed" => pages[p].browser = b
    <2>1. pages[p].pc # "closed" => pages[p].browser \in Browsers
      BY DEF TypeOK
    <2> QED
      BY <2>1 DEF TabInv, BrowserFits, PageFits
  <1>6. (\A c \in Browsers \ {b} : BrowserFits(c)') /\ \A q \in TabsOf(b)' : q = p
    BY <1>1, <1>4, <1>5, TabActs
  <1>7. pages'[p].pc # "closed" /\ pages'[p].browser = b => PageFits(p)'
    <2> SUFFICES ASSUME pages[p].pc # "closed" PROVE PageFits(p)'
      OBVIOUS
    <2>1. PageFits(p) /\ pages[p].browser = b
      BY <1>5 DEF TabInv, BrowserFits
    <2> QED
      BY <2>1 DEF PageFits
  <1>8. BrowserFits(b)'
    BY <1>6, <1>7, OnlyTab
  <1>9. EndpointsApart'
    BY <1>2, <1>3, ApartStays
  <1> QED
    BY <1>6, <1>8, <1>9 DEF TabInv

\* A request that is under way.
LEMMA RequestKnown ==
  ASSUME TypeOK, TabInv, NEW p \in Pages, requests[p].stage # "none"
  PROVE  LET b == requests[p].browser
             e == requests[p].endpoint
         IN  /\ b \in Browsers /\ RequestFits(p) /\ BrowserFits(b)
             /\ requests[p] \in Request /\ e \in Endpoints /\ e = sub[b] /\ sub[b] # None
             /\ rows[e] \in Row /\ requests \in [Pages -> Request] /\ rows \in [Endpoints -> Row]
  <1>1. /\ requests \in [Pages -> Request] /\ rows \in [Endpoints -> Row]
        /\ requests[p].browser \in Browsers /\ requests[p].endpoint \in Endpoints
    BY DEF TypeOK
  <1>2. BrowserFits(requests[p].browser)
    BY <1>1 DEF TabInv
  <1>3. RequestFits(p)
    BY <1>2 DEF BrowserFits
  <1>4. requests[p].endpoint = sub[requests[p].browser]
    BY <1>3 DEF RequestFits
  <1>5. None \notin Endpoints
    BY PushAssumption DEF Endpoints
  <1> QED
    BY <1>1, <1>2, <1>3, <1>4, <1>5

LEMMA SubscribeFits ==
  ASSUME TypeOK, TypeOK', TabInv, NEW p \in Pages, HandleSubscribe(p)
  PROVE  TabInv'
  <1> PICK b \in Browsers : b = requests[p].browser
    BY DEF HandleSubscribe, TypeOK
  <1> DEFINE rq == requests[p]
             e == rq.endpoint
             new == [rq EXCEPT !.stage = "done"]
  <1>1. /\ rq \in Request /\ rq.stage = "sent" /\ rq.kind = "subscribe" /\ RequestFits(p) /\ BrowserFits(b)
        /\ e \in Endpoints /\ e = sub[b] /\ rows[e] \in Row /\ sub[b] # None
    BY RequestKnown DEF HandleSubscribe
  <1>2. /\ requests'[p] = new /\ \A q \in Pages \ {p} : requests'[q] = requests[q]
        /\ rows'[e] = Upserted(rows[e], rq.user, rq.topic)
        /\ \A f \in Endpoints \ {e} : rows'[f] = rows[f]
        /\ sub' = sub /\ session' = session /\ told' = told /\ issued' = issued /\ pages' = pages
    BY <1>1 DEF HandleSubscribe, TypeOK
  <1>3. /\ new.stage = "done" /\ new.kind = "subscribe" /\ new.browser = b /\ new.user = rq.user
        /\ new.topic = rq.topic /\ new.endpoint = e
    BY <1>1 DEF Request
  <1>4. /\ rows'[e].live /\ rows'[e].user = rq.user
        /\ rows'[e].wants = IF rows[e].live THEN rows[e].wants \cup {rq.topic} ELSE {rq.topic}
    BY <1>1, <1>2 DEF Upserted, Row
  <1> HIDE DEF new
  <1>5. RequestFits(p)'
    BY <1>1, <1>2, <1>3, <1>4 DEF RequestFits
  <1>6. ASSUME NEW u \in Topics PROVE ToldFits(b, u)'
    <2>1. ToldFits(b, u) /\ told[b][rq.topic] = "unsure"
      BY <1>1 DEF BrowserFits, RequestFits
    <2>2. told[b][u] = "on" => rq.user = session[b]
      BY <1>1 DEF RequestFits
    <2> QED
      BY <1>1, <1>2, <1>4, <2>1, <2>2 DEF ToldFits, Reaches
  <1> QED
    BY <1>1, <1>2, <1>3, <1>5, <1>6, ServeFits

LEMMA ReadFits ==
  ASSUME TypeOK, TypeOK', TabInv, NEW p \in Pages, ReadUnsubscribe(p)
  PROVE  TabInv'
  <1> PICK b \in Browsers : b = requests[p].browser
    BY DEF ReadUnsubscribe, TypeOK
  <1> DEFINE rq == requests[p]
             e == rq.endpoint
             row == rows[e]
             mine == row.live /\ row.user = rq.user
  <1>1. /\ rq \in Request /\ rq.stage = "sent" /\ rq.kind = "unsubscribe" /\ RequestFits(p) /\ BrowserFits(b)
        /\ e \in Endpoints /\ e = sub[b] /\ row \in Row /\ sub[b] # None
        /\ requests \in [Pages -> Request]
    BY RequestKnown DEF ReadUnsubscribe
  <1>2. /\ rows' = rows /\ sub' = sub /\ session' = session /\ told' = told /\ issued' = issued
        /\ pages' = pages
        /\ requests' = IF mine
              THEN [requests EXCEPT ![p].stage = "read", ![p].pk = row.pk,
                                    ![p].copy = Remaining(row.wants, rq.topic)]
              ELSE [requests EXCEPT ![p].stage = "done"]
    BY DEF ReadUnsubscribe
  <1>3. \A q \in Pages \ {p} : requests'[q] = requests[q]
    BY <1>1, <1>2
  <1>4. /\ requests'[p].kind = "unsubscribe" /\ requests'[p].browser = b /\ requests'[p].user = rq.user
        /\ requests'[p].topic = rq.topic /\ requests'[p].endpoint = e
    BY <1>1, <1>2 DEF Request
  <1>5. \A u \in Topics : ToldFits(b, u)'
    BY <1>1, <1>2 DEF BrowserFits, ToldFits, Reaches
  <1>6. RequestFits(p)'
    <2>0. /\ requests'[p].endpoint = sub[b] /\ told[b][rq.topic] = "unsure"
          /\ rq.user # session[b] => \A u \in Topics : told[b][u] = "unsure"
      BY <1>1, <1>4 DEF RequestFits
    <2>1. CASE mine
      <3>1. /\ requests'[p].stage = "read" /\ requests'[p].pk = row.pk
            /\ requests'[p].copy = row.wants \ {rq.topic}
        BY <1>1, <1>2, <2>1 DEF Request, Remaining
      <3> HIDE DEF mine, row
      <3>2. row = rows'[e]
        BY <1>2 DEF row
      <3> HIDE DEF e, rq
      <3> QED
        BY <1>2, <1>4, <2>0, <3>1, <3>2 DEF RequestFits
    <2>2. CASE ~mine
      <3>1. requests'[p].stage = "done" /\ requests'[p].copy = rq.copy
        BY <1>1, <1>2, <2>2 DEF Request
      <3>2. rq.copy = {}
        BY <1>1 DEF RequestFits
      <3>3. ASSUME NEW u \in Topics PROVE told[b][u] # "on"
        <4>1. ToldFits(b, u)
          BY <1>1 DEF BrowserFits
        <4> QED
          BY <1>1, <2>0, <2>2, <4>1 DEF ToldFits, Reaches
      <3> HIDE DEF mine, row, e, rq
      <3> QED
        BY <1>2, <1>4, <2>0, <3>1, <3>2, <3>3 DEF RequestFits
    <2> QED
      BY <2>1, <2>2
  <1> HIDE DEF mine, row, e
  <1>7. rq.stage # "none"
    BY <1>1
  <1>8. requests'[p].stage # "none"
    BY <1>1, <1>2 DEF Request
  <1> QED
    BY <1>1, <1>2, <1>3, <1>4, <1>5, <1>6, <1>7, <1>8, ServeFits

LEMMA WriteFits ==
  ASSUME TypeOK, TypeOK', TabInv, NEW p \in Pages, WriteUnsubscribe(p)
  PROVE  TabInv'
  <1> PICK b \in Browsers : b = requests[p].browser
    BY DEF WriteUnsubscribe, TypeOK
  <1> DEFINE rq == requests[p]
             e == rq.endpoint
             row == rows[e]
             there == row.live /\ row.pk = rq.pk
             new == [rq EXCEPT !.stage = IF rq.copy # {} /\ ~there THEN "failed" ELSE "done"]
  <1>1. /\ rq \in Request /\ rq.stage = "read" /\ RequestFits(p) /\ BrowserFits(b)
        /\ e \in Endpoints /\ e = sub[b] /\ row \in Row /\ sub[b] # None
        /\ requests \in [Pages -> Request] /\ rows \in [Endpoints -> Row]
    BY RequestKnown DEF WriteUnsubscribe
  <1>2. /\ sub' = sub /\ session' = session /\ told' = told /\ issued' = issued
        /\ pages' = pages
        /\ requests'[p] = new /\ \A q \in Pages \ {p} : requests'[q] = requests[q]
        /\ rows' = IF ~there THEN rows
                   ELSE [rows EXCEPT ![e] = IF rq.copy = {} THEN Cleared(row) ELSE Without(row, rq.topic)]
    BY <1>1 DEF WriteUnsubscribe, StillThere
  <1>3. /\ new.stage = IF rq.copy # {} /\ ~there THEN "failed" ELSE "done"
        /\ new.kind = rq.kind /\ new.browser = b /\ new.user = rq.user
        /\ new.topic = rq.topic /\ new.endpoint = e /\ new.copy = rq.copy
    BY <1>1 DEF Request
  <1> HIDE DEF new
  <1>4. /\ \A f \in Endpoints \ {e} : rows'[f] = rows[f]
        /\ rows'[e] = IF ~there THEN row
                      ELSE IF rq.copy = {} THEN Cleared(row) ELSE Without(row, rq.topic)
    BY <1>1, <1>2
  <1>5. /\ ~Cleared(row).live
        /\ Without(row, rq.topic).live = row.live /\ Without(row, rq.topic).user = row.user
        /\ Without(row, rq.topic).wants = row.wants \ {rq.topic}
    BY <1>1 DEF Cleared, Without, Row
  <1>6. /\ rq.kind = "unsubscribe" /\ told[b][rq.topic] = "unsure"
        /\ row.live => there /\ rq.copy = row.wants \ {rq.topic}
    BY <1>1 DEF RequestFits
  <1>7. rq.copy = {} => \A u \in Topics : told[b][u] # "on"
    <2> SUFFICES ASSUME rq.copy = {}, NEW u \in Topics, told[b][u] = "on" PROVE FALSE
      OBVIOUS
    <2>1. row.live /\ u \in row.wants
      BY <1>1 DEF BrowserFits, ToldFits, Reaches
    <2> QED
      BY <1>6, <2>1
  <1>8. ASSUME NEW u \in Topics PROVE ToldFits(b, u)'
    <2>1. ToldFits(b, u)
      BY <1>1 DEF BrowserFits
    <2> QED
      BY <1>1, <1>2, <1>4, <1>5, <1>6, <1>7, <2>1 DEF ToldFits, Reaches
  <1>9. RequestFits(p)'
    <2>1. rq.copy # {} /\ there => rq.topic \notin rows'[e].wants
      BY <1>4, <1>5
    <2>2. rq.user # session[b] => \A u \in Topics : told[b][u] = "unsure"
      BY <1>1 DEF RequestFits
    <2>3. requests'[p].stage \in {"done", "failed"} /\ (requests'[p].stage = "done" => rq.copy = {} \/ there)
      BY <1>2, <1>3
    <2> HIDE DEF there, row
    <2> QED
      BY <1>1, <1>2, <1>3, <1>6, <1>7, <2>1, <2>2, <2>3 DEF RequestFits
  <1> QED
    BY <1>1, <1>2, <1>3, <1>4, <1>8, <1>9, ServeFits
\* The answer arrives: a page and its request are about one browser and one topic.
LEMMA AnsweredTab ==
  ASSUME TypeOK, TabInv, NEW p \in Pages, pages[p].pc = "waiting"
  PROVE  LET b == pages[p].browser
         IN  /\ b \in Browsers /\ p \in TabsOf(b) /\ PageFits(p) /\ RequestFits(p) /\ BrowserFits(b)
             /\ pages[p] \in Page /\ pages \in [Pages -> Page]
             /\ requests[p].stage # "none"
             /\ requests[p].browser = b /\ requests[p].topic = pages[p].topic
             /\ pages[p].topic \in Topics
             /\ requests[p].endpoint = sub[b] /\ sub[b] \in Endpoints /\ sub[b] # None
  <1>1. /\ pages \in [Pages -> Page] /\ pages[p].browser \in Browsers /\ pages[p].topic \in Topics
        /\ p \in TabsOf(pages[p].browser)
    BY DEF TypeOK, TabsOf
  <1>2. BrowserFits(pages[p].browser)
    BY <1>1 DEF TabInv
  <1>3. PageFits(p)
    BY <1>2 DEF BrowserFits
  <1>4. /\ requests[p].stage # "none" /\ requests[p].browser = pages[p].browser
        /\ requests[p].topic = pages[p].topic
    BY <1>3 DEF PageFits
  <1> QED
    BY <1>1, <1>2, <1>3, <1>4, RequestKnown

LEMMA ReceiveFits ==
  ASSUME TypeOK, TypeOK', TabInv, NEW p \in Pages, Receive(p)
  PROVE  TabInv'
  <1>1. pages[p].pc = "waiting" /\ requests[p].stage = "done"
    BY DEF Receive
  <1> PICK b \in Browsers : b = pages[p].browser
    BY <1>1, AnsweredTab
  <1> PICK t \in Topics : t = pages[p].topic
    BY <1>1, AnsweredTab
  <1> DEFINE rq == requests[p]
             off == rq.kind = "unsubscribe"
             last == off /\ rq.copy = {}
             row == rows[sub[b]]
  <1>2. /\ p \in TabsOf(b) /\ PageFits(p) /\ RequestFits(p) /\ BrowserFits(b)
        /\ pages \in [Pages -> Page] /\ rq.topic = t /\ rq.endpoint = sub[b] /\ rq.browser = b
        /\ sub[b] \in Endpoints /\ sub[b] # None
    BY <1>1, AnsweredTab
  <1>3. /\ pages' = [pages EXCEPT ![p].pc = "ready", ![p].enabled = ~off,
                                  ![p].sub = IF last THEN None ELSE sub[b]]
        /\ sub' = IF last THEN Released(b, sub[b]) ELSE sub
        /\ told' = IF ~pages[p].token THEN told
                   ELSE [told EXCEPT ![b][t] = IF off THEN "off" ELSE "on"]
        /\ requests' = [requests EXCEPT ![p] = NoRequest]
        /\ session' = session /\ issued' = issued /\ rows' = rows
    BY <1>2 DEF Receive
  <1>4. /\ pages'[p].pc = "ready" /\ pages'[p].sub = (IF last THEN None ELSE sub[b])
        /\ pages'[p].browser = b /\ pages'[p].token = pages[p].token
        /\ \A q \in Pages \ {p} : pages'[q] = pages[q]
    BY <1>2, <1>3 DEF Page
  <1>5. requests'[p].stage = "none" /\ \A q \in Pages \ {p} : requests'[q] = requests[q]
    BY <1>3 DEF TypeOK, NoRequest
  <1>6. sub'[b] = (IF last THEN None ELSE sub[b]) /\ \A c \in Browsers \ {b} : sub'[c] = sub[c]
    BY <1>3 DEF TypeOK, Released
  <1>7. /\ \A c \in Browsers \ {b} : told'[c] = told[c]
        /\ \A u \in Topics \ {t} : told'[b][u] = told[b][u]
        /\ told'[b][t] = IF ~pages[p].token THEN told[b][t] ELSE IF off THEN "off" ELSE "on"
    BY <1>3 DEF TypeOK
  <1>8. ~pages[p].token => \A u \in Topics : told[b][u] = "unsure"
    BY <1>2 DEF PageFits
  <1>9. PageFits(p)'
    BY <1>4, <1>5, <1>6, <1>7, <1>8 DEF PageFits
  <1>10. ASSUME NEW u \in Topics PROVE ToldFits(b, u)'
    <2>1. ToldFits(b, u)
      BY <1>2 DEF BrowserFits
    <2>2. CASE last
      <3>1. \A v \in Topics : told[b][v] # "on"
        BY <1>1, <1>2, <2>2 DEF RequestFits
      <3>2. told'[b][u] # "on" /\ sub'[b] = None
        BY <1>6, <1>7, <2>2, <3>1
      <3> QED
        BY <3>2 DEF ToldFits, Reaches
    <2>3. CASE ~last /\ (u # t \/ ~pages[p].token)
      <3>1. told'[b][u] = told[b][u] /\ sub'[b] = sub[b]
        BY <1>6, <1>7, <2>3
      <3> QED
        BY <1>3, <2>1, <3>1 DEF ToldFits, Reaches
    <2>4. CASE ~last /\ u = t /\ pages[p].token
      <3>1. sub'[b] = sub[b] /\ told'[b][u] = IF off THEN "off" ELSE "on"
        BY <1>6, <1>7, <2>4
      <3>2. off => ~(row.live /\ u \in row.wants)
        BY <1>1, <1>2, <2>4 DEF RequestFits
      <3>3. ~off => row.live /\ u \in row.wants /\ row.user = rq.user
        BY <1>1, <1>2, <2>4 DEF RequestFits, TypeOK, Request
      <3>4. rq.user = session[b]
        BY <1>1, <1>2, <2>4 DEF PageFits
      <3> QED
        BY <1>2, <1>3, <3>1, <3>2, <3>3, <3>4 DEF ToldFits, Reaches
    <2> QED
      BY <2>2, <2>3, <2>4
  <1> HIDE DEF last, off, row, rq
  <1>11. (\A c \in Browsers \ {b} : BrowserFits(c)') /\ \A q \in TabsOf(b)' : q = p
    BY <1>2, <1>3, <1>4, <1>5, <1>6, <1>7, TabActs
  <1>12. BrowserFits(b)'
    BY <1>4, <1>5, <1>9, <1>10, <1>11, OnlyTab
  <1>13. EndpointsApart'
    <2>1. \A c \in Browsers : sub'[c] \in {sub[c], None}
      BY <1>6
    <2> QED
      BY <1>3, <2>1, ApartStays DEF TabInv
  <1> QED
    BY <1>11, <1>12, <1>13 DEF TabInv

\* The subscription is released if it was made for this click: nobody was told that it is on.
LEMMA ReceiveFailureFits ==
  ASSUME TypeOK, TypeOK', TabInv, NEW p \in Pages, ReceiveFailure(p)
  PROVE  TabInv'
  <1>1. pages[p].pc = "waiting" /\ requests[p].stage = "failed"
    BY DEF ReceiveFailure
  <1> PICK b \in Browsers : b = pages[p].browser
    BY <1>1, AnsweredTab
  <1> DEFINE fresh == requests[p].kind = "subscribe" /\ pages[p].sub = None
  <1>2. /\ p \in TabsOf(b) /\ PageFits(p) /\ BrowserFits(b)
        /\ pages \in [Pages -> Page] /\ requests[p].endpoint = sub[b]
        /\ sub[b] \in Endpoints /\ sub[b] # None
    BY <1>1, AnsweredTab
  <1>3. /\ pages' = [pages EXCEPT ![p].pc = "ready"]
        /\ sub' = IF fresh THEN Released(b, sub[b]) ELSE sub
        /\ requests' = [requests EXCEPT ![p] = NoRequest]
        /\ session' = session /\ issued' = issued /\ rows' = rows /\ told' = told
    BY <1>2 DEF ReceiveFailure
  <1>4. /\ pages'[p].pc = "ready" /\ pages'[p].sub = pages[p].sub
        /\ pages'[p].browser = b /\ pages'[p].token = pages[p].token
        /\ \A q \in Pages \ {p} : pages'[q] = pages[q]
    BY <1>2, <1>3 DEF Page
  <1>5. requests'[p].stage = "none" /\ \A q \in Pages \ {p} : requests'[q] = requests[q]
    BY <1>3 DEF TypeOK, NoRequest
  <1>6. sub'[b] = (IF fresh THEN None ELSE sub[b]) /\ \A c \in Browsers \ {b} : sub'[c] = sub[c]
    BY <1>3 DEF TypeOK, Released
  <1>7. IF fresh THEN pages[p].sub = None /\ \A u \in Topics : told[b][u] # "on"
        ELSE pages[p].sub = sub[b]
    BY <1>1, <1>2 DEF PageFits
  <1>8. ~pages[p].token => \A u \in Topics : told[b][u] = "unsure"
    BY <1>2 DEF PageFits
  <1> HIDE DEF fresh
  <1>9. PageFits(p)'
    BY <1>3, <1>4, <1>5, <1>6, <1>7, <1>8 DEF PageFits
  <1>10. \A u \in Topics : ToldFits(b, u)'
    <2>1. CASE fresh
      BY <1>3, <1>6, <1>7, <2>1 DEF ToldFits, Reaches
    <2>2. CASE ~fresh
      BY <1>2, <1>3, <1>6, <2>2 DEF BrowserFits, ToldFits, Reaches
    <2> QED
      BY <2>1, <2>2
  <1>11. (\A c \in Browsers \ {b} : BrowserFits(c)') /\ \A q \in TabsOf(b)' : q = p
    BY <1>2, <1>3, <1>4, <1>5, <1>6, TabActs
  <1>12. BrowserFits(b)'
    BY <1>4, <1>5, <1>9, <1>10, <1>11, OnlyTab
  <1>13. EndpointsApart'
    <2>1. \A c \in Browsers : sub'[c] \in {sub[c], None}
      BY <1>6
    <2> QED
      BY <1>3, <2>1, ApartStays DEF TabInv
  <1> QED
    BY <1>11, <1>12, <1>13 DEF TabInv

\* Only the row of an endpoint that no browser holds is ever reaped.
LEMMA DeliverFits ==
  ASSUME TypeOK, TypeOK', TabInv, NEW t \in Topics, Deliver(t)
  PROVE  TabInv'
  <1>1. PICK e \in Endpoints, pk \in 0..MaxClicks :
          /\ rows' = IF Dead(e) THEN Reaped(e, pk) ELSE rows
          /\ UNCHANGED <<sub, session, issued, pages, requests, told, asked, clicks, losses>>
    BY DEF Deliver
  <1>2. /\ \A f \in Endpoints \ {e} : rows'[f] = rows[f]
        /\ rows'[e] # rows[e] => Dead(e) /\ ~rows'[e].live
    <2>1. rows \in [Endpoints -> Row] /\ ~Cleared(rows[e]).live
      BY DEF TypeOK, Cleared, Row
    <2>2. CASE Dead(e) /\ StillThere(e, pk)
      <3>1. rows' = [rows EXCEPT ![e] = Cleared(rows[e])]
        BY <1>1, <2>2 DEF Reaped
      <3> QED
        BY <2>1, <2>2, <3>1
    <2>3. CASE ~(Dead(e) /\ StillThere(e, pk))
      <3>0. rows' = IF Dead(e) THEN Reaped(e, pk) ELSE rows
        BY <1>1
      <3>1. rows' = rows
        BY <2>3, <3>0 DEF Reaped
      <3> QED
        BY <3>1
    <2> QED
      BY <2>2, <2>3
  <1>3. ASSUME NEW b \in Browsers PROVE BrowserFits(b)'
    <2>1. sub[b] # None => rows'[sub[b]] = rows[sub[b]]
      BY <1>2 DEF Dead, TypeOK
    <2> QED
      BY <1>1, <2>1, OthersFit DEF TabInv
  <1>4. EndpointsApart'
    <2>1. \A f \in Endpoints : rows'[f].live => rows[f].live
      BY <1>2
    <2> QED
      BY <1>1, <2>1, ApartStays DEF TabInv
  <1> QED
    BY <1>3, <1>4 DEF TabInv

LEMMA SwitchFits ==
  ASSUME TypeOK, TypeOK', TabInv, NEW b \in Browsers, NEW r \in Residents, SwitchResident(b, r),
         \A p \in Pages : pages[p].pc = "closed" => pages[p].browser = None
  PROVE  TabInv'
  <1>1. /\ sub' = sub /\ issued' = issued /\ rows' = rows /\ requests' = requests
        /\ \A c \in Browsers \ {b} : session'[c] = session[c] /\ told'[c] = told[c]
        /\ \A t \in Topics : told'[b][t] = "unsure"
    BY DEF SwitchResident, TypeOK
  <1>2. \A p \in Pages :
          /\ pages'[p].pc = pages[p].pc /\ pages'[p].browser = pages[p].browser
          /\ pages'[p].topic = pages[p].topic /\ pages'[p].sub = pages[p].sub
          /\ pages[p].browser = b => pages'[p].token = FALSE
          /\ pages[p].browser # b => pages'[p] = pages[p]
    BY DEF SwitchResident, TypeOK, Page
  <1>3. BrowserFits(b)
    BY DEF TabInv
  <1>4. TabsOf(b)' = TabsOf(b)
    BY <1>1, <1>2 DEF TabsOf
  <1>5. ASSUME NEW p \in Pages, pages[p].pc # "closed", pages[p].browser = b
        PROVE  PageFits(p)'
    <2>1. PageFits(p)
      BY <1>3, <1>5 DEF BrowserFits
    <2> QED
      BY <1>1, <1>2, <1>5, <2>1 DEF PageFits
  <1>6. ASSUME NEW p \in Pages, requests[p].stage # "none", requests[p].browser = b
        PROVE  RequestFits(p)'
    <2>1. RequestFits(p)
      BY <1>3, <1>6 DEF BrowserFits
    <2>2. requests[p].topic \in Topics
      BY <1>6 DEF TypeOK
    <2> QED
      BY <1>1, <1>6, <2>1, <2>2 DEF RequestFits
  <1>7. \A t \in Topics : ToldFits(b, t)'
    BY <1>1 DEF ToldFits
  <1>8. BrowserFits(b)'
    BY <1>1, <1>2, <1>3, <1>4, <1>5, <1>6, <1>7 DEF BrowserFits
  <1>9. ASSUME NEW c \in Browsers \ {b} PROVE BrowserFits(c)'
    <2>1. BrowserFits(c)
      BY DEF TabInv
    <2>2. TabsOf(c)' = TabsOf(c)
      BY <1>1, <1>2 DEF TabsOf
    <2>3. ASSUME NEW q \in TabsOf(c) PROVE pages'[q] = pages[q]
      <3>1. q \in Pages
        BY DEF TabsOf
      <3>2. CASE pages[q].pc = "closed"
        <4>1. pages[q].browser # b
          BY <3>1, <3>2, PushAssumption
        <4> QED
          BY <1>2, <3>1, <4>1
      <3>3. CASE pages[q].pc # "closed"
        <4>1. pages[q].browser \in Browsers
          BY <3>1, <3>3 DEF TypeOK
        <4>2. PageFits(q)
          BY <3>1, <3>3, <4>1 DEF TabInv, BrowserFits
        <4>3. pages[q].browser = c
          BY <3>1, <3>3, <4>2 DEF TabsOf, PageFits
        <4> QED
          BY <1>2, <3>1, <4>3
      <3> QED
        BY <3>2, <3>3
    <2> QED
      BY <1>1, <2>1, <2>2, <2>3, OthersFit
  <1>10. EndpointsApart'
    BY <1>1, ApartStays DEF TabInv
  <1> QED
    BY <1>8, <1>9, <1>10 DEF TabInv

\* A closed tab is nobody's.
ClosedTabs == \A p \in Pages : pages[p].pc = "closed" => pages[p].browser = None

LEMMA ClosedTabsStay ==
  ASSUME TypeOK, ClosedTabs, [Next]_vars
  PROVE  ClosedTabs'
  <1>0. pages \in [Pages -> Page]
    BY DEF TypeOK
  <1>1. ASSUME NEW p \in Pages, NEW b \in Browsers, NEW t \in Topics, Load(p, b, t)
        PROVE  ClosedTabs'
    BY <1>0, <1>1 DEF Load, ClosedTabs
  <1>2. ASSUME NEW p \in Pages, Close(p) PROVE ClosedTabs'
    BY <1>0, <1>2 DEF Close, Closed, ClosedTabs
  <1>3. ASSUME NEW p \in Pages, Click(p) PROVE ClosedTabs'
    BY <1>0, <1>3 DEF Click, ClosedTabs, Page
  <1>4. ASSUME NEW p \in Pages, Receive(p) PROVE ClosedTabs'
    <2>1. \A q \in Pages \ {p} : pages'[q] = pages[q]
      BY <1>0, <1>4 DEF Receive
    <2>2. pages'[p].pc = "ready"
      BY <1>0, <1>4 DEF Receive, Page
    <2> QED
      BY <2>1, <2>2 DEF ClosedTabs
  <1>5. ASSUME NEW p \in Pages, ReceiveFailure(p) PROVE ClosedTabs'
    BY <1>0, <1>5 DEF ReceiveFailure, ClosedTabs, Page
  <1>6. ASSUME NEW b \in Browsers, NEW r \in Residents, SwitchResident(b, r) PROVE ClosedTabs'
    BY <1>0, <1>6 DEF SwitchResident, ClosedTabs, Page
  <1>7. ASSUME UNCHANGED pages PROVE ClosedTabs'
    BY <1>7 DEF ClosedTabs
  <1>8. ASSUME NEW p \in Pages, ClickOff(p) \/ ClickOn(p) PROVE ClosedTabs'
    BY <1>3, <1>8 DEF ClickOff, ClickOn
  <1>9. ASSUME NEW p \in Pages, Serve(p) \/ Lose(p) \/ Drop(p) PROVE ClosedTabs'
    BY <1>7, <1>9 DEF Serve, HandleSubscribe, ReadUnsubscribe, WriteUnsubscribe, Lose, Drop
  <1>10. ASSUME NEW t \in Topics, Notify(t) \/ Deliver(t) \/ DeliveryFails(t) PROVE ClosedTabs'
    BY <1>7, <1>10 DEF Notify, Deliver, DeliveryFails
  <1> QED
    BY <1>1, <1>2, <1>4, <1>5, <1>6, <1>7, <1>8, <1>9, <1>10 DEF Next, Finish, vars

LEMMA TabInvStep ==
  ASSUME TypeOK, TypeOK', ClosedTabs, TabInv, MaxTabs = 1, [Next]_vars
  PROVE  TabInv'
  <1>1. ASSUME UNCHANGED <<sub, session, issued, rows, pages, requests, told>> PROVE TabInv'
    <2>1. \A b \in Browsers : BrowserFits(b)'
      BY <1>1, OthersFit DEF TabInv
    <2> QED
      BY <1>1, <2>1, ApartStays DEF TabInv
  <1>2. ASSUME NEW t \in Topics, Notify(t) \/ DeliveryFails(t) PROVE TabInv'
    BY <1>1, <1>2 DEF Notify, DeliveryFails
  <1>3. ASSUME NEW p \in Pages,
               \/ \E b \in Browsers, t \in Topics : Load(p, b, t)
               \/ Close(p) \/ ClickOff(p) \/ ClickOn(p) \/ Lose(p)
        PROVE  TabInv'
    BY <1>3, LoadFits, CloseFits, ClickOffFits, ClickOnFits, LoseFits
  <1>4. ASSUME NEW p \in Pages, Serve(p) PROVE TabInv'
    BY <1>4, SubscribeFits, ReadFits, WriteFits DEF Serve
  <1>5. ASSUME NEW p \in Pages, Finish(p) PROVE TabInv'
    BY <1>5, ReceiveFits, ReceiveFailureFits, DropFits DEF Finish
  <1>6. ASSUME NEW b \in Browsers, NEW r \in Residents, SwitchResident(b, r) PROVE TabInv'
    BY <1>6, SwitchFits DEF ClosedTabs
  <1>7. CASE UNCHANGED vars
    BY <1>1, <1>7 DEF vars
  <1> QED
    BY <1>2, <1>3, <1>4, <1>5, <1>6, <1>7, DeliverFits DEF Next

\* One tab of a browser at a time: what push.ts told the resident who is logged in there, "Du får nu
\* besked" or "slået fra på denne enhed", stays true until he clicks again, through lost requests and
\* answers, closed tabs, logins of others and fan-outs, on every one of any number of devices.
THEOREM OneTabToldTrue ==
  ASSUME MaxTabs = 1
  PROVE  Spec => []ToldIsTrue
  <1>1. Init => TabInv /\ ClosedTabs
    BY PushAssumption
       DEF Init, TabInv, ClosedTabs, EndpointsApart, BrowserFits, ToldFits, TabsOf, Closed, NoRequest,
           Reaches
  <1>2. TabInv => ToldIsTrue
    BY DEF TabInv, BrowserFits, ToldFits, ToldIsTrue
  <1> QED
    BY <1>1, <1>2, TabInvStep, ClosedTabsStay, TypeCorrect, PTL DEF Spec

=============================================================================
