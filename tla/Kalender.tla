-------------------------------- MODULE Kalender --------------------------------
(***************************************************************************)
(* The event in the calendars of the residents (src/app/events/            *)
(* icalendar.py): the feed that somebody's calendar subscribes to, at an   *)
(* address that is all the proof the server asks for, and the file that is *)
(* downloaded once.                                                        *)
(*                                                                         *)
(* A calendar keeps its copy of an event until it is given one with a      *)
(* higher SEQUENCE: some clients are as strict as that, and models.py says *)
(* so.  Lines, folding and time zones are left out; so is the lookback of  *)
(* the feed, which is longer than an event is kept, and last_used_at.      *)
(***************************************************************************)
EXTENDS Begivenheder

VARIABLES
    addresses,    \* CalendarFeedToken: the secret in each resident's address; 0: none yet
    minted,       \* how many secrets there have been
    phone         \* somebody's calendar

kalenderVars == <<addresses, minted, phone>>

\* A VEVENT: the start stands for what somebody plans around.
VEvent == [starts: Nat, sequence: Nat, status: {"CONFIRMED", "TENTATIVE", "CANCELLED"}]

\* Whose it is, the address it subscribes to, and its copies: of the feed, and of a file.
Phone == [of: Residents \cup {Null}, url: Nat, feed: VEvent \cup {Null}, file: VEvent \cup {Null}]

ASSUME KalenderAssumption == Null \notin VEvent

KalenderTypeOK ==
    /\ TypeOK
    /\ addresses \in [Residents -> Nat]
    /\ minted \in Nat
    /\ phone \in Phone

KalenderInit ==
    /\ Init
    /\ addresses = [r \in Residents |-> 0]
    /\ minted = 0
    /\ phone = [of |-> Null, url |-> 0, feed |-> Null, file |-> Null]

-----------------------------------------------------------------------------
(* What the server emits *)

\* icalendar._vevent; one's place in the queue makes it tentative, but not in the file.
Emitted(tentative) ==
    [starts |-> event.starts, sequence |-> event.sequence,
     status |-> CASE IsCancelled(event) -> "CANCELLED"
                  [] ~IsCancelled(event) /\ tentative -> "TENTATIVE"
                  [] OTHER -> "CONFIRMED"]

\* calendar_feed: whoever has said ja, seated or not.
InFeed(r) == event.live /\ r \in Committed(rsvps)
Waits(r) == r \notin Seated(rsvps, event.capacity)

\* CalendarFeedToken.for_resident: made on first use.
Made(r) == IF addresses[r] = 0 THEN minted + 1 ELSE addresses[r]

-----------------------------------------------------------------------------
(* What the calendar makes of it *)

\* "A client may ignore an update whose SEQUENCE did not increase."
Taken(copy, new) == IF copy # Null /\ new.sequence <= copy.sequence THEN copy ELSE new

\* feed_settings: the page with the address, which the resident gives to the calendar.
Subscribe(r) ==
    /\ Make("address")
    /\ phone.of \in {Null, r}
    /\ addresses' = [addresses EXCEPT ![r] = Made(r)]
    /\ minted' = IF addresses[r] = 0 THEN minted + 1 ELSE minted
    /\ phone' = [phone EXCEPT !.of = r, !.url = Made(r)]

\* rotate_token: the old address stops working at once, and the calendar still asks at it.
Rotate(r) ==
    /\ Make("address")
    /\ addresses' = [addresses EXCEPT ![r] = minted + 1]
    /\ minted' = minted + 1
    /\ UNCHANGED phone

\* calendar_feed: an unknown address is answered 404, and the calendar stays as it is; an event that
\* is no longer in the feed goes.
Fetch ==
    /\ phone.of # Null
    /\ Make("fetch")
    /\ phone' = [phone EXCEPT !.feed =
                    IF addresses[phone.of] # phone.url THEN @
                    ELSE IF InFeed(phone.of) THEN Taken(@, Emitted(Waits(phone.of)))
                    ELSE Null]
    /\ UNCHANGED <<addresses, minted>>

\* event_ics: for everybody, whatever he has answered.
Download ==
    /\ Make("download")
    /\ event.live
    /\ phone' = [phone EXCEPT !.file = Taken(@, Emitted(FALSE))]
    /\ UNCHANGED <<addresses, minted>>

KalenderStep ==
    /\ (\E r \in Residents : Subscribe(r) \/ Rotate(r)) \/ Fetch \/ Download
    /\ UNCHANGED <<now, event, rsvps, stamp, jobs, told, reminders>>

KalenderNext == (Next /\ UNCHANGED kalenderVars) \/ KalenderStep

KalenderSpec == KalenderInit /\ [][KalenderNext]_<<vars, kalenderVars>>

-----------------------------------------------------------------------------
(* Properties *)

Asks(k) == made'[k] > made[k]

Shows(copy) ==
    copy.starts = event.starts /\ (copy.status = "CANCELLED" <=> IsCancelled(event))

\* "A calendar client and a phone can never disagree about whether something changed": as long as
\* requests do not overlap, a calendar that has just asked, or taken a file, shows when the event is and
\* whether it is off, however strictly it goes by SEQUENCE and however much it has missed; and it shows
\* nothing of an event that its owner has withdrawn from.
CalendarFollows ==
    [][/\ Asks("download") => Shows(phone'.file)
       /\ Asks("fetch") /\ addresses[phone.of] = phone.url =>
             IF InFeed(phone.of) THEN phone'.feed # Null /\ Shows(phone'.feed)
             ELSE phone'.feed = Null]_<<vars, kalenderVars>>
================================================================================
