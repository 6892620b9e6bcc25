# TLA+ models of ny_ny_intern

`ny_ny_intern` is the website of G.A. Hagemanns Kollegium: public pages, and an
intern part where residents announce events, pay for drinks, report repairs, apply
for rooms and write to each other. It is a Django application (`src/app`) with some
TypeScript in the browser (`src/frontend`), served by three gunicorn workers on one
PostgreSQL database, with cron commands beside them (`src/DEPLOY.md` §4b).

What can go wrong in it is mostly concurrency against the database. Django runs
each request in autocommit or in a short `transaction.atomic`, at READ COMMITTED, and
the code takes no explicit lock and next to no constraint: correctness rests on
the order of a handler's reads and writes, on conditional UPDATEs, on unique columns
and on what the browser remembers. The modules here cut each handler at the points
where another request's commit can land, and ask what survives.

## Inventory

For each part: the state it keeps, its operations, how others touch it, what is hard
about it and what makes it correct. `PROJECT.json` has the same list with the files and
the status, and under `hazards` the lines where the hard things happen.

| part | state | operations | hard | correct means |
|---|---|---|---|---|
| **Begivenheder** (`events/`) | the event row (start, deadline, capacity, `cancelled_at`, `sequence`, `reminded_at`), one `Rsvp` per resident with `answered_at`; seats are derived from the order of `answered_at` | answer, create, edit, cancel, delete, purge, deadline reminder | answers that overlap; a whole-row `save()`; delete and purge under a running answer; a reminder found due by cron and by page loads | the waiting list of `spec/features/begivenheder.md`: served in order, nobody who was told of a seat loses it, whoever moves up is told, no orphan, one reminder |
| **Begivenheder: who may see it** (`access.py`, `services.py`) | visibility, the guest list, co-organisers, the gate of a feature on trial | create, edit, appoint, cancel, answer; threads that tell, rounds of reminders | the guest list is reconciled after the save, in a transaction of its own; a thread asks late whom to tell, a round goes by what it read early; residents move out | an edit ends with its own guest list; whoever is told may come, or could when he was chosen |
| **Begivenheder: calendars** (`icalendar.py`) | a secret address per resident; outside, copies that a client keeps | subscribe, change the address, fetch, download | a client ignores what does not raise SEQUENCE | a calendar that has asked shows when it is, and whether it is off |
| **Push** (`core/push.py`, `push.ts`, `sw.js`) | in the browser one endpoint, per tab two variables, in the database one row per endpoint with a column per topic | load, click on/off, subscribe, unsubscribe, fan-out in a thread, reaping on 404/410 | lost answers, several tabs, residents who share a browser, an endpoint that dies | what the button says is so; consent is per topic and explicit; dead rows go |
| **Ølkælder** (`oelkaelder/`) | products, shoppers, purchases with lines, deposits, adjustments, two policies; a balance is a sum over them | purchase, deposit, adjustment, void, (de)activate, policies, monthly interest | interest clicked twice, policy checked before the write, voids that race, shares that must add up | nobody charged again who had been charged, a void once, the credit limit kept, no øre lost; statements and reports that add up, and pages of sales that skip none |
| **Værelser** (`rooms/`) | offers, coin flips and applications of a month, each application with a seniority quotient | apply, withdraw, offer, close, flip a coin, end a round | the walk of the allocation; a round with a tie that is ended twice; applicants who come and go between its reads and its writes | the higher quotient first; a winner alone in the room; nobody falls off the list; a tie stays open |
| **Værelser: reports** (`rooms/views.py`) | reports on each room, one of them current | submit, backfill | two at once | the next one is the only current one |
| **Residents** (`residents/`) | the list of a month (resident, room, workgroup), the roles of a month, accounts | copy last month's list, save it, add to it, set a role; `active_period` decides which list counts | two tables written by two parties, the editor and the rounds; every other part asks them who may do what | whoever leaves a list loses the roles of that month |
| **Residents: accounts** (`permissions.py`, `signals.py`, `context_processors.py`) | `is_staff`, an administrator's preview of other roles | whole-row saves, signals, preview | roles that come and go under a form, a session or a preview | who is staff holds a role of some month; the sidebar leads to what opens |
| **Den Hurtige** (`den_hurtige/`, `core/reactions.py`, `feed.ts`) | posts that expire, comments, photos, reactions, mutes; in the browser a thread panel and its history entries | post, comment, react, mute, delete, three ways of purging; open and close a thread; swipe a message, hold a reaction | a purge against a comment, two taps at once, `history.back()` that happens later, fingers that share one drag | one reaction each; a post has its photo and an expired one goes with it; a close never leaves the app; a swipe does what was meant |
| **Opslagstavlen** (`opslagstavle/`) | notices, remarks, pins, uploaded pictures and which notice has claimed each | write, edit, pin, delete, upload, the nightly sweep | edits that write back what they read, a picture that two notices show, a sweep or a deletion that has already read what it deletes | a claimed picture stays; the cap on pins is exceeded by no more than the requests that overlap |
| **AK** (`ak/`) | the schedule of charges, the charges of a month, the backstop's marker | a page load, the command or an officer books the month; entries by hand | booked by several at once, failures, a worker that dies before the marker | a marked month is booked; a visited month is booked in the end |
| **Reparationer** (`reparationer/`, `reparationer.ts`) | tickets, notes; in the browser the board as it shows the cards | report, move, hand over, archive, sweep; drag | a card moves before the server has answered; roles change under an open board | a board at rest shows the server's column |
| **Admissions** (`admissions/`) | applications to live here, who received or discarded each | send, mark, purge | two officers mark one application | a mark never undoes another; nothing younger than a year goes |
| **Files** (`core/files.py`, `storage.py`, `media.py`) | uploaded files, on a volume or in a bucket | upload, delete after the commit, copy to the bucket, cut over, roll back, serve | a row and a file are two stores; the copying is interrupted and repeated on a live site; redirects that a browser keeps | no row without its file; a picture only for whom it is meant |
| **The move from the old site** (`core/etl.py`, ten commands of `task etl`) | the tables of the new site and their sequences | import, reset the sequences, verify, backfill | a command dies, the task is started over, a later dump is loaded, people write meanwhile | the tables say what the dump says, and every new number is free |
| **CMS** (`cms/`) | pages and their addresses, redirects from old addresses, versions of the content | save, restore, delete, redirects by hand, the legacy import | saves that overlap, addresses that change hands, a history with a cap | an address that was left leads on; nothing that is overwritten is lost |
| **Start-up checks, statistics, markdown, demo seeds** | counters | settings and scripts | sequential | not modelled: no protocol of their own |

How they interact: every part sends through **Push** after its commit; the boards share
`core/reactions.py` and `core/files.py`; the rooms write the residents' roster; all of them
read the time from `core/clock.py`, which an administrator may move in a preview; cron runs
`purge_events`, `remind_rsvp_deadlines` and their siblings against the same tables the
requests use. The list of the month and its roles (`Maanedsliste`) is what most of them share: the room lottery and
Indstillingen's editor write it, AK charges it, the boards, the repairs, the admissions and the CMS ask it who may
do what. `Intranet` puts those on one list.

## Modules

| module | what it is |
|---|---|
| `Begivenheder` | one event, its answers, and the workers that run requests on them |
| `WaitingList` | the abstract specification: a queue, a number of seats, who has been told, whether it is off or over |
| `MCBegivenheder` | instances for TLC |
| `Kalender` | the event in the residents' calendars: addresses, feeds, files, SEQUENCE |
| `MCKalender` | its instance for TLC |
| `BegivenhederProofs` | theorems about `Begivenheder` and `Kalender` |
| `Push` | browsers, tabs, the subscription endpoint and the fan-out |
| `MCPush` | instances for TLC |
| `PushProofs` | theorems about `Push` |
| `Oelkaelder` | the ledger of the beer cellar, and the workers that sell, charge and correct |
| `Saldo` | the abstract specification: a saldo per shopper that is changed in one step |
| `Kasse` | what the pages of the beer cellar show of the ledger: the till, statements, reports, Salgsoverblik |
| `MCOelkaelder` | instances of both for TLC |
| `OelkaelderProofs` | theorems about `Oelkaelder` and `Kasse` |
| `Omfang` | the bound that the modules below share: what may happen in one behaviour |
| `Maanedsliste` | the list of a month, the roles that go with it, and the editor of both |
| `Soegvaerelse` | the room lottery: applications, offers, the allocation, the end of a round |
| `Ak` | the monthly deduction, booked by page loads, a command and an officer |
| `Reparationer` | the repair board on the server and in a browser |
| `DenHurtige` | posts that expire, with comments, photos, reactions and mutes |
| `Opslagstavlen` | notices, pins, pictures and the sweep |
| `Traad` | the thread panel of Den Hurtige and the browser's history |
| `Gestus` | the fingers on the page of Den Hurtige |
| `Admissions` | applications to the kollegium |
| `Cms` | public pages, their addresses and their versions |
| `Vaerelsestjek` | the reports on the rooms |
| `Overflytning` | the move of the rows from the old site |
| `Medier` | the uploaded files, their move to the bucket, and who may see which |
| `Indbydelser` | who may see an event, its guest list, and who is told |
| `Konti` | accounts: who is staff, an administrator's preview, the sidebar |
| `Hverdag` | the composition of those five |
| `Intranet` | the composition of `Hverdag` with the nine before it |
| `MCIntranet` | its instance for TLC |
| `IntranetProofs` | theorems about the list of a month, the rounds and the notices |
| `DenHurtigeProofs` | theorems about Den Hurtige, its thread panel and its gestures |
| `KontorProofs` | theorems about AK, admissions, repairs and the CMS |
| `HverdagProofs` | theorems about the accounts, the reports, the invitations, the files and the move, and the types of the whole composition |
| `Sums` | lemmas about sums over finite sets, for the proofs |

### Begivenheder

A worker (`jobs[w]`) is a gunicorn worker, or a cron command, with one request; its `pc`
names the point of the handler it has reached, its other fields are what the handler
has in memory. `event` and `rsvps` are the committed rows; what a transaction has written
and not committed is in the job (`changed`, `rows`), visible to itself (`View`) and
locked against others (`Holds`, `RowFree`).

| request | actions | code |
|---|---|---|
| answer | `BeginAnswer`, `WriteAnswer`, `ChoosePromoted`, `CommitAnswer`, `AbortAnswer` | `views.answer`, `services.set_answer` |
| edit | `BeginEdit`, `SaveEdit` | `views.edit`: form on a row read earlier, then `save()` of every column |
| cancel | `BeginCancel`, `SaveCancel` | `views.cancel`, `services.cancel`: `save(update_fields=...)` |
| delete, purge | `BeginDelete` or `BeginSweep`, then `DeleteAnswers`, `RemoveEvent` | `views.delete`, `purge_expired`, and Django's deletion collector |
| reminder | `BeginReminder`, `ClaimReminder`, `SendReminder` | `services.ensure_due_reminders_sent`, `send_deadline_reminder` |
| anything | `Crash`, `Tick` | a worker dies; time passes |

What is abstracted, and why it does not hide the interesting part:

* `answered_at` is a counter read in `BeginAnswer`. Only its order matters, and two readings of a
  microsecond clock are taken to differ, so the tie-break on the primary key is never needed.
* The reads an answer opens with (event, seats, clock, own row) are one step. A commit between two of
  them is not modelled; a commit between them and the write is.
* The collector deletes the answers with one statement that waits for, and then holds, all their row
  locks; that it takes them one by one is left out.
* `told` is the latest word each resident had: "du har en plads" or not, from the panel or from
  the promotion push, which is sent after the commit and taken to arrive.
* The event's start stands for every field that `significant_change` compares.
* Invitations, visibility, co-organisers and the push audiences decide who may see an event, not who has a seat in it:
  they are in `Indbydelser`. Images and `promoted_at` are not modelled.

`WaitingList` is a queue that is served in order, with what is said to whom. It is frozen when it is called off, and goes away only
when nobody wants to come or it is long enough past. `Begivenheder!ImplementsWaitingList` maps the ja rows, in the order of
`answered_at` (`InOrder`), to the queue, `cancelled_at` to `off`, and what the purge may take to `over`.

`Kalender` adds a calendar to it. `addresses` is `CalendarFeedToken`; `phone` is somebody's calendar, with the address it was given and its
copies of the event, from the feed and from a file. `Fetch` is `calendar_feed`: 404 at an address that was changed, and else the event
if its owner has said ja. `Taken` is the client at its strictest: a copy is replaced only by a higher SEQUENCE, as `events/models.py:208-210`
says a client may do.

### Push

`pages[p]` holds what `push.ts` keeps in a tab (`subscription`, `enabled`) and whether its CSRF
token is still the browser's; `requests[p]` is the one POST the tab may be waiting for, in the network
(`sent`), in the server between its two statements (`read`), or answered (`done`, `failed`). A tab may be
closed meanwhile: the request goes on. `sub[b]` is what the browser's `PushManager` holds, `rows[e]` the
server's row for an endpoint, with `pk` to tell it from one created later, and `fanout[t]` the rows the
background thread has read and not sent to yet. `told` and `asked` are history: what the button last said
to whoever is logged in, and who has clicked what on. The push service, the browser's `PushManager` and the
login are external: `Dead`, `Released`, `SwitchResident`, `Lose` say what the code relies on.

A page load renders `Subscribed` and reads the browser's subscription in one step. The permission prompt,
a changed VAPID key (`InvalidStateError`), the payload's validation and the channel mutes are left out. An
endpoint dies only when the browser lets go of it.

### Oelkaelder

`ledger` is the sequence of the committed rows: a deposit, a correction, an interest charge, or a transaction with
its shares, each with what it says of every shopper (`amounts`), the month it is dated in, and whether it is
still valid. A balance is never stored; `Balance` sums over the rows as `balance_ore` does, in three aggregates.

| request | actions | code |
|---|---|---|
| sale | `BeginSale`, `ReadDeposits`, `ReadSpent`, `ReadAdjustments`, then `RefuseSale`, or `WriteSale`, `CommitSale`, `SendWarnings` | `services.record_purchase`, `bulk_balances`, `send_debt_warnings` on commit |
| interest | `BeginInterest`, per shopper `NextShopper`, the three reads and `JudgeShopper`, at last `CommitInterest` | `services.apply_interest` |
| deposit, correction | `RecordDeposit`, `RecordAdjustment` | `services.record_deposit`, `record_adjustment` |
| void | `Void` | `void_purchase`, `void_adjustment`, `views.void_deposit` |
| settings | `SetActive`, `UpdatePurchasePolicy`, `UpdateInterest` | the views of the administration |
| anything | `Crash`, `NextMonth` | a worker dies; a month ends, on the UTC clock and on the local one |

A sale reads its balances, is decided, written, committed and warned about in separate steps, and so is the
interest of each shopper; any other commit can land between them. The requests of the administration are one
step each, because the one statement that writes also decides: a void is an UPDATE that asks for `is_valid=True`.
(`views.void_deposit` reads first and saves one column afterwards; a second one sets it to what it is.)

`fresh` is a history: a job loses it when another request commits under it; so is `since`, how much of the ledger there was
when an interest run began. The code takes no lock, so two sales can each be under the credit limit and together over it
(`CreditLimitKept` and `WarnedOnCrossing` are therefore of sales that nothing overtook), and two overlapping interest runs charge
twice. What the code promises of every interest run is `NeverChargedAgain`: whoever had interest of the month that it asks for when
it began is not charged again, whatever happens meanwhile. `ImplementsSaldo` is of all requests too. "Idempotent per calendar month"
(`InterestOncePerMonth`: nobody has two charges in one month) is more than that, and does not hold.

What is abstracted: a basket comes to a price from a small set (products, steps and weights are arithmetic on
one row); the thresholds and the rate do not change during a run; the log keeps the lines that say a row was voided;
a mail that is sent arrives. The number of mails a shopper has had stands for the mails. The account with a debt that
the ledger may open with stands for everything that happened before.

`Kasse` adds the pages. `receipts` is what they know of a row besides its amounts: its number, drawn from the sequence when the row is
inserted (`Booking`) and visible at the commit, its buyers and its price. `Statement` is `_account_entries`, `ShownBalance` the balance beside it,
`Marked` the shoppers that the till shows as blocked. Salgsoverblik is a reader: `OpenSales`, then per page `CountSales` and `ShowSales`, the two queries
of a page, with the tills selling in between. The sales of the old site have no buyers and share one time.

`Saldo` is what the legacy till had, an amount per shopper, changed in one step: `Sell` (the buyers pay the
whole price, each the same to within an øre), `Settle`, `ChargeInterest`, and `Undo` (everybody gets back what they
paid for one bill, once). `Kasse!ImplementsSaldo` maps the balances to the saldi and the rows of the ledger
to the bills (`PaidFor`): a row that is voided, or of interest, is a blank one.

### The intranet's month

`Omfang` has a `mix`, chosen at the start and never changed, that says how many events of each kind a behaviour has; `Make(k)`
counts one. It bounds; it decides nothing. The counters also number what is created, as a sequence in the database would.

`Maanedsliste` has the calendar (`today`), `list[m][r]` (a `Residency` row or none), `roles[m][r]` (`RoleAssignment`) and
`accounts`. `Active` is `active_period`. `CopyList`, `SaveList`, `AddToList` are the three forms of
`residents.views.next_month_list`, with what they do to the roles (`_sync_month_roles`), `SetRole` is the administrator's page.
A request of the editor is one step, and none runs while a round does: Indstillingen is one office.

`Soegvaerelse`: `Kvotient` is `compute_k` to the hundredth. A round is `BeginRound`, then for each month with an offer
`ReadOffers`, `ReadPriorities`, one `JudgeEntry` per entry of the walk, and `EndMonth`, which writes what `end_round` does in one
transaction: the roster carried forward, winners moved, occupants evicted, roles, and the offers and applications that a tie
leaves open. Residents apply and withdraw between any two of these. A month of the round that is done is on the list before
the last one is, which the code's one transaction hides.

`Ak`: a job reads the schedule, then the members, then writes (`ReadSchedule`, `ReadMembers`, `Book` or `ClearMonth`), may
fail (`ApplyFails`), and a page load then moves the marker (`SetMarker`) unless the worker dies first (`DieUnmarked`). `booked` is a
history. The delete and the inserts of a booking are one step, being one transaction that writes what it has read.

`Reparationer`: the server's requests (`Report`, `MoveByForm`, `HandOver`, `ArchiveNow`, `Unarchive`, `Sweep`, notes) and a board per
resident who has one open: `Load`, `Drag`, then `AcceptMove` or `RefuseMove` on the server or `LoseMove`, and `Settle` when the
answer is there or is not coming. `Drag` is picking up a card and dropping it: while a card is in the air nothing is sent. `astray` is a history of the three cases in which the code leaves a card where it is not.

`DenHurtige`: `BeginComment`/`WriteComment`, `BeginTap`/`WriteTap` (which creates, clears or moves a reaction by what it had
read, and is refused by the unique constraint), `ToggleMute`/`WriteMute`; a deletion, by a feed load, the command or a hand, is `Collect`,
`DeleteRows` or `FailToDelete` (somebody has commented since), then `DeletePhotos` or `FailPhotos`.

`Opslagstavlen`: `BeginEdit`/`EndEdit` and `BeginPin`/`EndPin` write the row they read, changed; `SyncedPictures` is
`sync_images`, which claims and lets go. `BeginSweep`/`EndSweep` and `CollectNotice`/`DeleteNotice` are each a `delete()`: Django's collector
selects the pictures, because each has a signal to send, and deletes them by number, in a transaction that begins after the selection. Between the two
another notice may claim a picture, and loses it; or an edit may give the notice one more, which the foreign key then refuses (`NoMoreClaimed`), and the deletion fails.

`Traad`: `trail` and `pos` are the browser's history as far as this page made it, `backs` the `history.back()` calls that
have not happened yet, `slips` what the code does not provide for, which the properties except by name. The history API is external.

`Admissions`: `BeginMark`/`EndMark` with the columns of `save(update_fields=...)`, `PurgeLetters`.

`Cms`: a save or a restore is `Begin...`, which reads the page and whether it has versions, and `EndSave`, which writes the page,
its `Snapshots`, trimmed to the cap, and its redirects, or `ClashSave` when the address has been taken since. `Import` is `etl_cms`. `told` is a
history: the page that an editor was told an address now leads to.

`Gestus` EXTENDS `Traad`: `hands[f]` is each finger that is down, `drag`, `hold`, `popped` and `swallow` are the page's variables, `tilt` the inline style
of what is dragged. `MoveFinger`, `Lift` and `Interrupt` are pointermove, pointerup and pointercancel, `Poll` the morph of the page. `deed` is a history:
what a finger did last, and the way it had gone.

`Vaerelsestjek`: `BeginReport` takes the flag from the reports it finds, `EndReport` commits with its own.

`Overflytning`: `RunCommand` is the next command of the task, one transaction, with each table a function from ids to rows; `StartTask`, `CommandDies` and `LoadDump` are the
operator's side, `WriteRow` a row written on the new site, `BackfillRoomHistory` the later command. `Flagged` is what `etl_verify` would report.

`Medier`: `volume` and `bucket` say whose file is under a name; `CopyFile` visits one name of `migrate_media_to_s3`; `FlipToBucket`, `RollBack` and `EmptyVolume` are the
runbook of `src/DEPLOY.md`. `LookAt` is `serve_media`, with the browser's store of redirects and a clock of quarters.

`Indbydelser`: an edit is `BeginDraft`, `SaveDraft` (every column, a cancellation that it read included), `ReadGuests` and `WriteGuests` (`sync_invites`, in a transaction of
its own, which the unique constraint may refuse); `CreateParty` is followed by the last two. What tells somebody is in `sends`. `core/push.py` starts a thread when the page has
committed, and the queryset it was given is evaluated in there: `Deliver` asks the database for the roles, the answers and the guest list as they are then, but goes by
the visibility of the event in the page's memory (`Audience`). The thread of a changed event runs beside the `sync_invites` of the same page, which comes after it. `BeginCancel`/`SaveCancel`
tell those who come; `Answer` moves the queue of the seats (`Seats`) and tells who moves up, whom `notify_promoted` takes as he is.
`BeginNudge` is `events_needing_reminder`, all due events read at once (`dues`); `AskWhom` looks up whom to remind of one of them, by the visibility read then, and the next one waits until
that has gone out. `alone`, `could` and `asked` are histories: that no other form of the event overlaps, and who could see the event at the moments that `ToldMayCome` names.
Deadlines, the claim of a reminder, deletions and answers that overlap are those of `Begivenheder`.

`Konti`: `staff` is `is_staff`, kept by the signals in `Maanedsliste` (`HeldNow`), which ask for a role of any month; `BeginRowSave`/`EndRowSave` are the forms that save every column; `SetPreview` is
the preview of other roles, `Offered` the sidebar, `Opens` what each page asks for.

`Hverdag` joins those five, and `Intranet` joins it with the others.

`Intranet!Next` is one of these at a time, and the others unchanged: they share the list, the roles and the bound, nothing else.

## Runs

| run | shows | bounds |
|---|---|---|
| `begivenheder_serial` | with requests that do not overlap the event is the waiting list it promises (`ImplementsWaitingList`), and a calendar follows it (`CalendarFollows`) | 3 residents, 1 worker, 1 or 2 seats, 3 answers and one of each other request, 4 ticks; and three mixes with a calendar that asks twice or takes two files (`SerialMixes`) |
| `begivenheder_overlap` | with two requests interleaved and crashes: `NoOrphans`, `RemindersPerEdit`, `RequestsFinish` | 3 residents, 2 workers, 1 seat, the five mixes of `OverlapMixes` |
| `begivenheder_seat_race` | expected violation of `SeatKept` | 2 overlapping answers |
| `begivenheder_cancel_undone` | expected violation of `CancelledStaysFrozen` | an edit and a cancel |
| `push_one_tab` | `ToldIsTrue`, `OnlyWhatWasClicked`, `DeadRowsAreReaped` | 2 residents sharing 1 browser, 2 topics, 1 tab at a time, 2 endpoints, 4 clicks, 1 loss |
| `push_two_tabs` | expected violation of `ToldIsTrue` | 2 tabs, one click at a time |
| `push_shared_browser` | expected violation of `ConsentIsOnesOwn` | 2 residents, 1 browser |
| `oelkaelder_overlap` | `ImplementsSaldo`, `BooksAgree` and `NoSaleSkipped` and `NeverChargedAgain` under every interleaving; `CreditLimitKept`, `WarnedOnCrossing` for sales nothing overtook | 2 shoppers, 2 workers, the nine mixes of `LedgerMixes`, pages of 2 after 3 sales of the old site, baskets of 0 and 3, corrections of -1 and 2, a limit of -2 or none, one threshold, half the debt as interest |
| `oelkaelder_month_turn` | expected violation of `InterestOncePerMonth` | 1 worker, a month that turns on the local clock before it does on the UTC clock |
| `intranet` | the properties of the composition, see below | 3 residents, 2 rooms, 1 group, 3 months, 2 workers, and the 59 mixes of `IntranetMixes` |
| `intranet_envy` | expected violation of `NoEnvy` | one round, three applications for two rooms |
| `intranet_shares` | expected violation of `NobodyShares` | two rounds, two applications that tie, one coin flip |

`intranet` checks, of the rounds: `HigherKvotientFirst`, `WinnerAlone`, `NobodyVanishes`, `TiedKeepApplying`; of the editor:
`LeavingTakesTheRoles`; of AK: `MonthIsBooked`; of the repairs: `BoardInStep`; of Den Hurtige: `PhotoOfAPost`, `GoneInTheEnd`, and of its page
`StaysInTheApp`, `ClosedIsClosed`, `SwipesAreMeant`; of the notices: `PictureStays`; of the pages: `LeftAddressesLead`, `NothingIsLost`; of the reports on rooms:
`NextReportHeals`; of the move from the old site: `MovedAsItWas`; of the files: `PhotosFindTheirFiles`, `PicturesForWhoMaySee`; of the invitations:
`EditTakesHold`, `ToldMayCome`; of the accounts: `StaffHoldsARole`, `SidebarLeadsThere`; and `TypeOK`.

What `WaitingList` promises includes what one would state of an event one by one: nobody who was told of a seat loses it, whoever moves up is told,
the queue is never overtaken, a cancelled event is frozen, and nothing is removed under who has said ja.

Why these bounds are enough for what is asked. Three residents and one or two seats give one who is
seated, one on the waiting list and one who joins; the list starts with any subset of them in any order, so
three answers reach every kind of crossing. Two workers are what it takes to interleave two handlers, to
deadlock on each other's rows, and to find one reminder due twice; more requests at once only repeat it. In
`push_one_tab` four clicks are enough to turn two topics on and one off and on again, two endpoints are
enough for one to die and be replaced, and `MaxTabs = 1` counts a closed tab's unanswered request as a tab: a
resident who opens a second tab, or reloads and clicks before the server has dealt with the first click, is the
case `push_two_tabs` is about.

In the ledger two shoppers are what it takes to split a basket of 3 unevenly, to block one buyer and not
the other, and to charge one and pass over the other; the opening debt of 3 is one sale away from the limit and the
threshold. Each mix of `LedgerMixes` is a pair or triple of requests that touch the same rows; larger mixes repeat
them and were too many states.

`begivenheder_serial` has one worker: of overlapping requests `WaitingList` is not what the code keeps (`begivenheder_seat_race` shows one way, and two edits may give two changes
one SEQUENCE), so that these interleavings are covered only by what `begivenheder_overlap` checks. Likewise `EditTakesHold` is of a form that no other overlaps: the instance
has the overlapping forms before it and the residents who move out under it.

For a calendar, one change between two fetches, or two between two files, is what it takes to miss one; the third mix changes the address
between them. `oelkaelder_overlap` has sales that share a time across a cut of the pages.

In the composition every mix gives events to one part, or to two that touch: rounds and the editor or the month; AK and a month that
turns, or a member added; repairs and roles; notices and a new list. All others share no variable but the bound, so that a mix of
more of them would only multiply states. An administrator, a caretaker and a resident without a room are three different answers to every
question of permission; two rooms and three applicants make a tie, a winner and a loser; one ticket, one picture and one letter are
what two requests need to collide on; two posts let one expire while another lives. `MaxPinned`, `ArchiveAfter`, `Grace` and `KeepFor`
are 1 and the version cap is 3, its least meaningful value, so that each is reached and exceeded. One page is a section, one is under
it, one is new, and one of the four addresses is reserved. The old site has three dumps, each with the rows that the import treats in a way of its own: an account that was
replaced, one without e-mail, rows of people who are gone and of no room. Three rows with a file share three names, one of which the old site has given. Two fingers and five spots:
past the trigger on either side, short of it, down, and within the slop. There is one event beside the rest (those of `Indbydelser` meet nowhere but in a round of reminders), with
one seat, and one guest is enough; two forms of it overlap (`FormsAtOnce`), with a third after either, a change or a round of reminders is under way when it is answered, cancelled or made private. `PresignTtl` is twice `RedirectMaxAge`; in the code it is four times, so that the instance is
the tighter of the two.

`oelkaelder_overlap` uses symmetry in the workers, which no property tells apart.
`begivenheder_serial` uses symmetry in the residents; its properties are safety properties and an abstract
specification without fairness. The runs with liveness use no symmetry.

Deadlock is not checked: with its mix of requests used up, the system really stops.

### Fairness

* `Begivenheder!FairSpec`: weak fairness of `Advance(w)`. The server keeps running a request it has
  taken on; that a request arrives, a clock ticks or a worker crashes is never assumed. `RequestsFinish` is then
  about the waiting for row locks, which the code leaves to PostgreSQL's deadlock detector (`Deadlocked`).
* `Push!FairSpec`: the server answers, the browser reads the answer, a fan-out that has started ends,
  and there is always another notification under each topic. The last two are assumptions about the
  surroundings, not guarantees of the code: `core/push.py:98` passes `webpush` no timeout, so a push service that
  never answers holds its thread, and rows of dead endpoints go only when something is sent to them.
* `Ak!AkFairness`: somebody opens a page that has the backstop, as long as the mix has visits, and a request that has
  begun goes on: weak fairness of what the server does anyway. Failures and deaths are not fair, and the mix bounds them.
* `DenHurtige!DhFairness`: a deletion that has begun goes on, and somebody has the feed of the main channel open, which polls
  every 20 seconds (`feed.ts`). The half-hourly command is not assumed to run.

## Findings

* `begivenheder_seat_race`: `set_answer` reads `answered_at` before it writes and commits and takes no lock. Two
  answers overlap; the one that is second in the queue commits first and is shown that it has the last seat;
  then the first one commits and has it.
* `begivenheder_cancel_undone`: `views.edit` saves every column of the row it read. A cancellation that
  commits in between is overwritten: the event is on again, after its guests were told it was not.
* `push_two_tabs`: a tab that loaded while another still had a subscription keeps it in a variable. The other
  tab turns its topic off and releases the subscription; this tab then posts the dead endpoint and says
  "Du får nu besked".
* `oelkaelder_month_turn`: `apply_interest` asks for interest created in the month of `timezone.now()`, which is UTC,
  with a filter that converts `created_at` to Copenhagen's time. In the first hour or two of a local month it looks for
  last month's interest and creates this month's: two runs one after the other both charge. Two clicks that overlap do so at any time of the month, since
  `services.py:80` looks before either has committed, and no constraint forbids it: `InterestOncePerMonth` fails as well with two workers and clocks that agree.
* `push_shared_browser`: on a shared browser the row moves to the second resident with the first one's topics
  still on.
* `intranet_envy`: `allocate_round` declares a tie for the first entry of the walk, be it for somebody's last choice, and holds all the
  tied out of the rest. A resident who is tied for his second choice loses his first to somebody with a lower quotient.
* `intranet_shares`: a round with a tie evicts the occupant of a room that was won and deletes its offer. When it is ended
  again after the coin flip, the roster is carried forward once more: the evicted occupant is on last month's list, and comes back
  into the room.

Seen while modelling, and not stated by a run:

* `src/app/cms/services.py:11-13` says the content before a human edit is always captured, "including content an ETL run had already
  clobbered". `save_model` captures it only when the page has no version at all (`cms/admin.py:384`): what an import put over a page
  that had been edited before is lost with the next save. `NothingIsLost` excepts it.
* Two renames of one page that overlap, a to b and a to c, leave the address of the one that commits first without a redirect.
* Deleting a page that nobody has edited destroys its only copy: it has no version.
* The grace of an orphaned picture counts from its upload (`purge_notices.py:50`), not from when its notice let it go: one that was uploaded long ago, taken out of its notice and put back the next day is gone.
  `opslagstavle/images.py:14-15` and `purge_notices.py:18-19` say that re-adding it cannot lose the file.
* A notice that claims a picture after the deletion of the notice that had it has begun, or after a sweep has selected it, loses it (`DeleteNotice`, `EndSweep`). `PictureStays` excepts just that.
* `core/storage.py:66` and `opslagstavle/images.py:5-7` still say that media is public by URL; `core/media.py`, `config/urls.py` and `src/DEPLOY.md` §4c say that it no longer is, and
  `PicturesForWhoMaySee` is of what `core/media.py` does.
* `residents/models.py:108-110` says that `is_staff` is "holds any role in the active period", and `residents/signals.py:4` "(any period)". The signals ask for any month, and only when a role
  is saved or deleted: who had a role last month stays staff, and who is given one of next month is staff at once. `StaffHoldsARole` is of the signals.
* `notify_promoted` does not go by `_audience`, although "an invite-only event notifies ITS INVITEES AND NOBODY ELSE" (`events/services.py:250`): whoever is taken off the guest list while he waits keeps
  his place in the queue, moves up, and is told of a seat at an event that answers him with 404. `ToldMayCome` says nothing of promotions.
* A round of reminders goes by the visibility it read before its first (`events/services.py:371`): of an event that a form makes private meanwhile it reminds the whole house, "the leak, not a
  nicety" (line 251). `ToldMayCome` excuses whom could see the event when the round read it.
* A copy of the list (`residents/views.py:466`) overwrites rooms that a round has awarded since.
* An AK request that is slower than another writes the schedule it read earlier over the newer one, and a member who is added after
  the booking is not charged for that month.
* A ticket that was brought back from the archive is swept again the next night, as `unarchive` does not touch `updated_at`.

* Overlapping edits of an event may leave an event for invited guests with fewer than `MIN_INVITEES`, and may tell the whole house of one that was just made
  private. The thread of `notify_changed` starts before `sync_invites` and runs beside it, so that somebody whom that same edit uninvites may be told of it, and somebody whom it invites may not. Who is uninvited keeps his ja and his
  seat; guests who have moved out drop off at the next edit. `access.can_manage_hosts` is never called: co-organisers are made in the admin only.
* `events/services.py:368` says that a claim "is only advanced on a successful send"; `send_deadline_reminder` claims first.
* Two edits that overlap may give two changes one SEQUENCE, and an edit that overlaps a cancellation may take it back. A promotion from the waiting list
  changes TENTATIVE to CONFIRMED and raises neither SEQUENCE nor DTSTAMP: a strict client keeps TENTATIVE.
* Salgsoverblik counts and then reads: a sale that commits in between can push the last sale off the last page.
* Two overlapping reports leave a room with two current ones, until the next.
* `migrate_media_to_s3` run again after the cutover overwrites a file of the bucket whose name was reused, and brings back files deleted since; `src/DEPLOY.md` §4c
  says that "the worst case is wasted upload". A rollback loses sight of what was uploaded to the bucket.
* `etl_ak` subtracts the log twice for a merged resident with two totals. `etl_verify` counts all reports against those with `is_newest=1`, and so does the
  docstring of the backfill, whereas `etl_rooms` imports all. A later dump with a second account under an imported e-mail makes `etl_residents` fail for
  good, although `02-schema-etl.md:55` says it is re-runnable. A second run deletes rows written on the new site, and overwrites passwords changed there.
* In `feed.ts` a long press that ends in pointercancel, or whose browser makes no click, leaves `swallowClick` set: the next tap anywhere is swallowed. A second
  finger can open the panel of names inside a message that is being dragged, although "a drag never STARTS while a picker is open".
* Forms that save whole rows (`edit_resident`, `edit_profile`, `product_update`) put back what was written between their read and their write.
* Residents whose sponsors form a cycle are missing from the stamtræ: its roots are those without a sponsor.

## Proofs

The runs check small instances; the theorems hold for every number of residents, accounts, workers, browsers, tabs,
topics, and every value of the bounds, under the named assumptions on the constants (`ConstantsAssumption`,
`PushAssumption`): finite sets of residents and workers, bounds that are natural numbers, and a `Null` that is none
of the other values.

* `BegivenhederProofs!TypeCorrect`, `PushProofs!TypeCorrect`: `TypeOK` is inductive as it stands.
* `BegivenhederProofs!OrphansNever`: `NoOrphans` is not inductive. An answer commits only while the event is
  live, and a delete commits only when it has deleted every row; what is needed besides is that a save that
  inserts a deleted event again (`SaveEdit`) writes a live row, so the invariant adds that edits are of live
  rows.
* `BegivenhederProofs!RemindersAreClaimed`: the invariant weighs the jobs. Every edit that has been read before the claim
  may undo it, so what is bounded by `1 + made["edit"]` is the reminders sent, plus the claims not sent yet,
  plus one while the column is unclaimed, plus the edits in flight that would write the column back
  unclaimed. The proof is one step per action, on how the cardinality of those sets can change.
* `PushProofs!ConsentIsClicked`: `OnlyWhatWasClicked` becomes inductive with `SentIsAsked`: a subscribe on
  its way to the server carries a click. The row is only ever widened by such a request, and everything else
  shrinks it (`RowsShrink`).
* `OelkaelderProofs!TypeCorrect`: with a balance summed over a sequence of any length. That a sum of integers is an
  integer is an induction, and the library's induction theorems cannot be used; `SumType` takes the least
  index at which a partial sum is no integer (`LeastNatural`, from the well-foundedness of `<`) and shows that there is
  none. `SharedOut` is typed from the lemmas on division.
* `OelkaelderProofs!VoidsLoggedOnce`: `VoidsAreLogged` needs that the rows a job will commit are valid and have no void
  line (`InShape`), which says besides what kinds of rows each kind of job can hold at each point: `LedgerInv`.
* `OelkaelderProofs!NobodyChargedAgain`: `NeverChargedAgain`, of every interest run, without a hypothesis on the clocks or on what overlaps. What the ledger charges stays
  as it is, whatever is written or voided (`ChargesStay`), and so what a run has written repeats nothing of the ledger it began with (`NoneTwice`): `JudgeShopper` looks at a
  ledger that has only grown since.

* `IntranetProofs!EditorTakesRoles`, and `LeavingTakesTheRolesAlways` for the composition: `LeavingTakesTheRoles`
  follows from what each form writes; the rounds need that a list and its roles are written together (`EndMonth`).
* `IntranetProofs!HigherKvotientAlwaysFirst`, `WinnerAlwaysAlone`, `NobodyEverVanishes`, `TiedAlwaysKeepApplying`, from `RoundInv`: the round
  in memory fits the month it is at (`RoundFits`), and what the walk has decided so far fits the entries it has passed
  (`WalkFits`), because every entry still eligible comes no earlier than those judged.
* `DenHurtigeProofs!EveryPostHasItsPhoto` and `AlwaysOneReactionEach`, from `DhInv`: numbers once given are not given again
  (`PostsGiven`), so a deletion whose rows are gone cannot take a later post's photo (`GoneBeforeTheirPhotos`), and
  a resident has one row per post (`RowsAreUnique`).
* `IntranetProofs!PinCapHolds`, `PictureStaysAlways` (of every picture that no sweep and no deletion has selected), `GroupStaysAlways`, from `OpsInv`: the pins there are, plus the pins in flight, are no more than
  the cap plus the requests that overlapped (`PinsBounded`), counted by the cardinality of the sets.
* `KontorProofs!MarkedIsBooked`: a job about to move the marker has booked its month. `BoardsAlwaysInStep`: where a card is on a board is
  where the server has it, or the one move under way explains the difference (`Follows`). `AlwaysRestedBeforeArchive`, from
  `DoneIsUpdated`. `ReceivedAlwaysStays`, from `LettersGiven`.
* `HverdagProofs!StaffAlwaysHoldsARole`, `SidebarAlwaysLeadsThere`: the signals keep `staff` to who holds a role through every form, round and page that writes
  roles, because each of them passes through `HeldNow`; the second follows from the first, and from what each page of the sidebar asks for.
* `KontorProofs!AddressesAlwaysLead`: an address that an editor was told of has its redirect, and no page lives there (`ToldLead`).
  `NothingIsEverLost`: what a page says is the last of its history, or the page is an import that nobody has saved and every save
  under way will snapshot it (`CurrentKept`); the cap keeps the last of a history and what a save adds (`TrimmedKeeps`, on
  sequences of any length).
* Some theorems are of properties that no run checks any more, because the proof covers every value of the constants: `VoidsAreLogged`, `MarkedMonthIsBooked`,
  `OneReactionEach`, `PinCap`, `GroupStays`, `RestedBeforeArchive`, `ReceivedStays`, and `Push!TypeOK`.
* A type invariant for each part: `ListHolds`, `SoegTypesHold`, `AkTypesHold`, `RepTypesHold`, `DhTypesHold`, `OpsTypesHold`, `AdmTypesHold`,
  `CmsTypesHold`, and `HverdagProofs!TypesAlwaysHold` for all of them. They are of `Intranet!Spec`, so that what one part proves of the list holds whatever
  the others do.

While requests do not overlap (hypothesis: no two workers differ):

* `BegivenhederProofs!SeatsAreKept` and `CancelledEventsAreFrozen`, the properties that the runs `begivenheder_seat_race` and `begivenheder_cancel_undone` find
  violated with two workers: with one they hold, for every capacity and any number of residents. `SeatInv` says what the one request has in memory
  (`RequestsFit`: the row it read is the row there is, and its answer is the latest), and that who was told is seated (`ToldAreSeated`):
  an answer then seats nobody before those who were told, and an edit leaves no fewer seats than are taken.
* `EventIsWaitingList`: the event implements `WaitingList`. The queue is sorted by `answered_at`, so the proof is about ranks: in a table of answers without ties (`NoTies`) the number
  of those ahead numbers the ja rows without gaps (`PlacesAreTaken`), and the queue is the only line in which everybody stands behind those ahead (`TheOnlyLine`). A first ja,
  or one after another answer, comes last (`Joins`), a withdrawal moves up those behind it (`Leaves`), every other write leaves the line (`LineStays`). `QueueInv` adds to `SeatInv`
  that the times are different and what the request has found out fits the table (`QueueFits`): the promotion it has chosen is of somebody who is in the head after its answer and was not before, if there is one.
* `CalendarAlwaysFollows`: a copy that a client has kept has a SEQUENCE no higher than the event's, and if it is the same, then it shows what the event shows;
  that is inductive with `SeatInv`'s view of the request (`CalendarInv`), because an edit that changes what a copy shows, and a cancellation, raise SEQUENCE.

The others:

* `PushProofs!OneTabToldTrue`, from the hypothesis `MaxTabs = 1`, under which `TabInv` is inductive: what the tab remembers of its endpoint, what its request
  carries and what the row says agree at every point of a request, and a closed tab has none (`ClosedTabs`). `push_two_tabs` shows that the hypothesis
  is needed.
* `OelkaelderProofs!CreditLimitAlwaysKept` and `WarnedOnEachCrossing`, from `SaleInv`: as long as nothing has overtaken the sale, the aggregates it has read
  so far are those of the ledger, and their sum is `Balance`; after the commit the ledger is the one it read and one row more, whose effect on
  each balance is the share. The mails are counted threshold by threshold.
* `OelkaelderProofs!NoSaleEverSkipped` and `KasseTypesHold`, from `KasseInv`: every id that was drawn is below the sequence and drawn once, by a receipt or a job
  (`IdsInv`); and a sale that was there when the reader began and has fewer newer ones than the pages read so far hold has been seen (`ReaderInv`). The tiebreak
  makes `Newer` a strict order, so that `OnPage` is a range of ranks, and a sale that commits later only adds to the ranks of the others.
* `OelkaelderProofs!BooksAlwaysAgree`, from `BooksInv`: besides `KasseInv` and `SaleInv`, that every sale in the ledger has its receipt, with the buyers and the price
  of its row (`Receipted`), and that a job carries rows whose shares are those of its own buyers and price (`WrittenInv`). A balance is a sum over the sequence, by recursion;
  `SumOfSequence` shows that it is the sum of the function on its indices, by the least index at which the two differ, and then the statement, the
  report and the balance are sums of the same terms, taken in another order (`SumSwap`). `SharesAddUp`: the shares that `largest_remainder`
  deals out come to the price, for every price and number of buyers, because those with an øre more are as many as the remainder.
* `OelkaelderProofs!LedgerImplementsSaldo`, from the same invariant. Every step either leaves the ledger and is a stutter, or is one commit: a sale is `Sell`
  (`SoldIsSell`), a deposit or a correction `Settle` (`BookedIsSettle`), a void `Undo` (`VoidedIsUndo`), a month's interest `ChargeInterest` (`ChargedIsChargeInterest`).
  What each does to a balance is `BalanceAfter`, `BalanceAfterCharges` and `BalanceAfterVoid`.
* `HverdagProofs!ToldAlwaysMayCome` and `EditAlwaysTakesHold`, from `FestInv`: a form that no other overlaps finds the event as it saved it, and the invitations it has read are those
  there are (`DraftFits`); a notification that goes by an open visibility was made when the event was open to everybody, and whom a reminder has looked up could see the event then or when the
  round read it (`Waits`, `SendFits`). A thread of a private event tells who is invited as it goes out, so that nothing is needed of those.
* `HverdagProofs!PhotosAlwaysFindTheirFiles` and `PicturesAlwaysForWhoMaySee`, from `MedierInv`: `StoreInv` says for each row which store has its file at which
  stage of the move, and which names the copying has passed; a redirect in a browser was given to somebody who may see it, unless it is for
  everybody, and outlives no signature, by `RedirectMaxAge <= PresignTtl`.
* `HverdagProofs!AlwaysMovedAsItWas`, in four parts, one for each conjunct. `OverInv` has the shape of the tables.
  + `OneAccountForEach` and `SequencesAlwaysLead`, from `MovedInv`: what each command has left once the task is past it, one account for each e-mail, the rows of the
    dump under their ids, and at last sequences beyond the rows there are and beyond those that a task begun anew would write.
  + `TablesAlwaysAgree`, from `CarriedInv`: a table that a command rebuilds says what the dump says from then on, until a later dump is loaded or somebody writes. For the AK
    balances the entries of one resident are the rows of the log and one opening entry, which are numbered without a gap, so that the sum over the new
    ids is that over the old ones and comes to the total (`AkBalances`); the shares of a sale are dealt by place (`ShareOut`); the reports are copied one
    for one (`SameNumber`), and a backfill after that finds none missing (`NothingMissing`).
  + `VerifyFindsNothing`, under the hypothesis `DumpsGrow`: between two dumps the old site only adds to the tables that keep their ids, and changes nobody's e-mail or
    place on a list. An upsert takes that for granted: it never deletes, so a row that is gone from the later dump would be there still, and counted. Then every row of
    such a table is one of the dump that is loaded (`PeopleStay`, `RowsStay`), and a residency can be led back to the row of the list that it
    was made of, no two to the same (`NoMoreResidencies`). TLC evaluates the hypothesis on the three dumps of `MCIntranet` (`LaterDumpsGrow`); the other three
    parts do without it.
* `HverdagProofs!NextReportAlwaysHeals`, from `TjekInv`: a submission that nothing overtook has seen every current report of its room.
* `DenHurtigeProofs!ClosingStays` and `ClosingCloses`, from `TraadInv`: but for the slips the properties name, one thread is open at a time, a close has one
  `history.back()` to come and an entry of the page's own to leave by it (`WayBack`), and no entry behind the browser's has a thread (`NoThreadBehind`). `SwipesStayMeant`, from `GestusInv`: the one drag belongs to a finger that is down, began sideways and
  is armed only where it is past the trigger.

The named assumptions on the constants that these need are in the modules that declare the constants (`TraadAssumption`, `NothingAssumption`, `MedierAssumption`,
`OverflytningAssumption`, `KasseAssumption`, `KalenderAssumption`), and TLC evaluates them in the runs. Those on the dumps of the old site (`OldIds`: ids are positive
numbers, finitely many and never NULL, and amounts are integers) are what MySQL's keys and column types give.

A sum is a fold of the community modules, a recursive function on the subsets of its domain. That a recursive function is what its equation says is itself a theorem, by induction, and the
library's cannot be cited; `Sums` derives what is needed from well-foundedness (`WFMin`), by the least counterexample: that a sum over integers is an integer, what adding, taking away and renaming an
element does to it, bounds, counting, and exchanging two sums. It also has `SomeAreFirst` and `OneByOne` for numbering a finite set.

Only model-checked: liveness (`RequestsFinish`, `DeadRowsAreReaped`, `MonthIsBooked`, `GoneInTheEnd`), which is out of the prover's reach. Every other property that a
passing run checks is also a theorem.

## Not modelled

* Of Begivenheder: images, the list and the month pages, link previews, the bytes of an .ics.
* Of Ølkælder: products and prices, the creation of accounts, the exports and the caps on rows (`[:100]`, `[:200]`). A report or a statement is taken at one moment.
* Of Residents: photos, mails, passwords, an administrator's preview of another date, superusers, the stamtræ.
* Of Værelser: the scores of a report and the plan of a floor.
* Of Den Hurtige: the channels of some roles only (there are none today), the emoji panel, search, infinite scroll.
* Of the CMS: news, events and images, the sanitizer, the menus and the statuses that are derived from them, the comparison of versions.
* Of Files: the validation of the bytes of an upload, resizing.
* Start-up checks, statistics, markdown: functions of one request or of the settings. The demo seeds fill an empty development
  database.
