------------------------------ MODULE MCIntranet ------------------------------
(* Instances of Intranet for TLC. *)
EXTENDS Intranet, TLC

CONSTANTS ada, bo, cai, r1, r2, vic, t1, c1, c2, e1, e2, w1, w2, f1, f2

ThreeResidents == {ada, bo, cai}
TwoRooms == {r1, r2}
OneGroup == {vic}
GroupOfCaretakers == [g \in OneGroup |-> "vicevaert"]
OfOneMember == [g \in OneGroup |-> 1]

\* Administrator ada and caretaker bo are on the list; cai has an account and no room.
OneRoster ==
    {[list |-> ada :> [room |-> r1, group |-> Null] @@ bo :> [room |-> r2, group |-> vic]
               @@ cai :> Null,
      administrators |-> {ada}, accounts |-> ThreeResidents]}

MovedInOrder == ada :> 0 @@ bo :> 0 @@ cai :> 1
OneStudy == {[done |-> 10, orlov |-> 0]}
FourWishes == {<<r1>>, <<r2>>, <<r1, r2>>, <<r2, r1>>}

TwoWorkers == {w1, w2}
TwoKrydser == {2}
OneTicket == {t1}
ThreeColumns == {"ny", "i_gang", "faerdig"}
TwoBoards == {ada, bo}
TwoPosts == {1, 2}
TwoChannels == {c1, c2}
OneHour == {1}
TwoEmoji == {e1, e2}
TwoNotices == {1, 2}
OnePicture == {1}
TwoThreads == {"t1", "t2"}
TwoFingers == {f1, f2}
OwnMessage == {"t1"}
\* Left and right past the trigger, left short of it, down, and within the slop.
FiveSpots ==
    {[x |-> -80, y |-> 0], [x |-> 80, y |-> 0], [x |-> -30, y |-> 0], [x |-> -60, y |-> 70],
     [x |-> 6, y |-> 0]}
OneLetter == {1}

\* A section with a page under it; a third page to be; and addresses that are free or reserved.
ThreePages == 1..3
FourAddresses == {<<"fac">>, <<"fac", "kok">>, <<"vision">>, <<"intern">>}
SomeSegments == {"fac", "kok", "vision", "intern"}
TheIntern == {"intern"}
TwoTexts == {"gl", "ny"}
TwoImported ==
    <<[slug |-> <<"fac">>, text |-> "gl"], [slug |-> <<"fac", "kok">>, text |-> "gl"]>>

\* Reports, media and events; three rows with a file, and a name that the old site has given.
NineReports == 1..9
TwoDays == {1, 2}
ThreePhotos == 1..3
ThreeNames == 1..3
OldAt3 == 1 :> 3
FivePaths ==
    {<<"cms", "p">>, <<"foto", "p">>, <<"cms", "..", "foto", "p">>, <<"..", ".", "cms", "p">>,
     <<"cms", "..">>}
OneParty == {1}

\* The old site: an account that was replaced, one without e-mail, rows of people who are gone and of
\* no room; later, a newcomer and the other account's AK total; later still, a third account.
FirstDump ==
    [alumner |-> 1 :> ada @@ 2 :> bo @@ 3 :> ada @@ 4 :> Null,
     liste |-> <<[who |-> 1, month |-> 1, room |-> r1], [who |-> 3, month |-> 1, room |-> r2],
                 [who |-> 2, month |-> 2, room |-> r2], [who |-> 9, month |-> 2, room |-> r1],
                 [who |-> 2, month |-> 1, room |-> Null]>>,
     flags |-> {<<1, "administrator">>, <<2, "editpage">>, <<9, "ak">>},
     letters |-> 1 :> 2 @@ 2 :> Null @@ 5 :> 4,
     log |-> 1 :> [who |-> 1, delta |-> 3] @@ 2 :> [who |-> 3, delta |-> -2]
             @@ 3 :> [who |-> 2, delta |-> -2] @@ 4 :> [who |-> 9, delta |-> 1],
     totals |-> 2 :> -2 @@ 3 :> 2 @@ 4 :> 7,
     wishes |-> 1 :> 2 @@ 7 :> 9,
     priorities |-> {[wish |-> 1, room |-> r1], [wish |-> 7, room |-> r2],
                     [wish |-> 1, room |-> Null]},
     reports |-> <<[room |-> r1, who |-> 1, date |-> 1, newest |-> FALSE],
                   [room |-> r1, who |-> 9, date |-> 2, newest |-> TRUE],
                   [room |-> r2, who |-> 2, date |-> 1, newest |-> TRUE]>>,
     shoppers |-> 1 :> 1 @@ 2 :> 2 @@ 3 :> 9,
     deposits |-> 1 :> [shopper |-> 1, amount |-> 5] @@ 4 :> [shopper |-> 3, amount |-> 2],
     sales |-> 1 :> [price |-> 3, by |-> {1, 2}] @@ 2 :> [price |-> 1, by |-> {3}],
     visits |-> 1 :> 4]
LaterDump ==
    [FirstDump EXCEPT
       !.alumner = @ @@ 5 :> cai,
       !.letters = @ @@ 6 :> 5,
       !.log = @ @@ 5 :> [who |-> 5, delta |-> -1] @@ 6 :> [who |-> 2, delta |-> 2],
       !.totals = 1 :> 1 @@ 2 :> 0 @@ 3 :> 2 @@ 4 :> 7 @@ 5 :> -1,
       !.sales = @ @@ 4 :> [price |-> 2, by |-> {2}],
       !.reports = Append(@, [room |-> r2, who |-> 5, date |-> 2, newest |-> FALSE]),
       !.visits = @ @@ 2 :> 1]
LastDump == [LaterDump EXCEPT !.alumner = @ @@ 6 :> ada]
ThreeDumps == <<FirstDump, LaterDump, LastDump>>

\* The old site only adds between these.
ASSUME LaterDumpsGrow == DumpsGrow

AllKinds ==
    {"month", "copy", "save", "add", "role",
     "apply", "offer", "close", "award", "round",
     "visit", "cron", "schedule", "fail", "delete", "entry",
     "day", "report", "form", "load", "drag", "lose", "note",
     "tick", "post", "comment", "purge", "remove", "leak", "tap", "mute",
     "date", "upload", "notice", "unpost", "remark", "edit", "sweep",
     "open", "shut", "back", "touch", "travel", "poll",
     "season", "letter", "mark",
     "revise", "newpage", "unpage", "redirect", "import",
     "check", "dump", "task", "break", "backfill", "write",
     "photo", "unphoto", "relocate", "migrate", "halt", "flip", "empty", "look", "session", "quarter",
     "party", "draft", "change", "ja", "host", "cancel", "nudge",
     "row", "preview"}

Mix(some) == [k \in AllKinds |-> IF k \in DOMAIN some THEN some[k] ELSE 0]

\* Rounds of applications that tie, that change under way, and that are settled by a coin flip.
RoundMixes ==
    {Mix([offer |-> 2, apply |-> 3, round |-> 1]),
     Mix([offer |-> 2, apply |-> 2, award |-> 1, round |-> 2]),
     Mix([offer |-> 1, apply |-> 1, round |-> 1, month |-> 1, save |-> 1]),
     Mix([offer |-> 1, apply |-> 1, round |-> 1, add |-> 1, copy |-> 1]),
     Mix([offer |-> 2, apply |-> 3, close |-> 1])}

\* Indstillingen's editor, of a list that has been copied and after the month has changed.
EditorMixes ==
    {Mix([save |-> 1, add |-> 1, copy |-> 1, month |-> 1]),
     Mix([copy |-> 1, month |-> 1, role |-> 1])}

\* The month is booked by visits, the command and an officer, while some of them fail.
AkMixes ==
    {Mix([visit |-> 6, cron |-> 1, fail |-> 1, schedule |-> 1]),
     Mix([visit |-> 6, fail |-> 1, delete |-> 1]),
     Mix([entry |-> 2, delete |-> 1]),
     Mix([month |-> 1, visit |-> 8, add |-> 1, fail |-> 1])}

\* A ticket and its notes; its days; and cards dragged while roles, forms or the network interfere.
RepMixes ==
    {Mix([report |-> 1, note |-> 2, form |-> 1]),
     Mix([report |-> 1, day |-> 3, form |-> 3]),
     Mix([report |-> 1, load |-> 2, drag |-> 2, lose |-> 1]),
     Mix([report |-> 1, load |-> 1, drag |-> 2, form |-> 1]),
     Mix([report |-> 1, load |-> 1, drag |-> 1, role |-> 1]),
     Mix([report |-> 1, load |-> 1, drag |-> 1, day |-> 1])}

\* Posts that expire while somebody comments or deletes them; double taps; mutes.
DhMixes ==
    {Mix([tick |-> 1, post |-> 2, comment |-> 1, leak |-> 1]),
     Mix([tick |-> 1, post |-> 1, comment |-> 1, remove |-> 1, purge |-> 1]),
     Mix([tick |-> 1, post |-> 1, tap |-> 2]),
     Mix([mute |-> 3])}

\* A picture that two notices show, and the sweep; edits and pins; a new list of the month.
OpsMixes ==
    {Mix([upload |-> 1, notice |-> 2, edit |-> 1, unpost |-> 1]),
     Mix([upload |-> 1, notice |-> 1, edit |-> 1, date |-> 2, sweep |-> 1]),
     Mix([notice |-> 2, edit |-> 2]),
     Mix([notice |-> 1, month |-> 1, add |-> 1, edit |-> 1]),
     Mix([notice |-> 1, remark |-> 2, unpost |-> 1, edit |-> 1])}

TraadMixes == {Mix([open |-> 2, shut |-> 2, back |-> 2])}

\* Two fingers, one that changes its mind, and swipes while a thread is open or the poll comes.
GestusMixes ==
    {Mix([touch |-> 2, travel |-> 2]),
     Mix([touch |-> 1, travel |-> 3]),
     Mix([touch |-> 3]),
     Mix([touch |-> 1, travel |-> 2, poll |-> 1]),
     Mix([open |-> 1, touch |-> 1, travel |-> 1])}

AdmMixes == {Mix([letter |-> 1, mark |-> 3, season |-> 2])}

\* Pages that are renamed, edited, restored and deleted at once; addresses that change hands.
CmsMixes ==
    {Mix([revise |-> 3]),
     Mix([newpage |-> 1, revise |-> 2]),
     Mix([revise |-> 1, unpage |-> 1, redirect |-> 1]),
     Mix([revise |-> 2, unpage |-> 1, import |-> 1]),
     Mix([revise |-> 1, redirect |-> 2])}

\* Reports that overtake each other; the move started over, with later dumps and with people about.
OverMixes ==
    {Mix([check |-> 3]),
     Mix([check |-> 1, task |-> 1, backfill |-> 1]),
     Mix([task |-> 2, break |-> 1, dump |-> 1, backfill |-> 1]),
     Mix([task |-> 1, write |-> 3]),
     Mix([task |-> 2, write |-> 2, dump |-> 1])}

\* Uploads and deletions while the files are copied, the site flipped, rolled back or flipped again.
MedierMixes ==
    {Mix([photo |-> 2, unphoto |-> 1, migrate |-> 3, flip |-> 1, halt |-> 1]),
     Mix([photo |-> 2, unphoto |-> 1, migrate |-> 2, flip |-> 1, empty |-> 1]),
     Mix([photo |-> 1, relocate |-> 1, migrate |-> 2, flip |-> 2, empty |-> 1]),
     Mix([photo |-> 2, unphoto |-> 1, migrate |-> 2, flip |-> 3]),
     Mix([look |-> 2, session |-> 2, quarter |-> 2, migrate |-> 1, flip |-> 1])}

\* Forms of one event that overlap, or that find the month, the answers, the hosts, a cancellation or a
\* round of reminders under way changed; two rounds; and a seat that changes hands.
EventMixes ==
    {Mix([party |-> 1, draft |-> 2]),
     Mix([party |-> 1, draft |-> 1, month |-> 1]),
     Mix([party |-> 1, draft |-> 1, host |-> 1]),
     Mix([party |-> 1, draft |-> 1, nudge |-> 1]),
     Mix([party |-> 1, change |-> 1, ja |-> 1]),
     Mix([party |-> 1, change |-> 1, cancel |-> 1]),
     Mix([party |-> 1, ja |-> 1, nudge |-> 2]),
     Mix([party |-> 1, ja |-> 3])}

\* Roles that come and go while a form is open, or while somebody views the site as somebody else.
KontiMixes ==
    {Mix([role |-> 2, row |-> 2]),
     Mix([copy |-> 1, role |-> 2]),
     Mix([role |-> 2, preview |-> 2])}

IntranetMixes ==
    RoundMixes \cup EditorMixes \cup AkMixes \cup RepMixes \cup DhMixes \cup OpsMixes
        \cup TraadMixes \cup GestusMixes \cup AdmMixes \cup CmsMixes \cup OverMixes \cup MedierMixes
        \cup EventMixes \cup KontiMixes

EnvyMixes == {Mix([offer |-> 2, apply |-> 3, round |-> 1])}
SharesMixes == {Mix([offer |-> 2, apply |-> 2, award |-> 1, round |-> 2])}

===============================================================================
