----------------------------- MODULE Soegvaerelse -----------------------------
(***************************************************************************)
(* The room lottery (src/app/rooms/views_soegvaerelse.py): offers of a     *)
(* month, applications ranked by their kvotient, coin flips, and end_round, *)
(* which allocates the rooms of every month that has an offer and moves    *)
(* the winners on the lists of Maanedsliste.                               *)
(*                                                                         *)
(* A round is one transaction, but it reads the offers, then the           *)
(* applications, and writes later; residents apply and withdraw meanwhile. *)
(* `round' is what the request has in memory.  Months of a round that are  *)
(* done are on the list before the last one is.                            *)
(***************************************************************************)
EXTENDS Maanedsliste, Sequences

CONSTANTS
    MovedIn,      \* Resident.move_in_date as a month; Null: it is not recorded
    Studies,      \* what an applicant states: the month he is done, the months of orlov
    Wishes        \* the rooms he wishes for, the first choice first

ASSUME SoegAssumption ==
    /\ Null \notin Int
    /\ MovedIn \in [Residents -> Int \cup {Null}]
    /\ Studies \subseteq [done: Int, orlov: Nat]
    /\ Wishes \subseteq Seq(Rooms) \ {<<>>}

\* KvotientApplication with its priorities; k in hundredths.
App == [k: Int, wishes: Seq(Rooms)]

\* A KvotientPriority with its application's resident and k.
Entry == [who: Residents, room: Rooms, rank: Nat \ {0}, k: Int]

Round == [pc: {"idle", "offers", "priorities", "walk"}, todo: SUBSET Months, month: Months,
          offered: SUBSET Rooms, awards: [Rooms -> Residents \cup {Null}],
          entries: SUBSET Entry,
          winners: [Rooms -> Residents \cup {Null}], tied: [Rooms -> SUBSET Residents]]

NoRound == [pc |-> "idle", todo |-> {}, month |-> 1, offered |-> {},
            awards |-> [room \in Rooms |-> Null], entries |-> {},
            winners |-> [room \in Rooms |-> Null], tied |-> [room \in Rooms |-> {}]]

VARIABLES
    offers,     \* RoomOffer: the rooms that are offered for each month
    awards,     \* RoomOffer.awarded_application, by its resident
    apps,       \* KvotientApplication: one per resident and month
    round       \* end_round, between its reads and its writes

soegVars == <<offers, awards, apps, round>>

SoegTypeOK ==
    /\ offers \in [Months -> SUBSET Rooms]
    /\ awards \in [Months -> [Rooms -> Residents \cup {Null}]]
    /\ apps \in [Months -> [Residents -> App \cup {Null}]]
    /\ round \in Round

SoegInit ==
    /\ offers = [m \in Months |-> {}]
    /\ awards = [m \in Months |-> [room \in Rooms |-> Null]]
    /\ apps = [m \in Months |-> [r \in Residents |-> Null]]
    /\ round = NoRound

-----------------------------------------------------------------------------
(* Applications *)

\* compute_k: round(100 a / (a + b + 12), 2), halves to the even hundredth.
Kvotient(movedIn, done, target, orlov) ==
    LET a == target - movedIn - orlov
        b == done - target
        d == a + b + 12
        q == (10000 * a) \div d
        rest == (10000 * a) % d
    IN  IF d <= 0 THEN 0
        ELSE IF 2 * rest < d THEN q
        ELSE IF 2 * rest > d THEN q + 1
        ELSE q + (q % 2)

\* soeg: a resident's application for the next month, in place of the one he has.
Apply(r, s, wishes) ==
    /\ Make("apply")
    /\ r \in accounts /\ MovedIn[r] # Null
    /\ apps' = [apps EXCEPT ![Target][r] =
          [k |-> Kvotient(MovedIn[r], s.done, Target, s.orlov), wishes |-> wishes]]
    /\ UNCHANGED <<listVars, offers, awards, round>>

\* awarded_application is SET_NULL: no award of month m points at one of who.
AwardsWithout(m, who) ==
    [room \in Rooms |-> IF awards[m][room] \in who THEN Null ELSE awards[m][room]]

\* delete_application
Withdraw(r, m) ==
    /\ Make("apply")
    /\ apps[m][r] # Null
    /\ apps' = [apps EXCEPT ![m][r] = Null]
    /\ awards' = [awards EXCEPT ![m] = AwardsWithout(m, {r})]
    /\ UNCHANGED <<listVars, offers, round>>

-----------------------------------------------------------------------------
(* Offers *)

CreateOffer(me, room) ==
    /\ Make("offer")
    /\ MayEdit(me) /\ round.pc = "idle"
    /\ offers' = [offers EXCEPT ![Target] = @ \cup {room}]
    /\ UNCHANGED <<listVars, awards, apps, round>>

\* close_offer: with the offer go that month's applications that wish for the room.
CloseOffer(me, m, room) ==
    LET who == {r \in Residents : apps[m][r] # Null /\
                    \E i \in DOMAIN apps[m][r].wishes : apps[m][r].wishes[i] = room}
    IN  /\ Make("close")
        /\ MayEdit(me) /\ round.pc = "idle"
        /\ room \in offers[m]
        /\ offers' = [offers EXCEPT ![m] = @ \ {room}]
        /\ apps' = [apps EXCEPT ![m] =
                      [r \in Residents |-> IF r \in who THEN Null ELSE @[r]]]
        /\ awards' = [awards EXCEPT ![m] = [AwardsWithout(m, who) EXCEPT ![room] = Null]]
        /\ UNCHANGED <<listVars, round>>

\* resolve_tie: any application of the offer's month will do.
ResolveTie(me, m, room, r) ==
    /\ Make("award")
    /\ MayEdit(me) /\ round.pc = "idle"
    /\ room \in offers[m] /\ apps[m][r] # Null
    /\ awards' = [awards EXCEPT ![m][room] = r]
    /\ UNCHANGED <<listVars, offers, apps, round>>

-----------------------------------------------------------------------------
(* end_round *)

BeginRound(me) ==
    /\ Make("round")
    /\ MayEdit(me) /\ round.pc = "idle"
    /\ \E m \in Months : offers[m] # {}
    /\ round' = [NoRound EXCEPT !.pc = "offers", !.todo = {m \in Months : offers[m] # {}}]
    /\ UNCHANGED <<listVars, offers, awards, apps>>

\* The next month of the loop, in whatever order; allocate_round reads its offers.
ReadOffers(m) ==
    /\ round.pc = "offers" /\ m \in round.todo
    /\ round' = [NoRound EXCEPT !.pc = "priorities", !.todo = round.todo \ {m}, !.month = m,
                    !.offered = offers[m], !.awards = awards[m]]
    /\ UNCHANGED <<listVars, offers, awards, apps, made>>

\* The priorities of month m for the rooms that are offered.
EntriesOf(m, offered) ==
    {e \in UNION {{[who |-> r, room |-> apps[m][r].wishes[i], rank |-> i, k |-> apps[m][r].k] :
                       i \in DOMAIN apps[m][r].wishes} : r \in {s \in Residents : apps[m][s] # Null}} :
        e.room \in offered}

\* The awards that are honoured: the first one of each resident, in whatever order.
Honoured(given) ==
    LET chosen == {room \in Rooms : given[room] # Null}
    IN  {won \in SUBSET chosen :
            \A r \in {given[room] : room \in chosen} :
                \E room \in won : given[room] = r
                    /\ \A other \in won : given[other] = r => other = room}

ReadPriorities ==
    /\ round.pc = "priorities"
    /\ \E won \in Honoured(round.awards) :
         round' = [round EXCEPT !.pc = "walk", !.entries = EntriesOf(round.month, round.offered),
                     !.winners = [room \in Rooms |->
                        IF room \in won THEN round.awards[room] ELSE Null]]
    /\ UNCHANGED <<listVars, offers, awards, apps, made>>

Decided(room) == round.winners[room] # Null \/ round.tied[room] # {}

\* Who has won a room, and who is held out because of a tie.
Won(r) == \E room \in Rooms : round.winners[room] = r
Held(r) == \E room \in Rooms : r \in round.tied[room]
Placed(r) == Won(r) \/ Held(r)

Eligible == {e \in round.entries : ~Decided(e.room) /\ ~Placed(e.who)}

\* Mutant: priority before kvotient.
ByRank(e, f) == e.rank < f.rank \/ (e.rank = f.rank /\ e.k >= f.k)

\* order_by("-application__k", "priority"); the order of equals is the database's.
NotAfter(e, f) == e.k > f.k \/ (e.k = f.k /\ e.rank <= f.rank)

Rivals(e) ==
    {f.who : f \in {g \in round.entries :
        g.room = e.room /\ g.k = e.k /\ g.who # e.who /\ ~Placed(g.who)}}

\* One step of the walk: e is the first entry that is still open.
JudgeEntry(e) ==
    /\ round.pc = "walk"
    /\ e \in Eligible /\ \A f \in Eligible : NotAfter(e, f)
    /\ round' = IF Rivals(e) = {}
                THEN [round EXCEPT !.winners[e.room] = e.who]
                ELSE [round EXCEPT !.tied[e.room] = {e.who} \cup Rivals(e)]
    /\ UNCHANGED <<listVars, offers, awards, apps, made>>

-----------------------------------------------------------------------------
(* end_round: what the allocation of a month writes *)

\* Mutant: a list that is there already gets nobody more.
CarriedIfEmpty(m) ==
    [r \in Residents |-> IF OnList(m) # {} THEN list[m][r] ELSE list[m - 1][r]]

\* _carry_roster_forward, to month m.
Carried(m) == [r \in Residents |-> IF list[m][r] # Null THEN list[m][r] ELSE list[m - 1][r]]

CarriedRoles(m) ==
    [r \in Residents |-> IF list[m][r] # Null THEN roles[m][r]
                         ELSE IF list[m - 1][r] # Null THEN roles[m][r] \cup roles[m - 1][r]
                         ELSE roles[m][r]]

\* Mutant: per room, also a winner who is moved from it to another one.
EvictedEach(rows) ==
    {r \in Residents : rows[r] # Null /\ round.winners[rows[r].room] \notin {Null, r}}

\* The residents of a won room, except every winner.
Evicted(rows) ==
    {r \in Residents : rows[r] # Null /\ round.winners[rows[r].room] # Null /\ ~Won(r)}

RoomWonBy(r) == CHOOSE room \in Rooms : round.winners[room] = r

\* update_or_create with the room alone: a new row has no group.
MovedTo(row, room) == [room |-> room, group |-> IF row = Null THEN Null ELSE row.group]

WrittenList(m) ==
    LET rows == Carried(m)
    IN  [r \in Residents |->
            IF r \in Evicted(rows) THEN Null
            ELSE IF Won(r) THEN MovedTo(rows[r], RoomWonBy(r))
            ELSE rows[r]]

WrittenRoles(m) ==
    [r \in Residents |-> IF r \in Evicted(Carried(m)) THEN {} ELSE CarriedRoles(m)[r]]

Contested == \E room \in Rooms : round.tied[room] # {}

\* Mutant: a partial round clears everybody's application.
EverybodyCleared == Residents

\* Whose applications go: the winners' after a partial round, else everybody's.
Cleared == IF Contested THEN {r \in Residents : Won(r)} ELSE Residents

\* Which offers go: those of the rooms that were won, else all.
OffersLeft(m) ==
    IF Contested THEN {room \in offers[m] : round.winners[room] = Null} ELSE {}

EndMonth ==
    LET m == round.month
    IN  /\ round.pc = "walk" /\ Eligible = {}
        /\ list' = [list EXCEPT ![m] = WrittenList(m)]
        /\ roles' = [roles EXCEPT ![m] = WrittenRoles(m)]
        /\ Signals(m, {r \in Evicted(Carried(m)) : CarriedRoles(m)[r] # {}})
        /\ offers' = [offers EXCEPT ![m] = OffersLeft(m)]
        /\ apps' = [apps EXCEPT ![m] =
                      [r \in Residents |-> IF r \in Cleared THEN Null ELSE @[r]]]
        /\ awards' = [awards EXCEPT ![m] = [room \in Rooms |->
                      IF room \in OffersLeft(m) THEN AwardsWithout(m, Cleared)[room] ELSE Null]]
        /\ round' = IF round.todo = {} THEN NoRound
                    ELSE [NoRound EXCEPT !.pc = "offers", !.todo = round.todo]
        /\ UNCHANGED <<today, accounts, made>>

SoegStep ==
    /\ UNCHANGED mix
    /\ \/ \E r \in Residents :
           \/ \E s \in Studies, wishes \in Wishes : Apply(r, s, wishes)
           \/ \E m \in Months : Withdraw(r, m)
       \/ \E me \in Residents :
           \/ \E room \in Rooms : CreateOffer(me, room)
           \/ \E m \in Months, room \in Rooms : CloseOffer(me, m, room)
           \/ \E m \in Months, room \in Rooms, r \in Residents : ResolveTie(me, m, room, r)
           \/ BeginRound(me)
       \/ \E m \in Months : ReadOffers(m)
       \/ ReadPriorities
       \/ \E e \in round.entries : JudgeEntry(e)
       \/ EndMonth

\* The editor, while no round is under way.
EditStep == round.pc = "idle" /\ ListStep /\ UNCHANGED soegVars

-----------------------------------------------------------------------------
(* Properties *)

\* A month of a round that has just been settled.
SettlesMonth == round.pc = "walk" /\ round'.pc # "walk"

\* The walk goes by kvotient: whoever has a higher one than the winner of a room he wished for has
\* won a room himself, by a coin flip or one that he ranks higher, or is held in a tie.  It is what
\* is left of NoEnvy, and it depends on the order of the entries, on residents being placed once,
\* and on the awards being honoured before.
HigherKvotientFirst ==
    round.pc = "walk" =>
        \A e \in round.entries :
            LET w == round.winners[e.room]
            IN  w # Null /\ w # round.awards[e.room] =>
                  \/ \E f \in round.entries : f.who = w /\ f.room = e.room /\ f.k >= e.k
                  \/ Held(e.who)
                  \/ \E room \in Rooms : round.winners[room] = e.who /\ round.awards[room] = e.who
                  \/ \E f \in round.entries : f.who = e.who /\ f.rank < e.rank
                                                  /\ round.winners[f.room] = e.who

\* allocate_round's promise: each applicant gets his highest-priority room that is still free, and a
\* tie holds him out so that he is not cascaded into a lower one.  So nobody of a lower kvotient wins
\* a room that he would rather have than what he won or is held for.
NoEnvy ==
    round.pc = "walk" =>
        \A e \in round.entries :
            LET w == round.winners[e.room]
            IN  w # Null /\ w # round.awards[e.room] =>
                  \/ \E f \in round.entries : f.who = w /\ f.room = e.room /\ f.k >= e.k
                  \/ \E room \in Rooms : round.winners[room] = e.who /\ round.awards[room] = e.who
                  \/ \E f \in round.entries : f.who = e.who /\ f.rank <= e.rank
                        /\ (round.winners[f.room] = e.who \/ e.who \in round.tied[f.room])

\* After a round nobody lives in a room that was won but the one who won it: neither the occupant
\* who leaves, nor somebody who was carried forward into it, nor a second winner.
WinnerAlone ==
    [][SettlesMonth =>
          \A room \in Rooms : round.winners[room] # Null =>
            {r \in Residents : list'[round.month][r] # Null /\ list'[round.month][r].room = room}
                = {round.winners[room]}]_<<listVars, soegVars>>

\* A round takes nobody off a list but those whose room somebody else won and who won none: whoever
\* was on the list of the month, or of the month before it, is on it afterwards.
NobodyVanishes ==
    [][SettlesMonth =>
          \A r \in Residents :
            LET m == round.month
                row == IF list[m][r] # Null THEN list[m][r] ELSE list[m - 1][r]
            IN  row # Null /\ list'[m][r] = Null =>
                    round.winners[row.room] # Null /\ ~Won(r)]_<<listVars, soegVars>>

\* What a tie leaves open stays open: the offer of a contested room and the applications of those
\* who are tied for it are there for the next round, whatever else this one has settled.
TiedKeepApplying ==
    [][SettlesMonth =>
          \A room \in Rooms : \A r \in round.tied[room] :
            LET m == round.month
            IN  /\ room \in offers'[m]
                /\ apps[m][r] # Null => apps'[m][r] = apps[m][r]]_<<listVars, soegVars>>

\* next_period's list never has two residents in one room: end_round evicts the occupant of a room
\* that is won (residents/views.py _clash_rooms).
NobodyShares ==
    \A m \in Months : \A r, s \in OnList(m) : list[m][r].room = list[m][s].room => r = s

==============================================================================
