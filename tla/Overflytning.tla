------------------------------ MODULE Overflytning ------------------------------
(***************************************************************************)
(* The move from the old site: the commands of "task etl" in their order,  *)
(* each a transaction that rebuilds or upserts its tables from the dump in *)
(* the staging database, under the ids that the old site gave.             *)
(*                                                                         *)
(* A command may die, the task may be started over, a later dump may be    *)
(* loaded, and people may write on the new site meanwhile.  These tables   *)
(* are those of a site that is being filled; only the reports on the rooms *)
(* are shared with another module.                                         *)
(***************************************************************************)
EXTENDS Vaerelsestjek, Sequences, Functions
Sets == INSTANCE FiniteSetsExt

CONSTANTS
    Dumps,     \* bound: the dumps of the old site, each later than the one before
    House      \* the rooms that build_rooms lists

\* The ids of each table of a dump.
OldIds(d) ==
    {DOMAIN d.alumner, DOMAIN d.liste, DOMAIN d.letters, DOMAIN d.log, DOMAIN d.totals, DOMAIN d.wishes,
     DOMAIN d.shoppers, DOMAIN d.sales, DOMAIN d.deposits, DOMAIN d.reports}

ASSUME OverflytningAssumption ==
    /\ {"dump", "task", "break", "backfill", "write"} \subseteq Kinds
    /\ Dumps # << >> /\ DOMAIN Dumps = 1..Len(Dumps)
    /\ \A k \in DOMAIN Dumps :
          /\ \A ids \in OldIds(Dumps[k]) : ids \subseteq Nat /\ IsFiniteSet(ids) /\ Null \notin ids
          /\ \A i \in DOMAIN Dumps[k].alumner : Dumps[k].alumner[i] \in Residents \cup {Null}
          /\ \A n \in DOMAIN Dumps[k].reports :
                Dumps[k].reports[n].date \in Dates /\ Dumps[k].reports[n].newest \in BOOLEAN
          /\ \A n \in DOMAIN Dumps[k].log : Dumps[k].log[n].delta \in Int
          /\ \A i \in DOMAIN Dumps[k].totals : Dumps[k].totals[i] \in Int
          /\ \A t \in DOMAIN Dumps[k].sales : Dumps[k].sales[t].price \in Int
    /\ House \subseteq Rooms /\ House # {}

VARIABLES
    staging,   \* which dump is loaded
    site,      \* the tables of the new site, by id, and the sequences behind the ids
    task,      \* the command of the task that runs next; 0: the task is not running
    moved,     \* history: the task has ended, and no later dump has been loaded since
    touched    \* history: somebody has written on the new site

overVars == <<staging, site, task, moved, touched>>

Tables == {"letters", "krydser", "wishes", "shoppers", "sales", "deposits"}
Commands ==
    <<"seed_rooms", "etl_residents", "etl_admissions", "etl_cms", "etl_ak", "etl_rooms",
      "etl_oelkaelder", "etl_stats", "reset_sequences", "sync_cms_media">>

EmptySite ==
    [rooms |-> {}, residents |-> << >>, roles |-> {}, residencies |-> << >>, letters |-> << >>,
     krydser |-> << >>, wishes |-> << >>, priorities |-> {}, shoppers |-> << >>,
     sales |-> << >>, deposits |-> << >>, visits |-> << >>, last |-> [t \in Tables |-> 0]]

OverTypeOK ==
    /\ staging \in DOMAIN Dumps
    /\ DOMAIN site = DOMAIN EmptySite
    /\ site.last \in [Tables -> Nat]
    /\ task \in 0..Len(Commands)
    /\ moved \in BOOLEAN /\ touched \in BOOLEAN

OverInit ==
    /\ staging = 1
    /\ site = EmptySite
    /\ task = 0
    /\ moved = FALSE /\ touched = FALSE

dump == Dumps[staging]

\* update_or_create on the ids.
Upserted(table, rows) ==
    [i \in DOMAIN table \cup DOMAIN rows |-> IF i \in DOMAIN rows THEN rows[i] ELSE table[i]]

Largest(S) == IF S = {} THEN 0 ELSE Sets!Max(S)

\* The place of i among S, from 1.
PlaceIn(i, S) == Cardinality({j \in S : j <= i})

-----------------------------------------------------------------------------
(* Who is who *)

SameMail(i) == {j \in DOMAIN dump.alumner : dump.alumner[j] = dump.alumner[i]}

\* resident_id_remap: accounts with one e-mail merge into the newest; those without any are dropped.
Remap == [i \in {i \in DOMAIN dump.alumner : dump.alumner[i] # Null} |-> Sets!Max(SameMail(i))]
KeptIds == {i \in DOMAIN Remap : Remap[i] = i}

\* rid in resident_ids
Known == {i \in DOMAIN Remap : Remap[i] \in DOMAIN site.residents}
ResidentOf(i) == IF i \in Known THEN Remap[i] ELSE Null
PersonOf(i) == IF i \in Known THEN site.residents[Remap[i]] ELSE Null

-----------------------------------------------------------------------------
(* The commands: what each makes of the tables *)

SeedRooms == [site EXCEPT !.rooms = House]

\* The rows of the old lists that can be placed; for one resident and month the last one counts.
Placeable ==
    {n \in DOMAIN dump.liste : dump.liste[n].who \in DOMAIN Remap /\ dump.liste[n].room \in site.rooms}
SlotOf(n) == <<Remap[dump.liste[n].who], dump.liste[n].month>>
Residencies ==
    [slot \in {SlotOf(n) : n \in Placeable} |->
        dump.liste[Sets!Max({n \in Placeable : SlotOf(n) = slot})].room]
NewestMonth == Sets!Max({dump.liste[n].month : n \in DOMAIN dump.liste})

\* FLAG_TO_ROLE
ImportedRoles == {"indstilling", "inspektion", "kokkengruppe", "ak", "oelkaelder", "administrator"}

\* etl_residents; without rooms it says so and ends well.
EtlResidents ==
    IF site.rooms = {} THEN site
    ELSE [site EXCEPT
            !.residents = Upserted(@, [i \in KeptIds |-> dump.alumner[i]]),
            !.roles = {<<Remap[f[1]], f[2], NewestMonth>> :
                          f \in {g \in dump.flags : g[1] \in DOMAIN Remap /\ g[2] \in ImportedRoles}},
            !.residencies = Upserted(@, Residencies)]

\* It fails when there is no list, and when an e-mail that it gives to one account is another's.
ResidentsFail ==
    site.rooms # {} =>
        \/ dump.liste = << >>
        \/ \E i \in KeptIds, j \in DOMAIN site.residents \ KeptIds : site.residents[j] = dump.alumner[i]

EtlAdmissions ==
    [site EXCEPT !.letters =
        Upserted(@, [i \in DOMAIN dump.letters |-> [by |-> ResidentOf(dump.letters[i])]])]

\* The log rows of one resident, whichever of the merged accounts they were on.
LogOf(rid) == {n \in DOMAIN dump.log : ResidentOf(dump.log[n].who) = rid}
Deltas == [n \in DOMAIN dump.log |-> dump.log[n].delta]
LogSum(rid) == SumFunctionOnSet(Deltas, LogOf(rid))
\* Mutant: the log of a merged account is not counted against the opening entry.
OpeningByAccount(i) ==
    dump.totals[i] - SumFunctionOnSet(Deltas, {n \in LogOf(ResidentOf(i)) : dump.log[n].who = i})

Opening(i) == dump.totals[i] - LogSum(ResidentOf(i))

\* The ledger is rebuilt under new ids: the log, then what is missing to the old totals.
EtlAk ==
    LET first == site.last["krydser"]
        logged == {n \in DOMAIN dump.log : dump.log[n].who \in Known}
        opened == {i \in DOMAIN dump.totals \cap Known : Opening(i) # 0}
        size == Cardinality(logged) + Cardinality(opened)
        entry(k) ==
            IF k <= Cardinality(logged)
            THEN LET n == CHOOSE n \in logged : PlaceIn(n, logged) = k
                 IN  [rid |-> ResidentOf(dump.log[n].who), delta |-> dump.log[n].delta,
                      kind |-> "log"]
            ELSE LET i == CHOOSE i \in opened : Cardinality(logged) + PlaceIn(i, opened) = k
                 IN  [rid |-> ResidentOf(i), delta |-> Opening(i), kind |-> "opening"]
    IN  [site EXCEPT
           !.krydser = [k \in (first + 1)..(first + size) |-> entry(k - first)],
           !.last["krydser"] = first + size]

EtlRooms ==
    LET wishes == Upserted(site.wishes,
                     [w \in {w \in DOMAIN dump.wishes : dump.wishes[w] \in Known} |->
                         ResidentOf(dump.wishes[w])])
    IN  [site EXCEPT
           !.wishes = wishes,
           !.priorities = {p \in dump.priorities : p.wish \in DOMAIN wishes /\ p.room \in site.rooms}]

\* intern_room_condition has no id; all of it is imported, in the order of its dates.
ImportedReports == {n \in DOMAIN dump.reports : dump.reports[n].room \in site.rooms}
ImportedReport(n, current) ==
    [room |-> dump.reports[n].room, by |-> PersonOf(dump.reports[n].who),
     date |-> dump.reports[n].date, current |-> current]

\* etl_rooms, the reports: every one there is goes, those of the new site too.
RebuildReports ==
    LET fresh == (lastReport + 1)..(lastReport + Cardinality(ImportedReports))
        source(i) == CHOOSE n \in ImportedReports : lastReport + PlaceIn(n, ImportedReports) = i
    IN  /\ fresh \subseteq Numbers
        /\ reports' = [i \in Numbers |->
              IF i \in fresh THEN ImportedReport(source(i), dump.reports[source(i)].newest) ELSE Null]
        /\ lastReport' = lastReport + Cardinality(ImportedReports)

ShopperKnown == {s \in DOMAIN dump.shoppers : dump.shoppers[s] \in Known}

\* largest_remainder: the first buyers pay the odd øre.
Shares(sale) ==
    LET buyers == sale.by \cap ShopperKnown
        n == Cardinality(buyers)
    IN  [s \in buyers |->
            sale.price \div n + (IF PlaceIn(s, buyers) <= sale.price % n THEN 1 ELSE 0)]

\* Sales and deposits are deleted and created again, under the old ids.
EtlOelkaelder ==
    [site EXCEPT
       !.shoppers = Upserted(@, [s \in ShopperKnown |-> ResidentOf(dump.shoppers[s])]),
       !.sales = [t \in DOMAIN dump.sales |->
                     [price |-> dump.sales[t].price, shares |-> Shares(dump.sales[t])]],
       !.deposits = [i \in {i \in DOMAIN dump.deposits : dump.deposits[i].shopper \in ShopperKnown} |->
                        dump.deposits[i]]]

EtlStats == [site EXCEPT !.visits = Upserted(@, dump.visits)]

\* sequence_reset_sql: after the largest id there is.
ResetSequences ==
    [site EXCEPT !.last =
        [letters |-> Largest(DOMAIN site.letters), krydser |-> Largest(DOMAIN site.krydser),
         wishes |-> Largest(DOMAIN site.wishes), shoppers |-> Largest(DOMAIN site.shoppers),
         sales |-> Largest(DOMAIN site.sales), deposits |-> Largest(DOMAIN site.deposits)]]

\* What is done here of etl_cms is in Cms; sync_cms_media copies files.
AfterCommand(command) ==
    CASE command = "seed_rooms" -> SeedRooms
      [] command = "etl_residents" -> EtlResidents
      [] command = "etl_admissions" -> EtlAdmissions
      [] command = "etl_ak" -> EtlAk
      [] command = "etl_rooms" -> EtlRooms
      [] command = "etl_oelkaelder" -> EtlOelkaelder
      [] command = "etl_stats" -> EtlStats
      [] command = "reset_sequences" -> ResetSequences
      [] OTHER -> site

-----------------------------------------------------------------------------
(* The task, and what else happens to the database *)

\* A later dump is loaded into the staging database.
LoadDump ==
    /\ Make("dump")
    /\ task = 0
    /\ \E n \in (staging + 1)..Len(Dumps) : staging' = n
    /\ moved' = FALSE
    /\ UNCHANGED <<site, task, touched, tjekVars>>

StartTask ==
    /\ Make("task")
    /\ task = 0
    /\ task' = 1
    /\ UNCHANGED <<staging, site, moved, touched, tjekVars>>

\* One command of the task, which commits as a whole.
RunCommand ==
    /\ task > 0
    /\ Commands[task] = "etl_residents" => ~ResidentsFail
    /\ site' = AfterCommand(Commands[task])
    /\ CASE Commands[task] = "etl_rooms" ->
              RebuildReports /\ checks' = {[c EXCEPT !.alone = FALSE] : c \in checks}
         [] Commands[task] = "reset_sequences" ->
              lastReport' = Largest(Filed) /\ UNCHANGED <<reports, checks>>
         [] OTHER -> UNCHANGED tjekVars
    /\ task' = IF task = Len(Commands) THEN 0 ELSE task + 1
    /\ moved' = (task = Len(Commands) \/ moved)
    /\ UNCHANGED <<staging, touched, made>>

\* The command fails: it leaves nothing behind, and the task goes no further.
CommandFails ==
    /\ task > 0
    /\ Commands[task] = "etl_residents" /\ ResidentsFail
    /\ task' = 0
    /\ UNCHANGED <<staging, site, moved, touched, tjekVars, made>>

\* So it does when it dies.
CommandDies ==
    /\ Make("break")
    /\ task > 0
    /\ task' = 0
    /\ UNCHANGED <<staging, site, moved, touched, tjekVars>>

\* The reports that backfill_room_history adds: superseded, and on no room and date there is one of.
Missing ==
    {n \in ImportedReports :
        /\ ~dump.reports[n].newest
        /\ ~\E i \in Filed : reports[i].room = dump.reports[n].room /\ reports[i].date = dump.reports[n].date
        /\ ~\E m \in ImportedReports :
              /\ m < n /\ ~dump.reports[m].newest
              /\ dump.reports[m].room = dump.reports[n].room
              /\ dump.reports[m].date = dump.reports[n].date}

BackfillRoomHistory ==
    LET fresh == (lastReport + 1)..(lastReport + Cardinality(Missing))
        source(i) == CHOOSE n \in Missing : lastReport + PlaceIn(n, Missing) = i
    IN  /\ Make("backfill")
        /\ fresh \subseteq Numbers
        /\ reports' = [i \in Numbers |->
              IF i \in fresh THEN ImportedReport(source(i), FALSE) ELSE reports[i]]
        /\ lastReport' = lastReport + Cardinality(Missing)
        /\ UNCHANGED <<staging, site, task, moved, touched, checks>>

\* Somebody writes a row on the new site, under the next id; what it says does not matter here.  If
\* the id is taken the row is not written, but the sequence has advanced.
WriteRow(t) ==
    LET id == site.last[t] + 1
    IN  /\ Make("write")
        /\ site' = [site EXCEPT !.last[t] = id,
                                ![t] = IF id \in DOMAIN @ THEN @ ELSE Upserted([j \in {id} |-> Null], @)]
        /\ touched' = TRUE
        /\ UNCHANGED <<staging, task, moved, tjekVars>>

OverStep ==
    /\ \/ LoadDump \/ StartTask \/ RunCommand \/ CommandFails \/ CommandDies
       \/ BackfillRoomHistory
       \/ \E t \in Tables : WriteRow(t)
    /\ UNCHANGED <<listVars, mix>>

-----------------------------------------------------------------------------
(* etl_verify *)

SmallerOrSame(new, old) == Cardinality(new) <= Cardinality(old)
SameSize(new, old) == Cardinality(new) = Cardinality(old)

\* The domains that it flags CHECK.
Flagged ==
    {label \in {"residents", "residencies", "applications", "ak log entries", "oel transactions",
                "oel deposits", "kvotient apps", "room conditions", "daily visit counts"} :
        ~CASE label = "residents" -> SmallerOrSame(DOMAIN site.residents, DOMAIN dump.alumner)
           [] label = "residencies" -> SmallerOrSame(DOMAIN site.residencies, DOMAIN dump.liste)
           [] label = "applications" -> SameSize(DOMAIN site.letters, DOMAIN dump.letters)
           [] label = "ak log entries" ->
                SmallerOrSame({k \in DOMAIN site.krydser : site.krydser[k].kind = "log"}, DOMAIN dump.log)
           [] label = "oel transactions" -> SameSize(DOMAIN site.sales, DOMAIN dump.sales)
           [] label = "oel deposits" -> SmallerOrSame(DOMAIN site.deposits, DOMAIN dump.deposits)
           [] label = "kvotient apps" -> SmallerOrSame(DOMAIN site.wishes, DOMAIN dump.wishes)
           [] label = "room conditions" ->
                SameSize(Filed, {n \in DOMAIN dump.reports : dump.reports[n].newest})
           [] label = "daily visit counts" -> SameSize(DOMAIN site.visits, DOMAIN dump.visits)}

-----------------------------------------------------------------------------
(* Properties *)

Balance(rid) ==
    SumFunctionOnSet([k \in DOMAIN site.krydser |-> site.krydser[k].delta],
                     {k \in DOMAIN site.krydser : site.krydser[k].rid = rid})

\* "The first ORM-created row collides at id=1": every id that a sequence will give is free once the
\* task has ended, and stays so whatever is written or backfilled.
SequencesLead ==
    moved /\ task = 0 =>
        /\ \A t \in Tables : \A i \in DOMAIN site[t] : i <= site.last[t]
        /\ \A i \in Filed : i <= lastReport

\* An e-mail of the dump has one account then, the newest.
OneAccountEach ==
    moved /\ task = 0 =>
        \A i \in DOMAIN dump.alumner : dump.alumner[i] # Null =>
            {j \in DOMAIN site.residents : site.residents[j] = dump.alumner[i]} = {Sets!Max(SameMail(i))}

\* A resident who had one AK total has that balance.
BalancesAgree ==
    \A i \in DOMAIN dump.totals \cap DOMAIN Remap :
        SameMail(i) \cap DOMAIN dump.totals = {i} => Balance(Remap[i]) = dump.totals[i]

\* The shares of a sale add up to its price.
SharesAgree ==
    \A t \in DOMAIN site.sales : DOMAIN site.sales[t].shares # {} =>
        SumFunction(site.sales[t].shares) = dump.sales[t].price

\* A report on a room there is, is there as often as it was.
ReportsOn(room, date) == {i \in Filed : reports[i].room = room /\ reports[i].date = date}
OldReportsOn(room, date) ==
    {n \in DOMAIN dump.reports : dump.reports[n].room = room /\ dump.reports[n].date = date}
ReportsAgree ==
    \A room \in House, date \in Dates : SameSize(ReportsOn(room, date), OldReportsOn(room, date))

\* The task has ended, and nobody has written on the new site.
JustMoved == moved /\ task = 0 /\ ~touched

TablesAgree == JustMoved => BalancesAgree /\ SharesAgree /\ ReportsAgree

\* etl_verify counts the current reports of the dump against all that were imported.
NothingFlagged == JustMoved => Flagged \subseteq {"room conditions"}

\* "ETL is re-runnable (idempotent) and verifiable": when the task has ended, whatever commands died
\* before, how often it was started over and which earlier dump it had begun with, the tables say what
\* the dump says: a resident who had one AK total has that balance; the shares of a sale add up to its
\* price; every report on a room there is, is there as often as it was.  And etl_verify has nothing to
\* say, but of the reports.
MovedAsItWas ==
    /\ SequencesLead
    /\ OneAccountEach
    /\ TablesAgree
    /\ NothingFlagged

\* What an upsert takes for granted: the old site only adds to the tables that keep their ids between two
\* dumps, and nobody's e-mail or place on a list is changed there.
Extends(table, later) ==
    DOMAIN table \subseteq DOMAIN later /\ \A i \in DOMAIN table : later[i] = table[i]
DumpsGrow ==
    \A k, l \in DOMAIN Dumps : k < l =>
        /\ Extends(Dumps[k].alumner, Dumps[l].alumner)
        /\ Extends(Dumps[k].liste, Dumps[l].liste)
        /\ DOMAIN Dumps[k].letters \subseteq DOMAIN Dumps[l].letters
        /\ DOMAIN Dumps[k].wishes \subseteq DOMAIN Dumps[l].wishes
        /\ DOMAIN Dumps[k].visits \subseteq DOMAIN Dumps[l].visits

================================================================================
