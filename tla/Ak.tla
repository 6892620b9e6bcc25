---------------------------------- MODULE Ak ----------------------------------
(***************************************************************************)
(* AK's monthly deduction (src/app/ak): the schedule of krydser, the       *)
(* charges of each month, and the three who book the month in effect: the  *)
(* nightly command, an officer who saves the schedule, and any page load,  *)
(* the backstop, which keeps a marker of the month that it booked.         *)
(*                                                                         *)
(* apply_monthly_charge is one transaction at READ COMMITTED: it reads the *)
(* schedule, then the list of the month, and then writes.                  *)
(***************************************************************************)
EXTENDS Maanedsliste, Sequences

CONSTANTS
    AkWorkers,    \* requests and commands in flight at once
    Krydser       \* what a month may cost

ASSUME AkAssumption == Krydser \subseteq Nat \ {0} /\ Null \notin Nat

Charge == [krydser: Nat, active: BOOLEAN]

AkJob == [pc: {"idle", "schedule", "members", "book", "mark"}, by: {"visit", "cron", "save"},
          month: Months, krydser: Nat, members: SUBSET Residents]

AkIdle == [pc |-> "idle", by |-> "visit", month |-> 1, krydser |-> 0, members |-> {}]

VARIABLES
    schedule,   \* AkMonthlyCharge, by calendar month
    charges,    \* AkEntry of kind MONTHLY: what a resident is charged for a month
    marker,     \* AkAutoApply: the month that the backstop applied last
    akJobs,     \* the requests and commands
    booked,     \* history: the months that some request has applied
    entries     \* AkEntry of the other kinds: what a resident has done, and what was adjusted

akVars == <<schedule, charges, marker, akJobs, booked, entries>>

AkTypeOK ==
    /\ schedule \in [Months -> Charge \cup {Null}]
    /\ charges \in [Months -> [Residents -> Nat \cup {Null}]]
    /\ marker \in Months \cup {Null}
    /\ akJobs \in [AkWorkers -> AkJob]
    /\ booked \subseteq Months
    /\ entries \in [Residents -> Seq(Int)]

AkInit ==
    /\ \E k \in Krydser : schedule = [m \in Months |->
          IF m = LastMonth THEN Null ELSE [krydser |-> k, active |-> TRUE]]
    /\ charges = [m \in Months |-> [r \in Residents |-> Null]]
    /\ marker = Null
    /\ akJobs = [w \in AkWorkers |-> AkIdle]
    /\ booked = {}
    /\ entries = [r \in Residents |-> <<>>]

Goes(w, job) == akJobs' = [akJobs EXCEPT ![w] = job]

\* A request of kind `by' is about to apply the month in effect.
Applies(w, by) == Goes(w, [AkIdle EXCEPT !.pc = "schedule", !.by = by, !.month = Active])

-----------------------------------------------------------------------------
(* Who applies a month *)

\* ensure_active_month_applied: nothing to do if the marker is at the month in effect.
BeginVisit(w) ==
    /\ Make("visit")
    /\ akJobs[w].pc = "idle" /\ marker # Active
    /\ Applies(w, "visit")
    /\ UNCHANGED <<schedule, charges, marker, booked, entries>>

\* ak_monthly_assessment, which makes up a schedule for a month without one.
BeginCron(w) ==
    /\ Make("cron")
    /\ akJobs[w].pc = "idle"
    /\ schedule' = [schedule EXCEPT ![Active] =
                      IF @ = Null THEN [krydser |-> 2, active |-> TRUE] ELSE @]
    /\ Applies(w, "cron")
    /\ UNCHANGED <<charges, marker, booked, entries>>

\* What an officer may do, and an administrator.
Officer(me) == roles[Active][me] \cap {"ak", "administrator"} # {}

\* save_monthly_charges: an officer's row of every month, and the month in effect at once.
SaveSchedule(w, me, rows) ==
    /\ Make("schedule")
    /\ akJobs[w].pc = "idle"
    /\ Officer(me)
    /\ schedule' = rows
    /\ Applies(w, "save")
    /\ UNCHANGED <<charges, marker, booked, entries>>

-----------------------------------------------------------------------------
(* apply_monthly_charge *)

\* What follows the transaction of w: the backstop sets its marker.
After(w) == Goes(w, IF akJobs[w].by = "visit" THEN [akJobs[w] EXCEPT !.pc = "mark"] ELSE AkIdle)

\* The schedule is off: nobody is charged for the month.
ClearMonth(w) ==
    LET m == akJobs[w].month
    IN  /\ akJobs[w].pc = "schedule"
        /\ schedule[m] = Null \/ ~schedule[m].active
        /\ charges' = [charges EXCEPT ![m] = [r \in Residents |-> Null]]
        /\ booked' = booked \cup {m}
        /\ After(w)
        /\ UNCHANGED <<schedule, marker, entries>>

ReadSchedule(w) ==
    LET charge == schedule[akJobs[w].month]
    IN  /\ akJobs[w].pc = "schedule"
        /\ charge # Null /\ charge.active
        /\ Goes(w, [akJobs[w] EXCEPT !.pc = "members", !.krydser = charge.krydser])
        /\ UNCHANGED <<schedule, charges, marker, booked, entries>>

ReadMembers(w) ==
    /\ akJobs[w].pc = "members"
    /\ Goes(w, [akJobs[w] EXCEPT !.pc = "book", !.members = OnList(akJobs[w].month)])
    /\ UNCHANGED <<schedule, charges, marker, booked, entries>>

\* The month's charges: one of each member, and none of anybody else.
ChargesOf(members, krydser) ==
    [r \in Residents |-> IF r \in members THEN krydser ELSE Null]

Book(w) ==
    LET job == akJobs[w]
    IN  /\ job.pc = "book"
        /\ charges' = [charges EXCEPT ![job.month] = ChargesOf(job.members, job.krydser)]
        /\ booked' = booked \cup {job.month}
        /\ After(w)
        /\ UNCHANGED <<schedule, marker, entries>>

\* Mutant: the backstop's failure is logged, and the marker moves on.
FailsButMarks(w) == After(w)

\* An exception rolls the transaction back; the backstop logs it and returns.
Fails(w) == Goes(w, AkIdle)

ApplyFails(w) ==
    /\ Make("fail")
    /\ akJobs[w].pc \in {"schedule", "members", "book"}
    /\ Fails(w)
    /\ UNCHANGED <<schedule, charges, marker, booked, entries>>

SetMarker(w) ==
    /\ akJobs[w].pc = "mark"
    /\ marker' = akJobs[w].month
    /\ Goes(w, AkIdle)
    /\ UNCHANGED <<schedule, charges, booked, entries>>

\* The worker dies between the transaction and the marker.
DieUnmarked(w) ==
    /\ Make("fail")
    /\ akJobs[w].pc = "mark"
    /\ Goes(w, AkIdle)
    /\ UNCHANGED <<schedule, charges, marker, booked, entries>>

\* delete_entry, of a monthly charge.
DeleteCharge(me, m, r) ==
    /\ Make("delete")
    /\ Officer(me)
    /\ charges[m][r] # Null
    /\ charges' = [charges EXCEPT ![m][r] = Null]
    /\ UNCHANGED <<schedule, marker, akJobs, booked, entries>>

\* add_self_entry for oneself, add_entry for an officer.
AddEntry(me, r, delta) ==
    /\ Make("entry")
    /\ r \in accounts
    /\ (me = r /\ delta >= 1) \/ (Officer(me) /\ delta # 0)
    /\ entries' = [entries EXCEPT ![r] = Append(@, delta)]
    /\ UNCHANGED <<schedule, charges, marker, akJobs, booked>>

\* delete_entry, of one of the others.
DeleteEntry(me, r, i) ==
    /\ Make("delete")
    /\ Officer(me)
    /\ entries' = [entries EXCEPT ![r] = SubSeq(@, 1, i - 1) \o SubSeq(@, i + 1, Len(@))]
    /\ UNCHANGED <<schedule, charges, marker, akJobs, booked>>

-----------------------------------------------------------------------------

Works(w) ==
    /\ \/ ClearMonth(w) \/ ReadSchedule(w) \/ ReadMembers(w) \/ Book(w) \/ SetMarker(w)
    /\ UNCHANGED made

AkStep ==
    /\ \/ \E w \in AkWorkers :
          \/ BeginVisit(w) \/ BeginCron(w)
          \/ /\ Within("schedule")
             /\ \E me \in Residents, rows \in [Months -> [krydser: Krydser, active: BOOLEAN]] :
                   SaveSchedule(w, me, rows)
          \/ Works(w) \/ ApplyFails(w) \/ DieUnmarked(w)
       \/ \E me, r \in Residents :
            \/ \E m \in Months : DeleteCharge(me, m, r)
            \/ \E k \in Krydser : AddEntry(me, r, k) \/ AddEntry(me, r, -k)
            \/ \E i \in DOMAIN entries[r] : DeleteEntry(me, r, i)
    /\ UNCHANGED <<listVars, mix>>

\* Somebody opens a page that has the backstop, and a request that has begun goes on.
AkFairness ==
    \A w \in AkWorkers :
        /\ WF_<<listVars, akVars, made>>(BeginVisit(w) /\ UNCHANGED listVars)
        /\ WF_<<listVars, akVars, made>>(Works(w) /\ UNCHANGED listVars)

-----------------------------------------------------------------------------
(* Properties *)

\* The marker is moved after the transaction, and not when it failed: a month that the backstop will
\* not look at again has been applied by somebody.
MarkedMonthIsBooked == marker # Null => marker \in booked

\* The backstop makes a missed or failed command self-healing: once somebody has opened a page, the
\* month that was in effect is applied in the end, or another one comes into effect, whatever fails
\* and whoever dies on the way; people go on opening pages.
Visited(m) == \E w \in AkWorkers :
    akJobs[w].pc # "idle" /\ akJobs[w].by = "visit" /\ akJobs[w].month = m
MonthIsBooked ==
    \A m \in Months : Visited(m) ~> (m \in booked \/ Active # m)

==============================================================================
