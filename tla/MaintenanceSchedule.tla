------------------------ MODULE MaintenanceSchedule ------------------------
(***************************************************************************)
(* When the scheduler queues a job for one scope in one market, and for    *)
(* which days (maintenance.py schedule_scope, tasks.py calendar): the      *)
(* jobs already queued are the cursor, the trading calendar is asked for   *)
(* the days since, and the dates saved in the database stand in for it     *)
(* when it does not answer.                                                *)
(*                                                                         *)
(* Enqueue's test of the scope (module Maintenance) is left out: here the  *)
(* scope is not edited while its calendar is read.                         *)
(***************************************************************************)
EXTENDS Integers, FiniteSetsExt

CONSTANTS
  Past,          \* days before the first one: all of them known to be open
  LastDay,       \* bound: the clock stops on this day
  Lookback,      \* lookback_days
  CalendarDays,  \* days of calendar the scheduler asks for at least (60)
  OthersLeaveGaps  \* other jobs of the market write trading days later than ones that are not saved

ASSUME ScheduleAssumption ==
  /\ Past \in Nat /\ LastDay \in Nat /\ Past < LastDay
  /\ Lookback \in Nat \ {0} /\ CalendarDays \in Nat /\ OthersLeaveGaps \in BOOLEAN

AllDays == 1..LastDay

VARIABLES
  today, evening,  \* the clock; evening: schedule_time has passed
  open,      \* trading days of the market
  scope,     \* its kind (dataset or maintenance), its mode, enabled, since (schedule_from)
  queued,    \* ranges of the scope's scheduled jobs
  saved,     \* open days in trading_dates
  answering, \* the calendar answers
  blocked    \* the scope's account was refused the calendar (calendar_blocks)

schedVars == <<today, evening, open, scope, queued, saved, answering, blocked>>

SchedInit ==
  /\ today = Past + 1 /\ evening = FALSE
  /\ \E rest \in SUBSET (Past + 1..LastDay) : open = 1..Past \union rest
  /\ \E kind \in {"dataset", "maintenance"}, mode \in {"bars", "natural"} :
       scope = [kind |-> kind, mode |-> mode, enabled |-> TRUE, since |-> Past + 1]
  /\ queued = {} /\ saved = {}
  /\ answering = TRUE /\ blocked = FALSE

Cutoff == IF evening THEN today ELSE today - 1

\* cursors: the last day of any job of the scope in this market, 0 for none.
LastQueued == Max({0} \union {range.end : range \in queued})

\* The scope is due: it has something to queue up to the cutoff.
Due ==
  /\ scope.enabled
  /\ scope.kind = "dataset" => scope.since <= Cutoff
  /\ scope.kind = "maintenance" /\ queued = {} => evening
  /\ LastQueued < Cutoff

EarliestForgetful ==  \* mutant of Earliest
  IF scope.kind = "dataset" THEN scope.since ELSE Cutoff

Earliest ==
  IF queued # {} THEN LastQueued + 1 ELSE IF scope.kind = "dataset" THEN scope.since ELSE Cutoff

First == Min({Cutoff - Max({CalendarDays, 3 * Lookback}), Earliest})

\* Open days the provider knows of: those of the last day may not be out yet.
Answer(known) == {d \in open : First <= d /\ d <= Cutoff /\ d <= known}

\* The range for these dates, when there are due ones and enough to read back.
Nth(dates, n) == CHOOSE d \in dates : Cardinality({e \in dates : e >= d}) = n

Applicable(dates) == {d \in dates : d >= Earliest}

Ready(dates) == Applicable(dates) # {} /\ Cardinality(dates) >= Lookback

DueRangeLookback(dates) ==  \* mutant of DueRange
  [start |-> Nth(dates, Lookback), end |-> Max(Applicable(dates))]

DueRange(dates) ==
  [start |-> Min({Nth(dates, Lookback), Min(Applicable(dates))}), end |-> Max(Applicable(dates))]

Enqueued(dates) == IF Ready(dates) THEN queued \union {DueRange(dates)} ELSE queued

\* A calendar read from the terminal or the exchange is saved before it is used.
CalendarAnswers ==
  /\ Due /\ scope.mode = "bars" /\ answering /\ ~blocked
  /\ \E known \in {today - 1, today} :
       /\ saved' = saved \union Answer(known)
       /\ queued' = Enqueued(Answer(known))
  /\ UNCHANGED <<today, evening, open, scope, answering, blocked>>

CalendarFails(refused) ==
  /\ Due /\ scope.mode = "bars"
  /\ ~answering \/ blocked \/ refused
  /\ queued' = Enqueued({d \in saved : First <= d /\ d <= Cutoff})
  /\ blocked' = (blocked \/ refused)
  /\ UNCHANGED <<today, evening, open, scope, saved, answering>>

\* Calendars and current mappings follow natural days and need no calendar.
NaturalDays ==
  /\ Due /\ scope.mode = "natural"
  /\ LET back == Cutoff - Lookback + 1 IN
     queued' = queued \union {[start |-> IF queued = {} THEN back ELSE Min({LastQueued, back}), end |-> Cutoff]}
  /\ UNCHANGED <<today, evening, open, scope, saved, answering, blocked>>

SetEnabled(enabled) ==
  /\ scope.enabled # enabled
  /\ scope' = [scope EXCEPT !.enabled = enabled, !.since = IF enabled THEN today ELSE @]
  /\ blocked' = (blocked /\ ~enabled)
  /\ UNCHANGED <<today, evening, open, queued, saved, answering>>

\* The process is restarted, the account is changed or its rights are checked again.
Unblocked == blocked /\ blocked' = FALSE /\ UNCHANGED <<today, evening, open, scope, queued, saved, answering>>

\* Another job of the market stores bars, and with them the days they are of.
DaysObserved(days) ==
  /\ OthersLeaveGaps \/ \A d \in open : Earliest <= d /\ d < Min(days) => d \in saved
  /\ saved' = saved \union (days \intersect open)
  /\ UNCHANGED <<today, evening, open, scope, queued, answering, blocked>>

Clock ==
  /\ \/ ~evening /\ evening' = TRUE /\ today' = today
     \/ evening /\ today < LastDay /\ evening' = FALSE /\ today' = today + 1
  /\ UNCHANGED <<open, scope, queued, saved, answering, blocked>>

ProviderChanges == answering' = ~answering /\ UNCHANGED <<today, evening, open, scope, queued, saved, blocked>>

SchedNext ==
  \/ CalendarAnswers
  \/ \E refused \in BOOLEAN : CalendarFails(refused)
  \/ NaturalDays
  \/ \E enabled \in BOOLEAN : SetEnabled(enabled)
  \/ Unblocked
  \/ \E d \in AllDays : d <= today /\ DaysObserved(d..today)
  \/ Clock
  \/ ProviderChanges

\* The worker's loop runs the scheduler again and again.
SchedFairness == WF_schedVars(CalendarAnswers) /\ WF_schedVars(Clock)

SchedSpec == SchedInit /\ [][SchedNext]_schedVars /\ SchedFairness

(***************************************************************************)
(* Every trading day between the first and the last day of the scope's     *)
(* jobs is in one of them: not a day is lost over an outage, a calendar    *)
(* that was late, partial, saved or refused, or a time when the scope was  *)
(* disabled.                                                               *)
(***************************************************************************)
NoDaySkipped ==
  \A d \in AllDays :
    /\ scope.mode = "bars" => d \in open
    /\ \E range \in queued : range.start <= d
    /\ d <= LastQueued
    => \E range \in queued : range.start <= d /\ d <= range.end

\* Trading days before today that no job is queued for, since the dataset was enabled or the plan's first job.
Missing ==
  {d \in open : scope.since <= d /\ LastQueued < d /\ d < today /\ (scope.kind = "dataset" \/ queued # {})}

(***************************************************************************)
(* Once the calendar answers for good and the account is not refused, an   *)
(* enabled scope catches up with the trading days before today.            *)
(***************************************************************************)
CaughtUp ==
  <>[](scope.mode = "bars" /\ scope.enabled /\ answering /\ ~blocked) => <>[](Missing = {})
=============================================================================
