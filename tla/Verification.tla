---------------------------- MODULE Verification ----------------------------
(***************************************************************************)
(* A finished job is verified again without asking the source (tasks.py),  *)
(* and what is found missing is fetched by a repair the user confirms      *)
(* after a preview (storage.py).  The bars are daily ones of one contract; *)
(* other lanes go on storing bars and trading days meanwhile.              *)
(***************************************************************************)
EXTENDS Integers, Sequences, SequencesExt, FiniteSetsExt

CONSTANTS
  LastRangeDay,   \* the job's range is 1..LastRangeDay
  ChunkWidth,     \* days of a unit (365)
  RowsOfPage,     \* rows of a page (5000)
  HeldBefore,     \* what may be stored before: sets of days
  ClosedDays,     \* days that the calendar does not call open before
  Windows,        \* windows of the console
  MaxStores, MaxStops, MaxVerifications, MaxRepairs  \* bounds

ASSUME VerificationAssumption ==
  /\ LastRangeDay \in Nat \ {0} /\ ChunkWidth \in Nat \ {0} /\ RowsOfPage \in Nat \ {0}
  /\ HeldBefore \subseteq SUBSET (1..LastRangeDay)

VARIABLES
  held, known,    \* days with a stored bar, days the saved calendar calls open
  stores, stops,  \* counts for the bounds
  verifications,  \* the verifications, in the order they were created
  unitRead,       \* the unit in work and its transaction, NoUnit when there is none
  unitMoments,    \* what the unit in work missed, at each moment of its transaction
  shown,          \* window -> the preview it shows, NoPreview before
  repairs         \* the repairs and their retries, in the order they were created

verifyVars == <<held, known, stores, stops, verifications, unitRead, unitMoments, shown, repairs>>

RangeDays == 1..LastRangeDay

\* chunks: widths of ChunkWidth days from the first, the last one cut at the end.
Units == 1..((LastRangeDay + ChunkWidth - 1) \div ChunkWidth)
DaysOf(unit) == {d \in RangeDays : (unit - 1) * ChunkWidth < d /\ d <= unit * ChunkWidth}

NoUnit == [of |-> 0]
NoPreview == [of |-> 0, units |-> {}, parts |-> {}]
Unjudged == [read |-> "not yet", missing |-> {}]
MissingDays(bars, calendar, unit) == (calendar \cap DaysOf(unit)) \ bars
Active(job) == job.state \in {"queued", "running"}

VerifyInit ==
  /\ held \in HeldBefore /\ known = RangeDays \ ClosedDays /\ stores = 0 /\ stops = 0
  /\ verifications = <<>> /\ unitRead = NoUnit /\ unitMoments = {}
  /\ shown = [w \in Windows |-> NoPreview] /\ repairs = <<>>

\* A change of what is stored, and the moment it makes for the unit in work.
NowHold(bars, calendar) ==
  /\ held' = bars /\ known' = calendar
  /\ unitMoments' = IF unitRead = NoUnit THEN {} ELSE unitMoments \cup {MissingDays(bars, calendar, unitRead.unit)}

\* Other jobs commit a range of bars, or the days of a calendar.
OthersStore(first, last) ==
  /\ stores < MaxStores /\ stores' = stores + 1
  /\ \/ NowHold(held \cup first..last, known)
     \/ NowHold(held, known \cup first..last)
  /\ UNCHANGED <<stops, verifications, unitRead, shown, repairs>>

\* create_verification: the active one is returned where there is one.
CreateVerification ==
  /\ Len(verifications) < MaxVerifications
  /\ \A v \in DOMAIN verifications : ~Active(verifications[v])
  /\ verifications' = Append(verifications, [state |-> "queued", verdict |-> [u \in Units |-> Unjudged]])
  /\ UNCHANGED <<held, known, stores, stops, unitRead, unitMoments, shown, repairs>>

Judged(v) == {u \in Units : verifications[v].verdict[u] # Unjudged}

\* The lane takes the next unit; its transaction has no snapshot before its first query.
BeginUnit(v) ==
  LET unit == Cardinality(Judged(v)) + 1 IN
  /\ Active(verifications[v]) /\ unitRead = NoUnit /\ unit \in Units
  /\ verifications' = [verifications EXCEPT ![v].state = "running"]
  /\ unitRead' = [of |-> v, unit |-> unit, taken |-> FALSE, bars |-> {}, calendar |-> {}, offset |-> 0, rows |-> {}, more |-> TRUE]
  /\ unitMoments' = {MissingDays(held, known, unit)}
  /\ UNCHANGED <<held, known, stores, stops, shown, repairs>>

\* REPEATABLE READ: every query of the transaction sees what its first one saw.
SeenNow == [unitRead EXCEPT !.taken = TRUE, !.bars = held, !.calendar = known]
Seen == IF unitRead.taken THEN unitRead ELSE SeenNow

\* The place of a day in the order of their times.
Place(days, d) == Cardinality({e \in days : e <= d})

ReadRows ==
  LET days == Seen.bars \cap DaysOf(unitRead.unit)
      page == {d \in days : Place(days, d) \in unitRead.offset + 1..unitRead.offset + RowsOfPage}
  IN
  /\ unitRead # NoUnit /\ unitRead.more
  /\ unitRead' = [Seen EXCEPT !.rows = @ \cup page, !.offset = @ + Cardinality(page), !.more = Cardinality(page) = RowsOfPage]
  /\ UNCHANGED <<held, known, stores, stops, verifications, unitMoments, shown, repairs>>

Verdict(read, missing) ==
  /\ verifications' = [verifications EXCEPT ![unitRead.of].verdict[unitRead.unit] = [read |-> read, missing |-> missing]]
  /\ unitRead' = NoUnit /\ unitMoments' = {}
  /\ UNCHANGED <<held, known, stores, stops, shown, repairs>>

\* What is missing is stored, with the checkpoint, in the transaction that read it.
JudgeUnit ==
  /\ unitRead # NoUnit /\ ~unitRead.more
  /\ Verdict("all", MissingDays(unitRead.rows, unitRead.calendar, unitRead.unit))

\* Rows that normalize_bars rejects: a verdict with nothing in it that a repair could fetch.
RejectUnit ==
  /\ unitRead # NoUnit /\ ~unitRead.more /\ unitRead.rows # {}
  /\ Verdict("rejected", {})

VerifyEnds(v) ==
  /\ verifications[v].state = "running" /\ Judged(v) = Units
  /\ verifications' = [verifications EXCEPT ![v].state = "ended"]
  /\ UNCHANGED <<held, known, stores, stops, unitRead, unitMoments, shown, repairs>>

\* A stop or a crash puts it back, a cancellation ends it: the unit in work is undone, those judged stay.
VerifyStops(v) ==
  /\ stops < MaxStops /\ stops' = stops + 1 /\ Active(verifications[v])
  /\ \E state \in {"queued", "ended"} : verifications' = [verifications EXCEPT ![v].state = state]
  /\ unitRead' = NoUnit /\ unitMoments' = {}
  /\ UNCHANGED <<held, known, shown, repairs, stores>>

Found(v, units) == UNION {verifications[v].verdict[u].missing : u \in units}

\* repair_ranges: the days found missing in a unit as the longest ranges that have no other day in them.
Merged(days) ==
  {p \in RangeDays \X RangeDays : p[1]..p[2] \subseteq days /\ p[1] <= p[2]
     /\ p[1] - 1 \notin days /\ p[2] + 1 \notin days}

RepairsOf(v) == {r \in DOMAIN repairs : repairs[r].of = v}
ActiveOf(v) == {r \in RepairsOf(v) : Active(repairs[r])}
Fetched(v) == UNION {repairs[r].done : r \in RepairsOf(v)}
Wanted(v, units) == (UNION {Merged(Found(v, {u})) : u \in units}) \ Fetched(v)

PreviewRepair(w, v, units) ==
  /\ ~Active(verifications[v])
  /\ shown' = [shown EXCEPT ![w] = [of |-> v, units |-> units, parts |-> Wanted(v, units)]]
  /\ UNCHANGED <<held, known, stores, stops, verifications, unitRead, unitMoments, repairs>>

NewRepair(v, parts, line) ==
  /\ Len(repairs) < MaxRepairs
  /\ repairs' = Append(repairs, [of |-> v, line |-> line, parts |-> parts, state |-> "queued", done |-> {}])
  /\ UNCHANGED <<held, known, stores, stops, verifications, unitRead, unitMoments, shown>>

AnyPreview(w) == TRUE  \* mutant of StillShown

\* The preview's key covers the units and their parts.
StillShown(w) == shown[w].parts = Wanted(shown[w].of, shown[w].units)

\* verification_repair, which holds the verification's row; the window does not know what changed since its preview.
CreateRepair(w) ==
  LET v == shown[w].of IN
  /\ v # 0 /\ ~Active(verifications[v]) /\ ActiveOf(v) = {}
  /\ StillShown(w) /\ Wanted(v, shown[w].units) # {}
  /\ NewRepair(v, Wanted(v, shown[w].units), <<>>)

\* retry_job, which holds the row of the repair: what it and the retries of it left, unless one is active.
RetryRepair(r) ==
  LET retries == {c \in DOMAIN repairs : r \in ToSet(repairs[c].line)}
      left == repairs[r].parts \ UNION {repairs[c].done : c \in retries \cup {r}}
  IN
  /\ ~Active(repairs[r]) /\ left # {}
  /\ \A c \in retries : Last(repairs[c].line) = r => ~Active(repairs[c])
  /\ NewRepair(repairs[r].of, left, Append(repairs[r].line, r))

\* The bars of a part and its unit are one transaction; only one with every day is verified.
RepairFetches(r, part) ==
  /\ Active(repairs[r]) /\ part \in repairs[r].parts \ repairs[r].done
  /\ repairs' = [repairs EXCEPT ![r].state = "running", ![r].done = @ \cup {part}]
  /\ NowHold(held \cup part[1]..part[2], known)
  /\ UNCHANGED <<stores, stops, verifications, unitRead, shown>>

\* The repair ends, whatever it could not fetch: the source has no bar, an error or a cancellation.
RepairEnds(r) ==
  /\ Active(repairs[r])
  /\ repairs' = [repairs EXCEPT ![r].state = "ended"]
  /\ UNCHANGED <<held, known, stores, stops, verifications, unitRead, unitMoments, shown>>

VerifyNext ==
  \/ \E first, last \in RangeDays : first <= last /\ OthersStore(first, last)
  \/ CreateVerification \/ ReadRows \/ JudgeUnit \/ RejectUnit
  \/ \E v \in DOMAIN verifications : BeginUnit(v) \/ VerifyEnds(v) \/ VerifyStops(v)
  \/ \E w \in Windows, v \in DOMAIN verifications, units \in SUBSET Units : PreviewRepair(w, v, units)
  \/ \E w \in Windows : CreateRepair(w)
  \/ \E r \in DOMAIN repairs : RetryRepair(r) \/ RepairEnds(r) \/ \E part \in repairs[r].parts : RepairFetches(r, part)

VerifySpec == VerifyInit /\ [][VerifyNext]_verifyVars

(* The days a verification records as missing in a unit are those that were
   missing at one moment of the transaction that read it - not a mixture of
   pages from before and after another lane's write: every page and the
   calendar come from the snapshot of the first query. *)
VerdictOfOneMoment ==
  [][\A v \in DOMAIN verifications, u \in Units :
       verifications[v].verdict[u] = Unjudged /\ verifications'[v].verdict[u].read = "all"
         => verifications'[v].verdict[u].missing \in unitMoments]_verifyVars

(* A repair asks for what the window that confirmed it was showing, however
   long ago that preview was: exactly the days its units were found to miss
   and that no repair of the verification or retry of one has fetched since,
   each of them once; and no other is at work on that verification when it
   is created. *)
RepairAsksForWhatWasShown ==
  [][Len(repairs') > Len(repairs) /\ Last(repairs').line = <<>> =>
       LET new == Last(repairs')
           fetched == UNION {p[1]..p[2] : p \in Fetched(new.of)}
       IN \E w \in Windows :
            /\ shown[w].of = new.of /\ shown[w].parts = new.parts
            /\ UNION {p[1]..p[2] : p \in new.parts} = Found(new.of, shown[w].units) \ fetched
            /\ \A p, q \in new.parts : p # q => p[1]..p[2] \cap q[1]..q[2] = {}
            /\ ActiveOf(new.of) = {}]_verifyVars
=============================================================================
