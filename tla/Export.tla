------------------------------- MODULE Export -------------------------------
(***************************************************************************)
(* An export job (tasks.py): bars are read page by page from one snapshot  *)
(* of the database while other lanes write it, into a partial file that    *)
(* replaces the file offered for download; the process can crash, the job  *)
(* fail, be cancelled or interrupted between any two steps.                *)
(***************************************************************************)
EXTENDS Integers, Sequences, FiniteSetsExt

CONSTANTS
  Codes,     \* the members of the export
  LastTime,  \* the times a bar can have in its range are 1..LastTime
  PageSize,  \* rows of a page (5000)
  MaxWrites, MaxRuns  \* bounds

ASSUME ExportAssumption == IsFiniteSet(Codes) /\ LastTime \in Nat /\ PageSize \in Nat \ {0}

Times == 1..LastTime

VARIABLES
  bars,      \* code -> time -> 0 for no bar, or the write that it holds
  writes, runs,  \* counts for the bounds
  job,       \* state of the job
  step,      \* where execute and export are
  snapshot,  \* what the transaction sees, NotYet before its first query
  at,        \* the member that is read, and the offset of its next page
  partial, target, note,  \* the files: rows, rows, and the count of the metadata
  moments    \* what the database held since the run began

exportVars == <<bars, writes, runs, job, step, snapshot, at, partial, target, note, moments>>

\* They are read in the order the job lists them in.
Members == CHOOSE list \in [1..Cardinality(Codes) -> Codes] : IsInjective(list)

NotYet == [c \in {} |-> 0]
NoFile == <<<<>>>>

ExportInit ==
  /\ bars \in [Codes -> [Times -> {0, 1}]] /\ writes = 1 /\ runs = 0
  /\ job = "queued" /\ step = "idle"
  /\ snapshot = NotYet /\ at = [member |-> 1, offset |-> 0]
  /\ partial = NoFile /\ target = NoFile /\ note = 0 /\ moments = {}

\* write_chunk of the lanes: a bar that is new, or that replaces an older one.
Write(code, time) ==
  /\ writes < MaxWrites /\ writes' = writes + 1
  /\ bars' = [bars EXCEPT ![code][time] = writes']
  /\ moments' = IF step = "idle" THEN moments ELSE moments \cup {bars'}
  /\ UNCHANGED <<runs, job, step, snapshot, at, partial, target, note>>

\* execute, and export up to the partial file, which is emptied when a crash left one.
Begin ==
  /\ job = "queued" /\ step = "idle" /\ runs < MaxRuns
  /\ runs' = runs + 1 /\ job' = "running" /\ step' = "reading"
  /\ snapshot' = NotYet /\ at' = [member |-> 1, offset |-> 0] /\ partial' = <<>>
  /\ moments' = {bars}
  /\ UNCHANGED <<bars, writes, target, note>>

VisibleNow == bars  \* mutant of Visible

\* REPEATABLE READ: the first query takes the snapshot that all see.
Visible == IF snapshot = NotYet THEN bars ELSE snapshot

\* history: the bars of a member in the order of their times.
TimesOf(data, code) == {t \in Times : data[code][t] # 0}
NthTime(times, n) == CHOOSE t \in times : Cardinality({u \in times : u <= t}) = n

RowsOf(data, code) ==
  [n \in 1..Cardinality(TimesOf(data, code)) |->
     LET t == NthTime(TimesOf(data, code), n) IN <<code, t, data[code][t]>>]

\* A page: a full one is followed by the next offset, any other by the next member.
ReadPage ==
  LET code == Members[at.member]
      rest == RowsOf(Visible, code)
      page == SubSeq(rest, at.offset + 1, Min({at.offset + PageSize, Len(rest)}))
  IN
  /\ step = "reading" /\ at.member <= Len(Members)
  /\ snapshot' = Visible
  /\ partial' = partial \o page
  /\ at' = IF Len(page) = PageSize THEN [at EXCEPT !.offset = @ + PageSize]
                                   ELSE [member |-> at.member + 1, offset |-> 0]
  /\ UNCHANGED <<bars, writes, runs, job, step, target, note, moments>>

Replace ==
  /\ step = "reading" /\ at.member > Len(Members)
  /\ step' = "replaced" /\ target' = partial /\ partial' = NoFile
  /\ UNCHANGED <<bars, writes, runs, job, snapshot, at, note, moments>>

WriteNote ==
  /\ step = "replaced"
  /\ step' = "noted" /\ note' = Len(target)
  /\ UNCHANGED <<bars, writes, runs, job, snapshot, at, partial, target, moments>>

Succeed ==
  /\ step = "noted"
  /\ step' = "idle" /\ job' = "succeeded"
  /\ UNCHANGED <<bars, writes, runs, snapshot, at, partial, target, note, moments>>

\* A check finds it cancelled or the worker told to stop, a step fails, or the database is gone and the job stays running.
EndsEarly ==
  /\ step # "idle"
  /\ \/ step # "replaced" /\ job' \in {"cancelled", "queued"}
     \/ job' \in {"failed", "running"}
  /\ step' = "idle" /\ partial' = NoFile
  /\ UNCHANGED <<bars, writes, runs, snapshot, at, target, note, moments>>

\* A crash leaves the job running and the files as they are.
Crash ==
  /\ step # "idle" /\ step' = "idle"
  /\ UNCHANGED <<bars, writes, runs, job, snapshot, at, partial, target, note, moments>>

\* run_queue, when the lane starts: what was running is queued, or cancelled when that was asked.
Recover ==
  /\ job = "running" /\ step = "idle"
  /\ job' \in {"queued", "cancelled"}
  /\ UNCHANGED <<bars, writes, runs, step, snapshot, at, partial, target, note, moments>>

ExportNext ==
  \/ \E code \in Codes, time \in Times : Write(code, time)
  \/ Begin \/ ReadPage \/ Replace \/ WriteNote \/ Succeed \/ EndsEarly \/ Crash \/ Recover

ExportSpec == ExportInit /\ [][ExportNext]_exportVars

Stored(data) == UNION {{<<c, t, data[c][t]>> : t \in TimesOf(data, c)} : c \in Codes}

Precedes(row, later) ==
  \E m, n \in DOMAIN Members :
    /\ row[1] = Members[m] /\ later[1] = Members[n]
    /\ m < n \/ (m = n /\ row[2] < later[2])

Lists(file, data) ==
  /\ Range(file) = Stored(data)
  /\ \A i, j \in DOMAIN file : i < j => Precedes(file[i], file[j])

(* The file that a succeeded job offers for download holds every bar of the
   range exactly as the database held them at one moment of the run that wrote
   it, in the order of the members and of their times - no row twice or missing
   because another lane wrote between two pages, none of an earlier attempt -
   and its metadata counts those rows. *)
ExportIsSnapshot ==
  job = "succeeded" =>
    /\ \E data \in moments : Lists(target, data)
    /\ note = Len(target)
=============================================================================
