------------------------------ MODULE JobQueue ------------------------------
(***************************************************************************)
(* One lane of the background queue (pfor_qmt/tasks.py, class Worker) and  *)
(* the job rows it shares with the HTTP service (pfor_qmt/storage.py).     *)
(*                                                                         *)
(* A worker process takes the lane's PostgreSQL advisory lock on a         *)
(* dedicated connection (the lease), puts the jobs an earlier process left *)
(* running back into the queue, and executes the queued jobs one at a      *)
(* time, oldest first.  A job is a list of units; each unit is fetched     *)
(* from the data source and written in one transaction together with the   *)
(* job's checkpoint, which is where a later execution resumes.             *)
(*                                                                         *)
(* Every action is one database transaction of a worker or of an HTTP      *)
(* request, with the local computation that follows it.  A process may     *)
(* stop or crash, a lease may be lost and a connection may drop between    *)
(* any two of them, at most MaxFaults times in a behaviour.                *)
(***************************************************************************)
EXTENDS Integers, FiniteSets

CONSTANTS
  Workers,      \* processes that run this lane against one schema
  NoWorker,     \* holder of a free advisory lock
  NumJobs,      \* bound: jobs created, in created_at order
  NumUnits,     \* units (payload.chunks) of a job
  KeyOf,        \* unit -> interface it reads (its period; minutes are one key)
  MaxAttempts,  \* attempts of retry_network at one source operation
  MaxFaults,    \* bound: stops, crashes, lost leases and dropped connections
  Recyclable    \* jobs the console user may move to the recycle bin

ASSUME ConstantsAssumption ==
  /\ NoWorker \notin Workers
  /\ NumJobs \in Nat /\ NumUnits \in Nat
  /\ MaxAttempts \in Nat \ {0} /\ MaxFaults \in Nat
  /\ Recyclable \subseteq 1..NumJobs

Jobs     == 1..NumJobs
Units    == 0..(NumUnits - 1)
Active   == {"queued", "running", "retrying"}
Finished == {"succeeded", "failed", "partial", "blocked", "cancelled"}
States   == Active \union Finished
Stored   == {"verified", "uncertain"}   \* unit state succeeded, by quality_state
Rejected == {"failed", "blocked"}       \* unit state, nothing written for it

\* What failure() makes of an error: how far it reaches and the state it gives.
Failures == [scope : {"unit", "source"}, state : Rejected]
              \union [scope : {"interface"}, state : {"blocked"}]
Denied        == [scope |-> "interface", state |-> "blocked"]
SourceError   == [scope |-> "source", state |-> "failed"]  \* network, database
NoOutcome     == [scope |-> "none", state |-> "none"]

VARIABLES
  row,         \* job -> its row in jobs, with its rows in job_units and coverage
  lock,        \* the process whose session holds the lane's advisory lock
  run,         \* process -> control point and locals of its worker thread
  cancelRead,  \* job -> the state a cancel request read and has not acted on
  faults       \* faults so far

vars == <<row, lock, run, cancelRead, faults>>

NewRow ==
  [state |-> "absent", cancel |-> FALSE, deleted |-> FALSE, checkpoint |-> 0,
   unit |-> [i \in Units |-> "none"],  \* job_units.state and quality_state
   covered |-> {},                     \* units with stored rows in coverage
   overrun |-> 0]                      \* history: units written after the cancel flag

\* A worker without a job, at a control point.
NewRun(point, stopping) ==
  [pc |-> point, stop |-> stopping, job |-> 0, idx |-> 0, tries |-> 0,
   denied |-> {},            \* process_parts' blocked interfaces
   outcome |-> NoOutcome]    \* the error in hand, or the job's result

\* The control points at which a worker is executing a job, and those where
\* Worker.check runs before anything else (checks with no write between them
\* are one).
Busy == {"selected", "begin", "unit", "fetch", "backoff", "fetched", "commit", "settle",
         "reject", "settleReject", "result", "finish", "abort", "interrupt", "cancel"}
Checking == {"begin", "unit", "backoff", "fetched", "result"}

Executing(j) == \E w \in Workers : run[w].pc \in Busy /\ run[w].job = j

Init ==
  /\ row = [j \in Jobs |-> NewRow]
  /\ lock = NoWorker
  /\ run = [w \in Workers |-> NewRun("unlocked", FALSE)]
  /\ cancelRead = [j \in Jobs |-> "none"]
  /\ faults = 0

-----------------------------------------------------------------------------
(* Helpers.                                                                *)

At(w, points) == run[w].pc \in points
Mine(w)       == row[run[w].job]

Becomes(w, local)        == run' = [run EXCEPT ![w] = local]
Goto(w, point)           == Becomes(w, [run[w] EXCEPT !.pc = point])
Carry(w, outcome, point) == Becomes(w, [run[w] EXCEPT !.outcome = outcome, !.pc = point])

SetState(j, s) == row' = [row EXCEPT ![j].state = s]

\* Constraint deleted_job_inactive: a recycled row cannot become active.
Admits(j, s) == ~ (row[j].deleted /\ s \in Active)

\* An exception leaves run_queue's with-block: the lease connection closes and
\* the worker forgets the job.  Idle is the end of execute(), lease still held.
Leave(w, point) ==
  /\ Becomes(w, NewRun(point, run[w].stop))
  /\ lock' = IF lock = w THEN NoWorker ELSE lock
Idle(w) ==
  /\ Becomes(w, NewRun("idle", run[w].stop))
  /\ UNCHANGED lock

\* Worker.check returns: the lease answers, the service is not stopping and
\* the job is not cancelled.
\* (PassesCancelled is a faulty variant that forgets the cancellation.)
PassesCancelled(w) == lock = w /\ ~ run[w].stop
Passes(w) == lock = w /\ ~ run[w].stop /\ ~ Mine(w).cancel

\* process_parts: the loop over the units left, or its end.
NextPoint(i) == IF i = NumUnits THEN "result" ELSE "unit"
NextUnit(w)  ==
  Becomes(w, [run[w] EXCEPT !.idx = run[w].idx + 1, !.pc = NextPoint(run[w].idx + 1)])

\* The unit in hand ends in an error.
Fails(w, f) == Carry(w, f, "reject")

\* The worker's unit gets its job_units row; progress is the new checkpoint.
RecordUnit(w, outcome, progress, covered) ==
  row' = [row EXCEPT ![run[w].job] =
            [Mine(w) EXCEPT !.unit[run[w].idx] = outcome, !.checkpoint = progress,
                            !.covered = covered,
                            !.overrun = IF Mine(w).cancel THEN @ + 1 ELSE @]]

\* A faulty variant of download_result, blind to unit states.
DownloadQuality(j) ==
  IF "uncertain" \in {row[j].unit[i] : i \in Units} THEN "partial" ELSE "succeeded"

\* Worker.download_result: the job's state from the units written so far.
DownloadResult(j) ==
  LET outcomes == {row[j].unit[i] : i \in Units} \ {"none"}
  IN IF row[j].covered = {} /\ outcomes \intersect Rejected # {}
       THEN IF "blocked" \in outcomes THEN "blocked" ELSE "failed"
       ELSE IF outcomes \subseteq {"verified"} THEN "succeeded" ELSE "partial"

-----------------------------------------------------------------------------
(* The worker: taking the lane.                                            *)

Boot(w) ==
  /\ At(w, {"off"})
  /\ Becomes(w, NewRun("unlocked", FALSE))
  /\ UNCHANGED <<row, lock, cancelRead, faults>>

\* pg_try_advisory_lock on the lease connection; a held lane is tried again.
Acquire(w) ==
  /\ At(w, {"unlocked"}) /\ ~ run[w].stop
  /\ lock = NoWorker
  /\ lock' = w
  /\ Goto(w, "recover")
  /\ UNCHANGED <<row, cancelRead, faults>>

\* The states an interrupted execution leaves behind, and two faulty variants:
\* one misses the jobs waiting for a retry, one takes up failed jobs too.
LeftRunning   == {"running"}
LeftUnfinished == {"running", "retrying", "failed", "partial"}
LeftBehind    == {"running", "retrying"}

\* What an earlier execution left behind is queued again, or cancelled if that
\* was requested.
Recover(w) ==
  /\ At(w, {"recover"})
  /\ row' = [j \in Jobs |->
               IF row[j].state \in LeftBehind
                 THEN [row[j] EXCEPT !.state = IF row[j].cancel THEN "cancelled" ELSE "queued"]
                 ELSE row[j]]
  /\ Goto(w, "idle")
  /\ UNCHANGED <<lock, cancelRead, faults>>

\* The job the poll returns and where its execution starts, each with faulty
\* variants: the newest job, the first unit, one unit too far.
SelectedNewest(j) == row[j].state = "queued" /\ \A k \in Jobs : k > j => row[k].state # "queued"
Selected(j) == row[j].state = "queued" /\ \A k \in Jobs : k < j => row[k].state # "queued"

ResumeFromStart(j)  == 0
ResumeAfterNext(j)  == IF row[j].checkpoint < NumUnits THEN row[j].checkpoint + 1 ELSE NumUnits
ResumeAt(j)         == row[j].checkpoint

\* The lease answers and the oldest queued job is read, with its checkpoint.
Select(w) ==
  /\ At(w, {"idle"}) /\ ~ run[w].stop /\ lock = w
  /\ \E j \in Jobs :
       /\ Selected(j)
       /\ Becomes(w, [run[w] EXCEPT !.job = j, !.idx = ResumeAt(j), !.pc = "selected"])
  /\ UNCHANGED <<row, lock, cancelRead, faults>>

\* A faulty variant of Exit: only the outer loop ends.
ExitUnlocked(w) ==
  /\ At(w, {"unlocked"}) /\ run[w].stop
  /\ Leave(w, "off")
  /\ UNCHANGED <<row, cancelRead, faults>>

\* Both loops of run_queue end when the service stops.
Exit(w) ==
  /\ At(w, {"unlocked", "idle"}) /\ run[w].stop
  /\ Leave(w, "off")
  /\ UNCHANGED <<row, cancelRead, faults>>

-----------------------------------------------------------------------------
(* The worker: executing a job.                                            *)

\* execute() marks the row running whatever it has become since the poll.
Start(w) ==
  /\ At(w, {"selected"})
  /\ IF Admits(run[w].job, "running")
       THEN SetState(run[w].job, "running") /\ Goto(w, "begin") /\ UNCHANGED lock
       ELSE Leave(w, "unlocked") /\ UNCHANGED row
  /\ UNCHANGED <<cancelRead, faults>>

\* The job's account or source may prove unusable before any unit.
Begin(w) ==
  /\ At(w, {"begin"}) /\ Passes(w)
  /\ \/ Goto(w, NextPoint(run[w].idx))
     \/ \E s \in Rejected :
          Carry(w, [scope |-> "source", state |-> s], "abort")
  /\ UNCHANGED <<row, lock, cancelRead, faults>>

\* process_parts takes up a unit; an interface that refused one unit of this
\* execution is not asked for another.
TakeUnit(w) ==
  /\ At(w, {"unit"}) /\ Passes(w)
  /\ IF KeyOf[run[w].idx] \in run[w].denied
       THEN Fails(w, Denied)
       ELSE Becomes(w, [run[w] EXCEPT !.tries = 0, !.pc = "fetch"])
  /\ UNCHANGED <<row, lock, cancelRead, faults>>

\* retry_network, the source answers; after a retry the row is running again.
FetchOk(w) ==
  /\ At(w, {"fetch"})
  /\ IF run[w].tries = 0 THEN Goto(w, "fetched") /\ UNCHANGED row
     ELSE IF Admits(run[w].job, "running")
       THEN Goto(w, "fetched") /\ SetState(run[w].job, "running")
       ELSE Fails(w, SourceError) /\ UNCHANGED row
  /\ UNCHANGED <<lock, cancelRead, faults>>

\* The last attempt raises; the faulty variant is off by one.
RetriesOnceMore(w) == run[w].tries < MaxAttempts
RetriesLeft(w)     == run[w].tries < MaxAttempts - 1

\* retry_network, a network error: wait and try again, up to MaxAttempts.
FetchNetworkError(w) ==
  /\ At(w, {"fetch"})
  /\ IF RetriesLeft(w) /\ Admits(run[w].job, "retrying")
       THEN /\ SetState(run[w].job, "retrying")
            /\ Becomes(w, [run[w] EXCEPT !.tries = run[w].tries + 1, !.pc = "backoff"])
       ELSE Fails(w, SourceError) /\ UNCHANGED row
  /\ UNCHANGED <<lock, cancelRead, faults>>

\* Any other error of the source, the account or the data.
FetchFails(w) ==
  /\ At(w, {"fetch"})
  /\ \E f \in Failures : Fails(w, f)
  /\ UNCHANGED <<row, lock, cancelRead, faults>>

Retry(w) ==
  /\ At(w, {"backoff"}) /\ Passes(w)
  /\ Goto(w, "fetch")
  /\ UNCHANGED <<row, lock, cancelRead, faults>>

\* The last check before the write.
CheckFetched(w) ==
  /\ At(w, {"fetched"}) /\ Passes(w)
  /\ Goto(w, "commit")
  /\ UNCHANGED <<row, lock, cancelRead, faults>>

\* Store.write_chunk: rows, coverage, checkpoint and unit in one transaction.
\* The checkpoint is assigned, not raised.
Commit(w) ==
  /\ At(w, {"commit"})
  /\ \E quality \in Stored, covered \in {Mine(w).covered \union {run[w].idx},
                                        Mine(w).covered \ {run[w].idx}} :
       RecordUnit(w, quality, run[w].idx + 1, covered)
  /\ Goto(w, "settle")
  /\ UNCHANGED <<lock, cancelRead, faults>>

\* The database refuses the transaction: a constraint, no space, no permission.
CommitFails(w) ==
  /\ At(w, {"commit"})
  /\ Fails(w, SourceError)
  /\ UNCHANGED <<row, lock, cancelRead, faults>>

\* process_parts marks the job running after each unit it stored, inside the
\* same try as the unit: a refusal of this update becomes the unit's error.
Settle(w) ==
  /\ At(w, {"settle"})
  /\ IF Admits(run[w].job, "running")
       THEN SetState(run[w].job, "running") /\ NextUnit(w)
       ELSE Fails(w, SourceError) /\ UNCHANGED row
  /\ UNCHANGED <<lock, cancelRead, faults>>

\* Store.write_unit for a failed unit; unless the whole source failed, the
\* checkpoint moves past it.
Reject(w) ==
  /\ At(w, {"reject"})
  /\ LET passed == IF run[w].outcome.scope = "source" THEN 0 ELSE run[w].idx + 1
         old    == Mine(w).checkpoint
     IN RecordUnit(w, run[w].outcome.state, IF passed > old THEN passed ELSE old, Mine(w).covered)
  /\ Goto(w, "settleReject")
  /\ UNCHANGED <<lock, cancelRead, faults>>

\* The error is put on the row; a failure of the source ends the loop and one
\* of an interface closes that interface for this execution.
SettleReject(w) ==
  LET scope == run[w].outcome.scope
  IN /\ At(w, {"settleReject"})
     /\ IF ~ Admits(run[w].job, "running")
          THEN /\ Carry(w, SourceError, "abort")
               /\ UNCHANGED row
          ELSE /\ SetState(run[w].job, "running")
               /\ IF scope = "source"
                    THEN Carry(w, NoOutcome, "result")
                    ELSE Becomes(w, [run[w] EXCEPT
                           !.outcome = NoOutcome,
                           !.denied = IF scope = "interface"
                                        THEN run[w].denied \union {KeyOf[run[w].idx]}
                                        ELSE run[w].denied,
                           !.idx = run[w].idx + 1,
                           !.pc = NextPoint(run[w].idx + 1)])
     /\ UNCHANGED <<lock, cancelRead, faults>>

\* download_result, then the last check of execute().
Conclude(w) ==
  /\ At(w, {"result"}) /\ Passes(w)
  /\ Carry(w, [scope |-> "job", state |-> DownloadResult(run[w].job)], "finish")
  /\ UNCHANGED <<row, lock, cancelRead, faults>>

\* The final state is the result, the cancellation, or what failure() made of
\* an error outside the units: partial when rows are in already.
Finish(w) ==
  /\ At(w, {"finish", "cancel", "abort"})
  /\ SetState(run[w].job,
       CASE run[w].pc = "finish" -> run[w].outcome.state
         [] run[w].pc = "cancel" -> "cancelled"
         [] run[w].pc = "abort"  -> IF Mine(w).covered # {} THEN "partial"
                                                           ELSE run[w].outcome.state)
  /\ Idle(w)
  /\ UNCHANGED <<cancelRead, faults>>

\* InterruptedError: the service stops, the job waits for the next start.
Requeue(w) ==
  /\ At(w, {"interrupt"})
  /\ IF Admits(run[w].job, "queued")
       THEN SetState(run[w].job, "queued") /\ Idle(w)
       ELSE Leave(w, "unlocked") /\ UNCHANGED row
  /\ UNCHANGED <<cancelRead, faults>>

-----------------------------------------------------------------------------
(* The worker: a check that does not pass.                                 *)

\* A wait between two attempts notices the stop before it asks the lease.
SeesStop(w) == run[w].stop /\ (lock = w \/ At(w, {"backoff"}))

CheckStops(w) ==
  /\ At(w, Checking) /\ SeesStop(w)
  /\ Goto(w, "interrupt")
  /\ UNCHANGED <<row, lock, cancelRead, faults>>

CheckCancels(w) ==
  /\ At(w, Checking) /\ lock = w /\ ~ run[w].stop /\ Mine(w).cancel
  /\ Goto(w, "cancel")
  /\ UNCHANGED <<row, lock, cancelRead, faults>>

\* LeaseLost: execution ends without touching the row.
CheckLosesLease(w) ==
  /\ lock # w
  /\ \/ At(w, Checking) /\ ~ SeesStop(w)
     \/ At(w, {"idle"}) /\ ~ run[w].stop
  /\ Leave(w, "unlocked")
  /\ UNCHANGED <<row, cancelRead, faults>>

-----------------------------------------------------------------------------
(* The console: create, cancel, recycle and restore.                       *)

Submit(j) ==
  /\ row[j].state = "absent"
  /\ \A k \in Jobs : k < j => row[k].state # "absent"
  /\ SetState(j, "queued")
  /\ UNCHANGED <<lock, run, cancelRead, faults>>

\* POST /jobs/{id}/cancel reads the row in one transaction ...
ReadForCancel(j) ==
  /\ cancelRead[j] = "none"
  /\ row[j].state \in Active /\ ~ row[j].deleted
  /\ cancelRead' = [cancelRead EXCEPT ![j] = row[j].state]
  /\ UNCHANGED <<row, lock, run, faults>>

\* ... and writes it in another, by what it read.
WriteCancel(j) ==
  /\ cancelRead[j] # "none"
  /\ row' = [row EXCEPT ![j].cancel = TRUE,
                        ![j].state = IF cancelRead[j] = "queued" THEN "cancelled" ELSE @]
  /\ cancelRead' = [cancelRead EXCEPT ![j] = "none"]
  /\ UNCHANGED <<lock, run, faults>>

\* recycle() holds the row's lock over its test and its update.
Recycle(j) ==
  /\ j \in Recyclable
  /\ row[j].state \in Finished
  /\ row' = [row EXCEPT ![j].deleted = ~ @]
  /\ UNCHANGED <<lock, run, cancelRead, faults>>

-----------------------------------------------------------------------------
(* Faults.                                                                 *)

Fault == faults < MaxFaults /\ faults' = faults + 1

\* The service is asked to stop: the worker learns of it at its next check.
Stop(w) ==
  /\ Fault
  /\ ~ At(w, {"off"}) /\ ~ run[w].stop
  /\ run' = [run EXCEPT ![w].stop = TRUE]
  /\ UNCHANGED <<row, lock, cancelRead>>

\* The process dies; its sessions end and its advisory lock with them.
Crash(w) ==
  /\ Fault
  /\ ~ At(w, {"off"})
  /\ Leave(w, "off")
  /\ UNCHANGED <<row, cancelRead>>

\* The lease session ends on the server and the worker does not know yet.
LoseLease(w) ==
  /\ Fault
  /\ lock = w
  /\ lock' = NoWorker
  /\ UNCHANGED <<row, run, cancelRead>>

\* A statement fails for a lost connection: execution ends where it is.
DropConnection(w) ==
  /\ Fault
  /\ At(w, Busy \union {"recover", "idle"})
  /\ Leave(w, "unlocked")
  /\ UNCHANGED <<row, cancelRead>>

-----------------------------------------------------------------------------
Step(w) ==
  \/ Acquire(w) \/ Recover(w) \/ Select(w) \/ Exit(w)
  \/ Start(w) \/ Begin(w) \/ TakeUnit(w)
  \/ FetchOk(w) \/ FetchNetworkError(w) \/ FetchFails(w) \/ Retry(w) \/ CheckFetched(w)
  \/ Commit(w) \/ CommitFails(w) \/ Settle(w) \/ Reject(w) \/ SettleReject(w)
  \/ Conclude(w) \/ Finish(w) \/ Requeue(w)
  \/ CheckStops(w) \/ CheckCancels(w) \/ CheckLosesLease(w)

Console(j) == Submit(j) \/ ReadForCancel(j) \/ WriteCancel(j) \/ Recycle(j)

Failing(w) == Stop(w) \/ Crash(w) \/ LoseLease(w) \/ DropConnection(w)

Next ==
  \/ \E w \in Workers : Step(w) \/ Boot(w) \/ Failing(w)
  \/ \E j \in Jobs : Console(j)

Spec == Init /\ [][Next]_vars

\* A running worker takes its next step and a console request that was read is
\* written.  Nobody has to start the service, create, cancel or recycle a job.
FairSpec ==
  /\ Spec
  /\ \A w \in Workers : WF_vars(Step(w))
  /\ \A j \in Jobs : WF_vars(WriteCancel(j))

-----------------------------------------------------------------------------
(* Properties.                                                             *)

RowType ==
  [state : States \union {"absent"}, cancel : BOOLEAN, deleted : BOOLEAN,
   checkpoint : 0..NumUnits, unit : [Units -> Stored \union Rejected \union {"none"}],
   covered : SUBSET Units, overrun : Nat]

RunType ==
  [pc : Busy \union {"off", "unlocked", "recover", "idle"}, stop : BOOLEAN,
   job : Jobs \union {0}, idx : 0..NumUnits, tries : 0..(MaxAttempts - 1),
   denied : SUBSET {KeyOf[i] : i \in Units},
   outcome : [scope : {"unit", "interface", "source", "job", "none"},
              state : States \union {"none"}]]

TypeOK ==
  /\ row \in [Jobs -> RowType]
  /\ lock \in Workers \union {NoWorker}
  /\ run \in [Workers -> RunType]
  /\ cancelRead \in [Jobs -> Active \union {"none"}]
  /\ faults \in 0..MaxFaults

\* Every unit below a job's checkpoint has an outcome: whatever is stopped,
\* lost, recovered or run twice, a resume never steps over a unit
\* (tasks.py process_parts, storage.py write_coverage and write_unit).
NoUnitSkipped ==
  \A j \in Jobs, i \in Units : i < row[j].checkpoint => row[j].unit[i] # "none"

\* A job reported as succeeded has every unit stored and verified, although
\* download_result only looks at the units that have a row.
SucceededIsVerified ==
  \A j \in Jobs : row[j].state = "succeeded" => \A i \in Units : row[j].unit[i] = "verified"

\* A lane that is past its recovery shows no job as running other than the one
\* it is executing, so none waits for an executor that is gone.
NoOrphan ==
  (\E w \in Workers : lock = w /\ run[w].pc \in Busy \union {"idle"}) =>
    \A j \in Jobs : row[j].state \in {"running", "retrying"} => Executing(j)

\* After a cancellation is on the row at most one unit is still written: the
\* one whose last check had passed.
CancelWithinOneUnit == \A j \in Jobs : row[j].overrun <= 1

\* No job runs while an older one is unfinished, over stops and recoveries.
OldestFirst ==
  \A j, k \in Jobs : k < j /\ Executing(j) => row[k].state \notin Active

\* A unit that failed has no stored rows: its event says it was not stored.
RejectedStoredNothing ==
  \A j \in Jobs, i \in Units : row[j].unit[i] \in Rejected => i \notin row[j].covered

\* A stored unit is never written again, by any later execution of its job.
StoredUnitIsFinal ==
  [][\A j \in Jobs, i \in Units :
       row[j].unit[i] \in Stored => row'[j].unit[i] = row[j].unit[i]]_vars

\* A checkpoint never moves back.
CheckpointMonotone == [][\A j \in Jobs : row'[j].checkpoint >= row[j].checkpoint]_vars

\* An active job ends, and no worker goes on with it, or the service is down.
JobsSettle ==
  \A j \in Jobs :
    row[j].state \in Active ~>
      \/ row[j].state \in Finished /\ ~ Executing(j)
      \/ \A w \in Workers : run[w].pc = "off"

\* A worker that is told to stop ends.
StopEnds == \A w \in Workers : run[w].stop ~> run[w].pc = "off"

\* What the lane promises about the jobs, without its workers.
Ledger == INSTANCE JobLedger WITH
  phase <- [j \in Jobs |-> IF row[j].state \in Active \/ Executing(j) THEN "open" ELSE row[j].state],
  settled <- [j \in Jobs |-> {i \in Units : row[j].unit[i] # "none"}]

\* The lane keeps the promise of JobLedger.
LedgerKept == Ledger!Spec

=============================================================================
