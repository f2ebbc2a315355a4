---------------------------- MODULE Maintenance ----------------------------
(***************************************************************************)
(* The configuration of the automatic maintenance: datasets and            *)
(* maintenance plans, edited from console windows and from the SDK         *)
(* (workspace.py, maintenance.py) while the scheduler queues jobs for them *)
(* from copies it read earlier.                                            *)
(*                                                                         *)
(* Every edit is one transaction that holds an advisory lock and the row   *)
(* it changes.  Begin is everything up to its UPDATE (locks, reads, tests) *)
(* and Commit the rest; what takes the row in between must wait.  Jobs are *)
(* inserted without the advisory lock: the trigger of migration 010 locks  *)
(* the rows a job names and refuses deleted ones.                          *)
(***************************************************************************)
EXTENDS Naturals, Sequences

CONSTANTS
  Plans, Datasets,
  Payloads,      \* scopes a plan may have
  DatasetOf,     \* payload -> the dataset it names, or "none"
  Settings,      \* values of the other fields (name, time, members, ...)
  Windows,       \* browser windows
  Ends,          \* days the scheduler queues a job up to
  Bound,         \* payloads and datasets bound to an account of the source
  MaxEdits, MaxJobs, MaxPreviews  \* bounds

ASSUME MaintenanceAssumption ==
  /\ "none" \notin Plans \union Datasets \union Payloads \union Windows
  /\ Plans \intersect Datasets = {}
  /\ DatasetOf \in [Payloads -> Datasets \union {"none"}]
  /\ Ends \subseteq Nat \ {0}
  /\ MaxEdits \in Nat /\ MaxJobs \in Nat /\ MaxPreviews \in Nat

Scopes == Plans \union Datasets

VARIABLES
  row,      \* scope -> its row in datasets or maintenance_plans
  account,  \* the account's endpoint and permissions are the ones scopes are bound to
  editor,   \* the transaction that holds the advisory lock
  edits,    \* how many there were
  window,   \* window -> the row it shows
  copy,     \* the row the scheduler works from
  preview,  \* previews of "run once", kept by the process
  jobs      \* the jobs of these scopes

vars == <<row, account, editor, edits, window, copy, preview, jobs>>

Row == [status : {"absent", "live", "deleted"}, enabled : BOOLEAN, payload : Payloads \union {"none"},
        setting : Settings, last : Ends \union {0}, revision : 0..MaxEdits + 1]

Blank == [id |-> "none"]
Idle == [id |-> "none"]

\* What a job has to name in its payload, and what it came from.
Job == [by : {"schedule", "preview", "user"}, plan : Plans \union {"none"}, dataset : Datasets \union {"none"},
        payload : Payloads \union {"none"}, end : Ends \union {0}, key : 0..MaxPreviews, active : BOOLEAN]

Init ==
  \E s \in Settings :
    /\ row = [i \in Scopes |-> [status |-> IF i \in Datasets THEN "live" ELSE "absent", enabled |-> FALSE,
                                payload |-> "none", setting |-> s, last |-> 0,
                                revision |-> IF i \in Datasets THEN 1 ELSE 0]]
    /\ account = TRUE
    /\ edits = 0
    /\ editor = Idle
    /\ window = [w \in Windows |-> Blank]
    /\ copy = Blank
    /\ preview = <<>>
    /\ jobs = <<>>

(***************************************************************************)
(* Rows and locks.                                                         *)
(***************************************************************************)
\* bump_config_revision: the cursor is not part of the configuration.
Content(r) == [r EXCEPT !.last = 0, !.revision = 0]

BumpedByScope(old, new) ==  \* mutant of Bumped
  [new EXCEPT !.revision = old.revision + (IF new.payload = old.payload /\ new.setting = old.setting THEN 0 ELSE 1)]

Bumped(old, new) ==
  [new EXCEPT !.revision = old.revision + (IF Content(new) = Content(old) THEN 0 ELSE 1)]

\* A copy of a row; nobody compares the cursor of one.
Shown(i) == [row[i] EXCEPT !.last = 0]

Locked(i) == editor.id = i

EnabledPlans(d) == {p \in Plans : row[p].enabled /\ DatasetOf[row[p].payload] = d}

NoConflictWithDataset(p, payload) ==  \* mutant of NoConflict
  LET d == DatasetOf[payload] IN d # "none" => row[d].status = "live" /\ ~row[d].enabled

\* check_conflict
NoConflict(p, payload) ==
  LET d == DatasetOf[payload] IN
  /\ d # "none" => row[d].status = "live" /\ ~row[d].enabled
  /\ \A q \in Plans \ {p} : ~(row[q].enabled /\ row[q].payload = payload)

\* scope: a payload that names a deleted dataset is refused.
ScopeFound(payload) == LET d == DatasetOf[payload] IN d # "none" => row[d].status # "deleted"

\* validate_binding
Usable(x) == x \in Bound => account

Begin(i, w, new) ==
  /\ editor = Idle
  /\ edits < MaxEdits /\ edits' = edits + 1
  /\ editor' = [id |-> i, window |-> w, new |-> new]
  /\ UNCHANGED <<row, account, window, copy, preview, jobs>>

\* The transaction fails: a lost connection, the process stopped.
Rollback == editor # Idle /\ editor' = Idle /\ UNCHANGED <<row, account, edits, window, copy, preview, jobs>>

Commit ==
  /\ editor # Idle
  /\ row' = [row EXCEPT ![editor.id] = editor.new]
  /\ editor' = Idle
  /\ UNCHANGED <<account, edits, window, copy, preview, jobs>>

\* check_revision: the window sends the revision of the row it shows.
Current(w, i) == window[w].id = i /\ window[w].row.revision = row[i].revision

(***************************************************************************)
(* Edits.                                                                  *)
(***************************************************************************)
\* save_maintenance without an id (enabled or not), and save_plan (enabled).
CreatePlan(p, payload, setting, enabled, console) ==
  /\ row[p].status = "absent"
  /\ IF console THEN ScopeFound(payload) ELSE enabled
  /\ enabled => NoConflict(p, payload) /\ (console => Usable(payload))
  /\ Begin(p, "none", [status |-> "live", enabled |-> enabled, payload |-> payload, setting |-> setting,
                       last |-> 0, revision |-> 1])

SavePlan(w, p, payload, setting, enabled) ==
  LET old == row[p] IN
  /\ old.status = "live" /\ Current(w, p)
  /\ payload # old.payload => ~old.enabled /\ ~enabled /\ ScopeFound(payload)
  /\ enabled => Usable(payload) /\ NoConflict(p, payload)
  /\ Begin(p, w, Bumped(old, [old EXCEPT !.payload = payload, !.setting = setting, !.enabled = enabled,
                                         !.last = IF payload = old.payload THEN @ ELSE 0]))

\* update_plan takes no revision and writes the fields it was given.
UpdatePlan(p, setting, enabled) ==
  LET old == row[p] IN
  /\ old.status = "live"
  /\ enabled => NoConflict(p, old.payload)
  /\ <<setting, enabled>> # <<old.setting, old.enabled>>
  /\ Begin(p, "none", Bumped(old, [old EXCEPT !.setting = setting, !.enabled = enabled]))

EditDataset(w, d, setting, enabled) ==
  LET old == row[d] IN
  /\ old.status = "live" /\ Current(w, d)
  /\ enabled /\ ~old.enabled => Usable(d)
  /\ enabled => EnabledPlans(d) = {}
  /\ Begin(d, w, Bumped(old, [old EXCEPT !.setting = setting, !.enabled = enabled]))

SetDatasetSchedule(d, enabled) ==
  LET old == row[d] IN
  /\ old.status = "live"
  /\ enabled => EnabledPlans(d) = {}
  /\ old.enabled # enabled
  /\ Begin(d, "none", Bumped(old, [old EXCEPT !.enabled = enabled]))

Linked(i) == {n \in DOMAIN jobs : jobs[n].active /\ i \in {jobs[n].plan, jobs[n].dataset}}

Recycle(w, i) ==
  LET old == row[i] IN
  /\ old.status = "live" /\ Current(w, i)
  /\ Linked(i) = {}
  /\ \A p \in Plans : row[p].status = "live" => DatasetOf[row[p].payload] # i
  /\ Begin(i, w, Bumped(old, [old EXCEPT !.status = "deleted", !.enabled = FALSE]))

Restore(w, i) ==
  LET old == row[i] IN
  /\ old.status = "deleted" /\ Current(w, i)
  /\ i \in Plans => ScopeFound(old.payload)
  /\ Begin(i, w, Bumped(old, [old EXCEPT !.status = "live", !.enabled = FALSE]))

(***************************************************************************)
(* Jobs.                                                                   *)
(***************************************************************************)
GuardedUnlocked(job) ==  \* mutant of Guarded
  \A i \in {job.plan, job.dataset} \ {"none"} : row[i].status # "deleted"

\* guard_recycled_job_scope waits for the rows an active job names and refuses it when one is deleted.
Guarded(job) ==
  \A i \in {job.plan, job.dataset} \ {"none"} : ~Locked(i) /\ row[i].status # "deleted"

Queue(job) == Len(jobs) < MaxJobs /\ Guarded(job) /\ jobs' = Append(jobs, job)

\* tick and schedule read the scopes that are enabled and work from these copies.
SchedulerReads(i) ==
  /\ row[i].enabled
  /\ copy' = [id |-> i, row |-> Shown(i)]
  /\ UNCHANGED <<row, account, editor, edits, window, preview, jobs>>

StillEnabled(i, read) == row[i].enabled  \* mutant of StillWanted

\* enqueue: nothing is queued for a scope that was disabled or edited since.
StillWanted(i, read) ==
  /\ row[i].enabled
  /\ row[i].payload = read.payload /\ row[i].setting = read.setting

ScheduledJob(i, read, end) ==
  [by |-> "schedule", plan |-> IF i \in Plans THEN i ELSE "none",
   dataset |-> IF i \in Plans THEN DatasetOf[read.payload] ELSE i,
   payload |-> read.payload, end |-> end, key |-> 0, active |-> TRUE]

\* schedule_key: one job of a scope for a day, whatever the scope was then.
Queued(i, end) ==
  \E n \in DOMAIN jobs :
    /\ jobs[n].by = "schedule" /\ jobs[n].end = end
    /\ i = IF jobs[n].plan # "none" THEN jobs[n].plan ELSE jobs[n].dataset

Enqueue(end) ==
  LET i == copy.id  job == ScheduledJob(i, copy.row, end) IN
  /\ i # "none" /\ ~Locked(i) /\ StillWanted(i, copy.row)
  /\ \/ ~Queued(i, end) /\ Queue(job)
     \/ Queued(i, end) /\ Guarded(job) /\ UNCHANGED jobs
  /\ row' = IF i \in Plans /\ row[i].last < end THEN [row EXCEPT ![i].last = end] ELSE row
  /\ UNCHANGED <<account, editor, edits, window, copy, preview>>

\* A download of a dataset or of another scope that the user queues himself.
UserQueues(d) ==
  /\ Queue([by |-> "user", plan |-> "none", dataset |-> d, payload |-> "none", end |-> 0, key |-> 0, active |-> TRUE])
  /\ UNCHANGED <<row, account, editor, edits, window, copy, preview>>

JobEnds(n) ==
  /\ jobs[n].active
  /\ jobs' = [jobs EXCEPT ![n].active = FALSE]
  /\ UNCHANGED <<row, account, editor, edits, window, copy, preview>>

JobRetried(n) ==
  /\ ~jobs[n].active /\ Guarded(jobs[n])
  /\ jobs' = [jobs EXCEPT ![n].active = TRUE]
  /\ UNCHANGED <<row, account, editor, edits, window, copy, preview>>

(***************************************************************************)
(* Run once: what was previewed is what is queued, one time.               *)
(***************************************************************************)
Preview(p) ==
  /\ row[p].status = "live" /\ Usable(row[p].payload)
  /\ Len(preview) < MaxPreviews
  /\ preview' = Append(preview, [plan |-> p, revision |-> row[p].revision, payload |-> row[p].payload, state |-> "kept"])
  /\ UNCHANGED <<row, account, editor, edits, window, copy, jobs>>

Run(k) ==
  LET item == preview[k]  p == item.plan IN
  /\ item.state = "kept" /\ ~Locked(p)
  /\ row[p].revision = item.revision /\ Usable(row[p].payload)
  /\ Queue([by |-> "preview", plan |-> p, dataset |-> DatasetOf[item.payload], payload |-> item.payload,
            end |-> 0, key |-> k, active |-> TRUE])
  /\ preview' = [preview EXCEPT ![k].state = "done"]
  /\ UNCHANGED <<row, account, editor, edits, window, copy>>

\* Five minutes have passed, or the process has been restarted.
PreviewsForgotten ==
  /\ \E k \in DOMAIN preview : preview[k].state # "gone"
  /\ \/ \E k \in DOMAIN preview : preview' = [preview EXCEPT ![k].state = "gone"]
     \/ preview' = [k \in DOMAIN preview |-> [preview[k] EXCEPT !.state = "gone"]]
  /\ UNCHANGED <<row, account, editor, edits, window, copy, jobs>>

(***************************************************************************)
(* Windows and the world.                                                  *)
(***************************************************************************)
WindowReads(w, i) ==
  /\ row[i].status # "absent"
  /\ editor # Idle => editor.window # w
  /\ window' = [window EXCEPT ![w] = [id |-> i, row |-> Shown(i)]]
  /\ UNCHANGED <<row, account, editor, edits, copy, preview, jobs>>

\* An account's endpoint or permissions change (validate_binding).
AccountChanges ==
  /\ account' = ~account
  /\ UNCHANGED <<row, editor, edits, window, copy, preview, jobs>>

Edit ==
  \E setting \in Settings, enabled \in BOOLEAN :
    \/ \E p \in Plans, payload \in Payloads, console \in BOOLEAN : CreatePlan(p, payload, setting, enabled, console)
    \/ \E p \in Plans : UpdatePlan(p, setting, enabled)
    \/ \E w \in Windows, p \in Plans, payload \in Payloads : SavePlan(w, p, payload, setting, enabled)
    \/ \E w \in Windows, d \in Datasets : EditDataset(w, d, setting, enabled)

Next ==
  \/ Edit
  \/ \E d \in Datasets, enabled \in BOOLEAN : SetDatasetSchedule(d, enabled)
  \/ \E w \in Windows, i \in Scopes : Recycle(w, i) \/ Restore(w, i) \/ WindowReads(w, i)
  \/ Commit \/ Rollback
  \/ \E i \in Scopes : SchedulerReads(i)
  \/ \E end \in Ends : Enqueue(end)
  \/ \E d \in Datasets : UserQueues(d)
  \/ \E n \in DOMAIN jobs : JobEnds(n) \/ JobRetried(n)
  \/ \E p \in Plans : Preview(p)
  \/ \E k \in DOMAIN preview : Run(k)
  \/ PreviewsForgotten
  \/ AccountChanges

Spec == Init /\ [][Next]_vars

TypeOK ==
  /\ row \in [Scopes -> Row]
  /\ \A i \in Plans : row[i].status # "absent" => row[i].payload \in Payloads
  /\ account \in BOOLEAN /\ edits \in 0..MaxEdits
  /\ editor = Idle \/ editor \in [id : Scopes, window : Windows \union {"none"}, new : Row]
  /\ \A w \in Windows : window[w] = Blank \/ window[w] \in [id : Scopes, row : Row]
  /\ copy = Blank \/ copy \in [id : Scopes, row : Row]
  /\ Len(preview) <= MaxPreviews /\ Len(jobs) <= MaxJobs
  /\ jobs \in Seq(Job)

(***************************************************************************)
(* A dataset is maintained in one way: it does not follow its own schedule *)
(* while a plan for it is enabled, and no two enabled plans have the same  *)
(* scope.  Edits of different rows are checked against each other.         *)
(***************************************************************************)
OneMaintainer ==
  \A p \in Plans : row[p].enabled =>
    /\ DatasetOf[row[p].payload] # "none" => ~row[DatasetOf[row[p].payload]].enabled
    /\ \A q \in Plans \ {p} : ~(row[q].enabled /\ row[q].payload = row[p].payload)

(***************************************************************************)
(* A recycled dataset or plan is left alone: it is disabled, no plan that  *)
(* is not recycled names the dataset, and no job for it is active, though  *)
(* jobs are queued, retried and run once while it is being recycled.       *)
(***************************************************************************)
RecycledIsQuiet ==
  \A i \in Scopes : row[i].status = "deleted" =>
    /\ ~row[i].enabled
    /\ Linked(i) = {}
    /\ \A p \in Plans : row[p].status = "live" => DatasetOf[row[p].payload] # i

(***************************************************************************)
(* An edit from a window replaces the configuration that window showed:    *)
(* no change of another window, of the SDK or of the recycle bin is lost.  *)
(***************************************************************************)
EditReplacesWhatWasShown ==
  [][\A i \in Scopes : editor.id = i /\ row'[i] # row[i] /\ editor.window # "none" =>
       Content(row[i]) = Content(window[editor.window].row)]_vars

(***************************************************************************)
(* A job that is queued is the one that was asked for: a scheduled one is  *)
(* for the scope as it is now, enabled, and one of "run once" is the scope *)
(* that was previewed, still the plan's, and no preview is queued twice.   *)
(***************************************************************************)
QueuedAsAskedFor ==
  [][\A n \in DOMAIN jobs' \ DOMAIN jobs :
       /\ jobs'[n].by = "schedule" =>
            \E i \in {jobs'[n].plan, jobs'[n].dataset} \ {"none"} :
               row[i].enabled /\ row[i].status = "live" /\ row[i].payload = jobs'[n].payload
       /\ jobs'[n].by = "preview" =>
            /\ row[jobs'[n].plan].status = "live" /\ row[jobs'[n].plan].payload = jobs'[n].payload
            /\ \A m \in DOMAIN jobs : jobs[m].key # jobs'[n].key]_vars
=============================================================================
