---------------------------- MODULE RetryFamily ----------------------------
(***************************************************************************)
(* Retries of one job and of its retries (storage.py retry_job), made by   *)
(* console requests and by the automatic repair of maintained scopes       *)
(* (maintenance.py repair), while the lane executes the jobs.              *)
(*                                                                         *)
(* A retry is a child job with the parts its target has not settled.  The  *)
(* family of a job is the job and everything below it; the newest outcome  *)
(* of a part within the family decides whether the part is still needed.   *)
(* retry_job is one transaction of three statements under a lock on the    *)
(* target's row, each of which sees what was committed before it.          *)
(***************************************************************************)
EXTENDS Integers, Sequences, FiniteSets

CONSTANTS
  Consoles,    \* request threads of the HTTP service
  Repairer,    \* the worker thread that runs the automatic repair
  Parts,       \* parts (payload.chunks) of the first job, in order
  MaxRounds,   \* options.repair_attempts, at most 3
  MaxManual,   \* bound: retries the users make
  MaxCancels   \* bound: cancellations the users make

ASSUME FamilyAssumption ==
  /\ Repairer \notin Consoles
  /\ IsFiniteSet(Parts) /\ Parts \subseteq Nat /\ Parts # {}
  /\ MaxRounds \in Nat /\ MaxManual \in Nat /\ MaxCancels \in Nat

Threads == Consoles \union {Repairer}

\* What a unit's row says about its part: stored and settled; missing for a
\* reason that may pass; or refused by the source, which only a user asks again.
Outcomes == {"done", "gap", "refused"}

\* running stands for retrying too, and partial for every state with something
\* left to do; barred is a root that ended with an error of the account, the
\* one place where its error code is read again.
Active    == {"queued", "running"}
Retryable == {"partial", "barred", "cancelled"}

VARIABLES
  jobs,     \* the family's rows in jobs, in created_at order; the first is the root
  log,      \* their rows in job_units, in updated_at order
  newest,   \* the job with the latest updated_at
  req       \* thread -> the retry_job call it is in

vars == <<jobs, log, newest, req>>

Ids == 1..Len(jobs)

NewJob(parent, parts, round, auto) ==
  [parent |-> parent, parts |-> parts, state |-> "queued", cancel |-> FALSE,
   round |-> round,   \* payload.repair_attempt
   auto |-> auto]     \* history: made by the automatic repair

NoCall == [at |-> "idle", job |-> 0, parts |-> {}]

Init ==
  /\ jobs = <<NewJob(0, Parts, 0, FALSE)>>
  /\ log = << >>
  /\ newest = 1
  /\ req = [t \in Threads |-> NoCall]

-----------------------------------------------------------------------------
(* Families.                                                               *)

\* The recursive query: the least set with the job and the retries of its
\* members.
Complete(S) == \A k \in Ids : jobs[k].parent \in S => k \in S
Family(j)   == {k \in Ids : \A S \in SUBSET Ids : j \in S /\ Complete(S) => k \in S}

Children(j) == {k \in Ids : jobs[k].parent = j}

\* The newest outcome of a part among some jobs.
Newest(members, p) ==
  LET hits == {n \in DOMAIN log : log[n].job \in members /\ log[n].part = p}
  IN IF hits = {} THEN "none"
     ELSE log[CHOOSE n \in hits : \A m \in hits : m <= n].outcome

Recorded(j) == {log[n].part : n \in {m \in DOMAIN log : log[m].job = j}}

Touch(j)       == newest' = j
SetState(j, s) == jobs' = [jobs EXCEPT ![j].state = s]

\* The parts a retry of a job asks for: those without an outcome, those that
\* failed and, for the automatic repair, of these only what may pass.
Needed(j, auto) ==
  {p \in jobs[j].parts :
     Newest(Family(j), p) \in {"none", "gap"} \union (IF auto THEN {} ELSE {"refused"})}

-----------------------------------------------------------------------------
(* The lane executes the jobs one at a time, oldest first.                 *)

Start(j) ==
  /\ jobs[j].state = "queued"
  /\ \A k \in Ids : jobs[k].state # "running" /\ (k < j => jobs[k].state # "queued")
  /\ SetState(j, "running")
  /\ Touch(j)
  /\ UNCHANGED <<log, req>>

\* The next part is stored or fails.
Record(j) ==
  /\ jobs[j].state = "running"
  /\ \E p \in jobs[j].parts \ Recorded(j), outcome \in Outcomes :
       /\ \A q \in jobs[j].parts \ Recorded(j) : p <= q
       /\ log' = Append(log, [job |-> j, part |-> p, outcome |-> outcome])
  /\ Touch(j)
  /\ UNCHANGED <<jobs, req>>

\* The job ends after its last part, or early when the source fails: before
\* any part, or with the part that met the failure.
Finish(j) ==
  /\ jobs[j].state = "running"
  /\ LET left == jobs[j].parts \ Recorded(j)
         bad  == \E p \in Recorded(j) : Newest({j}, p) # "done"
     IN /\ left = {} \/ Recorded(j) = {} \/ (log # << >> /\ log[Len(log)].outcome # "done")
        /\ \E s \in {"succeeded", "partial", "barred"} :
             /\ s = "succeeded" => left = {} /\ ~ bad
             /\ s = "barred" => j = 1 /\ (left # {} \/ bad)
             /\ SetState(j, s)
  /\ Touch(j)
  /\ UNCHANGED <<log, req>>

\* A check finds the cancellation.
StopCancelled(j) ==
  /\ jobs[j].state = "running" /\ jobs[j].cancel
  /\ SetState(j, "cancelled")
  /\ Touch(j)
  /\ UNCHANGED <<log, req>>

\* The console cancels a job: at once when it is queued, else at its next check.
Cancel(j) ==
  /\ jobs[j].state \in Active /\ ~ jobs[j].cancel
  /\ Cardinality({k \in Ids : jobs[k].cancel}) < MaxCancels
  /\ jobs' = [jobs EXCEPT ![j].cancel = TRUE,
                          ![j].state = IF @ = "queued" THEN "cancelled" ELSE @]
  /\ Touch(j)
  /\ UNCHANGED <<log, req>>

-----------------------------------------------------------------------------
(* retry_job: a transaction that holds the target's row.                   *)

\* SELECT ... FOR UPDATE of the target waits for its other retries; the
\* faulty variant does not.
MayLockUnguarded(j) == TRUE
MayLock(j) == \A t \in Threads : req[t].at \in {"locked", "checked"} => req[t].job # j

\* The target is tested and the parts are selected from the family's units.
Lock(t, j, asked, auto) ==
  /\ MayLock(j)
  /\ jobs[j].state \in Retryable
  /\ asked \intersect Needed(j, auto) # {}
  /\ req' = [req EXCEPT ![t] = [at |-> "locked", job |-> j,
                                parts |-> asked \intersect Needed(j, auto)]]
  /\ UNCHANGED <<jobs, log, newest>>

\* An active child is returned, or refused if it has other parts.
CheckActive(t) ==
  /\ req[t].at = "locked"
  /\ req' = [req EXCEPT ![t] =
               IF \E k \in Children(req[t].job) : jobs[k].state \in Active
                 THEN NoCall ELSE [@ EXCEPT !.at = "checked"]]
  /\ UNCHANGED <<jobs, log, newest>>

\* The round of the next automatic retry counts the whole family; the faulty
\* variant looks at the target only.
LastRoundOfTarget(j) == jobs[j].round
LastRound(j) ==
  LET rounds == {jobs[k].round : k \in Family(j)}
  IN CHOOSE r \in rounds : \A q \in rounds : q <= r

Insert(t) ==
  /\ req[t].at = "checked"
  /\ LET j == req[t].job
     IN jobs' = Append(jobs,
          NewJob(j, req[t].parts,
                 IF t = Repairer THEN LastRound(j) + 1 ELSE jobs[j].round,
                 t = Repairer))
  /\ Touch(Len(jobs) + 1)
  /\ req' = [req EXCEPT ![t] = NoCall]
  /\ UNCHANGED log

\* POST /jobs/{id}/retry for all parts or for those the user ticked.
Manual == Cardinality({j \in Ids : jobs[j].parent # 0 /\ ~ jobs[j].auto})
            + Cardinality({t \in Consoles : req[t].at # "idle"})

RequestRetry(t, j) ==
  /\ req[t].at = "idle"
  /\ Manual < MaxManual
  /\ \E asked \in SUBSET jobs[j].parts : Lock(t, j, asked, FALSE)

-----------------------------------------------------------------------------
(* Automatic repair of the root, which belongs to an enabled plan.         *)

\* A family at rest; the faulty variant takes a finished retry for one at work.
RestingUntilDone(j) == \A k \in Family(j) \ {j} : jobs[k].state \in {"succeeded", "cancelled"}
Resting(j) == \A k \in Family(j) : jobs[k].state \notin Active

\* Rounds are left.
RoundsLeft == LastRound(1) < MaxRounds

\* Reads without a lock: the root needs a repair, nothing of its family is
\* active, the user did not cancel the last of it, and rounds are left.
ChooseRepair ==
  /\ req[Repairer].at = "idle"
  /\ jobs[1].state = "partial" /\ ~ jobs[1].cancel
  /\ \E p \in jobs[1].parts : Newest({1}, p) = "gap"
  /\ Resting(1)
  /\ jobs[newest].state # "cancelled"
  /\ RoundsLeft
  /\ Needed(1, TRUE) # {}
  /\ req' = [req EXCEPT ![Repairer] = [NoCall EXCEPT !.at = "chosen", !.job = 1]]
  /\ UNCHANGED <<jobs, log, newest>>

Repair ==
  /\ req[Repairer].at = "chosen"
  /\ Lock(Repairer, 1, jobs[1].parts, TRUE)

\* retry_job finds nothing to do any more.
SkipRepair ==
  /\ req[Repairer].at = "chosen"
  /\ Needed(1, TRUE) = {}
  /\ req' = [req EXCEPT ![Repairer] = NoCall]
  /\ UNCHANGED <<jobs, log, newest>>

-----------------------------------------------------------------------------
Execute == \E j \in Ids : Start(j) \/ Record(j) \/ Finish(j) \/ StopCancelled(j)
Call(t) == CheckActive(t) \/ Insert(t)
AutoRepair == ChooseRepair \/ Repair \/ SkipRepair
User == \E j \in Ids : Cancel(j) \/ \E t \in Consoles : RequestRetry(t, j)

Next == Execute \/ AutoRepair \/ User \/ \E t \in Threads : Call(t)

Spec == Init /\ [][Next]_vars

\* The lane executes, the scheduler repairs, a call that began goes on.
FairSpec ==
  /\ Spec
  /\ WF_vars(Execute) /\ WF_vars(AutoRepair)
  /\ \A t \in Threads : WF_vars(Call(t))

-----------------------------------------------------------------------------
(* Properties.                                                             *)

JobType ==
  [parent : Nat, parts : SUBSET Parts,
   state : Active \union Retryable \union {"succeeded"},
   cancel : BOOLEAN, round : 0..MaxRounds, auto : BOOLEAN]

TypeOK ==
  /\ jobs \in Seq(JobType)
  /\ \A j \in Ids : jobs[j].parent \in 0..(j - 1)
  /\ log \in Seq([job : Ids, part : Parts, outcome : Outcomes])
  /\ newest \in Ids
  /\ req \in [Threads -> [at : {"idle", "chosen", "locked", "checked"},
                          job : Ids \union {0}, parts : SUBSET Parts]]

\* A job has at most one active retry, whoever asks for it and how often.
OneActiveChild ==
  \A j \in Ids : \A k, m \in Children(j) :
    jobs[k].state \in Active /\ jobs[m].state \in Active => k = m

\* The automatic repair makes at most MaxRounds retries of a root, whatever
\* the users retry in between.
RoundsBounded == Cardinality({j \in Ids : jobs[j].auto}) <= MaxRounds

\* A part that a retry of the job has settled is not downloaded again by its
\* next retry.
RepairedNotRepeated ==
  [][Len(jobs') > Len(jobs) =>
       LET new == jobs'[Len(jobs')]
       IN \A p \in new.parts : Newest(Family(new.parent), p) # "done"]_vars

\* A gap of a maintained root is closed, is refused for good, or stays open
\* only when the rounds are used up or the user cancelled.
RepairConverges ==
  (jobs[1].state = "partial" /\ ~ jobs[1].cancel /\ Newest({1}, 0) = "gap") ~>
    \/ Newest(Family(1), 0) \in {"done", "refused"}
    \/ LastRound(1) = MaxRounds
    \/ \E j \in Ids : jobs[j].cancel

=============================================================================
