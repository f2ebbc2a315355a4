------------------------- MODULE RetryFamilyProofs -------------------------
(***************************************************************************)
(* Proofs about RetryFamily for any number of request threads, jobs, parts *)
(* and rounds: a job never has two active retries, as the row lock that    *)
(* retry_job takes on its target makes its test and its insert one step    *)
(* with respect to the other retries of that target, and the automatic     *)
(* repair adds no round beyond the bound, whatever the user retries.       *)
(***************************************************************************)
EXTENDS RetryFamily, SequenceTheorems, FiniteSetTheorems, TLAPS

-----------------------------------------------------------------------------
(* The invariant.                                                          *)

RowOf(Rounds) ==
  [parent : Nat, parts : SUBSET Parts,
   state : Active \union Retryable \union {"succeeded"},
   cancel : BOOLEAN, round : Rounds, auto : BOOLEAN]

\* The rows are rows; which values the round takes does not matter here.
RowsOK == \E Rounds : jobs \in Seq(RowOf(Rounds))

\* There is a root, and a retry is younger than its target.
TreeOK == 1 \in Ids /\ \A k \in Ids : jobs[k].parent \in 0..(k - 1)

\* A call in progress names a row and some of its parts.
CallsOK ==
  /\ req \in [Threads -> [at : {"idle", "chosen", "locked", "checked"},
                          job : Nat, parts : SUBSET Parts]]
  /\ \A t \in Threads : req[t].at # "idle" => req[t].job \in Ids

\* No two calls hold the same target.
Holding == {"locked", "checked"}

Exclusive ==
  \A t, u \in Threads :
    t # u /\ req[t].at \in Holding /\ req[u].at \in Holding => req[t].job # req[u].job

\* From its test to its insert a call's target has no active retry.
ClearToInsert ==
  \A t \in Threads : req[t].at = "checked" =>
    \A k \in Children(req[t].job) : jobs[k].state \notin Active

Inv == RowsOK /\ TreeOK /\ CallsOK /\ Exclusive /\ ClearToInsert /\ OneActiveChild

-----------------------------------------------------------------------------
(* Steps of the lane and cancellations leave the tree alone and make no    *)
(* job active.                                                             *)

SameTree ==
  /\ Len(jobs') = Len(jobs)
  /\ \A k \in Ids : /\ jobs'[k].parent = jobs[k].parent
                    /\ jobs'[k].round = jobs[k].round /\ jobs'[k].auto = jobs[k].auto
                    /\ jobs'[k].state \in Active => jobs[k].state \in Active

\* Replacing one row by a row with the same parent and round that is active only if the
\* old one was.
LEMMA ReplaceRow ==
  ASSUME NEW Rounds, jobs \in Seq(RowOf(Rounds)), NEW j \in Ids, NEW r \in RowOf(Rounds),
         r.parent = jobs[j].parent, r.round = jobs[j].round, r.auto = jobs[j].auto,
         r.state \in Active => jobs[j].state \in Active,
         jobs' = [jobs EXCEPT ![j] = r]
  PROVE  RowsOK' /\ SameTree
<1>1. /\ jobs' \in Seq(RowOf(Rounds))
      /\ Len(jobs') = Len(jobs)
      /\ \A k \in Ids : jobs'[k] = IF k = j THEN r ELSE jobs[k]
  BY ExceptSeq DEF Ids
<1>2. RowsOK'
  BY <1>1 DEF RowsOK
<1>3. SameTree
  BY <1>1 DEF SameTree
<1> QED  BY <1>2, <1>3

LEMMA ExecuteKeepsTree ==
  ASSUME Inv, Execute
  PROVE  RowsOK' /\ SameTree /\ UNCHANGED req
<1>1. PICK Rounds : jobs \in Seq(RowOf(Rounds))
  BY DEF Inv, RowsOK
<1>2. PICK j \in Ids : Start(j) \/ Record(j) \/ Finish(j) \/ StopCancelled(j)
  BY DEF Execute
<1>3. jobs[j] \in RowOf(Rounds)
  BY <1>1, ElementOfSeq DEF Ids
<1>4. ASSUME NEW s \in Active \union Retryable \union {"succeeded"}, SetState(j, s),
             s \in Active => jobs[j].state \in Active
      PROVE  RowsOK' /\ SameTree
  <2> DEFINE r == [jobs[j] EXCEPT !.state = s]
  <2>1. /\ r \in RowOf(Rounds) /\ r.state = s
        /\ r.parent = jobs[j].parent /\ r.round = jobs[j].round /\ r.auto = jobs[j].auto
    BY <1>3 DEF RowOf
  <2>2. jobs' = [jobs EXCEPT ![j] = r]
    BY <1>4 DEF SetState
  <2> HIDE DEF r
  <2> QED  BY <1>1, <1>4, <2>1, <2>2, ReplaceRow
<1>5. CASE Start(j)
  BY <1>4, <1>5 DEF Start, Active
<1>6. CASE Record(j)
  BY <1>1, <1>6 DEF Record, RowsOK, SameTree, Ids
<1>7. CASE Finish(j)
  <2>1. PICK s \in {"succeeded", "partial", "barred"} : SetState(j, s)
    BY <1>7 DEF Finish
  <2>2. s \notin Active /\ s \in Active \union Retryable \union {"succeeded"}
    BY DEF Active, Retryable
  <2>3. UNCHANGED req
    BY <1>7 DEF Finish
  <2> QED  BY <1>4, <2>1, <2>2, <2>3
<1>8. CASE StopCancelled(j)
  BY <1>4, <1>8 DEF StopCancelled, Active, Retryable
<1> QED  BY <1>2, <1>5, <1>6, <1>7, <1>8

LEMMA CancelKeepsTree ==
  ASSUME Inv, NEW j \in Ids, Cancel(j)
  PROVE  RowsOK' /\ SameTree /\ UNCHANGED req
<1>1. PICK Rounds : jobs \in Seq(RowOf(Rounds))
  BY DEF Inv, RowsOK
<1>2. jobs[j] \in RowOf(Rounds)
  BY <1>1, ElementOfSeq DEF Ids
<1> DEFINE s == IF jobs[j].state = "queued" THEN "cancelled" ELSE jobs[j].state
           r == [jobs[j] EXCEPT !.cancel = TRUE, !.state = s]
<1>3. /\ r.parent = jobs[j].parent
      /\ r.state = s
      /\ r.cancel = TRUE
      /\ r.parts = jobs[j].parts /\ r.round = jobs[j].round /\ r.auto = jobs[j].auto
  BY <1>2 DEF RowOf
<1>4. s \in Active \union Retryable \union {"succeeded"}
  BY <1>2 DEF RowOf, Active, Retryable
<1>5. r \in RowOf(Rounds)
  BY <1>2, <1>3, <1>4 DEF RowOf
<1>6. r.state \in Active => jobs[j].state \in Active
  BY <1>3 DEF Active
<1>7. jobs' = [jobs EXCEPT ![j] = r]
  BY <1>2 DEF Cancel, RowOf
<1>8. UNCHANGED req
  BY DEF Cancel
<1> HIDE DEF r
<1> QED  BY <1>1, <1>3, <1>5, <1>6, <1>7, <1>8, ReplaceRow

LEMMA SameTreeKeepsInv ==
  ASSUME Inv, RowsOK', SameTree, UNCHANGED req
  PROVE  Inv'
<1>1. Ids' = Ids
  BY DEF SameTree, Ids
<1>2. \A i : Children(i)' = Children(i)
  BY <1>1 DEF SameTree, Children
<1>3. TreeOK'
  BY <1>1 DEF Inv, TreeOK, SameTree
<1>4. CallsOK' /\ Exclusive'
  BY <1>1 DEF Inv, CallsOK, Exclusive
<1>5. ClearToInsert'
  BY <1>2 DEF Inv, ClearToInsert, SameTree, Children
<1>6. OneActiveChild'
  BY <1>1, <1>2 DEF Inv, OneActiveChild, SameTree, Children
<1> QED  BY <1>3, <1>4, <1>5, <1>6 DEF Inv

-----------------------------------------------------------------------------
(* Steps of a call before its insert leave the jobs alone.                 *)

\* What a change of the calls has to keep.
LEMMA SameJobsKeepsInv ==
  ASSUME Inv, UNCHANGED jobs, CallsOK', Exclusive', ClearToInsert'
  PROVE  Inv'
<1>1. UNCHANGED Ids /\ \A i : UNCHANGED Children(i)
  BY DEF Ids, Children
<1> QED  BY <1>1 DEF Inv, RowsOK, TreeOK, OneActiveChild

LEMMA LockKeepsInv ==
  ASSUME Inv, NEW t \in Threads, NEW j \in Ids, NEW asked, NEW auto, Lock(t, j, asked, auto)
  PROVE  Inv'
<1> DEFINE call == [at |-> "locked", job |-> j, parts |-> asked \intersect Needed(j, auto)]
<1>1. req' = [req EXCEPT ![t] = call] /\ UNCHANGED jobs
  BY DEF Lock
<1>2. asked \intersect Needed(j, auto) \in SUBSET Parts
  <2>1. PICK Rounds : jobs \in Seq(RowOf(Rounds))
    BY DEF Inv, RowsOK
  <2>2. jobs[j] \in RowOf(Rounds)
    BY <2>1, ElementOfSeq DEF Ids
  <2>3. Needed(j, auto) \subseteq jobs[j].parts
    BY DEF Needed
  <2>4. jobs[j].parts \in SUBSET Parts
    BY <2>2 DEF RowOf
  <2> HIDE DEF call
  <2> QED  BY <2>3, <2>4
<1>3. j \in Nat /\ UNCHANGED Ids
  BY <1>1 DEF Ids
<1>4. call \in [at : {"idle", "chosen", "locked", "checked"}, job : Nat, parts : SUBSET Parts]
  BY <1>2, <1>3
<1>5. call.at = "locked" /\ call.job = j
  OBVIOUS
<1> HIDE DEF call
<1>6. CallsOK'
  BY <1>1, <1>3, <1>4, <1>5 DEF Inv, CallsOK
<1>7. \A u \in Threads : req'[u] = IF u = t THEN call ELSE req[u]
  BY <1>1 DEF Inv, CallsOK
<1>8. \A u \in Threads : req[u].at \in Holding => req[u].job # j
  BY DEF Lock, MayLock, Holding
<1>9. Exclusive'
  BY <1>5, <1>7, <1>8 DEF Inv, Exclusive
<1>10. ClearToInsert'
  BY <1>1, <1>5, <1>7 DEF Inv, ClearToInsert, Children, Ids
<1> QED  BY <1>1, <1>6, <1>9, <1>10, SameJobsKeepsInv

LEMMA CheckActiveKeepsInv ==
  ASSUME Inv, NEW t \in Threads, CheckActive(t)
  PROVE  Inv'
<1> DEFINE busy == \E k \in Children(req[t].job) : jobs[k].state \in Active
           call == IF busy THEN NoCall ELSE [req[t] EXCEPT !.at = "checked"]
<1>1. req' = [req EXCEPT ![t] = call] /\ UNCHANGED jobs /\ req[t].at = "locked"
  BY DEF CheckActive
<1>2. req[t] \in [at : {"idle", "chosen", "locked", "checked"}, job : Nat, parts : SUBSET Parts]
  BY DEF Inv, CallsOK
<1>3. call \in [at : {"idle", "chosen", "locked", "checked"}, job : Nat, parts : SUBSET Parts]
  BY <1>2 DEF NoCall
<1>4. call.at # "idle" => call.at = "checked" /\ call.job = req[t].job /\ ~ busy
  <2>1. CASE busy
    BY <2>1 DEF NoCall
  <2>2. CASE ~ busy
    <3>1. call = [req[t] EXCEPT !.at = "checked"]
      BY <2>2
    <3>2. call.at = "checked" /\ call.job = req[t].job
      BY <1>2, <3>1
    <3> HIDE DEF busy, call
    <3> QED  BY <2>2, <3>2
  <2> QED  BY <2>1, <2>2
<1> HIDE DEF call
<1>5. \A u \in Threads : req'[u] = IF u = t THEN call ELSE req[u]
  BY <1>1 DEF Inv, CallsOK
<1>6. UNCHANGED Ids /\ \A i : UNCHANGED Children(i)
  BY <1>1 DEF Ids, Children
<1>7. CallsOK'
  BY <1>1, <1>3, <1>4, <1>5, <1>6 DEF Inv, CallsOK
<1>8. Exclusive'
  BY <1>1, <1>4, <1>5 DEF Inv, Exclusive, Holding
<1>9. ClearToInsert'
  BY <1>1, <1>4, <1>5, <1>6 DEF Inv, ClearToInsert
<1> QED  BY <1>1, <1>7, <1>8, <1>9, SameJobsKeepsInv

\* The automatic repair chooses the root, or drops its choice.
LEMMA ChoiceKeepsInv ==
  ASSUME Inv, ChooseRepair \/ SkipRepair
  PROVE  Inv'
<1>1. PICK call \in {NoCall, [NoCall EXCEPT !.at = "chosen", !.job = 1]} :
        req' = [req EXCEPT ![Repairer] = call] /\ UNCHANGED jobs
  BY DEF ChooseRepair, SkipRepair
<1>2. /\ call \in [at : {"idle", "chosen", "locked", "checked"}, job : Nat, parts : SUBSET Parts]
      /\ call.at \notin Holding /\ call.at # "checked"
      /\ call.at # "idle" => call.job = 1
  <2>1. CASE call = NoCall
    BY <2>1 DEF NoCall, Holding
  <2>2. CASE call = [NoCall EXCEPT !.at = "chosen", !.job = 1]
    <3>1. call = [at |-> "chosen", job |-> 1, parts |-> {}]
      BY <2>2 DEF NoCall
    <3> QED  BY <3>1 DEF Holding
  <2> QED  BY <2>1, <2>2
<1>3. Repairer \in Threads
  BY DEF Threads
<1>4. UNCHANGED Ids /\ \A i : UNCHANGED Children(i)
  BY <1>1 DEF Ids, Children
<1>5. \A u \in Threads : req'[u] = IF u = Repairer THEN call ELSE req[u]
  BY <1>1, <1>3 DEF Inv, CallsOK
<1>6. CallsOK'
  BY <1>1, <1>2, <1>3, <1>4, <1>5 DEF Inv, CallsOK, TreeOK
<1>7. Exclusive'
  BY <1>2, <1>5 DEF Inv, Exclusive
<1>8. ClearToInsert'
  BY <1>1, <1>2, <1>4, <1>5 DEF Inv, ClearToInsert
<1> QED  BY <1>1, <1>6, <1>7, <1>8, SameJobsKeepsInv

-----------------------------------------------------------------------------
(* The insert.                                                             *)

LEMMA InsertKeepsInv ==
  ASSUME Inv, NEW t \in Threads, Insert(t)
  PROVE  Inv'
<1> DEFINE j == req[t].job
           n == Len(jobs) + 1
           round == IF t = Repairer THEN LastRound(j) + 1 ELSE jobs[j].round
           new == NewJob(j, req[t].parts, round, t = Repairer)
<1>1. PICK Rounds : jobs \in Seq(RowOf(Rounds))
  BY DEF Inv, RowsOK
<1>2. req[t] \in [at : {"idle", "chosen", "locked", "checked"}, job : Nat, parts : SUBSET Parts]
  BY DEF Inv, CallsOK
<1>3. /\ req[t].at = "checked"
      /\ jobs' = Append(jobs, new)
      /\ req' = [req EXCEPT ![t] = NoCall]
  BY DEF Insert
<1>4. j \in Ids
  BY <1>3 DEF Inv, CallsOK
<1>5. new \in RowOf(Rounds \union {round}) /\ new.parent = j
  <2>1. j \in Nat /\ req[t].parts \in SUBSET Parts /\ (t = Repairer) \in BOOLEAN
    BY <1>2
  <2> HIDE DEF round
  <2> QED  BY <2>1 DEF NewJob, RowOf, Active
<1>6. jobs \in Seq(RowOf(Rounds \union {round}))
  <2>1. RowOf(Rounds) \subseteq RowOf(Rounds \union {round})
    BY DEF RowOf
  <2> QED  BY <1>1, <2>1, SeqMonotonic
<1> HIDE DEF new
<1>7. /\ jobs' \in Seq(RowOf(Rounds \union {round}))
      /\ Len(jobs') = n
      /\ \A k \in Ids : jobs'[k] = jobs[k]
      /\ jobs'[n] = new
      /\ Len(jobs) \in Nat
  BY <1>3, <1>5, <1>6, AppendProperties, LenProperties DEF Ids
<1>8. Ids' = Ids \union {n} /\ n \notin Ids /\ n \in Nat
  BY <1>7 DEF Ids
<1> HIDE DEF round, n, j
<1>9. RowsOK'
  BY <1>7 DEF RowsOK
<1>10. TreeOK'
  <2>1. \A k \in Ids : jobs'[k].parent \in 0..(k - 1)
    BY <1>7 DEF Inv, TreeOK
  <2>2. jobs'[n].parent \in 0..(n - 1)
    BY <1>4, <1>5, <1>7 DEF n, Ids
  <2> QED  BY <1>8, <2>1, <2>2 DEF Inv, TreeOK
<1>11. CallsOK'
  BY <1>3, <1>8 DEF Inv, CallsOK, NoCall
<1>12. \A u \in Threads : req'[u] = IF u = t THEN NoCall ELSE req[u]
  BY <1>3 DEF Inv, CallsOK
<1>13. Exclusive'
  BY <1>12 DEF Inv, Exclusive, Holding, NoCall
<1>14. \A i \in Ids : Children(i)' = IF i = j THEN Children(i) \union {n} ELSE Children(i)
  BY <1>5, <1>7, <1>8 DEF Children
<1>15. \A i \in {n} : Children(i)' = {}
  <2>1. \A k \in Ids' : jobs'[k].parent # n
    BY <1>8, <1>10 DEF TreeOK, Ids, n
  <2> QED  BY <2>1 DEF Children
<1>16. ClearToInsert'
  <2> SUFFICES ASSUME NEW u \in Threads, req'[u].at = "checked",
                      NEW k \in Children(req[u].job)', u # t, req'[u] = req[u]
               PROVE  jobs'[k].state \notin Active
    BY <1>12 DEF ClearToInsert, NoCall
  <2>1. req[u].job # j /\ req[u].job \in Ids
    BY <1>3 DEF Inv, Exclusive, CallsOK, Holding, j
  <2>2. k \in Children(req[u].job)
    BY <1>14, <2>1
  <2> QED  BY <1>7, <2>2 DEF Inv, ClearToInsert, Children
<1>17. OneActiveChild'
  <2> SUFFICES ASSUME NEW i \in Ids', NEW k \in Children(i)', NEW m \in Children(i)',
                      jobs'[k].state \in Active, jobs'[m].state \in Active
               PROVE  k = m
    BY DEF OneActiveChild
  <2>1. i \in Ids
    BY <1>8, <1>15
  <2>2. \A c \in Children(i) : jobs'[c] = jobs[c]
    BY <1>7 DEF Children
  <2>3. CASE i # j
    BY <1>14, <2>1, <2>2, <2>3 DEF Inv, OneActiveChild
  <2>4. CASE i = j
    <3>1. \A c \in Children(i) : jobs[c].state \notin Active
      BY <1>3, <2>4 DEF Inv, ClearToInsert, j
    <3> QED  BY <1>14, <2>1, <2>2, <2>4, <3>1
  <2> QED  BY <2>3, <2>4
<1> QED  BY <1>9, <1>10, <1>11, <1>13, <1>16, <1>17 DEF Inv

-----------------------------------------------------------------------------
LEMMA InvInit ==
  ASSUME Init
  PROVE  Inv
<1> DEFINE first == NewJob(0, Parts, 0, FALSE)
<1>1. first \in RowOf({0}) /\ first.parent = 0
  BY DEF NewJob, RowOf, Active
<1>2. jobs = <<first>>
  BY DEF Init
<1> HIDE DEF first
<1>3. jobs \in Seq(RowOf({0})) /\ Ids = {1} /\ jobs[1].parent = 0
  BY <1>1, <1>2 DEF Ids
<1>4. RowsOK /\ TreeOK
  BY <1>3 DEF RowsOK, TreeOK
<1>5. \A t \in Threads : req[t] = NoCall
  BY DEF Init
<1>6. CallsOK /\ Exclusive /\ ClearToInsert
  BY <1>5 DEF Init, CallsOK, Exclusive, ClearToInsert, NoCall, Holding
<1>7. OneActiveChild
  BY <1>3 DEF OneActiveChild, Children
<1> QED  BY <1>4, <1>6, <1>7 DEF Inv

LEMMA InvStep ==
  ASSUME Inv, [Next]_vars
  PROVE  Inv'
<1>1. CASE Execute
  BY <1>1, ExecuteKeepsTree, SameTreeKeepsInv
<1>2. CASE AutoRepair
  <2>1. CASE Repair
    <3>1. Lock(Repairer, 1, jobs[1].parts, TRUE)
      BY <2>1 DEF Repair
    <3>2. Repairer \in Threads /\ 1 \in Ids
      BY DEF Threads, Inv, TreeOK
    <3> QED  BY <3>1, <3>2, LockKeepsInv
  <2> QED  BY <1>2, <2>1, ChoiceKeepsInv DEF AutoRepair
<1>3. CASE User
  <2>1. ASSUME NEW j \in Ids, Cancel(j)
        PROVE  Inv'
    BY <2>1, CancelKeepsTree, SameTreeKeepsInv
  <2>2. ASSUME NEW j \in Ids, NEW t \in Consoles, RequestRetry(t, j)
        PROVE  Inv'
    BY <2>2, LockKeepsInv DEF RequestRetry, Threads
  <2> QED  BY <1>3, <2>1, <2>2 DEF User
<1>4. ASSUME NEW t \in Threads, Call(t)
      PROVE  Inv'
  BY <1>4, CheckActiveKeepsInv, InsertKeepsInv DEF Call
<1>5. CASE UNCHANGED vars
  BY <1>5 DEF vars, Inv, RowsOK, TreeOK, CallsOK, Exclusive, ClearToInsert, OneActiveChild,
              Ids, Children
<1> QED  BY <1>1, <1>2, <1>3, <1>4, <1>5 DEF Next

\* A job has at most one active retry: concurrent and repeated requests to
\* retry it and the automatic repair leave one active child (retry_job).
THEOREM OneRetryAtATime == Spec => []OneActiveChild
<1>1. Init => Inv
  BY InvInit
<1>2. Inv /\ [Next]_vars => Inv'
  BY InvStep
<1>3. Inv => OneActiveChild
  BY DEF Inv
<1> QED  BY <1>1, <1>2, <1>3, PTL DEF Spec

-----------------------------------------------------------------------------
(* The rounds of the automatic repair.  Every job descends from the root,  *)
(* so the newest round of the root's family is the newest of all jobs; the *)
(* retries of the users keep the round of their target, and between the    *)
(* repair's choice and its insert nobody else starts a round.              *)

\* Whatever has the root and the retries of its members has every job.
Rooted == \A S \in SUBSET Ids : 1 \in S /\ Complete(S) => S = Ids

\* Automatic retries have rounds of their own, from 1, and some job has the newest round.
RoundsApart ==
  /\ \A k \in Ids : /\ jobs[k].round \in 0..MaxRounds
                    /\ jobs[k].auto => jobs[k].round # 0
  /\ \A k, m \in Ids : jobs[k].auto /\ jobs[m].auto /\ jobs[k].round = jobs[m].round => k = m
  /\ \E k \in Ids : \A m \in Ids : jobs[m].round <= jobs[k].round

\* The repair that is under way is of the root, and has a round left.
RoundToCome ==
  req[Repairer].at # "idle" =>
    req[Repairer].job = 1 /\ \A k \in Ids : jobs[k].round < MaxRounds

RoundInv == Rooted /\ RoundsApart /\ RoundToCome

LEMMA RootFamily == Rooted /\ 1 \in Ids => Family(1) = Ids
  BY DEF Rooted, Family

LEMMA RoundInit == Init => RoundInv
<1> SUFFICES ASSUME Init PROVE RoundInv
  OBVIOUS
<1> DEFINE first == NewJob(0, Parts, 0, FALSE)
<1>1. first.round = 0 /\ first.auto = FALSE
  BY DEF NewJob
<1>2. jobs = <<first>>
  BY DEF Init
<1> HIDE DEF first
<1>3. Ids = {1} /\ jobs[1].round = 0 /\ jobs[1].auto = FALSE
  BY <1>1, <1>2 DEF Ids
<1>4. Rooted
  BY <1>3 DEF Rooted
<1>5. RoundsApart
  BY <1>3, FamilyAssumption DEF RoundsApart
<1>6. RoundToCome
  BY DEF Init, RoundToCome, NoCall, Threads
<1> QED  BY <1>4, <1>5, <1>6 DEF RoundInv

LEMMA SameTreeKeepsRounds ==
  ASSUME RoundInv, SameTree,
         req'[Repairer].at # "idle" => req[Repairer].at # "idle" /\ req'[Repairer].job = req[Repairer].job
  PROVE  RoundInv'
<1>1. Ids' = Ids
  BY DEF SameTree, Ids
<1>2. \A S : Complete(S)' = Complete(S)
  BY <1>1 DEF SameTree, Complete
<1>3. Rooted'
  BY <1>1, <1>2 DEF RoundInv, Rooted
<1>4. RoundsApart'
  BY <1>1 DEF RoundInv, RoundsApart, SameTree
<1>5. RoundToCome'
  BY <1>1 DEF RoundInv, RoundToCome, SameTree
<1> QED  BY <1>3, <1>4, <1>5 DEF RoundInv

LEMMA LastRoundIs ==
  ASSUME RoundInv, 1 \in Ids
  PROVE  /\ \E k \in Ids : jobs[k].round = LastRound(1)
         /\ \A k \in Ids : jobs[k].round <= LastRound(1)
<1> DEFINE rounds == {jobs[k].round : k \in Family(1)}
<1>1. Family(1) = Ids
  BY RootFamily DEF RoundInv
<1>2. PICK k \in Ids : \A m \in Ids : jobs[m].round <= jobs[k].round
  BY DEF RoundInv, RoundsApart
<1>3. jobs[k].round \in rounds /\ \A q \in rounds : q <= jobs[k].round
  BY <1>1, <1>2
<1>4. LastRound(1) = CHOOSE r \in rounds : \A q \in rounds : q <= r
  BY DEF LastRound
<1> HIDE DEF rounds
<1>5. LastRound(1) \in rounds /\ \A q \in rounds : q <= LastRound(1)
  BY <1>3, <1>4
<1> QED  BY <1>1, <1>5 DEF rounds, RoundInv, RoundsApart

\* A call takes its next step before its insert, or the repair its choice.
LEMMA CallKeepsRounds ==
  ASSUME Inv, RoundInv, UNCHANGED jobs, RoundToCome'
  PROVE  RoundInv'
<1>1. UNCHANGED Ids
  BY DEF Ids
<1> QED  BY <1>1 DEF RoundInv, Rooted, RoundsApart, Complete

LEMMA LockKeepsRounds ==
  ASSUME Inv, RoundInv, NEW t \in Threads, NEW j \in Ids, NEW asked, NEW auto, Lock(t, j, asked, auto),
         t = Repairer => req[Repairer].at # "idle" /\ j = 1
  PROVE  RoundInv'
<1> DEFINE call == [at |-> "locked", job |-> j, parts |-> asked \intersect Needed(j, auto)]
<1>1. req' = [req EXCEPT ![t] = call] /\ UNCHANGED jobs
  BY DEF Lock
<1>2. call.job = j
  OBVIOUS
<1> HIDE DEF call
<1>3. req'[Repairer] = IF Repairer = t THEN call ELSE req[Repairer]
  BY <1>1 DEF Inv, CallsOK, Threads
<1>4. RoundToCome'
  BY <1>1, <1>2, <1>3 DEF RoundInv, RoundToCome, Ids
<1> QED  BY <1>1, <1>4, CallKeepsRounds

LEMMA InsertKeepsRounds ==
  ASSUME Inv, RoundInv, NEW t \in Threads, Insert(t)
  PROVE  RoundInv'
<1> DEFINE j == req[t].job
           n == Len(jobs) + 1
           round == IF t = Repairer THEN LastRound(j) + 1 ELSE jobs[j].round
           new == NewJob(j, req[t].parts, round, t = Repairer)
<1>1. /\ req[t].at = "checked"
      /\ jobs' = Append(jobs, new)
      /\ req' = [req EXCEPT ![t] = NoCall]
  BY DEF Insert
<1>2. j \in Ids /\ 1 \in Ids
  BY <1>1 DEF Inv, CallsOK, TreeOK
<1>3. new.parent = j /\ new.round = round /\ new.auto = (t = Repairer)
  BY DEF NewJob
<1>4. PICK Rounds : jobs \in Seq(RowOf(Rounds))
  BY DEF Inv, RowsOK
<1> HIDE DEF new
<1>5. /\ Len(jobs') = n
      /\ \A k \in Ids : jobs'[k] = jobs[k]
      /\ jobs'[n] = new
      /\ Ids' = Ids \union {n} /\ n \notin Ids
  BY <1>1, <1>4 DEF Ids
<1> HIDE DEF n
<1>6. Rooted'
  <2> SUFFICES ASSUME NEW S \in SUBSET Ids', 1 \in S, Complete(S)' PROVE S = Ids'
    BY DEF Rooted
  <2>1. \A k \in Ids : jobs[k].parent \in S \intersect Ids => k \in S \intersect Ids
    BY <1>5 DEF Complete
  <2>2. S \intersect Ids = Ids
    BY <1>2, <2>1 DEF RoundInv, Rooted, Complete
  <2>3. n \in S
    BY <1>2, <1>3, <1>5, <2>2 DEF Complete
  <2> QED  BY <1>5, <2>2, <2>3
<1>7. /\ round \in 0..MaxRounds
      /\ t # Repairer => round = jobs[j].round
      /\ t = Repairer => \A k \in Ids : jobs[k].round < round
  <2>1. CASE t # Repairer
    BY <1>2, <2>1 DEF RoundInv, RoundsApart
  <2>2. CASE t = Repairer
    <3>1. j = 1 /\ \A k \in Ids : jobs[k].round < MaxRounds
      BY <1>1, <2>2 DEF RoundInv, RoundToCome
    <3>2. PICK k \in Ids : jobs[k].round = LastRound(1)
      BY <1>2, LastRoundIs
    <3>3. \A m \in Ids : jobs[m].round <= LastRound(1) /\ jobs[m].round \in Nat
      BY <1>2, LastRoundIs DEF RoundInv, RoundsApart
    <3> QED  BY <2>2, <3>1, <3>2, <3>3, FamilyAssumption
  <2> QED  BY <2>1, <2>2
<1> HIDE DEF round, j
<1>8. RoundsApart'
  <2>a. /\ \A k \in Ids : jobs'[k].round = jobs[k].round /\ (jobs'[k].auto => jobs[k].auto)
        /\ jobs'[n].round = round /\ (jobs'[n].auto => t = Repairer)
    BY <1>3, <1>5
  <2>b. jobs'[n].auto => \A k \in Ids : jobs[k].round < round /\ jobs[k].round \in Nat
    BY <1>7, <2>a DEF RoundInv, RoundsApart
  <2>1. \A k \in Ids' : jobs'[k].round \in 0..MaxRounds /\ (jobs'[k].auto => jobs'[k].round # 0)
    <3>1. jobs'[n].auto => round # 0
      BY <1>2, <2>b
    <3> QED  BY <1>5, <1>7, <2>a, <3>1 DEF RoundInv, RoundsApart
  <2>2. ASSUME NEW k \in Ids', NEW m \in Ids', jobs'[k].auto, jobs'[m].auto, jobs'[k].round = jobs'[m].round
        PROVE  k = m
    <3>1. CASE k \in Ids /\ m \in Ids
      BY <2>2, <2>a, <3>1 DEF RoundInv, RoundsApart
    <3>2. CASE k = n \/ m = n
      BY <1>5, <2>2, <2>a, <2>b, <3>2
    <3> QED  BY <1>5, <3>1, <3>2
  <2>3. \E k \in Ids' : \A m \in Ids' : jobs'[m].round <= jobs'[k].round
    <3>1. PICK k \in Ids : \A m \in Ids : jobs[m].round <= jobs[k].round
      BY DEF RoundInv, RoundsApart
    <3>2. CASE t # Repairer
      BY <1>2, <1>3, <1>5, <1>7, <3>1, <3>2
    <3>3. CASE t = Repairer
      BY <1>3, <1>5, <1>7, <2>1, <3>3
    <3> QED  BY <3>2, <3>3
  <2> QED  BY <2>1, <2>2, <2>3 DEF RoundsApart
<1>9. RoundToCome'
  <2>1. req'[Repairer] = IF Repairer = t THEN NoCall ELSE req[Repairer]
    BY <1>1 DEF Inv, CallsOK, Threads
  <2> QED  BY <1>2, <1>3, <1>5, <1>7, <2>1 DEF RoundInv, RoundToCome, NoCall
<1> QED  BY <1>6, <1>8, <1>9 DEF RoundInv

LEMMA RoundStep ==
  ASSUME Inv, RoundInv, [Next]_vars
  PROVE  RoundInv'
<1>0. 1 \in Ids /\ Repairer \in Threads /\ \A t \in Consoles : t \in Threads /\ t # Repairer
  BY FamilyAssumption DEF Inv, TreeOK, Threads
<1>1. CASE Execute
  BY <1>1, ExecuteKeepsTree, SameTreeKeepsRounds
<1>2. CASE Repair
  BY <1>0, <1>2, LockKeepsRounds DEF Repair
<1>3. CASE ChooseRepair \/ SkipRepair
  <2>1. CASE ChooseRepair
    <3>1. req'[Repairer] = [NoCall EXCEPT !.at = "chosen", !.job = 1] /\ UNCHANGED jobs
      BY <1>0, <2>1 DEF ChooseRepair, Inv, CallsOK
    <3>2. \A k \in Ids : jobs[k].round < MaxRounds
      BY <1>0, <2>1, LastRoundIs, FamilyAssumption DEF ChooseRepair, RoundsLeft, RoundInv, RoundsApart
    <3>3. RoundToCome'
      BY <3>1, <3>2 DEF RoundToCome, NoCall, Ids
    <3> QED  BY <3>1, <3>3, CallKeepsRounds
  <2>2. CASE SkipRepair
    <3>1. req'[Repairer] = NoCall /\ UNCHANGED jobs
      BY <1>0, <2>2 DEF SkipRepair, Inv, CallsOK
    <3> QED  BY <3>1, CallKeepsRounds DEF RoundToCome, NoCall
  <2> QED  BY <1>3, <2>1, <2>2
<1>4. CASE User
  <2>1. ASSUME NEW j \in Ids, Cancel(j) PROVE RoundInv'
    BY <2>1, CancelKeepsTree, SameTreeKeepsRounds
  <2>2. ASSUME NEW j \in Ids, NEW t \in Consoles, RequestRetry(t, j) PROVE RoundInv'
    BY <1>0, <2>2, LockKeepsRounds DEF RequestRetry
  <2> QED  BY <1>4, <2>1, <2>2 DEF User
<1>5. ASSUME NEW t \in Threads, CheckActive(t) PROVE RoundInv'
  <2>1. UNCHANGED jobs /\ (req'[Repairer].at # "idle" => req[Repairer].at # "idle" /\ req'[Repairer].job = req[Repairer].job)
    <3>1. CASE t # Repairer
      BY <1>0, <1>5, <3>1 DEF CheckActive, Inv, CallsOK
    <3>2. CASE t = Repairer
      BY <1>0, <1>5, <3>2 DEF CheckActive, Inv, CallsOK, NoCall
    <3> QED  BY <3>1, <3>2
  <2>2. RoundToCome'
    BY <2>1 DEF RoundInv, RoundToCome, Ids
  <2> QED  BY <2>1, <2>2, CallKeepsRounds
<1>6. CASE UNCHANGED vars
  <2>1. RoundToCome'
    BY <1>6 DEF vars, RoundInv, RoundToCome, Ids
  <2> QED  BY <1>6, <2>1, CallKeepsRounds DEF vars
<1> QED  BY <1>1, <1>2, <1>3, <1>4, <1>5, <1>6, InsertKeepsRounds DEF Next, AutoRepair, Call

\* Automatic retries have different rounds, and there are MaxRounds of them.
LEMMA RoundsCounted == RoundInv => RoundsBounded
<1> SUFFICES ASSUME RoundInv PROVE RoundsBounded
  OBVIOUS
<1> DEFINE A == {j \in Ids : jobs[j].auto}
           f == [j \in A |-> jobs[j].round]
<1>1. f \in Injection(A, 1..MaxRounds)
  BY FamilyAssumption DEF Injection, IsInjective, RoundInv, RoundsApart
<1>2. IsFiniteSet(1..MaxRounds) /\ Cardinality(1..MaxRounds) = MaxRounds
  BY FS_Interval, FamilyAssumption
<1> QED  BY <1>1, <1>2, FS_Injection DEF RoundsBounded

\* The automatic repair makes at most options.repair_attempts retries of a job, whatever the users retry
\* in between: it counts the rounds of the whole family (maintenance.py repair; storage.py retry_job).
THEOREM RepairRoundsBounded == Spec => []RoundsBounded
<1>1. Init => Inv /\ RoundInv
  BY InvInit, RoundInit
<1>2. (Inv /\ RoundInv) /\ [Next]_vars => (Inv /\ RoundInv)'
  BY InvStep, RoundStep
<1>3. RoundInv => RoundsBounded
  BY RoundsCounted
<1> QED  BY <1>1, <1>2, <1>3, PTL DEF Spec

=============================================================================
