--------------------------- MODULE JobQueueProofs ---------------------------
(***************************************************************************)
(* Proofs about JobQueue for every number of jobs, units, attempts and     *)
(* faults.  What does not depend on the service running once is proved for *)
(* every number of processes; what does (TLC finds the counterexamples     *)
(* with two) has OneProcess as its hypothesis.                             *)
(***************************************************************************)
EXTENDS JobQueue, TLAPS

\* The control points between taking up a unit and leaving it.
InUnit == {"unit", "fetch", "backoff", "fetched", "commit", "settle", "reject", "settleReject"}

\* What a worker's locals hold at a control point.
LocalsFit(r, pc) ==
  /\ pc \in Busy => r.job \in Jobs
  /\ pc \in InUnit => r.idx \in Units
  /\ pc \in {"reject", "settleReject", "abort"} => r.outcome.state \in Rejected
  /\ pc = "finish" => r.outcome.state \in Finished

FitRun == {r \in RunType : LocalsFit(r, r.pc)}

TypeInv == TypeOK /\ run \in [Workers -> FitRun]

-----------------------------------------------------------------------------
(* The helpers of the actions keep the types.                              *)

LEMMA NewRowType == NewRow \in RowType
  BY ConstantsAssumption DEF NewRow, RowType, Units, Stored, Rejected, States, Active, Finished

LEMMA NewRunType ==
  ASSUME NEW p \in {"off", "unlocked", "idle"}, NEW s \in BOOLEAN
  PROVE  NewRun(p, s) \in FitRun
  BY ConstantsAssumption
     DEF NewRun, FitRun, LocalsFit, InUnit, RunType, NoOutcome, Busy, States, Active, Finished

LEMMA PointType ==
  ASSUME NEW r \in RunType, NEW p \in Busy \union {"idle", "recover"}, LocalsFit(r, p)
  PROVE  [r EXCEPT !.pc = p] \in FitRun
  BY DEF FitRun, LocalsFit, RunType

LEMMA IndexType ==
  ASSUME NEW r \in RunType, NEW i \in 0..NumUnits
  PROVE  /\ [r EXCEPT !.idx = i] \in RunType
         /\ [r EXCEPT !.idx = i].job = r.job
         /\ [r EXCEPT !.idx = i].idx = i
  BY DEF RunType

LEMMA GotoType ==
  ASSUME TypeInv, NEW w \in Workers, NEW p \in Busy \union {"idle", "recover"}, Goto(w, p),
         LocalsFit(run[w], p)
  PROVE  run' \in [Workers -> FitRun]
  BY PointType DEF TypeInv, TypeOK, Goto, Becomes

LEMMA CarryType ==
  ASSUME TypeInv, NEW w \in Workers, NEW p \in Busy,
         NEW o \in [scope : {"unit", "interface", "source", "job", "none"},
                    state : States \union {"none"}],
         Carry(w, o, p),
         run[w].pc \in Busy,
         p \in InUnit => run[w].pc \in InUnit,
         p \in {"reject", "settleReject", "abort"} => o.state \in Rejected,
         p = "finish" => o.state \in Finished
  PROVE  run' \in [Workers -> FitRun]
  <1> DEFINE r == [run[w] EXCEPT !.outcome = o]
  <1>1. r \in RunType /\ LocalsFit(r, p)
    BY DEF TypeInv, TypeOK, FitRun, LocalsFit, RunType
  <1>2. [r EXCEPT !.pc = p] \in FitRun
    BY <1>1, PointType
  <1> QED BY <1>2 DEF TypeInv, Carry, Becomes

LEMMA NextUnitType ==
  ASSUME TypeInv, NEW w \in Workers, run[w].pc \in InUnit, NextUnit(w)
  PROVE  run' \in [Workers -> FitRun]
  <1> DEFINE r == [run[w] EXCEPT !.idx = run[w].idx + 1]
             p == NextPoint(run[w].idx + 1)
  <1>1. r \in RunType /\ LocalsFit(r, p) /\ p \in Busy
    BY ConstantsAssumption
       DEF TypeInv, FitRun, LocalsFit, RunType, InUnit, Busy, Units, NextPoint
  <1>2. [r EXCEPT !.pc = p] \in FitRun
    BY <1>1, PointType
  <1> QED BY <1>2 DEF TypeInv, NextUnit, Becomes

LEMMA LeaveType ==
  ASSUME TypeInv, NEW w \in Workers, NEW p \in {"off", "unlocked"}, Leave(w, p)
  PROVE  /\ run' \in [Workers -> FitRun]
         /\ lock' \in Workers \union {NoWorker}
  BY NewRunType DEF TypeInv, TypeOK, Leave, RunType, FitRun, Becomes

LEMMA IdleType ==
  ASSUME TypeInv, NEW w \in Workers, Idle(w)
  PROVE  run' \in [Workers -> FitRun]
  BY NewRunType DEF TypeInv, TypeOK, Idle, RunType, FitRun, Becomes

LEMMA SetStateType ==
  ASSUME TypeInv, NEW j \in Jobs, NEW s \in States, SetState(j, s)
  PROVE  row' \in [Jobs -> RowType]
  <1>1. [row[j] EXCEPT !.state = s] \in RowType
    BY DEF TypeInv, TypeOK, RowType
  <1> QED BY <1>1 DEF TypeInv, TypeOK, SetState

LEMMA RecordUnitType ==
  ASSUME TypeInv, NEW w \in Workers, run[w].pc \in InUnit,
         NEW s \in Stored \union Rejected, NEW p \in 0..NumUnits, NEW c \in SUBSET Units,
         RecordUnit(w, s, p, c)
  PROVE  row' \in [Jobs -> RowType]
  <1> DEFINE r == row[run[w].job]
             n == IF r.cancel THEN r.overrun + 1 ELSE r.overrun
             u == [r.unit EXCEPT ![run[w].idx] = s]
  <1>1. run[w].job \in Jobs /\ run[w].idx \in Units /\ r \in RowType
    BY DEF TypeInv, TypeOK, FitRun, LocalsFit, InUnit, Busy
  <1>2. u \in [Units -> Stored \union Rejected \union {"none"}] /\ n \in Nat
    BY <1>1 DEF RowType
  <1>3. [r EXCEPT !.unit = u] \in RowType
    BY <1>1, <1>2 DEF RowType
  <1>4. [[r EXCEPT !.unit = u] EXCEPT !.checkpoint = p] \in RowType
    BY <1>3 DEF RowType
  <1>5. [[[r EXCEPT !.unit = u] EXCEPT !.checkpoint = p] EXCEPT !.covered = c] \in RowType
    BY <1>4 DEF RowType
  <1>6. [[[[r EXCEPT !.unit = u] EXCEPT !.checkpoint = p] EXCEPT !.covered = c] EXCEPT !.overrun = n] \in RowType
    BY <1>2, <1>5 DEF RowType
  <1> QED BY <1>1, <1>6 DEF TypeInv, TypeOK, RecordUnit, Mine

-----------------------------------------------------------------------------
(* Every step keeps the types.                                             *)

LEMMA WorkerStepType ==
  ASSUME TypeInv, NEW w \in Workers, Step(w)
  PROVE  TypeInv'
  <1> USE ConstantsAssumption DEF At, TypeInv
  <1>1. CASE Acquire(w)
    BY <1>1, GotoType DEF Acquire, TypeOK, FitRun, LocalsFit, Busy, InUnit
  <1>2. CASE Recover(w)
    <2>1. ASSUME NEW j \in Jobs
          PROVE  /\ [row[j] EXCEPT !.state = "cancelled"] \in RowType
                 /\ [row[j] EXCEPT !.state = "queued"] \in RowType
                 /\ row[j] \in RowType
      BY DEF TypeOK, RowType, States, Active, Finished
    <2>2. row' \in [Jobs -> RowType]
      BY <1>2, <2>1 DEF Recover
    <2> QED BY <1>2, <2>2, GotoType DEF Recover, TypeOK, FitRun, LocalsFit, Busy, InUnit
  <1>3. CASE Select(w)
    <2>1. PICK j \in Jobs :
            Becomes(w, [run[w] EXCEPT !.job = j, !.idx = ResumeAt(j), !.pc = "selected"])
      BY <1>3 DEF Select
    <2> DEFINE r == [run[w] EXCEPT !.job = j]
               q == [r EXCEPT !.idx = ResumeAt(j)]
    <2>2. r \in RunType /\ r.job = j
      BY DEF TypeOK, RunType
    <2>3. q \in RunType /\ q.job = j
      BY <2>2 DEF TypeOK, RunType, RowType, ResumeAt
    <2>4. [q EXCEPT !.pc = "selected"] \in FitRun
      BY <2>3, PointType DEF LocalsFit, Busy, InUnit
    <2>5. run' \in [Workers -> FitRun]
      BY <2>1, <2>4 DEF Becomes
    <2> QED BY <1>3, <2>5 DEF Select, TypeOK, FitRun
  <1>4. CASE Exit(w)
    BY <1>4, LeaveType DEF Exit, TypeOK, FitRun
  <1>5. CASE Start(w)
    <2>1. run[w].job \in Jobs
      BY <1>5 DEF Start, FitRun, LocalsFit, Busy
    <2>2. CASE Admits(run[w].job, "running")
      BY <1>5, <2>1, <2>2, GotoType, SetStateType
         DEF Start, TypeOK, FitRun, LocalsFit, Busy, InUnit, States, Active
    <2>3. CASE ~ Admits(run[w].job, "running")
      BY <1>5, <2>3, LeaveType DEF Start, TypeOK, FitRun
    <2> QED BY <2>2, <2>3
  <1>6. CASE Begin(w)
    <2>1. run[w].pc \in Busy \ InUnit /\ run[w] \in FitRun
      BY <1>6 DEF Begin, Busy, InUnit
    <2>2. run' \in [Workers -> FitRun]
      <3>1. CASE Goto(w, NextPoint(run[w].idx))
        <4>1. run[w].idx \in 0..NumUnits /\ run[w].job \in Jobs
          BY <2>1 DEF FitRun, RunType, LocalsFit
        <4>2. NextPoint(run[w].idx) \in Busy /\ LocalsFit(run[w], NextPoint(run[w].idx))
          BY <4>1 DEF LocalsFit, NextPoint, Busy, InUnit, Units
        <4> QED BY <3>1, <4>2, GotoType
      <3>2. CASE \E s \in Rejected : Carry(w, [scope |-> "source", state |-> s], "abort")
        BY <2>1, <3>2, CarryType DEF Busy, InUnit, Rejected, States, Finished
      <3> QED BY <1>6, <3>1, <3>2 DEF Begin
    <2> QED BY <1>6, <2>2 DEF Begin, TypeOK, FitRun
  <1>7. CASE TakeUnit(w)
    <2>1. run' \in [Workers -> FitRun]
      <3>1. CASE Fails(w, Denied)
        BY <1>7, <3>1, CarryType DEF TakeUnit, Fails, Denied, Busy, InUnit, Rejected, States, Finished
      <3>2. CASE Becomes(w, [run[w] EXCEPT !.tries = 0, !.pc = "fetch"])
        <4> DEFINE r == [run[w] EXCEPT !.tries = 0]
        <4>1. r \in RunType /\ LocalsFit(r, "fetch")
          BY <1>7 DEF TakeUnit, TypeOK, FitRun, RunType, LocalsFit, Busy, InUnit
        <4>2. [r EXCEPT !.pc = "fetch"] \in FitRun
          BY <4>1, PointType DEF Busy
        <4> QED BY <3>2, <4>2 DEF Becomes
      <3> QED BY <1>7, <3>1, <3>2 DEF TakeUnit
    <2> QED BY <1>7, <2>1 DEF TakeUnit, TypeOK, FitRun
  <1>8. CASE FetchOk(w)
    <2>1. run[w] \in FitRun /\ run[w].pc = "fetch" /\ run[w].job \in Jobs
      BY <1>8 DEF FetchOk, FitRun, LocalsFit, Busy
    <2>2. run' \in [Workers -> FitRun]
      <3>1. CASE Goto(w, "fetched")
        BY <2>1, <3>1, GotoType DEF FitRun, LocalsFit, Busy, InUnit
      <3>2. CASE Fails(w, SourceError)
        BY <2>1, <3>2, CarryType DEF Fails, SourceError, Busy, InUnit, Rejected, States, Finished
      <3> QED BY <1>8, <3>1, <3>2 DEF FetchOk
    <2>3. row' \in [Jobs -> RowType]
      BY <1>8, <2>1, SetStateType DEF FetchOk, TypeOK, States, Active
    <2> QED BY <1>8, <2>2, <2>3 DEF FetchOk, TypeOK, FitRun
  <1>9. CASE FetchNetworkError(w)
    <2>1. run[w] \in FitRun /\ run[w].pc = "fetch" /\ run[w].job \in Jobs
      BY <1>9 DEF FetchNetworkError, FitRun, LocalsFit, Busy
    <2>2. run' \in [Workers -> FitRun]
      <3>1. CASE Fails(w, SourceError)
        BY <2>1, <3>1, CarryType DEF Fails, SourceError, Busy, InUnit, Rejected, States, Finished
      <3>2. CASE /\ RetriesLeft(w)
                 /\ Becomes(w, [run[w] EXCEPT !.tries = run[w].tries + 1, !.pc = "backoff"])
        <4> DEFINE r == [run[w] EXCEPT !.tries = run[w].tries + 1]
        <4>1. r \in RunType /\ LocalsFit(r, "backoff")
          BY <2>1, <3>2 DEF RetriesLeft, FitRun, RunType, LocalsFit, Busy, InUnit
        <4>2. [r EXCEPT !.pc = "backoff"] \in FitRun
          BY <4>1, PointType DEF Busy
        <4> QED BY <3>2, <4>2 DEF Becomes
      <3> QED BY <1>9, <3>1, <3>2 DEF FetchNetworkError
    <2>3. row' \in [Jobs -> RowType]
      BY <1>9, <2>1, SetStateType DEF FetchNetworkError, TypeOK, States, Active
    <2> QED BY <1>9, <2>2, <2>3 DEF FetchNetworkError, TypeOK, FitRun
  <1>10. CASE FetchFails(w)
    <2>1. PICK f \in Failures : Fails(w, f)
      BY <1>10 DEF FetchFails
    <2>2. f \in [scope : {"unit", "interface", "source"}, state : Rejected]
      BY DEF Failures, Rejected
    <2>3. run' \in [Workers -> FitRun]
      BY <1>10, <2>1, <2>2, CarryType DEF FetchFails, Fails, Busy, InUnit, Rejected, States, Finished
    <2> QED BY <1>10, <2>3 DEF FetchFails, TypeOK, FitRun
  <1>11. CASE Retry(w)
    BY <1>11, GotoType DEF Retry, TypeOK, FitRun, LocalsFit, Busy, InUnit
  <1>12. CASE CheckFetched(w)
    BY <1>12, GotoType DEF CheckFetched, TypeOK, FitRun, LocalsFit, Busy, InUnit
  <1>13. CASE Commit(w)
    <2>1. run[w] \in FitRun /\ run[w].pc = "commit" /\ run[w].job \in Jobs /\ run[w].idx \in Units
      BY <1>13 DEF Commit, FitRun, LocalsFit, Busy, InUnit
    <2>2. PICK quality \in Stored, covered \in {Mine(w).covered \union {run[w].idx},
                                               Mine(w).covered \ {run[w].idx}} :
            RecordUnit(w, quality, run[w].idx + 1, covered)
      BY <1>13 DEF Commit
    <2>3. covered \in SUBSET Units /\ run[w].idx + 1 \in 0..NumUnits
      BY <2>1 DEF Mine, TypeOK, RowType, Units
    <2>4. row' \in [Jobs -> RowType]
      BY <2>1, <2>2, <2>3, RecordUnitType DEF InUnit
    <2>5. run' \in [Workers -> FitRun]
      BY <1>13, <2>1, GotoType DEF Commit, FitRun, LocalsFit, Busy, InUnit
    <2> QED BY <1>13, <2>4, <2>5 DEF Commit, TypeOK, FitRun
  <1>14. CASE CommitFails(w)
    <2>1. run' \in [Workers -> FitRun]
      BY <1>14, CarryType
         DEF CommitFails, Fails, SourceError, Busy, InUnit, Rejected, States, Finished
    <2> QED BY <1>14, <2>1 DEF CommitFails, TypeOK, FitRun
  <1>15. CASE Settle(w)
    <2>1. run[w] \in FitRun /\ run[w].pc = "settle" /\ run[w].job \in Jobs
      BY <1>15 DEF Settle, FitRun, LocalsFit, Busy
    <2>2. run' \in [Workers -> FitRun]
      <3>1. CASE NextUnit(w)
        BY <2>1, <3>1, NextUnitType DEF InUnit
      <3>2. CASE Fails(w, SourceError)
        BY <2>1, <3>2, CarryType DEF Fails, SourceError, Busy, InUnit, Rejected, States, Finished
      <3> QED BY <1>15, <3>1, <3>2 DEF Settle
    <2>3. row' \in [Jobs -> RowType]
      BY <1>15, <2>1, SetStateType DEF Settle, TypeOK, States, Active
    <2> QED BY <1>15, <2>2, <2>3 DEF Settle, TypeOK, FitRun
  <1>16. CASE Reject(w)
    <2> DEFINE passed == IF run[w].outcome.scope = "source" THEN 0 ELSE run[w].idx + 1
               old    == Mine(w).checkpoint
               p      == IF passed > old THEN passed ELSE old
    <2>1. /\ run[w] \in FitRun /\ run[w].pc = "reject" /\ run[w].job \in Jobs
          /\ run[w].idx \in Units /\ run[w].outcome.state \in Rejected
      BY <1>16 DEF Reject, FitRun, LocalsFit, Busy, InUnit
    <2>2. p \in 0..NumUnits /\ Mine(w).covered \in SUBSET Units
      BY <2>1 DEF Mine, TypeOK, RowType, Units
    <2>3. row' \in [Jobs -> RowType]
      BY <1>16, <2>1, <2>2, RecordUnitType DEF Reject, InUnit
    <2>4. run' \in [Workers -> FitRun]
      BY <1>16, <2>1, GotoType DEF Reject, FitRun, LocalsFit, Busy, InUnit
    <2> QED BY <1>16, <2>3, <2>4 DEF Reject, TypeOK, FitRun
  <1>17. CASE SettleReject(w)
    <2>1. /\ run[w] \in FitRun /\ run[w].pc = "settleReject" /\ run[w].job \in Jobs
          /\ run[w].idx \in Units
      BY <1>17 DEF SettleReject, FitRun, LocalsFit, Busy, InUnit
    <2>2. run' \in [Workers -> FitRun]
      <3>1. CASE Carry(w, SourceError, "abort")
        BY <2>1, <3>1, CarryType DEF SourceError, Busy, InUnit, Rejected, States, Finished
      <3>2. CASE Carry(w, NoOutcome, "result")
        BY <2>1, <3>2, CarryType DEF NoOutcome, Busy, InUnit
      <3>3. ASSUME NEW d \in SUBSET {KeyOf[i] : i \in Units},
                   Becomes(w, [run[w] EXCEPT !.outcome = NoOutcome, !.denied = d,
                                 !.idx = run[w].idx + 1, !.pc = NextPoint(run[w].idx + 1)])
            PROVE  run' \in [Workers -> FitRun]
        <4> DEFINE a == [run[w] EXCEPT !.outcome = NoOutcome]
                   b == [a EXCEPT !.denied = d]
                   c == [b EXCEPT !.idx = run[w].idx + 1]
                   p == NextPoint(run[w].idx + 1)
        <4>1. a \in RunType /\ a.job \in Jobs
          BY <2>1 DEF FitRun, RunType, NoOutcome
        <4>2. b \in RunType /\ b.job \in Jobs
          BY <4>1 DEF RunType
        <4> HIDE DEF b
        <4>3. /\ c \in RunType /\ c.job \in Jobs
              /\ c.idx = run[w].idx + 1 /\ c.idx \in 0..NumUnits
          BY <2>1, <4>2, IndexType, ConstantsAssumption DEF Units
        <4>4. LocalsFit(c, p) /\ p \in Busy
          BY <2>1, <4>3 DEF LocalsFit, NextPoint, Busy, InUnit, Units
        <4>5. [c EXCEPT !.pc = p] \in FitRun
          BY <4>3, <4>4, PointType
        <4> QED BY <3>3, <4>5 DEF Becomes, b
      <3>4. /\ run[w].denied \in SUBSET {KeyOf[i] : i \in Units}
            /\ run[w].denied \union {KeyOf[run[w].idx]} \in SUBSET {KeyOf[i] : i \in Units}
        BY <2>1 DEF FitRun, RunType
      <3> QED BY <1>17, <3>1, <3>2, <3>3, <3>4 DEF SettleReject
    <2>3. row' \in [Jobs -> RowType]
      BY <1>17, <2>1, SetStateType DEF SettleReject, TypeOK, States, Active
    <2> QED BY <1>17, <2>2, <2>3 DEF SettleReject, TypeOK, FitRun
  <1>18. CASE Conclude(w)
    <2>1. DownloadResult(run[w].job) \in Finished
      BY DEF DownloadResult, Finished
    <2>2. run' \in [Workers -> FitRun]
      BY <1>18, <2>1, CarryType DEF Conclude, Busy, InUnit, States
    <2> QED BY <1>18, <2>2 DEF Conclude, TypeOK, FitRun
  <1>19. CASE Finish(w)
    <2>1. run[w] \in FitRun /\ run[w].pc \in {"finish", "cancel", "abort"} /\ run[w].job \in Jobs
      BY <1>19 DEF Finish, FitRun, LocalsFit, Busy
    <2>2. PICK s \in States : SetState(run[w].job, s)
      BY <1>19, <2>1 DEF Finish, FitRun, LocalsFit, States, Finished, Rejected
    <2>3. row' \in [Jobs -> RowType]
      BY <2>1, <2>2, SetStateType
    <2>4. run' \in [Workers -> FitRun]
      BY <1>19, IdleType DEF Finish
    <2> QED BY <1>19, <2>3, <2>4 DEF Finish, Idle, TypeOK, FitRun
  <1>20. CASE Requeue(w)
    <2>1. run[w].job \in Jobs
      BY <1>20 DEF Requeue, FitRun, LocalsFit, Busy
    <2> QED BY <1>20, <2>1, IdleType, LeaveType, SetStateType
            DEF Requeue, Idle, TypeOK, FitRun, States, Active
  <1>21. CASE CheckStops(w)
    BY <1>21, GotoType DEF CheckStops, TypeOK, FitRun, LocalsFit, Busy, InUnit, Checking
  <1>22. CASE CheckCancels(w)
    BY <1>22, GotoType DEF CheckCancels, TypeOK, FitRun, LocalsFit, Busy, InUnit, Checking
  <1>23. CASE CheckLosesLease(w)
    BY <1>23, LeaveType DEF CheckLosesLease, TypeOK, FitRun
  <1> QED
    BY <1>1, <1>2, <1>3, <1>4, <1>5, <1>6, <1>7, <1>8, <1>9, <1>10, <1>11, <1>12, <1>13, <1>14,
       <1>15, <1>16, <1>17, <1>18, <1>19, <1>20, <1>21, <1>22, <1>23 DEF Step

LEMMA OtherStepType ==
  ASSUME TypeInv, NEW w \in Workers, Boot(w) \/ Failing(w)
  PROVE  TypeInv'
  <1> USE ConstantsAssumption
  <1>1. CASE Boot(w)
    <2>1. run' \in [Workers -> FitRun]
      BY <1>1, NewRunType DEF Boot, Becomes, TypeInv
    <2> QED BY <1>1, <2>1 DEF Boot, TypeInv, TypeOK, FitRun
  <1>2. CASE Stop(w)
    <2>1. [run[w] EXCEPT !.stop = TRUE] \in FitRun
      BY DEF TypeInv, FitRun, RunType, LocalsFit
    <2> QED BY <1>2, <2>1 DEF Stop, Fault, TypeInv, TypeOK, FitRun
  <1>3. CASE Crash(w)
    BY <1>3, LeaveType DEF Crash, Fault, TypeInv, TypeOK, FitRun
  <1>4. CASE LoseLease(w)
    BY <1>4 DEF LoseLease, Fault, TypeInv, TypeOK
  <1>5. CASE DropConnection(w)
    BY <1>5, LeaveType DEF DropConnection, Fault, TypeInv, TypeOK, FitRun
  <1> QED BY <1>1, <1>2, <1>3, <1>4, <1>5 DEF Failing

LEMMA ConsoleStepType ==
  ASSUME TypeInv, NEW j \in Jobs, Console(j)
  PROVE  TypeInv'
  <1>1. CASE Submit(j)
    BY <1>1, SetStateType DEF Submit, TypeInv, TypeOK, States, Active
  <1>2. CASE ReadForCancel(j)
    BY <1>2 DEF ReadForCancel, TypeInv, TypeOK
  <1>3. CASE WriteCancel(j)
    <2>1. row' \in [Jobs -> RowType]
      <3> DEFINE r == [row[j] EXCEPT !.cancel = TRUE]
                 s == IF cancelRead[j] = "queued" THEN "cancelled" ELSE row[j].state
      <3>1. r \in RowType
        BY DEF TypeInv, TypeOK, RowType
      <3>2. s \in States \union {"absent"}
        BY DEF TypeInv, TypeOK, RowType, States, Finished
      <3>3. [r EXCEPT !.state = s] \in RowType
        BY <3>1, <3>2 DEF RowType
      <3>4. row' = [row EXCEPT ![j] = [r EXCEPT !.state = s]]
        BY <1>3 DEF WriteCancel, TypeInv, TypeOK, RowType
      <3> QED BY <3>3, <3>4 DEF TypeInv, TypeOK
    <2> QED BY <1>3, <2>1 DEF WriteCancel, TypeInv, TypeOK
  <1>4. CASE Recycle(j)
    <2>1. [row[j] EXCEPT !.deleted = ~ row[j].deleted] \in RowType
      BY DEF TypeInv, TypeOK, RowType
    <2> QED BY <1>4, <2>1 DEF Recycle, TypeInv, TypeOK
  <1> QED BY <1>1, <1>2, <1>3, <1>4 DEF Console

LEMMA TypeInit == Init => TypeInv
  <1> SUFFICES ASSUME Init PROVE TypeInv
    OBVIOUS
  <1>1. row \in [Jobs -> RowType]
    BY NewRowType DEF Init
  <1>2. run \in [Workers -> FitRun]
    BY NewRunType DEF Init
  <1>3. run \in [Workers -> RunType]
    BY <1>2 DEF FitRun
  <1>4. cancelRead \in [Jobs -> Active \union {"none"}] /\ faults \in 0..MaxFaults
    BY ConstantsAssumption DEF Init
  <1> QED BY <1>1, <1>2, <1>3, <1>4 DEF Init, TypeInv, TypeOK

LEMMA TypeStep == TypeInv /\ [Next]_vars => TypeInv'
  <1>1. TypeInv /\ UNCHANGED vars => TypeInv'
    BY DEF vars, TypeInv, TypeOK
  <1> QED BY <1>1, WorkerStepType, OtherStepType, ConsoleStepType DEF Next

LEMMA TypeInvariant == Spec => []TypeInv
  BY TypeInit, TypeStep, PTL DEF Spec

\* Every reachable state of a lane has the declared shape, whatever the number
\* of processes, jobs, units, attempts and faults; in particular a resumed
\* execution always starts inside the job's list of units or at its end.
THEOREM TypeCorrect == Spec => []TypeOK
  <1>1. TypeInv => TypeOK
    BY DEF TypeInv
  <1> QED BY <1>1, TypeInvariant, PTL

-----------------------------------------------------------------------------
(* No unit is skipped: the strengthening says that a worker, too, has      *)
(* nothing unrecorded behind it, which is what makes the checkpoint it     *)
(* writes true.  A recorded outcome may be replaced but never erased, so   *)
(* this holds for processes that do not know of each other.                *)

Recorded(unit, n) == \A i \in Units : i < n => unit[i] # "none"

\* The control points at which the unit in hand has its outcome.
Written == {"settle", "settleReject"}

NothingBehind(w) ==
  run[w].pc \in Busy =>
    /\ Recorded(row[run[w].job].unit, run[w].idx)
    /\ run[w].pc \in Written => Recorded(row[run[w].job].unit, run[w].idx + 1)

SkipInv == NoUnitSkipped /\ \A w \in Workers : NothingBehind(w)

\* A step that records no unit.
RecordsNothing ==
  \A j \in Jobs : row'[j].unit = row[j].unit /\ row'[j].checkpoint = row[j].checkpoint

\* Only w moves, and to a place it has nothing unrecorded behind at.
Moves(w) ==
  /\ \A v \in Workers \ {w} : run'[v] = run[v]
  /\ run'[w].pc \in Busy =>
       \/ /\ run[w].pc \in Busy
          /\ run'[w].job = run[w].job /\ run'[w].idx = run[w].idx
          /\ run'[w].pc \in Written => run[w].pc \in Written
       \/ /\ run[w].pc \in Written /\ run'[w].pc \notin Written
          /\ run'[w].job = run[w].job /\ run'[w].idx = run[w].idx + 1
       \/ /\ run'[w].pc \notin Written
          /\ run'[w].job \in Jobs /\ run'[w].idx = row[run'[w].job].checkpoint

LEMMA SetStateRecordsNothing ==
  ASSUME TypeInv, NEW j \in Jobs, NEW s, SetState(j, s)
  PROVE  RecordsNothing
  BY DEF TypeInv, TypeOK, RowType, SetState, RecordsNothing

LEMMA SameRowRecordsNothing == row' = row => RecordsNothing
  BY DEF RecordsNothing

LEMMA GotoMoves ==
  ASSUME TypeInv, NEW w \in Workers, NEW p, Goto(w, p),
         p \in Busy => run[w].pc \in Busy /\ p \notin Written
  PROVE  Moves(w)
  BY DEF TypeInv, TypeOK, RunType, Goto, Becomes, Moves

LEMMA CarryMoves ==
  ASSUME TypeInv, NEW w \in Workers, NEW o, NEW p, Carry(w, o, p), run[w].pc \in Busy,
         p \notin Written
  PROVE  Moves(w)
  <1> DEFINE r == [run[w] EXCEPT !.outcome = o, !.pc = p]
  <1>1. r.job = run[w].job /\ r.idx = run[w].idx /\ r.pc = p
    BY DEF TypeInv, TypeOK, RunType
  <1>2. run' = [run EXCEPT ![w] = r]
    BY DEF Carry, Becomes
  <1> HIDE DEF r
  <1> QED BY <1>1, <1>2 DEF TypeInv, TypeOK, Moves

LEMMA NextUnitMoves ==
  ASSUME TypeInv, NEW w \in Workers, NextUnit(w), run[w].pc \in Written
  PROVE  Moves(w)
  <1> DEFINE r == [run[w] EXCEPT !.idx = run[w].idx + 1, !.pc = NextPoint(run[w].idx + 1)]
  <1>1. r.job = run[w].job /\ r.idx = run[w].idx + 1 /\ r.pc \in {"unit", "result"}
    BY DEF TypeInv, TypeOK, RunType, NextPoint
  <1>2. run' = [run EXCEPT ![w] = r]
    BY DEF NextUnit, Becomes
  <1> HIDE DEF r
  <1> QED BY <1>1, <1>2 DEF TypeInv, TypeOK, Moves, Busy, Written

LEMMA LeaveMoves ==
  ASSUME TypeInv, NEW w \in Workers, NEW p \in {"off", "unlocked"}, Leave(w, p)
  PROVE  Moves(w)
  BY DEF TypeInv, TypeOK, Leave, Becomes, NewRun, Moves, Busy, Written

LEMMA IdleMoves ==
  ASSUME TypeInv, NEW w \in Workers, Idle(w)
  PROVE  Moves(w)
  BY DEF TypeInv, TypeOK, Idle, Becomes, NewRun, Moves, Busy, Written

LEMMA OrdinaryStep ==
  ASSUME TypeInv, NEW w \in Workers, Step(w) \/ Boot(w) \/ Failing(w), ~ Commit(w), ~ Reject(w)
  PROVE  RecordsNothing /\ Moves(w)
  <1> USE DEF At, Busy, Written
  <1> run[w] \in FitRun
    BY DEF TypeInv
  <1> SUFFICES ASSUME run[w].pc \in Busy => run[w].job \in Jobs
               PROVE  RecordsNothing /\ Moves(w)
    BY DEF FitRun, LocalsFit
  <1>1. CASE Acquire(w)
    BY <1>1, GotoMoves, SameRowRecordsNothing DEF Acquire
  <1>2. CASE Recover(w)
    <2>1. RecordsNothing
      BY <1>2 DEF Recover, RecordsNothing, TypeInv, TypeOK, RowType
    <2> QED BY <1>2, <2>1, GotoMoves DEF Recover
  <1>3. CASE Select(w)
    <2>1. PICK j \in Jobs :
            Becomes(w, [run[w] EXCEPT !.job = j, !.idx = ResumeAt(j), !.pc = "selected"])
      BY <1>3 DEF Select
    <2> DEFINE r == [run[w] EXCEPT !.job = j, !.idx = ResumeAt(j), !.pc = "selected"]
    <2>2. r.job = j /\ r.idx = row[j].checkpoint /\ r.pc = "selected"
      BY DEF TypeInv, TypeOK, RunType, ResumeAt
    <2>3. run' = [run EXCEPT ![w] = r]
      BY <2>1 DEF Becomes
    <2> HIDE DEF r
    <2>4. Moves(w)
      BY <2>2, <2>3 DEF TypeInv, TypeOK, Moves
    <2> QED BY <1>3, <2>4, SameRowRecordsNothing DEF Select
  <1>4. CASE Exit(w) \/ CheckLosesLease(w) \/ Crash(w) \/ DropConnection(w)
    BY <1>4, LeaveMoves, SameRowRecordsNothing DEF Exit, CheckLosesLease, Crash, DropConnection
  <1>5. CASE Start(w)
    BY <1>5, GotoMoves, LeaveMoves, SetStateRecordsNothing, SameRowRecordsNothing DEF Start
  <1>6. CASE Begin(w)
    <2>1. NextPoint(run[w].idx) \notin Written
      BY DEF NextPoint
    <2>2. ASSUME Goto(w, NextPoint(run[w].idx)) PROVE Moves(w)
      BY <1>6, <2>1, <2>2, GotoMoves DEF Begin
    <2>3. ASSUME NEW s \in Rejected, Carry(w, [scope |-> "source", state |-> s], "abort")
          PROVE  Moves(w)
      BY <1>6, <2>3, CarryMoves DEF Begin
    <2> QED BY <1>6, <2>2, <2>3, SameRowRecordsNothing DEF Begin
  <1>7. CASE TakeUnit(w)
    <2> DEFINE r == [run[w] EXCEPT !.tries = 0, !.pc = "fetch"]
    <2>1. ASSUME Becomes(w, r) PROVE Moves(w)
      <3>1. r.job = run[w].job /\ r.idx = run[w].idx /\ r.pc = "fetch"
        BY DEF TypeInv, TypeOK, RunType
      <3> HIDE DEF r
      <3> QED BY <1>7, <2>1, <3>1 DEF TakeUnit, TypeInv, TypeOK, Becomes, Moves
    <2> QED BY <1>7, <2>1, CarryMoves, SameRowRecordsNothing DEF TakeUnit, Fails
  <1>8. CASE FetchOk(w)
    BY <1>8, GotoMoves, CarryMoves, SetStateRecordsNothing, SameRowRecordsNothing
       DEF FetchOk, Fails
  <1>9. CASE FetchNetworkError(w)
    <2> DEFINE r == [run[w] EXCEPT !.tries = run[w].tries + 1, !.pc = "backoff"]
    <2>1. ASSUME Becomes(w, r) PROVE Moves(w)
      <3>1. r.job = run[w].job /\ r.idx = run[w].idx /\ r.pc = "backoff"
        BY DEF TypeInv, TypeOK, RunType
      <3> HIDE DEF r
      <3> QED BY <1>9, <2>1, <3>1 DEF FetchNetworkError, TypeInv, TypeOK, Becomes, Moves
    <2> QED BY <1>9, <2>1, CarryMoves, SetStateRecordsNothing, SameRowRecordsNothing
            DEF FetchNetworkError, Fails
  <1>10. CASE FetchFails(w) \/ CommitFails(w)
    BY <1>10, CarryMoves, SameRowRecordsNothing DEF FetchFails, CommitFails, Fails
  <1>11. CASE Retry(w) \/ CheckFetched(w)
    BY <1>11, GotoMoves, SameRowRecordsNothing DEF Retry, CheckFetched
  <1>12. CASE Settle(w)
    BY <1>12, NextUnitMoves, CarryMoves, SetStateRecordsNothing, SameRowRecordsNothing
       DEF Settle, Fails
  <1>13. CASE SettleReject(w)
    <2>1. ASSUME NEW d,
                 Becomes(w, [run[w] EXCEPT !.outcome = NoOutcome, !.denied = d,
                               !.idx = run[w].idx + 1, !.pc = NextPoint(run[w].idx + 1)])
          PROVE  Moves(w)
      <3> DEFINE r == [run[w] EXCEPT !.outcome = NoOutcome, !.denied = d,
                         !.idx = run[w].idx + 1, !.pc = NextPoint(run[w].idx + 1)]
      <3>1. r.job = run[w].job /\ r.idx = run[w].idx + 1 /\ r.pc \in {"unit", "result"}
        BY DEF TypeInv, TypeOK, RunType, NextPoint
      <3> HIDE DEF r
      <3> QED BY <1>13, <2>1, <3>1 DEF r, SettleReject, TypeInv, TypeOK, Becomes, Moves
    <2>2. Moves(w)
      BY <1>13, <2>1, CarryMoves DEF SettleReject
    <2> QED BY <1>13, <2>2, SetStateRecordsNothing, SameRowRecordsNothing DEF SettleReject
  <1>14. CASE Conclude(w)
    BY <1>14, CarryMoves, SameRowRecordsNothing DEF Conclude
  <1>15. CASE Finish(w) \/ Requeue(w)
    BY <1>15, IdleMoves, LeaveMoves, SetStateRecordsNothing, SameRowRecordsNothing
       DEF Finish, Requeue
  <1>16. CASE CheckStops(w) \/ CheckCancels(w)
    BY <1>16, GotoMoves, SameRowRecordsNothing DEF CheckStops, CheckCancels, Checking
  <1>17. CASE Boot(w)
    BY <1>17, SameRowRecordsNothing DEF Boot, Becomes, NewRun, Moves, TypeInv, TypeOK
  <1>18. CASE Stop(w) \/ LoseLease(w)
    BY <1>18, SameRowRecordsNothing DEF Stop, LoseLease, Moves, TypeInv, TypeOK, RunType
  <1> QED
    BY <1>1, <1>2, <1>3, <1>4, <1>5, <1>6, <1>7, <1>8, <1>9, <1>10, <1>11, <1>12, <1>13, <1>14,
       <1>15, <1>16, <1>17, <1>18 DEF Step, Failing

LEMMA ConsoleRecordsNothing ==
  ASSUME TypeInv, NEW j \in Jobs, Console(j)
  PROVE  RecordsNothing /\ run' = run
  <1>1. CASE WriteCancel(j)
    <2>1. ASSUME NEW k \in Jobs
          PROVE  row'[k].unit = row[k].unit /\ row'[k].checkpoint = row[k].checkpoint
      BY <1>1, <2>1 DEF WriteCancel, TypeInv, TypeOK, RowType
    <2> QED BY <1>1, <2>1 DEF WriteCancel, RecordsNothing
  <1> QED
    BY <1>1, SetStateRecordsNothing, SameRowRecordsNothing
       DEF Console, Submit, ReadForCancel, Recycle, RecordsNothing, TypeInv, TypeOK, RowType

\* Nothing recorded is erased and nobody is moved past a unit.
LEMMA OrdinaryStepSkips ==
  ASSUME TypeInv, SkipInv, NEW w \in Workers, RecordsNothing, Moves(w)
  PROVE  SkipInv'
  <1>1. NoUnitSkipped'
    BY DEF SkipInv, NoUnitSkipped, RecordsNothing
  <1>2. \A j \in Jobs : row'[j].unit = row[j].unit
    BY DEF RecordsNothing
  <1>3. ASSUME NEW v \in Workers, run[v].pc \in Busy PROVE run[v].job \in Jobs
    BY <1>3 DEF TypeInv, FitRun, LocalsFit
  <1>4. ASSUME NEW v \in Workers, v # w PROVE NothingBehind(v)'
    <2>1. run'[v] = run[v] /\ NothingBehind(v)
      BY <1>4 DEF Moves, SkipInv
    <2> QED BY <1>2, <1>3, <2>1 DEF NothingBehind
  <1>5. NothingBehind(w)'
    <2>1. NothingBehind(w)
      BY DEF SkipInv
    <2>2. Written \subseteq Busy
      BY DEF Written, Busy
    <2>3. CASE /\ run[w].pc \in Busy
               /\ run'[w].job = run[w].job /\ run'[w].idx = run[w].idx
               /\ run'[w].pc \in Written => run[w].pc \in Written
      BY <1>2, <1>3, <2>1, <2>3 DEF NothingBehind
    <2>4. CASE /\ run[w].pc \in Written /\ run'[w].pc \notin Written
               /\ run'[w].job = run[w].job /\ run'[w].idx = run[w].idx + 1
      BY <1>2, <1>3, <2>1, <2>2, <2>4 DEF NothingBehind
    <2>5. CASE /\ run'[w].pc \notin Written
               /\ run'[w].job \in Jobs /\ run'[w].idx = row[run'[w].job].checkpoint
      BY <1>2, <2>5 DEF NothingBehind, Recorded, SkipInv, NoUnitSkipped
    <2>6. CASE run'[w].pc \notin Busy
      BY <2>6 DEF NothingBehind
    <2> QED BY <2>3, <2>4, <2>5, <2>6 DEF Moves
  <1> QED BY <1>1, <1>4, <1>5 DEF SkipInv

\* Recording the outcome of a unit with nothing unrecorded behind it.
LEMMA RecordingSkips ==
  ASSUME TypeInv, SkipInv, NEW w \in Workers, run[w].pc \in InUnit,
         NEW s \in Stored \union Rejected, NEW c,
         NEW p \in {Mine(w).checkpoint, run[w].idx + 1},
         RecordUnit(w, s, p, c), NEW point \in Written, Goto(w, point)
  PROVE  SkipInv'
  <1> DEFINE k == run[w].job
             x == run[w].idx
  <1>1. k \in Jobs /\ x \in Units /\ run[w].pc \in Busy
    BY DEF TypeInv, FitRun, LocalsFit, InUnit, Busy
  <1>2. s # "none"
    BY DEF Stored, Rejected
  <1>3. /\ \A j \in Jobs \ {k} : row'[j] = row[j]
        /\ row'[k].unit = [row[k].unit EXCEPT ![x] = s]
        /\ row'[k].checkpoint = p
    <2> DEFINE n == IF Mine(w).cancel THEN Mine(w).overrun + 1 ELSE Mine(w).overrun
               r == [row[k] EXCEPT !.unit[x] = s, !.checkpoint = p, !.covered = c, !.overrun = n]
    <2>1. r.unit = [row[k].unit EXCEPT ![x] = s] /\ r.checkpoint = p
      BY <1>1 DEF TypeInv, TypeOK, RowType
    <2>2. row' = [row EXCEPT ![k] = r]
      BY DEF RecordUnit, Mine
    <2> HIDE DEF r
    <2> QED BY <1>1, <2>1, <2>2 DEF TypeInv, TypeOK
  <1>4. \A i \in Units : row'[k].unit[i] = IF i = x THEN s ELSE row[k].unit[i]
    BY <1>1, <1>3 DEF TypeInv, TypeOK, RowType
  <1>5. ASSUME NEW j \in Jobs, NEW n, Recorded(row[j].unit, n) PROVE Recorded(row'[j].unit, n)
    BY <1>2, <1>3, <1>4, <1>5 DEF Recorded
  <1>6. Recorded(row'[k].unit, x) /\ Recorded(row'[k].unit, x + 1)
    <2>1. Recorded(row[k].unit, x)
      BY <1>1 DEF SkipInv, NothingBehind
    <2> QED BY <1>1, <1>2, <1>4, <2>1 DEF Recorded, Units
  <1>7. NoUnitSkipped'
    <2>1. \A j \in Jobs : Recorded(row[j].unit, row[j].checkpoint)
      BY DEF SkipInv, NoUnitSkipped, Recorded
    <2>2. Recorded(row'[k].unit, row'[k].checkpoint)
      BY <1>1, <1>3, <1>5, <1>6, <2>1 DEF Mine
    <2> QED BY <1>3, <2>1, <2>2 DEF NoUnitSkipped, Recorded
  <1>8. ASSUME NEW v \in Workers PROVE NothingBehind(v)'
    <2>1. CASE v = w
      <3>1. run'[w].job = k /\ run'[w].idx = x
        BY DEF Goto, Becomes, TypeInv, TypeOK, RunType
      <3> QED BY <1>6, <2>1, <3>1 DEF NothingBehind
    <2>2. CASE v # w
      <3>1. run'[v] = run[v] /\ NothingBehind(v)
        BY <2>2 DEF Goto, Becomes, TypeInv, TypeOK, SkipInv
      <3>2. run[v].pc \in Busy => run[v].job \in Jobs
        BY DEF TypeInv, FitRun, LocalsFit
      <3>3. run[v].pc \in Written => run[v].pc \in Busy
        BY DEF Written, Busy
      <3> QED BY <1>5, <3>1, <3>2, <3>3 DEF NothingBehind
    <2> QED BY <2>1, <2>2
  <1> QED BY <1>7, <1>8 DEF SkipInv

LEMMA SkipInit == Init => SkipInv
  BY DEF Init, NewRow, NewRun, SkipInv, NoUnitSkipped, NothingBehind, Units, Busy

LEMMA SkipStep == TypeInv /\ SkipInv /\ [Next]_vars => SkipInv'
  <1> SUFFICES ASSUME TypeInv, SkipInv, [Next]_vars PROVE SkipInv'
    OBVIOUS
  <1>1. ASSUME NEW w \in Workers, Commit(w) PROVE SkipInv'
    <2>1. PICK s \in Stored, c \in {Mine(w).covered \union {run[w].idx},
                                    Mine(w).covered \ {run[w].idx}} :
            RecordUnit(w, s, run[w].idx + 1, c)
      BY <1>1 DEF Commit
    <2>2. run[w].pc \in InUnit /\ Goto(w, "settle")
      BY <1>1 DEF Commit, At, InUnit
    <2> QED BY <2>1, <2>2, RecordingSkips DEF Written
  <1>2. ASSUME NEW w \in Workers, Reject(w) PROVE SkipInv'
    <2> DEFINE passed == IF run[w].outcome.scope = "source" THEN 0 ELSE run[w].idx + 1
               old    == Mine(w).checkpoint
               p      == IF passed > old THEN passed ELSE old
    <2>1. /\ run[w].pc \in InUnit /\ Goto(w, "settleReject")
          /\ run[w].outcome.state \in Rejected
          /\ RecordUnit(w, run[w].outcome.state, p, Mine(w).covered)
      BY <1>2 DEF Reject, At, InUnit, TypeInv, FitRun, LocalsFit
    <2>2. old \in Nat
      BY <2>1 DEF Mine, TypeInv, TypeOK, FitRun, LocalsFit, RowType, InUnit, Busy
    <2>3. p \in {old, run[w].idx + 1}
      BY <2>2
    <2> QED BY <2>1, <2>3, RecordingSkips DEF Written
  <1>3. ASSUME NEW w \in Workers, Step(w) \/ Boot(w) \/ Failing(w), ~ Commit(w), ~ Reject(w)
        PROVE  SkipInv'
    BY <1>3, OrdinaryStep, OrdinaryStepSkips
  <1>4. ASSUME RecordsNothing, run' = run PROVE SkipInv'
    <2>1. \A w \in Workers : run[w].pc \in Busy => run[w].job \in Jobs
      BY DEF TypeInv, FitRun, LocalsFit
    <2> QED BY <1>4, <2>1
            DEF SkipInv, NoUnitSkipped, NothingBehind, RecordsNothing, Written, Busy
  <1>5. ASSUME NEW j \in Jobs, Console(j) PROVE SkipInv'
    BY <1>4, <1>5, ConsoleRecordsNothing
  <1>6. CASE UNCHANGED vars
    BY <1>4, <1>6, SameRowRecordsNothing DEF vars
  <1> QED BY <1>1, <1>2, <1>3, <1>5, <1>6 DEF Next

\* Every unit below a job's checkpoint has a recorded outcome: a resumed
\* execution never steps over a unit nobody recorded, even when a process that
\* lost its lease still writes beside its successor
\* (tasks.py process_parts; storage.py write_coverage and write_unit).
THEOREM UnitsNotSkipped == Spec => []NoUnitSkipped
  <1>1. Init => TypeInv /\ SkipInv
    BY TypeInit, SkipInit
  <1>2. (TypeInv /\ SkipInv) /\ [Next]_vars => (TypeInv /\ SkipInv)'
    BY TypeStep, SkipStep
  <1>3. TypeInv /\ SkipInv => NoUnitSkipped
    BY DEF SkipInv
  <1> QED BY <1>1, <1>2, <1>3, PTL DEF Spec

-----------------------------------------------------------------------------
(* What a step of a worker does to the rows and to its own locals, without *)
(* the way it does it: every step has one of the shapes below, and what    *)
(* follows is proved shape by shape.                                       *)

\* Only job j may change, and only its state.
OnlyState(j) ==
  \A k \in Jobs :
    /\ row'[k].unit = row[k].unit /\ row'[k].checkpoint = row[k].checkpoint
    /\ row'[k].covered = row[k].covered /\ row'[k].deleted = row[k].deleted
    /\ row'[k].cancel = row[k].cancel /\ row'[k].overrun = row[k].overrun
    /\ k # j => row'[k].state = row[k].state

\* The step is w's.
OnlyMoves(w) == \A v \in Workers \ {w} : run'[v] = run[v]

SameUnit(w) == run'[w].job = run[w].job /\ run'[w].idx = run[w].idx

\* The row is marked running or retrying, or left alone.
MarksOwn(w) ==
  /\ OnlyState(run[w].job)
  /\ \/ row'[run[w].job].state = row[run[w].job].state
     \/ /\ row'[run[w].job].state \in {"running", "retrying"}
        /\ ~ row[run[w].job].deleted

\* From one control point of an execution to another one.
Flow(w) ==
  LET from == run[w].pc  to == run'[w].pc IN
  \/ from = "selected" /\ to = "begin"
  \/ from = "begin" /\ to = NextPoint(run[w].idx)
  \/ to \in {"abort", "interrupt", "cancel"}
  \/ from \in {"unit", "backoff", "fetched"} /\ to \in {"fetch", "reject", "commit"} /\ ~ Mine(w).cancel
       /\ (from = "backoff" => to = "fetch") /\ (from = "fetched" => to = "commit")
  \/ from = "fetch" /\ to \in {"fetched", "backoff", "reject"}
  \/ from = "commit" /\ to = "reject"
  \/ from = "settle" /\ to = "reject" /\ Mine(w).deleted
  \/ from = "settleReject" /\ to = "result"
  \/ from = "result" /\ to = "finish" /\ run'[w].outcome.state = DownloadResult(run[w].job)

Continues(w) ==
  /\ run[w].pc \in Busy /\ run'[w].pc \in Busy
  /\ SameUnit(w) /\ MarksOwn(w) /\ Flow(w)

Advances(w) ==
  /\ run[w].pc \in Written
  /\ run'[w].job = run[w].job /\ run'[w].idx = run[w].idx + 1
  /\ run'[w].pc = NextPoint(run[w].idx + 1)
  /\ MarksOwn(w)

\* The unit in hand gets its outcome; the checkpoint may move past it.
Records(w) ==
  LET k == run[w].job  x == run[w].idx IN
  /\ SameUnit(w)
  /\ \A j \in Jobs \ {k} : row'[j] = row[j]
  /\ row'[k].state = row[k].state /\ row'[k].deleted = row[k].deleted /\ row'[k].cancel = row[k].cancel
  /\ row'[k].overrun = IF row[k].cancel THEN row[k].overrun + 1 ELSE row[k].overrun
  /\ \E s \in Stored \union Rejected :
       /\ row'[k].unit = [row[k].unit EXCEPT ![x] = s]
       /\ \/ /\ run[w].pc = "commit" /\ run'[w].pc = "settle"
             /\ s \in Stored /\ row'[k].checkpoint = x + 1
          \/ /\ run[w].pc = "reject" /\ run'[w].pc = "settleReject"
             /\ s \in Rejected
             /\ \/ row'[k].checkpoint = row[k].checkpoint
                \/ row'[k].checkpoint = x + 1 /\ row[k].checkpoint < x + 1

Takes(w) ==
  /\ run[w].pc = "idle" /\ run'[w].pc = "selected" /\ row' = row
  /\ \E j \in Jobs : Selected(j) /\ run'[w].job = j /\ run'[w].idx = row[j].checkpoint

\* It forgets its job, if it had one, and leaves the row as it is.
Leaves(w) == run'[w].pc \in {"off", "unlocked", "recover"} /\ row' = row

\* The execution is over and the row tells how.
Ends(w) ==
  LET k == run[w].job  s == row'[run[w].job].state IN
  /\ run[w].pc \in Busy /\ run'[w].pc = "idle"
  /\ OnlyState(k)
  /\ \/ /\ s \in Finished
        /\ s = "succeeded" => run[w].pc = "finish" /\ run[w].outcome.state = s
     \/ s = "queued" /\ ~ row[k].deleted

Recovers(w) == run[w].pc = "recover" /\ run'[w].pc = "idle" /\ Recover(w)

\* Nothing an execution depends on changes.
Rests(w) ==
  /\ row' = row /\ SameUnit(w)
  /\ run'[w].pc = run[w].pc /\ run'[w].outcome = run[w].outcome

Shape(w) ==
  /\ OnlyMoves(w)
  /\ cancelRead' = cancelRead
  /\ \/ Continues(w) \/ Advances(w) \/ Records(w) \/ Takes(w)
     \/ Leaves(w) \/ Ends(w) \/ Recovers(w) \/ Rests(w)

LEMMA SetStateOnly ==
  ASSUME TypeInv, NEW j \in Jobs, NEW s, SetState(j, s)
  PROVE  OnlyState(j) /\ row'[j].state = s
  BY DEF TypeInv, TypeOK, RowType, SetState, OnlyState

LEMMA SameRowOnly == \A j : row' = row => OnlyState(j)
  BY DEF OnlyState

LEMMA GotoFields ==
  ASSUME TypeInv, NEW w \in Workers, NEW p, Goto(w, p)
  PROVE  OnlyMoves(w) /\ SameUnit(w) /\ run'[w].pc = p /\ run'[w].outcome = run[w].outcome
  BY DEF TypeInv, TypeOK, RunType, Goto, Becomes, OnlyMoves, SameUnit

LEMMA CarryFields ==
  ASSUME TypeInv, NEW w \in Workers, NEW o, NEW p, Carry(w, o, p)
  PROVE  OnlyMoves(w) /\ SameUnit(w) /\ run'[w].pc = p /\ run'[w].outcome = o
  <1> DEFINE r == [run[w] EXCEPT !.outcome = o, !.pc = p]
  <1>1. r.job = run[w].job /\ r.idx = run[w].idx /\ r.pc = p /\ r.outcome = o
    BY DEF TypeInv, TypeOK, RunType
  <1>2. run' = [run EXCEPT ![w] = r]
    BY DEF Carry, Becomes
  <1> HIDE DEF r
  <1> QED BY <1>1, <1>2 DEF TypeInv, TypeOK, OnlyMoves, SameUnit

LEMMA NextUnitFields ==
  ASSUME TypeInv, NEW w \in Workers, NextUnit(w)
  PROVE  /\ OnlyMoves(w)
         /\ run'[w].job = run[w].job /\ run'[w].idx = run[w].idx + 1
         /\ run'[w].pc = NextPoint(run[w].idx + 1)
  <1> DEFINE r == [run[w] EXCEPT !.idx = run[w].idx + 1, !.pc = NextPoint(run[w].idx + 1)]
  <1>1. r.job = run[w].job /\ r.idx = run[w].idx + 1 /\ r.pc = NextPoint(run[w].idx + 1)
    BY DEF TypeInv, TypeOK, RunType
  <1>2. run' = [run EXCEPT ![w] = r]
    BY DEF NextUnit, Becomes
  <1> HIDE DEF r
  <1> QED BY <1>1, <1>2 DEF TypeInv, TypeOK, OnlyMoves

LEMMA LeaveFields ==
  ASSUME TypeInv, NEW w \in Workers, NEW p \in {"off", "unlocked"}, Leave(w, p)
  PROVE  OnlyMoves(w) /\ run'[w].pc = p
  BY DEF TypeInv, TypeOK, Leave, Becomes, NewRun, OnlyMoves

LEMMA IdleFields ==
  ASSUME TypeInv, NEW w \in Workers, Idle(w)
  PROVE  OnlyMoves(w) /\ run'[w].pc = "idle"
  BY DEF TypeInv, TypeOK, Idle, Becomes, NewRun, OnlyMoves

LEMMA RecordFields ==
  ASSUME TypeInv, NEW w \in Workers, run[w].pc \in InUnit,
         NEW s \in Stored \union Rejected, NEW p, NEW c, RecordUnit(w, s, p, c)
  PROVE  LET k == run[w].job  x == run[w].idx IN
         /\ \A j \in Jobs \ {k} : row'[j] = row[j]
         /\ row'[k].state = row[k].state /\ row'[k].deleted = row[k].deleted /\ row'[k].cancel = row[k].cancel
         /\ row'[k].overrun = IF row[k].cancel THEN row[k].overrun + 1 ELSE row[k].overrun
         /\ row'[k].unit = [row[k].unit EXCEPT ![x] = s] /\ row'[k].checkpoint = p
  <1> DEFINE k == run[w].job
             x == run[w].idx
             n == IF row[k].cancel THEN row[k].overrun + 1 ELSE row[k].overrun
             r == [row[k] EXCEPT !.unit[x] = s, !.checkpoint = p, !.covered = c, !.overrun = n]
  <1>1. k \in Jobs
    BY DEF TypeInv, FitRun, LocalsFit, InUnit, Busy
  <1>2. /\ r.unit = [row[k].unit EXCEPT ![x] = s] /\ r.checkpoint = p /\ r.overrun = n
        /\ r.state = row[k].state /\ r.deleted = row[k].deleted /\ r.cancel = row[k].cancel
    BY <1>1 DEF TypeInv, TypeOK, RowType
  <1>3. row' = [row EXCEPT ![k] = r]
    BY DEF RecordUnit, Mine
  <1> HIDE DEF r
  <1> QED BY <1>1, <1>2, <1>3 DEF TypeInv, TypeOK

LEMMA WorkerShape ==
  ASSUME TypeInv, NEW w \in Workers, Step(w) \/ Boot(w) \/ Failing(w)
  PROVE  Shape(w)
  <1> USE DEF At, Busy, Written
  <1> DEFINE k == run[w].job
             x == run[w].idx
  <1>1. run[w] \in FitRun /\ (run[w].pc \in Busy => k \in Jobs)
    BY DEF TypeInv, FitRun, LocalsFit
  <1>2. ASSUME NEW p \in {"off", "unlocked"}, Leave(w, p), row' = row PROVE OnlyMoves(w) /\ Leaves(w)
    BY <1>2, LeaveFields DEF Leaves
  <1>3. ASSUME SetState(k, "running"), Admits(k, "running"), k \in Jobs PROVE MarksOwn(w)
    BY <1>3, SetStateOnly DEF MarksOwn, Admits, Active
  <1>4. ASSUME row' = row PROVE MarksOwn(w)
    BY <1>4, SameRowOnly DEF MarksOwn
  <1>5. CASE Acquire(w)
    BY <1>5, GotoFields DEF Acquire, Shape, Leaves
  <1>6. CASE Recover(w)
    BY <1>6, GotoFields DEF Recover, Shape, Recovers
  <1>7. CASE Select(w)
    <2>1. PICK j \in Jobs :
            Selected(j) /\ Becomes(w, [run[w] EXCEPT !.job = j, !.idx = ResumeAt(j), !.pc = "selected"])
      BY <1>7 DEF Select
    <2> DEFINE r == [run[w] EXCEPT !.job = j, !.idx = ResumeAt(j), !.pc = "selected"]
    <2>2. r.job = j /\ r.idx = row[j].checkpoint /\ r.pc = "selected"
      BY DEF TypeInv, TypeOK, RunType, ResumeAt
    <2>3. run' = [run EXCEPT ![w] = r]
      BY <2>1 DEF Becomes
    <2> HIDE DEF r
    <2>4. OnlyMoves(w) /\ Takes(w)
      BY <1>7, <2>1, <2>2, <2>3 DEF Select, Takes, OnlyMoves, TypeInv, TypeOK
    <2> QED BY <1>7, <2>4 DEF Select, Shape
  <1>8. CASE Exit(w) \/ CheckLosesLease(w) \/ Crash(w) \/ DropConnection(w)
    BY <1>2, <1>8 DEF Exit, CheckLosesLease, Crash, DropConnection, Shape
  <1>9. CASE Start(w)
    <2>1. CASE Admits(k, "running")
      <3>1. MarksOwn(w)
        BY <1>1, <1>3, <1>9, <2>1 DEF Start
      <3> QED BY <1>9, <2>1, <3>1, GotoFields DEF Start, Shape, Continues, Flow
    <2>2. CASE ~ Admits(k, "running")
      BY <1>2, <1>9, <2>2 DEF Start, Shape
    <2> QED BY <2>1, <2>2
  <1>10. CASE Begin(w)
    <2>1. CASE Goto(w, NextPoint(x))
      BY <1>4, <1>10, <2>1, GotoFields DEF Begin, Shape, Continues, Flow, NextPoint
    <2>2. CASE \E s \in Rejected : Carry(w, [scope |-> "source", state |-> s], "abort")
      BY <1>4, <1>10, <2>2, CarryFields DEF Begin, Shape, Continues, Flow
    <2> QED BY <1>10, <2>1, <2>2 DEF Begin
  <1>11. CASE TakeUnit(w)
    <2> DEFINE r == [run[w] EXCEPT !.tries = 0, !.pc = "fetch"]
    <2>1. ASSUME Becomes(w, r) PROVE OnlyMoves(w) /\ SameUnit(w) /\ run'[w].pc = "fetch"
      <3>1. r.job = k /\ r.idx = x /\ r.pc = "fetch"
        BY DEF TypeInv, TypeOK, RunType
      <3> HIDE DEF r
      <3> QED BY <2>1, <3>1 DEF TypeInv, TypeOK, Becomes, OnlyMoves, SameUnit
    <2>2. OnlyMoves(w) /\ SameUnit(w) /\ run'[w].pc \in {"fetch", "reject"}
      BY <1>11, <2>1, CarryFields DEF TakeUnit, Fails
    <2> QED BY <1>4, <1>11, <2>2 DEF TakeUnit, Passes, Shape, Continues, Flow
  <1>12. CASE FetchOk(w)
    <2>1. MarksOwn(w)
      BY <1>1, <1>3, <1>4, <1>12 DEF FetchOk
    <2>2. OnlyMoves(w) /\ SameUnit(w) /\ run'[w].pc \in {"fetched", "reject"}
      BY <1>12, GotoFields, CarryFields DEF FetchOk, Fails
    <2> QED BY <1>12, <2>1, <2>2 DEF FetchOk, Shape, Continues, Flow
  <1>13. CASE FetchNetworkError(w)
    <2> DEFINE r == [run[w] EXCEPT !.tries = run[w].tries + 1, !.pc = "backoff"]
    <2>1. ASSUME Becomes(w, r) PROVE OnlyMoves(w) /\ SameUnit(w) /\ run'[w].pc = "backoff"
      <3>1. r.job = k /\ r.idx = x /\ r.pc = "backoff"
        BY DEF TypeInv, TypeOK, RunType
      <3> HIDE DEF r
      <3> QED BY <2>1, <3>1 DEF TypeInv, TypeOK, Becomes, OnlyMoves, SameUnit
    <2>2. OnlyMoves(w) /\ SameUnit(w) /\ run'[w].pc \in {"backoff", "reject"}
      BY <1>13, <2>1, CarryFields DEF FetchNetworkError, Fails
    <2>3. MarksOwn(w)
      BY <1>1, <1>4, <1>13, SetStateOnly DEF FetchNetworkError, MarksOwn, Admits, Active
    <2> QED BY <1>13, <2>2, <2>3 DEF FetchNetworkError, Shape, Continues, Flow
  <1>14. CASE FetchFails(w) \/ CommitFails(w)
    BY <1>4, <1>14, CarryFields DEF FetchFails, CommitFails, Fails, Shape, Continues, Flow
  <1>15. CASE Retry(w) \/ CheckFetched(w)
    BY <1>4, <1>15, GotoFields DEF Retry, CheckFetched, Passes, Shape, Continues, Flow
  <1>16. CASE Commit(w)
    <2>1. PICK s \in Stored, c \in {Mine(w).covered \union {x}, Mine(w).covered \ {x}} :
            RecordUnit(w, s, x + 1, c)
      BY <1>16 DEF Commit
    <2>2. run[w].pc \in InUnit /\ SameUnit(w) /\ run'[w].pc = "settle" /\ s \in Stored \union Rejected
      BY <1>16, GotoFields DEF Commit, InUnit
    <2>3. /\ \A j \in Jobs \ {k} : row'[j] = row[j]
          /\ row'[k].state = row[k].state /\ row'[k].deleted = row[k].deleted /\ row'[k].cancel = row[k].cancel
          /\ row'[k].overrun = IF row[k].cancel THEN row[k].overrun + 1 ELSE row[k].overrun
          /\ row'[k].unit = [row[k].unit EXCEPT ![x] = s] /\ row'[k].checkpoint = x + 1
      BY <2>1, <2>2, RecordFields
    <2>4. Records(w)
      BY <1>16, <2>1, <2>2, <2>3 DEF Commit, Records
    <2> QED BY <1>16, <2>4, GotoFields DEF Commit, Shape
  <1>17. CASE Settle(w)
    <2>1. CASE Admits(k, "running")
      <3>1. MarksOwn(w)
        BY <1>1, <1>3, <1>17, <2>1 DEF Settle
      <3> QED BY <1>17, <2>1, <3>1, NextUnitFields DEF Settle, Shape, Advances
    <2>2. CASE ~ Admits(k, "running")
      <3>1. row[k].deleted
        BY <2>2 DEF Admits
      <3> QED BY <1>4, <1>17, <2>2, <3>1, CarryFields DEF Settle, Fails, Shape, Continues, Flow, Mine
    <2> QED BY <2>1, <2>2
  <1>18. CASE Reject(w)
    <2> DEFINE passed == IF run[w].outcome.scope = "source" THEN 0 ELSE x + 1
               old    == Mine(w).checkpoint
               p      == IF passed > old THEN passed ELSE old
               s      == run[w].outcome.state
    <2>1. s \in Rejected /\ RecordUnit(w, s, p, Mine(w).covered) /\ Goto(w, "settleReject")
      BY <1>1, <1>18 DEF Reject, FitRun, LocalsFit
    <2>2. old \in Nat /\ x \in Nat
      BY <1>1, <1>18 DEF Reject, Mine, TypeInv, TypeOK, RowType, FitRun, RunType
    <2>3. p = row[k].checkpoint \/ (p = x + 1 /\ row[k].checkpoint < x + 1)
      BY <2>2 DEF Mine
    <2>4. run[w].pc \in InUnit /\ SameUnit(w) /\ run'[w].pc = "settleReject" /\ s \in Stored \union Rejected
      BY <1>18, <2>1, GotoFields DEF Reject, InUnit
    <2> HIDE DEF p, s
    <2>5. /\ \A j \in Jobs \ {k} : row'[j] = row[j]
          /\ row'[k].state = row[k].state /\ row'[k].deleted = row[k].deleted /\ row'[k].cancel = row[k].cancel
          /\ row'[k].overrun = IF row[k].cancel THEN row[k].overrun + 1 ELSE row[k].overrun
          /\ row'[k].unit = [row[k].unit EXCEPT ![x] = s] /\ row'[k].checkpoint = p
      BY <2>1, <2>4, RecordFields
    <2>6. Records(w)
      BY <1>18, <2>1, <2>3, <2>4, <2>5 DEF Reject, Records
    <2> QED BY <1>18, <2>1, <2>6, GotoFields DEF Reject, Shape
  <1>19. CASE SettleReject(w)
    <2>1. ASSUME NEW d,
                 Becomes(w, [run[w] EXCEPT !.outcome = NoOutcome, !.denied = d,
                               !.idx = run[w].idx + 1, !.pc = NextPoint(run[w].idx + 1)])
          PROVE  OnlyMoves(w) /\ run'[w].job = k /\ run'[w].idx = x + 1 /\ run'[w].pc = NextPoint(x + 1)
      <3> DEFINE r == [run[w] EXCEPT !.outcome = NoOutcome, !.denied = d,
                         !.idx = run[w].idx + 1, !.pc = NextPoint(run[w].idx + 1)]
      <3>1. r.job = k /\ r.idx = x + 1 /\ r.pc = NextPoint(x + 1)
        BY DEF TypeInv, TypeOK, RunType
      <3> HIDE DEF r
      <3> QED BY <2>1, <3>1 DEF r, TypeInv, TypeOK, Becomes, OnlyMoves
    <2>2. CASE ~ Admits(k, "running")
      BY <1>4, <1>19, <2>2, CarryFields DEF SettleReject, Shape, Continues, Flow
    <2>3. CASE Admits(k, "running")
      <3>1. MarksOwn(w)
        BY <1>1, <1>3, <1>19, <2>3 DEF SettleReject
      <3>2. CASE Carry(w, NoOutcome, "result")
        BY <1>19, <3>1, <3>2, CarryFields DEF SettleReject, Shape, Continues, Flow
      <3>3. CASE \E d : Becomes(w, [run[w] EXCEPT !.outcome = NoOutcome, !.denied = d,
                                     !.idx = run[w].idx + 1, !.pc = NextPoint(run[w].idx + 1)])
        BY <1>19, <2>1, <3>1, <3>3 DEF SettleReject, Shape, Advances
      <3> QED BY <1>19, <2>3, <3>2, <3>3 DEF SettleReject
    <2> QED BY <2>2, <2>3
  <1>20. CASE Conclude(w)
    BY <1>4, <1>20, CarryFields DEF Conclude, Shape, Continues, Flow
  <1>21. CASE Finish(w)
    <2> DEFINE s == CASE run[w].pc = "finish" -> run[w].outcome.state
                      [] run[w].pc = "cancel" -> "cancelled"
                      [] run[w].pc = "abort"  -> IF Mine(w).covered # {} THEN "partial"
                                                                        ELSE run[w].outcome.state
    <2>1. s \in Finished /\ (s = "succeeded" => run[w].pc = "finish" /\ run[w].outcome.state = s)
      BY <1>1, <1>21 DEF Finish, FitRun, LocalsFit, Finished, Rejected
    <2>2. OnlyState(k) /\ row'[k].state = s
      BY <1>1, <1>21, SetStateOnly DEF Finish
    <2> HIDE DEF s
    <2> QED BY <1>21, <2>1, <2>2, IdleFields DEF Finish, Shape, Ends
  <1>22. CASE Requeue(w)
    <2>1. CASE Admits(k, "queued")
      <3>1. OnlyState(k) /\ row'[k].state = "queued" /\ ~ row[k].deleted
        BY <1>1, <1>22, <2>1, SetStateOnly DEF Requeue, Admits, Active
      <3> QED BY <1>22, <2>1, <3>1, IdleFields DEF Requeue, Shape, Ends
    <2>2. CASE ~ Admits(k, "queued")
      BY <1>2, <1>22, <2>2 DEF Requeue, Shape
    <2> QED BY <2>1, <2>2
  <1>23. CASE CheckStops(w) \/ CheckCancels(w)
    BY <1>4, <1>23, GotoFields DEF CheckStops, CheckCancels, Checking, Shape, Continues, Flow
  <1>24. CASE Boot(w)
    BY <1>24 DEF Boot, Becomes, NewRun, Shape, Leaves, OnlyMoves, TypeInv, TypeOK
  <1>25. CASE Stop(w) \/ LoseLease(w)
    BY <1>25 DEF Stop, LoseLease, Shape, Rests, SameUnit, OnlyMoves, TypeInv, TypeOK, RunType
  <1> QED
    BY <1>5, <1>6, <1>7, <1>8, <1>9, <1>10, <1>11, <1>12, <1>13, <1>14, <1>15, <1>16, <1>17, <1>18,
       <1>19, <1>20, <1>21, <1>22, <1>23, <1>24, <1>25 DEF Step, Failing

-----------------------------------------------------------------------------
(* One process.  With two of them on one schema the one that has lost its  *)
(* lease goes on until its next check, and none of what follows holds:     *)
(* run job_queue_two_processes.                                            *)

OneProcess == \A v, w \in Workers : v = w

Running(j) == row[j].state \in {"running", "retrying"}

\* The control points before the outcome of the unit in hand is written.
Before == {"selected", "begin", "unit", "fetch", "backoff", "fetched", "commit"}

\* What the process knows of the rows where it stands: no other job is running, none before its own is
\* active; its own has no checkpoint ahead of the unit in hand; a result follows from the units.
AtWork(w) ==
  /\ run[w].pc \in Busy \union {"idle"} => \A j \in Jobs : Running(j) => run[w].pc \in Busy /\ run[w].job = j
  /\ run[w].pc \in Busy =>
       /\ Mine(w).state \in Active \union {"cancelled"}
       /\ \A k \in Jobs : k < run[w].job => row[k].state \notin Active
  /\ run[w].pc \in Before => Mine(w).checkpoint <= run[w].idx
  /\ run[w].pc \in Written \union {"reject"} => Mine(w).checkpoint <= run[w].idx + 1
  /\ run[w].pc = "settleReject" => Mine(w).unit[run[w].idx] \in Rejected
  /\ run[w].pc = "result" => run[w].idx = NumUnits \/ \E i \in Units : Mine(w).unit[i] \in Rejected
  /\ run[w].pc = "finish" /\ run[w].outcome.state = "succeeded" => \A i \in Units : Mine(w).unit[i] = "verified"

\* What the rows hold between two steps: at most one is running, jobs are created in order, a recycled
\* one has ended, a cancellation is of a job there is.
RowsInv ==
  /\ \A j, k \in Jobs : Running(j) /\ Running(k) => j = k
  /\ \A j, k \in Jobs : k < j /\ row[j].state # "absent" => row[k].state # "absent"
  /\ \A j \in Jobs : row[j].deleted => row[j].state \in Finished
  /\ \A j \in Jobs : cancelRead[j] # "none" => row[j].state # "absent"
  /\ SucceededIsVerified

LaneInv == RowsInv /\ \A w \in Workers : AtWork(w)

LEMMA LaneInit == Init => LaneInv
  BY DEF Init, NewRow, NewRun, LaneInv, RowsInv, Running, SucceededIsVerified, AtWork, Busy, Before, Written

\* An execution that goes on, by itself or to the next unit.
LEMMA GoingOnKeepsRows ==
  ASSUME TypeInv, LaneInv, NEW w \in Workers, run[w].pc \in Busy, MarksOwn(w), cancelRead' = cancelRead
  PROVE  /\ RowsInv'
         /\ \A j \in Jobs : Running(j)' => run[w].job = j
         /\ row'[run[w].job].state \in Active \union {"cancelled"}
         /\ \A k \in Jobs : k < run[w].job => row'[k].state \notin Active
  <1> DEFINE m == run[w].job
  <1>1. m \in Jobs /\ AtWork(w) /\ RowsInv
    BY DEF TypeInv, FitRun, LocalsFit, LaneInv
  <1>2. /\ row[m].state \in Active \union {"cancelled"}
        /\ \A j \in Jobs : Running(j) => m = j
        /\ \A k \in Jobs : k < m => row[k].state \notin Active
    BY <1>1 DEF AtWork, Mine
  <1>3. row'[m].state \in Active \union {"cancelled"} /\ \A j \in Jobs \ {m} : row'[j].state = row[j].state
    BY <1>2 DEF MarksOwn, OnlyState, Active
  <1>4. \A j \in Jobs : Running(j)' => m = j
    BY <1>2, <1>3 DEF Running
  <1>5. \A j \in Jobs : row'[j].state # "absent" <=> row[j].state # "absent"
    BY <1>2, <1>3 DEF Active
  <1>6. \A j \in Jobs : row'[j].deleted => row'[j].state \in Finished
    <2>1. ASSUME NEW j \in Jobs, row'[j].deleted PROVE row'[j].state \in Finished
      <3>1. row[j].deleted
        BY <2>1 DEF MarksOwn, OnlyState
      <3>2. row[j].state \in Finished
        BY <1>1, <3>1 DEF RowsInv
      <3>3. row'[j].state = row[j].state
        BY <1>3, <3>1 DEF MarksOwn
      <3> QED BY <3>2, <3>3
    <2> QED BY <2>1
  <1>7. SucceededIsVerified'
    <2>1. ASSUME NEW j \in Jobs, row'[j].state = "succeeded" PROVE \A i \in Units : row'[j].unit[i] = "verified"
      <3>1. j # m
        BY <1>3, <2>1 DEF Active
      <3>2. row[j].state = "succeeded" /\ row'[j].unit = row[j].unit
        BY <1>3, <2>1, <3>1 DEF MarksOwn, OnlyState
      <3> QED BY <1>1, <3>2 DEF RowsInv, SucceededIsVerified
    <2> QED BY <2>1 DEF SucceededIsVerified
  <1>8. \A j \in Jobs : cancelRead'[j] # "none" => row'[j].state # "absent"
    BY <1>1, <1>5 DEF RowsInv
  <1>9. \A j, k \in Jobs : k < j /\ row'[j].state # "absent" => row'[k].state # "absent"
    BY <1>1, <1>5 DEF RowsInv
  <1>10. RowsInv'
    BY <1>4, <1>6, <1>7, <1>8, <1>9 DEF RowsInv, Running
  <1>11. row'[m].state \in Active \union {"cancelled"} /\ \A k \in Jobs : k < m => row'[k].state \notin Active
    BY <1>1, <1>2, <1>3 DEF Jobs
  <1> QED BY <1>4, <1>10, <1>11

LEMMA ContinuesKeeps ==
  ASSUME TypeInv, TypeInv', SkipInv, LaneInv, NEW w \in Workers, Continues(w), cancelRead' = cancelRead
  PROVE  RowsInv' /\ AtWork(w)'
  <1> DEFINE m == run[w].job
             x == run[w].idx
  <1>1. m \in Jobs /\ AtWork(w) /\ m = run'[w].job /\ x = run'[w].idx /\ x \in 0..NumUnits
    BY DEF TypeInv, TypeOK, FitRun, RunType, LocalsFit, LaneInv, Continues, SameUnit
  <1>2. /\ RowsInv'
        /\ \A j \in Jobs : Running(j)' => m = j
        /\ row'[m].state \in Active \union {"cancelled"}
        /\ \A k \in Jobs : k < m => row'[k].state \notin Active
    BY GoingOnKeepsRows DEF Continues
  <1>3. row'[m].unit = row[m].unit /\ row'[m].checkpoint = row[m].checkpoint /\ Mine(w)' = row'[m]
    BY <1>1 DEF Continues, MarksOwn, OnlyState, Mine
  <1>4. row[m].checkpoint \in Nat
    BY <1>1 DEF TypeInv, TypeOK, RowType
  <1>5. /\ run'[w].pc \in Before => Mine(w)'.checkpoint <= x
        /\ run'[w].pc \in Written \union {"reject"} => Mine(w)'.checkpoint <= x + 1
    <2>1. run'[w].pc \in Before => run[w].pc \in Before
      BY DEF Continues, Flow, Before, NextPoint
    <2>2. run'[w].pc \in Written \union {"reject"} => run[w].pc \in Before \union Written
      BY DEF Continues, Flow, Before, Written, NextPoint
    <2> QED BY <1>1, <1>3, <1>4, <2>1, <2>2 DEF AtWork, Mine, Before, Written
  <1>6. run'[w].pc # "settleReject"
    BY DEF Continues, Flow, NextPoint
  <1>7. run'[w].pc = "result" => x = NumUnits \/ \E i \in Units : Mine(w)'.unit[i] \in Rejected
    <2>1. CASE run[w].pc = "begin" /\ run'[w].pc = "result"
      BY <2>1 DEF Continues, Flow, NextPoint
    <2>2. CASE run[w].pc = "settleReject"
      <3>1. x \in Units /\ Mine(w).unit[x] \in Rejected
        BY <1>1, <2>2 DEF AtWork, TypeInv, FitRun, LocalsFit, InUnit
      <3> QED BY <1>3, <3>1 DEF Mine
    <2> QED BY <2>1, <2>2 DEF Continues, Flow
  <1>8. run'[w].pc = "finish" /\ run'[w].outcome.state = "succeeded" => \A i \in Units : Mine(w)'.unit[i] = "verified"
    <2> SUFFICES ASSUME run'[w].pc = "finish", run'[w].outcome.state = "succeeded", NEW i \in Units
                 PROVE  row[m].unit[i] = "verified"
      BY <1>3
    <2> DEFINE outcomes == {row[m].unit[n] : n \in Units} \ {"none"}
    <2>1. run[w].pc = "result" /\ DownloadResult(m) = "succeeded"
      BY DEF Continues, Flow, NextPoint
    <2>2. outcomes \subseteq {"verified"}
      BY <2>1 DEF DownloadResult
    <2>3. x = NumUnits
      BY <1>1, <2>1, <2>2 DEF AtWork, Mine, Rejected
    <2>4. row[m].unit[i] # "none"
      BY <2>1, <2>3, ConstantsAssumption DEF SkipInv, NothingBehind, Recorded, Busy, Units
    <2>5. row[m].unit[i] \in outcomes
      BY <2>4
    <2> QED BY <2>2, <2>5
  <1> QED BY <1>1, <1>2, <1>3, <1>5, <1>6, <1>7, <1>8 DEF AtWork, Continues

LEMMA AdvancesKeeps ==
  ASSUME TypeInv, TypeInv', LaneInv, NEW w \in Workers, Advances(w), cancelRead' = cancelRead
  PROVE  RowsInv' /\ AtWork(w)'
  <1> DEFINE m == run[w].job
             x == run[w].idx
  <1>1. /\ m \in Jobs /\ AtWork(w) /\ m = run'[w].job /\ x + 1 = run'[w].idx
        /\ run[w].pc \in Busy /\ run'[w].pc \in {"unit", "result"}
    BY DEF TypeInv, FitRun, LocalsFit, LaneInv, Advances, Busy, Written, NextPoint
  <1>2. /\ RowsInv'
        /\ \A j \in Jobs : Running(j)' => m = j
        /\ row'[m].state \in Active \union {"cancelled"}
        /\ \A k \in Jobs : k < m => row'[k].state \notin Active
    BY <1>1, GoingOnKeepsRows DEF Advances
  <1>3. row'[m].checkpoint = row[m].checkpoint /\ Mine(w)' = row'[m]
    BY <1>1 DEF Advances, MarksOwn, OnlyState, Mine
  <1>4. Mine(w)'.checkpoint <= x + 1
    BY <1>1, <1>3 DEF AtWork, Mine, Advances
  <1>5. run'[w].pc = "result" => x + 1 = NumUnits
    BY DEF Advances, NextPoint
  <1> QED BY <1>1, <1>2, <1>3, <1>4, <1>5 DEF AtWork, Written, Before, Busy

LEMMA RecordsKeeps ==
  ASSUME TypeInv, LaneInv, NEW w \in Workers, Records(w), cancelRead' = cancelRead
  PROVE  RowsInv' /\ AtWork(w)'
  <1> DEFINE m == run[w].job
             x == run[w].idx
  <1>1. /\ m \in Jobs /\ x \in Units /\ AtWork(w) /\ RowsInv /\ m = run'[w].job /\ x = run'[w].idx
        /\ run[w].pc \in Busy /\ run'[w].pc \in Written /\ Written \subseteq Busy
    BY DEF TypeInv, FitRun, LocalsFit, InUnit, LaneInv, Records, SameUnit, Busy, Written
  <1>2. /\ \A j \in Jobs : row'[j].state = row[j].state /\ row'[j].deleted = row[j].deleted
        /\ Mine(w)' = row'[m]
    BY <1>1 DEF Records, Mine
  <1>3. row[m].state # "succeeded"
    BY <1>1 DEF AtWork, Mine, Active
  <1>4. SucceededIsVerified'
    BY <1>1, <1>2, <1>3 DEF Records, RowsInv, SucceededIsVerified
  <1>5. RowsInv'
    BY <1>1, <1>2, <1>4 DEF RowsInv, Running
  <1>6. x \in Nat /\ row[m].checkpoint \in Nat
    BY <1>1 DEF TypeInv, TypeOK, RowType, Units
  <1>7. Mine(w)'.checkpoint <= x + 1
    <2>1. run[w].pc = "reject" => row[m].checkpoint <= x + 1
      BY <1>1 DEF AtWork, Mine
    <2> QED BY <1>2, <1>6, <2>1 DEF Records
  <1>8. run'[w].pc = "settleReject" => Mine(w)'.unit[x] \in Rejected
    <2>1. x \in DOMAIN row[m].unit
      BY <1>1 DEF TypeInv, TypeOK, RowType
    <2> QED BY <1>2, <2>1 DEF Records
  <1> QED BY <1>1, <1>2, <1>5, <1>7, <1>8 DEF AtWork, Mine, Written, Before, Running

LEMMA TakesKeeps ==
  ASSUME TypeInv, LaneInv, NEW w \in Workers, Takes(w), cancelRead' = cancelRead
  PROVE  RowsInv' /\ AtWork(w)'
  <1>1. PICK j \in Jobs : Selected(j) /\ run'[w].job = j /\ run'[w].idx = row[j].checkpoint
    BY DEF Takes
  <1>2. AtWork(w) /\ RowsInv /\ run[w].pc = "idle" /\ run'[w].pc = "selected" /\ row' = row
    BY DEF LaneInv, Takes
  <1>3. RowsInv'
    BY <1>2 DEF RowsInv, Running, SucceededIsVerified
  <1>4. \A i \in Jobs : ~ Running(i)
    BY <1>2 DEF AtWork, Busy
  <1>5. \A k \in Jobs : k < j => row[k].state \notin Active
    BY <1>1, <1>4 DEF Selected, Running, Active
  <1>6. row[j].checkpoint \in Nat
    BY DEF TypeInv, TypeOK, RowType
  <1> QED BY <1>1, <1>2, <1>3, <1>4, <1>5, <1>6 DEF AtWork, Mine, Selected, Active, Running, Busy, Before, Written

LEMMA EndsKeeps ==
  ASSUME TypeInv, LaneInv, NEW w \in Workers, Ends(w), cancelRead' = cancelRead
  PROVE  RowsInv' /\ AtWork(w)'
  <1> DEFINE m == run[w].job
             s == row'[m].state
  <1>1. m \in Jobs /\ AtWork(w) /\ RowsInv /\ run'[w].pc = "idle" /\ run[w].pc \in Busy
    BY DEF TypeInv, FitRun, LocalsFit, LaneInv, Ends
  <1>2. s \in Finished \union {"queued"} /\ OnlyState(m)
    BY DEF Ends
  <1>3. \A j \in Jobs : ~ Running(j)'
    <2>1. s \notin {"running", "retrying"}
      BY <1>2 DEF Finished
    <2>2. ASSUME NEW j \in Jobs, j # m PROVE row'[j].state \notin {"running", "retrying"}
      BY <1>1, <1>2, <2>2 DEF AtWork, Running, OnlyState
    <2> QED BY <2>1, <2>2 DEF Running
  <1>4. row[m].state # "absent" /\ s # "absent"
    BY <1>1, <1>2 DEF AtWork, Mine, Active, Finished
  <1>5. \A j \in Jobs : row'[j].state # "absent" <=> row[j].state # "absent"
    BY <1>2, <1>4 DEF OnlyState
  <1>6. \A j \in Jobs : row'[j].deleted => row'[j].state \in Finished
    <2>1. row'[m].deleted => s \in Finished
      BY <1>1 DEF Ends, OnlyState, Finished, Active
    <2> QED BY <1>1, <1>2, <2>1 DEF OnlyState, RowsInv
  <1>7. SucceededIsVerified'
    <2>1. s = "succeeded" => \A i \in Units : row'[m].unit[i] = "verified"
      BY <1>1, <1>2 DEF Ends, AtWork, Mine, OnlyState
    <2>2. \A j \in Jobs \ {m} : row'[j].state = row[j].state /\ row'[j].unit = row[j].unit
      BY <1>2 DEF OnlyState
    <2> QED BY <1>1, <2>1, <2>2 DEF RowsInv, SucceededIsVerified
  <1>8. RowsInv'
    BY <1>1, <1>3, <1>5, <1>6, <1>7 DEF RowsInv
  <1> QED BY <1>1, <1>3, <1>8 DEF AtWork, Busy, Before, Written

LEMMA RecoversKeeps ==
  ASSUME TypeInv, LaneInv, NEW w \in Workers, Recovers(w), cancelRead' = cancelRead
  PROVE  RowsInv' /\ AtWork(w)'
  <1>1. AtWork(w) /\ RowsInv /\ run'[w].pc = "idle"
    BY DEF LaneInv, Recovers
  <1>2. ASSUME NEW j \in Jobs
        PROVE  /\ row'[j].unit = row[j].unit /\ row'[j].deleted = row[j].deleted
               /\ IF Running(j) THEN row'[j].state \in {"queued", "cancelled"} ELSE row'[j].state = row[j].state
    BY DEF Recovers, Recover, LeftBehind, Running, TypeInv, TypeOK, RowType
  <1>3. \A j \in Jobs : ~ Running(j)'
    BY <1>2 DEF Running
  <1>4. \A j \in Jobs : row'[j].state # "absent" <=> row[j].state # "absent"
    BY <1>2 DEF Running
  <1>5. \A j \in Jobs : row'[j].deleted => row'[j].state \in Finished
    BY <1>1, <1>2 DEF RowsInv, Running, Finished
  <1>6. SucceededIsVerified'
    BY <1>1, <1>2 DEF RowsInv, SucceededIsVerified
  <1>7. RowsInv'
    BY <1>1, <1>3, <1>4, <1>5, <1>6 DEF RowsInv
  <1> QED BY <1>1, <1>3, <1>7 DEF AtWork, Busy, Before, Written

LEMMA QuietKeeps ==
  ASSUME LaneInv, NEW w \in Workers, Leaves(w) \/ Rests(w), cancelRead' = cancelRead
  PROVE  RowsInv' /\ AtWork(w)'
  <1>1. RowsInv /\ AtWork(w) /\ row' = row
    BY DEF LaneInv, Leaves, Rests
  <1>2. RowsInv'
    BY <1>1 DEF RowsInv, Running, SucceededIsVerified
  <1>3. AtWork(w)'
    BY <1>1 DEF Leaves, Rests, SameUnit, AtWork, Mine, Busy, Before, Written, Running
  <1> QED BY <1>2, <1>3

\* The console writes the row of one job: it creates it, cancels it or moves it to the recycle bin and back.
LEMMA ConsoleKeeps ==
  ASSUME TypeInv, LaneInv, NEW j \in Jobs, Console(j)
  PROVE  LaneInv'
  <1>1. RowsInv /\ run' = run /\ \A w \in Workers : AtWork(w)
    BY DEF LaneInv, Console, Submit, ReadForCancel, WriteCancel, Recycle
  <1>2. /\ \A k \in Jobs : row'[k].unit = row[k].unit /\ row'[k].checkpoint = row[k].checkpoint
        /\ \A k \in Jobs \ {j} : row'[k] = row[k] /\ (cancelRead'[k] # "none" => row[k].state # "absent")
        /\ row[j].state # "absent" => row'[j].state \in {row[j].state, "cancelled"}
        /\ row[j].state = "absent" => /\ row'[j].state = "queued"
                                      /\ \A k \in Jobs : k < j => row[k].state # "absent"
        /\ row'[j].deleted => row'[j].state \in Finished
    <2>1. CASE Submit(j)
      BY <1>1, <2>1 DEF Submit, SetState, RowsInv, Finished, TypeInv, TypeOK, RowType
    <2>2. CASE ReadForCancel(j)
      BY <1>1, <2>2 DEF ReadForCancel, RowsInv, Active, TypeInv, TypeOK
    <2>3. CASE WriteCancel(j)
      <3> DEFINE r == [row[j] EXCEPT !.cancel = TRUE,
                                     !.state = IF cancelRead[j] = "queued" THEN "cancelled" ELSE @]
      <3>1. /\ r.unit = row[j].unit /\ r.checkpoint = row[j].checkpoint /\ r.deleted = row[j].deleted
            /\ r.state \in {row[j].state, "cancelled"}
        BY DEF TypeInv, TypeOK, RowType
      <3>2. row' = [row EXCEPT ![j] = r]
        BY <2>3 DEF WriteCancel, TypeInv, TypeOK, RowType
      <3> HIDE DEF r
      <3>3. row'[j] = r /\ \A k \in Jobs \ {j} : row'[k] = row[k] /\ cancelRead'[k] = cancelRead[k]
        BY <2>3, <3>2 DEF WriteCancel, TypeInv, TypeOK
      <3> QED BY <1>1, <2>3, <3>1, <3>3 DEF WriteCancel, RowsInv, Finished
    <2>4. CASE Recycle(j)
      BY <1>1, <2>4 DEF Recycle, RowsInv, Finished, TypeInv, TypeOK, RowType
    <2> QED BY <2>1, <2>2, <2>3, <2>4 DEF Console
  <1>3. \A k \in Jobs : Running(k)' => Running(k)
    BY <1>2 DEF Running
  <1>4. cancelRead'[j] # "none" => row'[j].state # "absent"
    <2>1. CASE ReadForCancel(j)
      BY <2>1 DEF ReadForCancel, Active
    <2>2. CASE ~ ReadForCancel(j)
      BY <1>1, <1>2, <2>2 DEF Console, Submit, WriteCancel, Recycle, RowsInv, TypeInv, TypeOK
    <2> QED BY <2>1, <2>2
  <1>5. SucceededIsVerified'
    BY <1>1, <1>2 DEF RowsInv, SucceededIsVerified
  <1>6. \A i, k \in Jobs : k < i /\ row'[i].state # "absent" => row'[k].state # "absent"
    BY <1>1, <1>2 DEF RowsInv, Jobs
  <1>7. RowsInv'
    BY <1>1, <1>2, <1>3, <1>4, <1>5, <1>6 DEF RowsInv
  <1>8. ASSUME NEW w \in Workers PROVE AtWork(w)'
    <2>1. AtWork(w) /\ run'[w] = run[w] /\ (run[w].pc \in Busy => run[w].job \in Jobs)
      BY <1>1 DEF TypeInv, FitRun, LocalsFit
    <2>2. ASSUME run[w].pc \in Busy
          PROVE  /\ row'[run[w].job].state \in Active \union {"cancelled"}
                 /\ \A k \in Jobs : k < run[w].job => row'[k].state \notin Active
      <3>1. row[run[w].job].state \in Active \union {"cancelled"}
        BY <2>1, <2>2 DEF AtWork, Mine
      <3>2. row[run[w].job].state # "absent" /\ run[w].job \in Jobs
        BY <2>1, <2>2, <3>1 DEF Active
      <3>3. ASSUME NEW k \in Jobs, k < run[w].job PROVE row'[k].state \notin Active
        <4>1. row[k].state \notin Active /\ row[k].state # "absent"
          BY <1>1, <2>1, <2>2, <3>2, <3>3 DEF AtWork, RowsInv
        <4> QED BY <1>2, <4>1 DEF Active
      <3> QED BY <1>2, <3>1, <3>2, <3>3
    <2>3. run[w].pc \in Busy => Mine(w)'.unit = Mine(w).unit /\ Mine(w)'.checkpoint = Mine(w).checkpoint
      BY <1>2, <2>1 DEF Mine
    <2>4. \A k \in Jobs : row'[k].state \in {"running", "retrying"} => Running(k)
      BY <1>3 DEF Running
    <2> QED BY <2>1, <2>2, <2>3, <2>4 DEF AtWork, Mine, Running, Busy, Before, Written
  <1> QED BY <1>7, <1>8 DEF LaneInv

LEMMA LaneStep ==
  ASSUME OneProcess
  PROVE  TypeInv /\ TypeInv' /\ SkipInv /\ LaneInv /\ [Next]_vars => LaneInv'
  <1> SUFFICES ASSUME TypeInv, TypeInv', SkipInv, LaneInv, [Next]_vars PROVE LaneInv'
    OBVIOUS
  <1>1. ASSUME NEW w \in Workers, Step(w) \/ Boot(w) \/ Failing(w) PROVE LaneInv'
    <2>1. Shape(w)
      BY <1>1, WorkerShape
    <2>2. RowsInv' /\ AtWork(w)'
      BY <2>1, ContinuesKeeps, AdvancesKeeps, RecordsKeeps, TakesKeeps, EndsKeeps, RecoversKeeps, QuietKeeps
         DEF Shape
    <2>3. \A v \in Workers : v = w
      BY DEF OneProcess
    <2> QED BY <2>2, <2>3 DEF LaneInv
  <1>2. CASE UNCHANGED vars
    BY <1>2 DEF vars, LaneInv, RowsInv, Running, SucceededIsVerified, AtWork, Mine
  <1> QED BY <1>1, <1>2, ConsoleKeeps DEF Next

\* A job the lane reports as succeeded has every unit stored and verified, over stops, lost leases,
\* recoveries and cancellations: download_result looks only at the units that have a row, and the
\* execution that asks it has none missing (tasks.py execute, process_parts, download_result).
THEOREM SuccessIsVerified ==
  ASSUME OneProcess
  PROVE  Spec => []SucceededIsVerified
  <1>1. Init => TypeInv /\ SkipInv /\ LaneInv
    BY TypeInit, SkipInit, LaneInit
  <1>2. (TypeInv /\ SkipInv /\ LaneInv) /\ [Next]_vars => (TypeInv /\ SkipInv /\ LaneInv)'
    BY TypeStep, SkipStep, LaneStep
  <1>3. LaneInv => SucceededIsVerified
    BY DEF LaneInv, RowsInv
  <1> QED BY <1>1, <1>2, <1>3, PTL DEF Spec

\* Past the recovery no job is left running without an executor (tasks.py recover_jobs, run_queue).
THEOREM NothingOrphaned ==
  ASSUME OneProcess
  PROVE  Spec => []NoOrphan
  <1>1. Init => TypeInv /\ SkipInv /\ LaneInv
    BY TypeInit, SkipInit, LaneInit
  <1>2. (TypeInv /\ SkipInv /\ LaneInv) /\ [Next]_vars => (TypeInv /\ SkipInv /\ LaneInv)'
    BY TypeStep, SkipStep, LaneStep
  <1>3. LaneInv => NoOrphan
    BY DEF LaneInv, AtWork, NoOrphan, Executing, Running
  <1> QED BY <1>1, <1>2, <1>3, PTL DEF Spec

\* While a job is executed no older one is waiting or running, over stops, requeues and recoveries
\* (storage.py the ORDER BY of the poll, tasks.py recover_jobs).
THEOREM ExecutedOldestFirst ==
  ASSUME OneProcess
  PROVE  Spec => []OldestFirst
  <1>1. Init => TypeInv /\ SkipInv /\ LaneInv
    BY TypeInit, SkipInit, LaneInit
  <1>2. (TypeInv /\ SkipInv /\ LaneInv) /\ [Next]_vars => (TypeInv /\ SkipInv /\ LaneInv)'
    BY TypeStep, SkipStep, LaneStep
  <1>3. LaneInv => OldestFirst
    BY DEF LaneInv, AtWork, OldestFirst, Executing
  <1> QED BY <1>1, <1>2, <1>3, PTL DEF Spec

\* Write_coverage assigns the checkpoint instead of raising it; no other job's step touches it.
LEMMA CheckpointStep ==
  ASSUME TypeInv, LaneInv, [Next]_vars
  PROVE  \A j \in Jobs : row'[j].checkpoint >= row[j].checkpoint
  <1>1. \A j \in Jobs : row[j].checkpoint \in Nat
    BY DEF TypeInv, TypeOK, RowType
  <1>2. ASSUME NEW w \in Workers, Step(w) \/ Boot(w) \/ Failing(w), NEW j \in Jobs
        PROVE  row'[j].checkpoint >= row[j].checkpoint
    <2>1. Shape(w)
      BY <1>2, WorkerShape
    <2>2. CASE Records(w)
      <3>1. run[w].job \in Jobs /\ run[w].idx \in Nat
        BY <2>2 DEF Records, TypeInv, FitRun, LocalsFit, Busy, InUnit, Units
      <3>2. run[w].pc = "commit" => row[run[w].job].checkpoint <= run[w].idx
        BY DEF LaneInv, AtWork, Before, Mine
      <3>3. row'[run[w].job].checkpoint >= row[run[w].job].checkpoint
        BY <1>1, <2>2, <3>1, <3>2 DEF Records
      <3> QED BY <1>1, <2>2, <3>3 DEF Records
    <2>3. CASE Continues(w) \/ Advances(w) \/ Ends(w)
      BY <1>1, <2>3 DEF Continues, Advances, MarksOwn, Ends, OnlyState
    <2>4. CASE Takes(w) \/ Leaves(w) \/ Rests(w)
      BY <1>1, <2>4 DEF Takes, Leaves, Rests
    <2>5. CASE Recovers(w)
      BY <1>1, <2>5 DEF Recovers, Recover, TypeInv, TypeOK, RowType
    <2> QED BY <2>1, <2>2, <2>3, <2>4, <2>5 DEF Shape
  <1>3. ASSUME NEW j \in Jobs, Console(j), NEW k \in Jobs
        PROVE  row'[k].checkpoint >= row[k].checkpoint
    BY <1>1, <1>3, ConsoleRecordsNothing DEF RecordsNothing
  <1> QED BY <1>1, <1>2, <1>3 DEF Next, vars

\* A checkpoint never moves back, although each stored unit assigns it anew
\* (storage.py write_coverage; tasks.py resumes at the checkpoint).
THEOREM CheckpointNeverBack ==
  ASSUME OneProcess
  PROVE  Spec => CheckpointMonotone
  <1>1. Init => TypeInv /\ SkipInv /\ LaneInv
    BY TypeInit, SkipInit, LaneInit
  <1>2. (TypeInv /\ SkipInv /\ LaneInv) /\ [Next]_vars => (TypeInv /\ SkipInv /\ LaneInv)'
    BY TypeStep, SkipStep, LaneStep
  <1>3. TypeInv /\ LaneInv /\ [Next]_vars => [\A j \in Jobs : row'[j].checkpoint >= row[j].checkpoint]_vars
    BY CheckpointStep
  <1> QED BY <1>1, <1>2, <1>3, PTL DEF Spec, CheckpointMonotone

-----------------------------------------------------------------------------
(* Without the recycle bin: a recycled row refuses the update after the    *)
(* unit was stored, and the unit is then recorded a second time.           *)

OnceRows ==
  \A j \in Jobs :
    /\ ~ row[j].deleted
    /\ \A i \in Units : row[j].unit[i] \in Stored => i < row[j].checkpoint
    /\ row[j].overrun <= 1 /\ (row[j].overrun = 1 => row[j].cancel)

\* The unit in hand has not been written yet, and nothing has after a cancellation.
Unwritten(w) ==
  /\ run[w].pc = "reject" => Mine(w).checkpoint <= run[w].idx
  /\ run[w].pc \in {"fetch", "fetched", "backoff", "commit", "reject"} => Mine(w).overrun = 0

OnceInv == OnceRows /\ \A w \in Workers : Unwritten(w)

LEMMA OnceInit == Init => OnceInv
  BY DEF Init, NewRow, NewRun, OnceInv, OnceRows, Unwritten, Stored

\* The lane's steps that record no unit.
LEMMA OrdinaryOnce ==
  ASSUME TypeInv, TypeInv', LaneInv, OnceInv, NEW w \in Workers, Shape(w), ~ Records(w)
  PROVE  OnceRows' /\ Unwritten(w)'
  <1>1. \A j \in Jobs : /\ row'[j].unit = row[j].unit /\ row'[j].checkpoint = row[j].checkpoint
                        /\ row'[j].deleted = row[j].deleted /\ row'[j].cancel = row[j].cancel
                        /\ row'[j].overrun = row[j].overrun
    <2>1. CASE Continues(w) \/ Advances(w) \/ Ends(w)
      BY <2>1 DEF Continues, Advances, MarksOwn, Ends, OnlyState
    <2>2. CASE Takes(w) \/ Leaves(w) \/ Rests(w)
      BY <2>2 DEF Takes, Leaves, Rests
    <2>3. CASE Recovers(w)
      BY <2>3 DEF Recovers, Recover, TypeInv, TypeOK, RowType
    <2> QED BY <2>1, <2>2, <2>3 DEF Shape
  <1>2. OnceRows'
    BY <1>1 DEF OnceInv, OnceRows
  <1>3. Unwritten(w) /\ AtWork(w) /\ (run[w].pc \in Busy => run[w].job \in Jobs)
    BY DEF OnceInv, LaneInv, TypeInv, FitRun, LocalsFit
  <1>4. \A j \in Jobs : row[j].overrun \in Nat
    BY DEF TypeInv, TypeOK, RowType
  <1>5. Unwritten(w)'
    <2>1. CASE Continues(w)
      <3>1. /\ run'[w].job = run[w].job /\ run'[w].idx = run[w].idx /\ run[w].job \in Jobs
            /\ ~ row[run[w].job].deleted /\ (row[run[w].job].overrun = 1 => row[run[w].job].cancel)
            /\ row[run[w].job].overrun \in {0, 1}
        BY <1>3, <1>4, <2>1 DEF Continues, SameUnit, OnceInv, OnceRows
      <3>2. run'[w].pc = "reject" => row[run[w].job].checkpoint <= run[w].idx
        BY <1>3, <2>1, <3>1 DEF Continues, Flow, AtWork, Before, Mine, NextPoint
      <3>3. run'[w].pc \in {"fetch", "fetched", "backoff", "commit", "reject"} => row[run[w].job].overrun = 0
        BY <1>3, <2>1, <3>1 DEF Continues, Flow, Unwritten, Mine, NextPoint
      <3> QED BY <1>1, <3>1, <3>2, <3>3 DEF Unwritten, Mine
    <2>2. CASE Advances(w) \/ Takes(w) \/ Leaves(w) \/ Ends(w) \/ Recovers(w)
      BY <2>2 DEF Advances, NextPoint, Takes, Leaves, Ends, Recovers, Unwritten
    <2>3. CASE Rests(w)
      BY <1>3, <2>3 DEF Rests, SameUnit, Unwritten, Mine
    <2> QED BY <2>1, <2>2, <2>3 DEF Shape
  <1> QED BY <1>2, <1>5

\* Recording: the unit was not stored, and it is the first one after a cancellation.
LEMMA RecordsOnce ==
  ASSUME TypeInv, LaneInv, OnceInv, NEW w \in Workers, Records(w)
  PROVE  /\ OnceRows' /\ Unwritten(w)'
         /\ \A j \in Jobs, i \in Units : row[j].unit[i] \in Stored => row'[j].unit[i] = row[j].unit[i]
  <1> DEFINE m == run[w].job
             x == run[w].idx
  <1>1. m \in Jobs /\ x \in Units /\ x \in Nat /\ AtWork(w) /\ Unwritten(w)
    BY DEF TypeInv, FitRun, LocalsFit, InUnit, LaneInv, OnceInv, Records, Busy, Units
  <1>2. \A j \in Jobs : row[j].checkpoint \in Nat
    BY DEF TypeInv, TypeOK, RowType
  <1>3. row[m].checkpoint <= x /\ row[m].overrun = 0
    BY <1>1 DEF Records, AtWork, Before, Unwritten, Mine
  <1>4. row[m].unit[x] \notin Stored
    BY <1>1, <1>2, <1>3 DEF OnceInv, OnceRows
  <1>5. PICK s \in Stored \union Rejected :
          /\ row'[m].unit = [row[m].unit EXCEPT ![x] = s]
          /\ row'[m].checkpoint \in {row[m].checkpoint, x + 1}
          /\ s \in Stored => row'[m].checkpoint = x + 1
    BY DEF Records, Stored, Rejected
  <1>6. \A i \in Units : row'[m].unit[i] = IF i = x THEN s ELSE row[m].unit[i]
    BY <1>1, <1>5 DEF TypeInv, TypeOK, RowType
  <1>7. ASSUME NEW i \in Units, row'[m].unit[i] \in Stored PROVE i < row'[m].checkpoint
    <2>1. CASE i = x
      BY <1>1, <1>5, <1>6, <1>7, <2>1
    <2>2. CASE i # x
      <3>1. i < row[m].checkpoint /\ i \in Int
        BY <1>1, <1>6, <1>7, <2>2 DEF OnceInv, OnceRows, Units
      <3> QED BY <1>1, <1>2, <1>3, <1>5, <3>1
    <2> QED BY <2>1, <2>2
  <1>8. row'[m].overrun <= 1 /\ (row'[m].overrun = 1 => row'[m].cancel) /\ ~ row'[m].deleted
    BY <1>1, <1>3 DEF Records, OnceInv, OnceRows
  <1>9. \A j \in Jobs \ {m} : row'[j] = row[j]
    BY DEF Records
  <1>10. OnceRows'
    BY <1>7, <1>8, <1>9 DEF OnceInv, OnceRows
  <1>11. Unwritten(w)'
    BY DEF Records, Unwritten
  <1> QED BY <1>4, <1>6, <1>9, <1>10, <1>11

LEMMA ConsoleOnce ==
  ASSUME TypeInv, OnceInv, Recyclable = {}, NEW j \in Jobs, Console(j)
  PROVE  OnceInv'
  <1>1. \A k \in Jobs : /\ row'[k].unit = row[k].unit /\ row'[k].checkpoint = row[k].checkpoint
                        /\ row'[k].deleted = row[k].deleted /\ (row[k].cancel => row'[k].cancel)
                        /\ row'[k].overrun = row[k].overrun
    <2>1. CASE Submit(j)
      BY <2>1, SetStateOnly DEF Submit, OnlyState
    <2>2. CASE ReadForCancel(j)
      BY <2>2 DEF ReadForCancel
    <2>3. CASE WriteCancel(j)
      BY <2>3 DEF WriteCancel, TypeInv, TypeOK, RowType
    <2> QED BY <2>1, <2>2, <2>3 DEF Console, Recycle
  <1>2. run' = run /\ \A w \in Workers : run[w].pc \in Busy => run[w].job \in Jobs
    BY DEF TypeInv, FitRun, LocalsFit, Console, Submit, ReadForCancel, WriteCancel, Recycle
  <1>3. OnceRows'
    BY <1>1 DEF OnceInv, OnceRows
  <1>4. ASSUME NEW w \in Workers PROVE Unwritten(w)'
    BY <1>1, <1>2 DEF OnceInv, Unwritten, Mine, Busy
  <1> QED BY <1>3, <1>4 DEF OnceInv

LEMMA OnceStep ==
  ASSUME OneProcess, Recyclable = {}
  PROVE  TypeInv /\ TypeInv' /\ LaneInv /\ OnceInv /\ [Next]_vars => OnceInv'
  <1> SUFFICES ASSUME TypeInv, TypeInv', LaneInv, OnceInv, [Next]_vars PROVE OnceInv'
    OBVIOUS
  <1>1. ASSUME NEW w \in Workers, Step(w) \/ Boot(w) \/ Failing(w) PROVE OnceInv'
    <2>1. OnceRows' /\ Unwritten(w)'
      BY <1>1, WorkerShape, OrdinaryOnce, RecordsOnce
    <2>2. \A v \in Workers : v = w
      BY DEF OneProcess
    <2> QED BY <2>1, <2>2 DEF OnceInv
  <1>2. CASE UNCHANGED vars
    BY <1>2 DEF vars, OnceInv, OnceRows, Unwritten, Mine
  <1> QED BY <1>1, <1>2, ConsoleOnce DEF Next

\* After a cancellation is on the row at most one unit is still written, over retries, recoveries and
\* restarts (tasks.py check, process_parts; service.py cancel_job).
THEOREM CancelBounded ==
  ASSUME OneProcess, Recyclable = {}
  PROVE  Spec => []CancelWithinOneUnit
  <1>1. Init => TypeInv /\ SkipInv /\ LaneInv /\ OnceInv
    BY TypeInit, SkipInit, LaneInit, OnceInit
  <1>2. (TypeInv /\ SkipInv /\ LaneInv /\ OnceInv) /\ [Next]_vars => (TypeInv /\ SkipInv /\ LaneInv /\ OnceInv)'
    BY TypeStep, SkipStep, LaneStep, OnceStep
  <1>3. OnceInv => CancelWithinOneUnit
    BY DEF OnceInv, OnceRows, CancelWithinOneUnit
  <1> QED BY <1>1, <1>2, <1>3, PTL DEF Spec

LEMMA StoredStays ==
  ASSUME TypeInv, TypeInv', LaneInv, OnceInv, [Next]_vars
  PROVE  \A j \in Jobs, i \in Units : row[j].unit[i] \in Stored => row'[j].unit[i] = row[j].unit[i]
  <1>1. ASSUME NEW w \in Workers, Commit(w) \/ Reject(w)
        PROVE  \A j \in Jobs, i \in Units : row[j].unit[i] \in Stored => row'[j].unit[i] = row[j].unit[i]
    <2>1. Shape(w)
      BY <1>1, WorkerShape DEF Step
    <2>2. CASE Records(w)
      BY <2>2, RecordsOnce
    <2>3. CASE Continues(w) \/ Advances(w) \/ Ends(w)
      BY <2>3 DEF Continues, Advances, MarksOwn, Ends, OnlyState
    <2>4. CASE Takes(w) \/ Leaves(w) \/ Rests(w)
      BY <2>4 DEF Takes, Leaves, Rests
    <2>5. CASE Recovers(w)
      BY <2>5 DEF Recovers, Recover, TypeInv, TypeOK, RowType
    <2> QED BY <2>1, <2>2, <2>3, <2>4, <2>5 DEF Shape
  <1>2. ASSUME RecordsNothing
        PROVE  \A j \in Jobs, i \in Units : row[j].unit[i] \in Stored => row'[j].unit[i] = row[j].unit[i]
    BY <1>2 DEF RecordsNothing
  <1>3. ASSUME NEW w \in Workers, Step(w) \/ Boot(w) \/ Failing(w), ~ Commit(w), ~ Reject(w)
        PROVE  RecordsNothing
    BY <1>3, OrdinaryStep
  <1> QED BY <1>1, <1>2, <1>3, ConsoleRecordsNothing, SameRowRecordsNothing DEF Next, vars

\* A stored unit is never written again by any later execution of its job: the checkpoint is past it
\* (tasks.py process_parts starts at the checkpoint; storage.py write_coverage).
THEOREM StoredOnce ==
  ASSUME OneProcess, Recyclable = {}
  PROVE  Spec => StoredUnitIsFinal
  <1>1. Init => TypeInv /\ SkipInv /\ LaneInv /\ OnceInv
    BY TypeInit, SkipInit, LaneInit, OnceInit
  <1>2. (TypeInv /\ SkipInv /\ LaneInv /\ OnceInv) /\ [Next]_vars => (TypeInv /\ SkipInv /\ LaneInv /\ OnceInv)'
    BY TypeStep, SkipStep, LaneStep, OnceStep
  <1>3. TypeInv /\ TypeInv' /\ LaneInv /\ OnceInv /\ [Next]_vars =>
          [\A j \in Jobs, i \in Units : row[j].unit[i] \in Stored => row'[j].unit[i] = row[j].unit[i]]_vars
    BY StoredStays
  <1> QED BY <1>1, <1>2, <1>3, PTL DEF Spec, StoredUnitIsFinal

-----------------------------------------------------------------------------
(* The lane implements JobLedger: every step of it closes, settles, creates *)
(* or overrules at most one job, or changes nothing the ledger shows.      *)

PhaseOf(j)   == IF row[j].state \in Active \/ Executing(j) THEN "open" ELSE row[j].state
SettledOf(j) == {i \in Units : row[j].unit[i] # "none"}

\* What may happen to the phase of one job.
MovesPhase(j) ==
  \/ PhaseOf(j)' = PhaseOf(j)
  \/ PhaseOf(j) = "absent" /\ PhaseOf(j)' = "open"
  \/ /\ PhaseOf(j) = "open" /\ PhaseOf(j)' \in Finished
     /\ PhaseOf(j)' = "succeeded" => SettledOf(j) = Units
  \/ PhaseOf(j) \in Finished /\ PhaseOf(j)' = "cancelled"

LEMMA LedgerInit == Init => Ledger!Init
  <1> SUFFICES ASSUME Init PROVE Ledger!Init
    OBVIOUS
  <1>1. \A j \in Jobs : row[j].state = "absent" /\ \A i \in Units : row[j].unit[i] = "none"
    BY DEF Init, NewRow
  <1>2. \A j \in Jobs : ~ Executing(j)
    BY DEF Init, NewRun, Executing, Busy
  <1> QED BY <1>1, <1>2 DEF Ledger!Init, Ledger!Jobs, Jobs, Active

LEMMA UpdateAtOne ==
  ASSUME NEW A, NEW F, NEW G, NEW a \in A,
         F = [x \in A |-> F[x]], G = [x \in A |-> G[x]], \A x \in A \ {a} : G[x] = F[x]
  PROVE  G = [F EXCEPT ![a] = G[a]]
  OBVIOUS

LEMMA LedgerPhase ==
  ASSUME NEW j \in Jobs, MovesPhase(j),
         \A k \in Jobs \ {j} : PhaseOf(k)' = PhaseOf(k),
         \A k \in Jobs : SettledOf(k)' = SettledOf(k)
  PROVE  [Ledger!Next]_(Ledger!vars)
  <1> DEFINE P == [k \in Jobs |-> IF row[k].state \in Active \/ Executing(k) THEN "open" ELSE row[k].state]
             Q == [k \in Jobs |-> {i \in Units : row[k].unit[i] # "none"}]
  <1>1. Q' = Q
    BY DEF SettledOf
  <1>2. ASSUME NEW k \in Jobs PROVE P[k] = PhaseOf(k) /\ P'[k] = PhaseOf(k)'
    BY DEF PhaseOf, Executing
  <1>3. P = [k \in Jobs |-> P[k]] /\ P' = [k \in Jobs |-> P'[k]]
    OBVIOUS
  <1>4. \A k \in Jobs \ {j} : P'[k] = P[k]
    BY <1>2 DEF PhaseOf, Executing
  <1>5. Q[j] = SettledOf(j)
    BY DEF SettledOf
  <1>6. /\ Ledger!vars = <<P, Q>> /\ Ledger!vars' = <<P', Q'>>
        /\ Ledger!Submit(j) <=> P[j] = "absent" /\ P' = [P EXCEPT ![j] = "open"] /\ Q' = Q
        /\ \A r : Ledger!Close(j, r) <=> /\ P[j] = "open" /\ (r = "succeeded" => Q[j] = Ledger!Units)
                                        /\ P' = [P EXCEPT ![j] = r] /\ Q' = Q
        /\ Ledger!Overrule(j) <=> /\ P[j] \in Ledger!Closed
                                  /\ P' = [P EXCEPT ![j] = "cancelled"] /\ Q' = Q
    BY Zenon DEF Ledger!vars, Ledger!Submit, Ledger!Close, Ledger!Overrule
  <1>7. Ledger!Jobs = Jobs /\ Ledger!Units = Units /\ Ledger!Closed = Finished
    BY DEF Ledger!Jobs, Ledger!Units, Ledger!Closed, Jobs, Units, Finished
  <1> HIDE DEF P, Q
  <1>8. P' = [P EXCEPT ![j] = P'[j]]
    BY <1>3, <1>4, UpdateAtOne
  <1>9. CASE PhaseOf(j)' = PhaseOf(j)
    BY <1>1, <1>2, <1>3, <1>4, <1>6, <1>9
  <1>10. CASE PhaseOf(j) = "absent" /\ PhaseOf(j)' = "open"
    BY <1>1, <1>2, <1>6, <1>7, <1>8, <1>10 DEF Ledger!Next
  <1>11. CASE /\ PhaseOf(j) = "open" /\ PhaseOf(j)' \in Finished
              /\ PhaseOf(j)' = "succeeded" => SettledOf(j) = Units
    BY <1>1, <1>2, <1>5, <1>6, <1>7, <1>8, <1>11 DEF Ledger!Next
  <1>12. CASE PhaseOf(j) \in Finished /\ PhaseOf(j)' = "cancelled"
    BY <1>1, <1>2, <1>6, <1>7, <1>8, <1>12 DEF Ledger!Next
  <1> QED BY <1>9, <1>10, <1>11, <1>12 DEF MovesPhase

LEMMA LedgerSettle ==
  ASSUME NEW j \in Jobs, NEW x \in Units, PhaseOf(j) = "open",
         \A i \in Units : i < x => i \in SettledOf(j),
         SettledOf(j)' = SettledOf(j) \union {x},
         \A k \in Jobs \ {j} : SettledOf(k)' = SettledOf(k),
         \A k \in Jobs : PhaseOf(k)' = PhaseOf(k)
  PROVE  [Ledger!Next]_(Ledger!vars)
  <1> DEFINE P == [k \in Jobs |-> IF row[k].state \in Active \/ Executing(k) THEN "open" ELSE row[k].state]
             Q == [k \in Jobs |-> {i \in Units : row[k].unit[i] # "none"}]
  <1>1. P' = P
    BY DEF PhaseOf, Executing
  <1>2. ASSUME NEW k \in Jobs PROVE Q[k] = SettledOf(k) /\ Q'[k] = SettledOf(k)'
    BY DEF SettledOf
  <1>3. Q = [k \in Jobs |-> Q[k]] /\ Q' = [k \in Jobs |-> Q'[k]]
    OBVIOUS
  <1>4. \A k \in Jobs \ {j} : Q'[k] = Q[k]
    BY <1>2 DEF SettledOf
  <1>5. P[j] = PhaseOf(j)
    BY DEF PhaseOf
  <1>6. Ledger!Settle(j, x) <=> /\ P[j] = "open" /\ (\A k \in Ledger!Units : k < x => k \in Q[j])
                               /\ Q' = [Q EXCEPT ![j] = Q[j] \union {x}] /\ P' = P
    BY DEF Ledger!Settle
  <1>7. Ledger!Jobs = Jobs /\ Ledger!Units = Units
    BY DEF Ledger!Jobs, Ledger!Units, Jobs, Units
  <1> HIDE DEF P, Q
  <1>8. Q' = [Q EXCEPT ![j] = Q'[j]]
    BY <1>3, <1>4, UpdateAtOne
  <1>9. Q'[j] = Q[j] \union {x} /\ \A k \in Units : k < x => k \in Q[j]
    BY <1>2
  <1> QED BY <1>1, <1>5, <1>6, <1>7, <1>8, <1>9 DEF Ledger!Next

\* While no execution and no state changes, neither does a phase.
LEMMA SamePhase ==
  ASSUME NEW k \in Jobs, row'[k].state = row[k].state, Executing(k)' <=> Executing(k)
  PROVE  PhaseOf(k)' = PhaseOf(k)
  BY DEF PhaseOf

LEMMA SameSettled ==
  ASSUME NEW k \in Jobs, row'[k].unit = row[k].unit
  PROVE  SettledOf(k)' = SettledOf(k)
  BY DEF SettledOf

LEMMA ExecutingIs ==
  ASSUME OneProcess, NEW w \in Workers, NEW k
  PROVE  /\ Executing(k) <=> run[w].pc \in Busy /\ run[w].job = k
         /\ Executing(k)' <=> run'[w].pc \in Busy /\ run'[w].job = k
  BY DEF OneProcess, Executing

LEMMA LedgerWorker ==
  ASSUME OneProcess, TypeInv, SkipInv, LaneInv, NEW w \in Workers, Shape(w)
  PROVE  [Ledger!Next]_(Ledger!vars)
  <1> DEFINE m == run[w].job
             x == run[w].idx
  <1>1. /\ AtWork(w) /\ RowsInv /\ NothingBehind(w)
        /\ run[w].pc \in Busy => m \in Jobs
        /\ run[w].pc \in {"commit", "reject"} => x \in Units
    BY DEF LaneInv, SkipInv, TypeInv, FitRun, LocalsFit, InUnit
  <1>2. \A k \in Jobs : /\ Executing(k) <=> run[w].pc \in Busy /\ m = k
                        /\ Executing(k)' <=> run'[w].pc \in Busy /\ run'[w].job = k
    BY ExecutingIs
  <1>3. CASE Continues(w) \/ Advances(w)
    <2>1. /\ m \in Jobs /\ run[w].pc \in Busy /\ run'[w].pc \in Busy /\ run'[w].job = m
          /\ OnlyState(m) /\ row'[m].state \in {row[m].state, "running", "retrying"}
      BY <1>1, <1>3 DEF Continues, Advances, SameUnit, MarksOwn, Written, Busy, NextPoint
    <2>2. ASSUME NEW k \in Jobs PROVE SettledOf(k)' = SettledOf(k)
      BY <2>1, SameSettled DEF OnlyState
    <2>3. ASSUME NEW k \in Jobs \ {m} PROVE PhaseOf(k)' = PhaseOf(k)
      <3>1. row'[k].state = row[k].state /\ (Executing(k)' <=> Executing(k))
        BY <1>2, <2>1 DEF OnlyState
      <3> QED BY <3>1, SamePhase
    <2>4. PhaseOf(m) = "open" /\ PhaseOf(m)' = "open"
      BY <1>2, <2>1 DEF PhaseOf
    <2>5. MovesPhase(m)
      BY <2>4 DEF MovesPhase
    <2> HIDE DEF m
    <2> QED BY <2>1, <2>2, <2>3, <2>5, LedgerPhase
  <1>4. CASE Records(w)
    <2>1. PICK j \in Jobs, i \in Units : j = m /\ i = x
      BY <1>1, <1>4 DEF Records, Busy
    <2>2. /\ run[w].pc \in Busy /\ run'[w].pc \in Busy /\ run'[w].job = j
          /\ \A k \in Jobs : row'[k].state = row[k].state
          /\ \A k \in Jobs \ {j} : row'[k] = row[k]
      BY <1>1, <1>4, <2>1 DEF Records, SameUnit, Busy
    <2>3. ASSUME NEW k \in Jobs PROVE PhaseOf(k)' = PhaseOf(k)
      BY <1>2, <2>1, <2>2, SamePhase
    <2>4. ASSUME NEW k \in Jobs \ {j} PROVE SettledOf(k)' = SettledOf(k)
      BY <2>2, SameSettled
    <2>5. SettledOf(j)' = SettledOf(j) \union {i}
      <3>1. PICK s \in Stored \union Rejected : row'[j].unit = [row[j].unit EXCEPT ![i] = s]
        BY <1>4, <2>1 DEF Records
      <3>2. s # "none"
        BY DEF Stored, Rejected
      <3>3. \A n \in Units : row'[j].unit[n] = IF n = i THEN s ELSE row[j].unit[n]
        BY <2>1, <3>1 DEF TypeInv, TypeOK, RowType
      <3> QED BY <2>1, <3>2, <3>3 DEF SettledOf
    <2>6. \A n \in Units : n < i => n \in SettledOf(j)
      BY <1>1, <1>4, <2>1, <2>2 DEF NothingBehind, Recorded, SettledOf, Records
    <2>7. PhaseOf(j) = "open"
      BY <1>2, <2>1, <2>2 DEF PhaseOf
    <2> QED BY <2>3, <2>4, <2>5, <2>6, <2>7, LedgerSettle
  <1>5. ASSUME row' = row, NEW j \in Jobs,
               \A k \in Jobs \ {j} : Executing(k)' <=> Executing(k),
               MovesPhase(j)
        PROVE  [Ledger!Next]_(Ledger!vars)
    <2>1. ASSUME NEW k \in Jobs PROVE SettledOf(k)' = SettledOf(k)
      BY <1>5, SameSettled
    <2>2. ASSUME NEW k \in Jobs \ {j} PROVE PhaseOf(k)' = PhaseOf(k)
      BY <1>5, SamePhase
    <2> QED BY <1>5, <2>1, <2>2, LedgerPhase
  <1>6. CASE Takes(w)
    <2>1. PICK j \in Jobs : Selected(j) /\ run'[w].job = j
      BY <1>6 DEF Takes
    <2>2. PhaseOf(j) = "open" /\ PhaseOf(j)' = "open"
      BY <1>6, <2>1 DEF Takes, Selected, PhaseOf, Active
    <2>3. \A k \in Jobs \ {j} : Executing(k)' <=> Executing(k)
      BY <1>2, <1>6, <2>1 DEF Takes, Busy
    <2>4. MovesPhase(j)
      BY <2>2 DEF MovesPhase
    <2> QED BY <1>5, <1>6, <2>3, <2>4 DEF Takes
  <1>7. CASE Leaves(w) \/ Rests(w)
    <2>1. row' = row
      BY <1>7 DEF Leaves, Rests
    <2>2. CASE \A k \in Jobs : Executing(k)' <=> Executing(k)
      <3>1. ASSUME NEW j \in Jobs PROVE [Ledger!Next]_(Ledger!vars)
        <4>1. PhaseOf(j)' = PhaseOf(j)
          BY <2>1, <2>2, SamePhase
        <4> QED BY <1>5, <2>1, <2>2, <4>1 DEF MovesPhase
      <3>2. CASE Jobs = {}
        BY <2>1, <3>2 DEF Ledger!vars
      <3> QED BY <3>1, <3>2
    <2>3. CASE run[w].pc \in Busy /\ Leaves(w)
      <3>1. PICK j \in Jobs : j = m
        BY <1>1, <2>3
      <3>2. \A k \in Jobs : ~ Executing(k)'
        BY <1>2, <2>3 DEF Leaves, Busy
      <3>3. PhaseOf(j) = "open" /\ row[j].state \in Active \union {"cancelled"}
        BY <1>1, <1>2, <2>3, <3>1 DEF PhaseOf, AtWork, Mine
      <3>4. PhaseOf(j)' \in {"open", "cancelled"}
        BY <2>1, <3>2, <3>3 DEF PhaseOf
      <3>5. MovesPhase(j)
        BY <3>3, <3>4 DEF MovesPhase, Finished
      <3>6. \A k \in Jobs \ {j} : Executing(k)' <=> Executing(k)
        BY <1>2, <2>3, <3>1, <3>2
      <3> QED BY <1>5, <2>1, <3>5, <3>6
    <2>4. CASE run[w].pc \notin Busy \/ Rests(w)
      <3>1. \A k \in Jobs : Executing(k)' <=> Executing(k)
        BY <1>2, <1>7, <2>4 DEF Leaves, Rests, SameUnit, Busy
      <3> QED BY <2>2, <3>1
    <2> QED BY <1>7, <2>3, <2>4
  <1>8. CASE Ends(w)
    <2>1. PICK j \in Jobs : j = m
      BY <1>1, <1>8 DEF Ends
    <2>2. /\ run[w].pc \in Busy /\ OnlyState(j) /\ (\A k \in Jobs : ~ Executing(k)')
          /\ row'[j].state \in Finished \union {"queued"}
          /\ row'[j].state = "succeeded" => \A i \in Units : row[j].unit[i] = "verified"
      BY <1>1, <1>2, <1>8, <2>1 DEF Ends, AtWork, Mine, Busy
    <2>3. ASSUME NEW k \in Jobs PROVE SettledOf(k)' = SettledOf(k)
      BY <2>2, SameSettled DEF OnlyState
    <2>4. ASSUME NEW k \in Jobs \ {j} PROVE PhaseOf(k)' = PhaseOf(k)
      <3>1. row'[k].state = row[k].state /\ (Executing(k)' <=> Executing(k))
        BY <1>2, <2>1, <2>2 DEF OnlyState
      <3> QED BY <3>1, SamePhase
    <2>5. PhaseOf(j) = "open"
      BY <1>2, <2>1, <2>2 DEF PhaseOf
    <2>6. PhaseOf(j)' = IF row'[j].state = "queued" THEN "open" ELSE row'[j].state
      BY <2>2 DEF PhaseOf, Active, Finished
    <2>7. row'[j].state = "succeeded" => SettledOf(j) = Units
      BY <2>2 DEF SettledOf
    <2>8. MovesPhase(j)
      BY <2>2, <2>5, <2>6, <2>7 DEF MovesPhase
    <2> QED BY <2>3, <2>4, <2>8, LedgerPhase
  <1>9. CASE Recovers(w)
    <2>1. ASSUME NEW k \in Jobs
          PROVE  /\ row'[k].unit = row[k].unit
                 /\ IF Running(k) THEN row'[k].state \in {"queued", "cancelled"} ELSE row'[k].state = row[k].state
      BY <1>9 DEF Recovers, Recover, LeftBehind, Running, TypeInv, TypeOK, RowType
    <2>2. \A k \in Jobs : ~ Executing(k) /\ ~ Executing(k)'
      BY <1>2, <1>9 DEF Recovers, Busy
    <2>3. ASSUME NEW k \in Jobs PROVE SettledOf(k)' = SettledOf(k)
      BY <2>1, SameSettled
    <2>4. ASSUME NEW k \in Jobs, ~ Running(k) PROVE PhaseOf(k)' = PhaseOf(k)
      BY <2>1, <2>2, <2>4, SamePhase
    <2>5. ASSUME NEW j \in Jobs, Running(j) PROVE [Ledger!Next]_(Ledger!vars)
      <3>1. PhaseOf(j) = "open" /\ PhaseOf(j)' \in {"open", "cancelled"}
        BY <2>1, <2>2, <2>5 DEF PhaseOf, Running, Active
      <3>2. MovesPhase(j)
        BY <3>1 DEF MovesPhase, Finished
      <3>3. \A k \in Jobs \ {j} : ~ Running(k)
        BY <1>1, <2>5 DEF RowsInv
      <3>4. ASSUME NEW k \in Jobs \ {j} PROVE PhaseOf(k)' = PhaseOf(k)
        BY <2>4, <3>3
      <3> QED BY <2>3, <3>2, <3>4, LedgerPhase
    <2>6. CASE \A j \in Jobs : ~ Running(j)
      <3>1. row' = row
        BY <1>9, <2>6 DEF Recovers, Recover, LeftBehind, Running, TypeInv, TypeOK
      <3>2. ASSUME NEW j \in Jobs PROVE [Ledger!Next]_(Ledger!vars)
        <4>1. PhaseOf(j)' = PhaseOf(j)
          BY <2>4, <2>6
        <4> QED BY <1>5, <2>2, <3>1, <4>1 DEF MovesPhase
      <3>3. CASE Jobs = {}
        BY <3>1, <3>3 DEF Ledger!vars
      <3> QED BY <3>2, <3>3
    <2> QED BY <2>5, <2>6
  <1> QED BY <1>3, <1>4, <1>6, <1>7, <1>8, <1>9 DEF Shape

LEMMA LedgerConsole ==
  ASSUME TypeInv, LaneInv, NEW j \in Jobs, Console(j)
  PROVE  [Ledger!Next]_(Ledger!vars)
  <1>1. RowsInv /\ run' = run
    BY DEF LaneInv, Console, Submit, ReadForCancel, WriteCancel, Recycle
  <1>2. \A k \in Jobs : Executing(k)' <=> Executing(k)
    BY <1>1 DEF Executing
  <1>3. ASSUME NEW k \in Jobs PROVE SettledOf(k)' = SettledOf(k)
    BY SameSettled, ConsoleRecordsNothing DEF RecordsNothing
  <1>4. \A k \in Jobs \ {j} : row'[k] = row[k]
    BY DEF Console, Submit, SetState, ReadForCancel, WriteCancel, Recycle, TypeInv, TypeOK
  <1>5. ASSUME NEW k \in Jobs \ {j} PROVE PhaseOf(k)' = PhaseOf(k)
    BY <1>2, <1>4, SamePhase
  <1>6. MovesPhase(j)
    <2>1. CASE Submit(j)
      <3>1. row[j].state = "absent" /\ row'[j].state = "queued"
        BY <2>1, SetStateOnly DEF Submit
      <3>2. ~ Executing(j)
        BY <3>1 DEF LaneInv, AtWork, Mine, Executing, Active
      <3> QED BY <3>1, <3>2 DEF MovesPhase, PhaseOf, Active
    <2>2. CASE ReadForCancel(j) \/ Recycle(j)
      <3>1. row'[j].state = row[j].state
        BY <2>2 DEF ReadForCancel, Recycle, TypeInv, TypeOK, RowType
      <3> QED BY <1>2, <3>1, SamePhase DEF MovesPhase
    <2>3. CASE WriteCancel(j)
      <3>1. row[j].state # "absent" /\ row'[j].state \in {row[j].state, "cancelled"}
        BY <1>1, <2>3 DEF WriteCancel, RowsInv, TypeInv, TypeOK, RowType
      <3>2. row[j].state \in Active \union Finished
        BY <3>1 DEF TypeInv, TypeOK, RowType, States
      <3>3. CASE Executing(j) \/ row'[j].state = row[j].state
        BY <1>2, <3>3, SamePhase DEF MovesPhase, PhaseOf
      <3>4. CASE ~ Executing(j) /\ row'[j].state = "cancelled"
        BY <1>2, <3>2, <3>4 DEF MovesPhase, PhaseOf, Active, Finished
      <3> QED BY <3>1, <3>3, <3>4
    <2> QED BY <2>1, <2>2, <2>3 DEF Console
  <1> QED BY <1>3, <1>5, <1>6, LedgerPhase

\* The lane keeps the promise of JobLedger: a job closes once, succeeded only with all its outcomes, its
\* outcomes come in order while it is open, and nothing reopens it (tasks.py Worker; storage.py).
THEOREM LaneKeepsLedger ==
  ASSUME OneProcess
  PROVE  Spec => LedgerKept
  <1>1. Init => TypeInv /\ SkipInv /\ LaneInv
    BY TypeInit, SkipInit, LaneInit
  <1>2. (TypeInv /\ SkipInv /\ LaneInv) /\ [Next]_vars => (TypeInv /\ SkipInv /\ LaneInv)'
    BY TypeStep, SkipStep, LaneStep
  <1>3. TypeInv /\ SkipInv /\ LaneInv /\ [Next]_vars => [Ledger!Next]_(Ledger!vars)
    <2> SUFFICES ASSUME TypeInv, SkipInv, LaneInv, [Next]_vars PROVE [Ledger!Next]_(Ledger!vars)
      OBVIOUS
    <2>1. ASSUME NEW w \in Workers, Step(w) \/ Boot(w) \/ Failing(w) PROVE [Ledger!Next]_(Ledger!vars)
      BY <2>1, WorkerShape, LedgerWorker
    <2>2. CASE UNCHANGED vars
      BY <2>2 DEF vars, Ledger!vars, Executing
    <2> QED BY <2>1, <2>2, LedgerConsole DEF Next
  <1> QED BY <1>1, <1>2, <1>3, LedgerInit, PTL DEF Spec, LedgerKept, Ledger!Spec

=============================================================================
