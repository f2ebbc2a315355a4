----------------------- MODULE ServiceLifecycleProofs -----------------------
(***************************************************************************)
(* Proofs about ServiceLifecycle: while a form replaces the database, the  *)
(* workers it has joined have no lane left that could go on, and those it  *)
(* has not are told to stop; so that no lane has a job when the database   *)
(* is replaced, nor is one handed over to the threads that are started.    *)
(***************************************************************************)
EXTENDS ServiceLifecycle, TLAPS

LaneStates == {"idle", "ended"} \union Databases

LanesTyped ==
  /\ lane = [w \in Workers |-> lane[w]]
  /\ \A w \in Workers : lane[w] \in [Lanes(w) -> LaneStates]

\* Whose lanes the form has seen to have ended, at each of its steps.
Ended(w) == \A l \in Lanes(w) : lane[w][l] = "ended"

FormTyped ==
  /\ form.at \in {"none", "testing", "exchange", "tushare", "qmt", "saving"}
  /\ form.at \in {"testing", "exchange", "tushare", "qmt"} => form.to \in Databases
  /\ form.to \in Databases \union {"none"}
  /\ form = [at |-> form.at, to |-> form.to]

Replacing == form.to # "none" /\ form.at \in {"exchange", "tushare", "qmt", "saving"}

Joined ==
  Replacing =>
    /\ \A w \in Workers : stop[w]
    /\ form.at \in {"tushare", "qmt", "saving"} => Ended("exchange")
    /\ form.at \in {"qmt", "saving"} => Ended("tushare")
    /\ form.at = "saving" => Ended("qmt")

LifeInv ==
  /\ LanesTyped /\ FormTyped /\ Joined
  /\ stop \in [Workers -> BOOLEAN]
  /\ dsn \in Databases /\ file.dsn \in Databases
  /\ file = [dsn |-> file.dsn, account |-> file.account, read |-> file.read]
  /\ \A w \in Workers : \A l \in Lanes(w) : lane[w][l] \in Databases => lane[w][l] = dsn
  /\ left = {}

(* Services start with every lane idle and no form. *)
LEMMA LifeStarts == LifeInit => LifeInv
BY LifeAssumption DEF LifeInit, LifeInv, LanesTyped, LaneStates, FormTyped, Joined, Replacing, Started, NoForm, Lanes

(* A lane of a typed set of lanes changes alone. *)
LEMMA LaneChanges ==
  ASSUME LanesTyped, NEW w \in Workers, NEW l \in Lanes(w), NEW state \in LaneStates,
         lane' = [lane EXCEPT ![w][l] = state]
  PROVE  /\ LanesTyped'
         /\ lane'[w][l] = state
         /\ \A v \in Workers : \A k \in Lanes(v) : <<v, k>> # <<w, l>> => lane'[v][k] = lane[v][k]
<1>1. lane' = [v \in Workers |-> IF v = w THEN [lane[w] EXCEPT ![l] = state] ELSE lane[v]]
  BY DEF LanesTyped
<1>2. lane'[w] = [lane[w] EXCEPT ![l] = state] /\ \A v \in Workers \ {w} : lane'[v] = lane[v]
  BY <1>1
<1>3. lane[w] \in [Lanes(w) -> LaneStates] /\ DOMAIN lane[w] = Lanes(w)
  BY DEF LanesTyped
<1>4. lane'[w] \in [Lanes(w) -> LaneStates] /\ lane'[w][l] = state
      /\ \A k \in Lanes(w) \ {l} : lane'[w][k] = lane[w][k]
  BY <1>2, <1>3
<1>5. lane' = [v \in Workers |-> lane'[v]]
  BY <1>1
<1>6. \A v \in Workers : lane'[v] \in [Lanes(v) -> LaneStates]
  BY <1>2, <1>4 DEF LanesTyped
<1>7. LanesTyped'
  BY <1>5, <1>6 DEF LanesTyped, LaneStates, Lanes
<1>8. \A v \in Workers : \A k \in Lanes(v) : <<v, k>> # <<w, l>> => lane'[v][k] = lane[v][k]
  BY <1>2, <1>4
<1> QED BY <1>4, <1>7, <1>8

(* No lane is at work when every worker has been joined. *)
LEMMA NothingAtWork ==
  ASSUME LifeInv, form.at = "saving", form.to # "none"
  PROVE  Databases \intersect UNION {{lane[w][l] : l \in Lanes(w)} : w \in Workers} = {}
BY LifeAssumption DEF LifeInv, Joined, Replacing, Ended, Workers

(* What the lanes do: an ended one stays so, and only one that is not told to stop takes a job. *)
LEMMA LanesKeep ==
  ASSUME LifeInv, NEW w \in Workers, NEW l \in Lanes(w),
         TakesJob(w, l) \/ JobEnds(w, l) \/ LaneEnds(w, l)
  PROVE  LifeInv'
<1>1. UNCHANGED <<form, stop, dsn, file, left>>
  BY DEF TakesJob, JobEnds, LaneEnds
<1>2. PICK state \in LaneStates :
        /\ lane' = [lane EXCEPT ![w][l] = state]
        /\ state \in Databases => state = dsn /\ ~stop[w]
        /\ lane[w][l] = "ended" => state = "ended"
  <2>1. CASE TakesJob(w, l) BY <2>1, LifeAssumption DEF TakesJob, LaneStates, LifeInv
  <2>2. CASE JobEnds(w, l) BY <2>2, LifeAssumption DEF JobEnds, LaneStates
  <2>3. CASE LaneEnds(w, l) BY <2>3, LifeAssumption DEF LaneEnds, LaneStates
  <2> QED BY <2>1, <2>2, <2>3
<1>3. /\ LanesTyped'
      /\ lane'[w][l] = state
      /\ \A v \in Workers : \A k \in Lanes(v) : <<v, k>> # <<w, l>> => lane'[v][k] = lane[v][k]
  BY <1>2, LaneChanges DEF LifeInv
<1>4. \A v \in Workers : Ended(v) => Ended(v)'
  BY <1>2, <1>3 DEF Ended, Lanes
<1>5. FormTyped' /\ Joined'
  BY <1>1, <1>4 DEF LifeInv, FormTyped, Joined, Replacing, Workers
<1>6. \A v \in Workers : \A k \in Lanes(v) : lane'[v][k] \in Databases => lane'[v][k] = dsn
  BY <1>2, <1>3 DEF LifeInv
<1>7. (\A v \in Workers : \A k \in Lanes(v) : lane[v][k] \in Databases => lane[v][k] = dsn)'
  BY <1>1, <1>6 DEF Lanes
<1> QED BY <1>1, <1>3, <1>5, <1>7 DEF LifeInv

(* A worker is only taken to have ended when none of its lanes goes on. *)
LEMMA JoinKeeps ==
  ASSUME LifeInv, NEW w \in Workers, Join(w)
  PROVE  LifeInv'
<1>1. UNCHANGED <<lane, stop, dsn, file, left>>
  BY DEF Join
<1>2. CASE ~Alive(w) /\ form' = [form EXCEPT !.at = After(w)]
  <2>1. Ended(w) BY <1>2 DEF Alive, Ended
  <2>2. form.at = w /\ form.to \in Databases /\ form.to # "none" BY LifeAssumption DEF Join, LifeInv, FormTyped, Workers
  <2>3. form' = [at |-> After(w), to |-> form.to] BY <1>2 DEF LifeInv, FormTyped
  <2>4. FormTyped' BY <2>2, <2>3 DEF FormTyped, After, Workers
  <2>5. Joined' BY <1>1, <2>1, <2>2, <2>3 DEF LifeInv, Joined, Replacing, Ended, After, Workers
  <2> QED BY <1>1, <2>4, <2>5 DEF LifeInv, LanesTyped
<1>3. CASE Answered("later")
  <2>1. FormTyped' /\ Joined' BY <1>3 DEF Answered, NoForm, FormTyped, Joined, Replacing
  <2> QED BY <1>1, <2>1 DEF LifeInv, LanesTyped
<1> QED BY <1>2, <1>3 DEF Join

(* Workers that are started have idle lanes. *)
LEMMA StartedWell ==
  ASSUME stop' = [w \in Workers |-> FALSE], lane' = Started
  PROVE  /\ LanesTyped'
         /\ stop' \in [Workers -> BOOLEAN]
         /\ \A w \in Workers : \A l \in Lanes(w) : lane'[w][l] \notin Databases
BY LifeAssumption DEF Started, LanesTyped, LaneStates, Lanes

(* Whatever a form comes to. *)
LEMMA FormKeeps ==
  ASSUME LifeInv, (\E to \in Databases \union {"none"} : Ask(to)) \/ AskAgain \/ Test \/ Save \/ SaveFails
  PROVE  LifeInv'
<1>1. CASE \E to \in Databases \union {"none"} : Ask(to)
  <2>1. UNCHANGED <<lane, stop, dsn, file, left>> BY <1>1 DEF Ask
  <2>2. FormTyped' /\ Joined' BY <1>1 DEF Ask, FormTyped, Joined, Replacing
  <2> QED BY <2>1, <2>2 DEF LifeInv, LanesTyped
<1>2. CASE AskAgain
  <2>1. UNCHANGED <<lane, stop, dsn, file, left>> BY <1>2 DEF AskAgain
  <2>2. FormTyped' /\ Joined' BY <1>2 DEF AskAgain, FormTyped, Joined, Replacing
  <2> QED BY <2>1, <2>2 DEF LifeInv, LanesTyped
<1>3. CASE Test
  <2>1. UNCHANGED <<lane, dsn, file, left>> BY <1>3 DEF Test
  <2>2. CASE stop' = [w \in Workers |-> TRUE] /\ form' = [form EXCEPT !.at = "exchange"]
    <3>1. form' = [at |-> "exchange", to |-> form.to] /\ form.to \in Databases
      BY <1>3, <2>2 DEF Test, LifeInv, FormTyped
    <3>2. FormTyped' BY <3>1 DEF FormTyped
    <3>3. \A w \in Workers : stop'[w] BY <2>2
    <3>4. Joined' BY <3>1, <3>3 DEF Joined, Replacing
    <3> QED BY <2>1, <2>2, <3>2, <3>4 DEF LifeInv, LanesTyped
  <2>3. CASE Answered("unreachable") /\ UNCHANGED stop
    <3>1. FormTyped' /\ Joined' BY <2>3 DEF Answered, NoForm, FormTyped, Joined, Replacing
    <3> QED BY <2>1, <2>3, <3>1 DEF LifeInv, LanesTyped
  <2> QED BY <1>3, <2>2, <2>3 DEF Test
<1>4. CASE Save
  <2>1. FormTyped' /\ Joined' BY <1>4 DEF Save, Answered, NoForm, FormTyped, Joined, Replacing
  <2>2. CASE form.to = "none"
    BY <1>4, <2>1, <2>2 DEF Save, LifeInv, LanesTyped
  <2>3. CASE form.to # "none"
    <3>1. left' = {} BY <1>4, <2>3, NothingAtWork DEF Save, Restarted, LifeInv
    <3>2. stop' = [w \in Workers |-> FALSE] /\ lane' = Started BY <1>4, <2>3 DEF Save, Restarted
    <3>3. dsn' \in Databases /\ file' = [file EXCEPT !.dsn = dsn'] BY <1>4, <2>3 DEF Save, LifeInv, FormTyped
    <3>4. file'.dsn \in Databases /\ file' = [dsn |-> file'.dsn, account |-> file'.account, read |-> file'.read]
      BY <3>3 DEF LifeInv
    <3>5. (\A w \in Workers : \A l \in Lanes(w) : lane[w][l] \in Databases => lane[w][l] = dsn)'
      BY <3>2, StartedWell DEF Lanes
    <3> QED BY <2>1, <3>1, <3>2, <3>3, <3>4, <3>5, StartedWell DEF LifeInv
  <2> QED BY <2>2, <2>3
<1>5. CASE SaveFails
  <2>1. FormTyped' /\ Joined' BY <1>5 DEF SaveFails, Answered, NoForm, FormTyped, Joined, Replacing
  <2>2. CASE form.to = "none"
    BY <1>5, <2>1, <2>2 DEF SaveFails, LifeInv, LanesTyped
  <2>3. CASE form.to # "none"
    <3>1. left' = {} BY <1>5, <2>3, NothingAtWork DEF SaveFails, RestartedAsBefore, Restarted, LifeInv
    <3>2. stop' = [w \in Workers |-> FALSE] /\ lane' = Started BY <1>5, <2>3 DEF SaveFails, RestartedAsBefore, Restarted
    <3>3. UNCHANGED <<dsn, file>> BY <1>5 DEF SaveFails
    <3>5. (\A w \in Workers : \A l \in Lanes(w) : lane[w][l] \in Databases => lane[w][l] = dsn)'
      BY <3>2, StartedWell DEF Lanes
    <3> QED BY <2>1, <3>1, <3>2, <3>3, <3>5, StartedWell DEF LifeInv
  <2> QED BY <2>2, <2>3
<1> QED BY <1>1, <1>2, <1>3, <1>4, <1>5

(* The file edited by hand, and the process restarted from it. *)
LEMMA OutsideKeeps ==
  ASSUME LifeInv, EditedByHand \/ ProcessRestarts
  PROVE  LifeInv'
<1>1. CASE EditedByHand
  <2>1. UNCHANGED <<lane, stop, dsn, form, left>> BY <1>1 DEF EditedByHand
  <2>2. file'.dsn \in Databases /\ file' = [dsn |-> file'.dsn, account |-> file'.account, read |-> file'.read]
    BY <1>1 DEF EditedByHand, LifeInv
  <2> QED BY <2>1, <2>2 DEF LifeInv, LanesTyped, FormTyped, Joined, Replacing, Ended
<1>2. CASE ProcessRestarts
  <2>1. left' = {} /\ dsn' = file.dsn /\ form' = NoForm /\ file' = [file EXCEPT !.read = TRUE]
        /\ stop' = [w \in Workers |-> FALSE] /\ lane' = Started
    BY <1>2 DEF ProcessRestarts
  <2>2. FormTyped' /\ Joined' BY <2>1 DEF NoForm, FormTyped, Joined, Replacing
  <2>3. file'.dsn \in Databases /\ file' = [dsn |-> file'.dsn, account |-> file'.account, read |-> file'.read]
    BY <2>1 DEF LifeInv
  <2>4. (\A w \in Workers : \A l \in Lanes(w) : lane[w][l] \in Databases => lane[w][l] = dsn)'
    BY <2>1, StartedWell DEF Lanes
  <2> QED BY <2>1, <2>2, <2>3, <2>4, StartedWell DEF LifeInv
<1> QED BY <1>1, <1>2

(* Accounts have nothing to do with it. *)
LEMMA AccountsKeep ==
  ASSUME LifeInv, (\E new \in Accounts \union {"none"} : SaveAccount(new)) \/ Probe \/ ProbeEnds
  PROVE  LifeInv'
<1>1. UNCHANGED <<lane, stop, dsn, form, left>> BY DEF SaveAccount, Probe, ProbeEnds
<1>2. file'.dsn \in Databases /\ file' = [dsn |-> file'.dsn, account |-> file'.account, read |-> file'.read]
  BY DEF SaveAccount, Probe, ProbeEnds, LifeInv
<1> QED BY <1>1, <1>2 DEF LifeInv, LanesTyped, FormTyped, Joined, Replacing, Ended

LEMMA LifeStep == LifeInv /\ [LifeNext]_lifeVars => LifeInv'
<1> SUFFICES ASSUME LifeInv, [LifeNext]_lifeVars PROVE LifeInv' OBVIOUS
<1>1. CASE UNCHANGED lifeVars
  BY <1>1 DEF lifeVars, LifeInv, LanesTyped, FormTyped, Joined, Replacing, Ended
<1>2. CASE LifeNext
  BY <1>2, LanesKeep, JoinKeeps, FormKeeps, OutsideKeeps, AccountsKeep DEF LifeNext
<1> QED BY <1>1, <1>2

(* No lane goes on with a job of one database when the store is connected to
   another: whatever forms are sent, time out, fail or are refused, and
   however many workers, lanes and databases there are. *)
THEOREM JobsStay == LifeSpec => []JobsStayInTheirDatabase
<1>1. LifeInv => JobsStayInTheirDatabase BY DEF LifeInv, JobsStayInTheirDatabase
<1> QED BY <1>1, LifeStarts, LifeStep, PTL DEF LifeSpec

(* The permissions of an account are those of its present configuration: a
   test in flight is only believed if the account is still the one it read. *)
THEOREM CapabilityStays == LifeSpec => []CapabilityOfAccount
<1>1. LifeInit => CapabilityOfAccount BY DEF LifeInit, CapabilityOfAccount
<1>2. CapabilityOfAccount /\ [LifeNext]_lifeVars => CapabilityOfAccount'
  BY DEF CapabilityOfAccount, LifeNext, lifeVars, TakesJob, JobEnds, LaneEnds, Join, Ask, AskAgain, Test, Save, SaveFails,
         EditedByHand, ProcessRestarts, SaveAccount, Probe, ProbeEnds, SameAccount
<1> QED BY <1>1, <1>2, PTL DEF LifeSpec
=============================================================================
