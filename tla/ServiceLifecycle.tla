-------------------------- MODULE ServiceLifecycle --------------------------
(***************************************************************************)
(* A change of settings while the service runs (service.py): a new         *)
(* database is only taken up when every thread of the workers of the old   *)
(* one has ended, and an account's permissions are the ones of its present *)
(* configuration, though they are tested without a lock.                   *)
(*                                                                         *)
(* Requests that change settings hold configuration_lock; one that was     *)
(* filled in from an older revision changes nothing and is left out.       *)
(***************************************************************************)
EXTENDS Naturals

CONSTANTS
  Databases,
  SideLanes,   \* worker -> lanes besides its download lane
  Accounts,    \* configurations an account may have (endpoint, token)
  MaxAsks, MaxEdits, MaxFaults  \* bounds: forms sent, edits of config.toml by hand, timeouts and failed tests

ASSUME LifeAssumption == {"idle", "ended", "none"} \intersect Databases = {}

Workers == {"exchange", "tushare", "qmt"}
Lanes(w) == {"download"} \union SideLanes[w]

VARIABLES
  asks, edits, faults,  \* what the bounds count
  dsn,       \* store.dsn
  file,      \* config.toml: its database, its account, and whether it is still the text that was read
  form,      \* the request that holds configuration_lock
  told,      \* what the user was told of the connection last
  stop,      \* worker -> stop event
  lane,      \* worker -> lane -> "idle", "ended", or the database its job is of
  left,      \* databases of the jobs that lanes of replaced workers go on with
  account,   \* the account's configuration, "none" when there is none
  probe,     \* the configuration a test in flight has read
  capability \* the configuration whose permissions were tested

lifeVars == <<asks, edits, faults, dsn, file, form, told, stop, lane, left, account, probe, capability>>

NoForm == [at |-> "none", to |-> "none"]
Started == [w \in Workers |-> [l \in Lanes(w) |-> "idle"]]

LifeInit ==
  /\ asks = 0 /\ edits = 0 /\ faults = 0
  /\ dsn \in Databases /\ account = "none"
  /\ file = [dsn |-> dsn, account |-> account, read |-> TRUE]
  /\ form = NoForm /\ told = "nothing"
  /\ stop = [w \in Workers |-> FALSE] /\ lane = Started /\ left = {}
  /\ probe = "none" /\ capability = "none"

-----------------------------------------------------------------------------
(* The workers.                                                            *)

\* Its queries go to the database the store has now.
TakesJob(w, l) ==
  /\ lane[w][l] = "idle" /\ ~stop[w]
  /\ lane' = [lane EXCEPT ![w][l] = dsn]
  /\ UNCHANGED <<asks, edits, faults, dsn, file, form, told, stop, left, account, probe, capability>>

JobEnds(w, l) ==
  /\ lane[w][l] \in Databases
  /\ lane' = [lane EXCEPT ![w][l] = "idle"]
  /\ UNCHANGED <<asks, edits, faults, dsn, file, form, told, stop, left, account, probe, capability>>

\* Found between two jobs, or by the next check within one.
LaneEnds(w, l) ==
  /\ stop[w] /\ lane[w][l] # "ended"
  /\ lane' = [lane EXCEPT ![w][l] = "ended"]
  /\ UNCHANGED <<asks, edits, faults, dsn, file, form, told, stop, left, account, probe, capability>>

MainLaneAlive(w) == lane[w]["download"] # "ended"  \* mutant of Alive

\* run ends when it has joined the lanes it started.
Alive(w) == \E l \in Lanes(w) : lane[w][l] # "ended"

-----------------------------------------------------------------------------
(* POST /settings                                                          *)

\* A form without a new database, or with one.
Ask(to) ==
  /\ form = NoForm /\ asks < MaxAsks /\ asks' = asks + 1
  /\ form' = [at |-> IF to = "none" THEN "saving" ELSE "testing", to |-> to]
  /\ UNCHANGED <<edits, faults, dsn, file, told, stop, lane, left, account, probe, capability>>

\* The user is told to try again later, or that the database cannot be reached.
AskAgain ==
  /\ form = NoForm /\ told \in {"later", "unreachable"}
  /\ \E to \in Databases : form' = [at |-> "testing", to |-> to]
  /\ UNCHANGED <<asks, edits, faults, dsn, file, told, stop, lane, left, account, probe, capability>>

\* He does not forget it over a form that leaves the connection alone.
Answered(message) == form' = NoForm /\ told' = IF form.to = "none" THEN told ELSE message

Test ==
  /\ form.at = "testing"
  /\ \/ /\ stop' = [w \in Workers |-> TRUE]
        /\ form' = [form EXCEPT !.at = "exchange"]
        /\ UNCHANGED <<faults, told>>
     \/ /\ faults < MaxFaults /\ faults' = faults + 1
        /\ Answered("unreachable")
        /\ UNCHANGED stop
  /\ UNCHANGED <<asks, edits, dsn, file, lane, left, account, probe, capability>>

After(w) == CASE w = "exchange" -> "tushare" [] w = "tushare" -> "qmt" [] w = "qmt" -> "saving"

\* Twelve seconds for the exchanges' worker, six for the others; then the form is refused, and nothing is started.
Join(w) ==
  /\ form.at = w
  /\ \/ ~Alive(w) /\ form' = [form EXCEPT !.at = After(w)] /\ UNCHANGED <<faults, told>>
     \/ Alive(w) /\ faults < MaxFaults /\ faults' = faults + 1 /\ Answered("later")
  /\ UNCHANGED <<asks, edits, dsn, file, stop, lane, left, account, probe, capability>>

Restarted ==
  /\ stop' = [w \in Workers |-> FALSE] /\ lane' = Started
  /\ left' = left \union (Databases \intersect UNION {{lane[w][l] : l \in Lanes(w)} : w \in Workers})

NotRestarted == UNCHANGED <<stop, lane, left>>  \* mutant of RestartedAsBefore
RestartedAsBefore == Restarted

\* config.toml is replaced in one step, unless somebody has edited it.
Save ==
  /\ form.at = "saving" /\ file.read
  /\ IF form.to = "none" THEN UNCHANGED <<dsn, file, stop, lane, left>>
     ELSE dsn' = form.to /\ file' = [file EXCEPT !.dsn = form.to] /\ Restarted
  /\ Answered("saved")
  /\ UNCHANGED <<asks, edits, faults, account, probe, capability>>

SaveFails ==
  /\ form.at = "saving" /\ ~file.read
  /\ IF form.to = "none" THEN UNCHANGED <<stop, lane, left>> ELSE RestartedAsBefore
  /\ Answered("edited")
  /\ UNCHANGED <<asks, edits, faults, dsn, file, account, probe, capability>>

EditedByHand ==
  /\ edits < MaxEdits /\ edits' = edits + 1
  /\ \E d \in Databases : file' = [file EXCEPT !.dsn = d, !.read = FALSE]
  /\ UNCHANGED <<asks, faults, dsn, form, told, stop, lane, left, account, probe, capability>>

\* The process ends at any point and is started from the file.
ProcessRestarts ==
  /\ edits < MaxEdits /\ edits' = edits + 1
  /\ dsn' = file.dsn /\ account' = file.account /\ file' = [file EXCEPT !.read = TRUE]
  /\ form' = NoForm /\ told' = "nothing" /\ probe' = "none" /\ capability' = "none"
  /\ stop' = [w \in Workers |-> FALSE] /\ lane' = Started /\ left' = {}
  /\ UNCHANGED <<asks, faults>>

-----------------------------------------------------------------------------
(* Accounts.                                                               *)

\* A save or a deletion; it may also be refused for jobs and datasets of the account, which are left out.
SaveAccount(new) ==
  /\ form = NoForm /\ file.read /\ asks < MaxAsks /\ asks' = asks + 1
  /\ new # account
  /\ account' = new /\ file' = [file EXCEPT !.account = new] /\ capability' = "none"
  /\ UNCHANGED <<edits, faults, dsn, form, told, stop, lane, left, probe>>

Probe ==
  /\ probe = "none" /\ account # "none" /\ probe' = account
  /\ UNCHANGED <<asks, edits, faults, dsn, file, form, told, stop, lane, left, account, capability>>

AnyAccount == TRUE  \* mutant of SameAccount
SameAccount == account = probe

\* Seconds later: what was found is kept if the account is still the one that was tested.
ProbeEnds ==
  /\ probe # "none" /\ probe' = "none"
  /\ capability' = IF SameAccount THEN probe ELSE capability
  /\ UNCHANGED <<asks, edits, faults, dsn, file, form, told, stop, lane, left, account>>

LifeNext ==
  \/ \E w \in Workers : Join(w) \/ \E l \in Lanes(w) : TakesJob(w, l) \/ JobEnds(w, l) \/ LaneEnds(w, l)
  \/ \E to \in Databases \union {"none"} : Ask(to)
  \/ AskAgain \/ Test \/ Save \/ SaveFails \/ EditedByHand \/ ProcessRestarts
  \/ \E new \in Accounts \union {"none"} : SaveAccount(new)
  \/ Probe \/ ProbeEnds

\* A lane that is told to stop does, and a user who is told to try again does.
LifeFairness ==
  /\ WF_lifeVars(Test) /\ WF_lifeVars(Save) /\ WF_lifeVars(SaveFails) /\ WF_lifeVars(AskAgain)
  /\ \A w \in Workers : WF_lifeVars(Join(w)) /\ \A l \in Lanes(w) : WF_lifeVars(LaneEnds(w, l))

LifeSpec == LifeInit /\ [][LifeNext]_lifeVars /\ LifeFairness

(***************************************************************************)
(* No lane goes on with a job of one database when the store is connected  *)
(* to another: the checkpoint and the rows of a job never land in a        *)
(* database the job is not of.                                             *)
(***************************************************************************)
JobsStayInTheirDatabase ==
  /\ \A w \in Workers : \A l \in Lanes(w) : lane[w][l] \in Databases => lane[w][l] = dsn
  /\ left \subseteq {dsn}

(***************************************************************************)
(* Whatever happens to a change of the database (a test that fails, a      *)
(* worker that does not stop in time, a file edited by hand), the workers  *)
(* run again in the end, if the user does what he is told.                 *)
(***************************************************************************)
WorkersReturn == []<>(\A w \in Workers : ~stop[w])

(***************************************************************************)
(* The permissions shown for an account, which decide what may be asked of *)
(* it, were found with the account's present endpoint and token.           *)
(***************************************************************************)
CapabilityOfAccount == capability # "none" => capability = account
=============================================================================
