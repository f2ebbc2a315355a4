------------------------------ MODULE Services ------------------------------
(***************************************************************************)
(* What goes on inside the service and with its sources, each on its own:  *)
(* the scheduler (MaintenanceSchedule), a change of settings               *)
(* (ServiceLifecycle), the notices of the exchanges (ExchangeNotices), a   *)
(* range read from Tushare (TushareSource), an export (Export) and a       *)
(* verification with its repairs (Verification).  They share no state      *)
(* here: a behaviour is one of a single one, "part", and the others rest   *)
(* in a state in which there is nothing to do.                             *)
(***************************************************************************)
EXTENDS MaintenanceSchedule, ServiceLifecycle, ExchangeNotices, TushareSource, Export, Verification

VARIABLE part

servicesVars == <<part, schedVars, lifeVars, noticeVars, tuVars, exportVars, verifyVars>>

SchedRests ==
  /\ today = LastDay /\ evening = TRUE /\ open = {}
  /\ scope = [kind |-> "dataset", mode |-> "bars", enabled |-> FALSE, since |-> LastDay]
  /\ queued = {} /\ saved = {} /\ answering = TRUE /\ blocked = FALSE

LifeRests ==
  /\ asks = 0 /\ edits = 0 /\ faults = 0
  /\ dsn = (CHOOSE d \in Databases : TRUE) /\ account = "none"
  /\ file = [dsn |-> dsn, account |-> account, read |-> TRUE]
  /\ form = NoForm /\ told = "nothing"
  /\ stop = [w \in Workers |-> FALSE] /\ lane = Started /\ left = {}
  /\ probe = "none" /\ capability = "none"

ReadersRest == rows = [p \in Points |-> 0] /\ limit = 0 /\ calls = <<>> /\ failures = 0 /\ reader = [r \in Readers |-> Unread("days", 1)]

ExportRests ==
  /\ bars = [c \in Codes |-> [t \in Times |-> 0]] /\ writes = 0 /\ runs = 0
  /\ job = "none" /\ step = "idle" /\ snapshot = NotYet /\ at = [member |-> 1, offset |-> 0]
  /\ partial = NoFile /\ target = NoFile /\ note = 0 /\ moments = {}

ServicesInit ==
  /\ part \in {"scheduler", "settings", "notices", "tushare", "export", "verification"}
  /\ IF part = "scheduler" THEN SchedInit ELSE SchedRests
  /\ IF part = "settings" THEN LifeInit ELSE LifeRests
  /\ NoticesInit
  /\ IF part = "tushare" THEN TuInit ELSE ReadersRest
  /\ IF part = "export" THEN ExportInit ELSE ExportRests
  /\ VerifyInit /\ (part = "verification" \/ held = {2})

ServicesNext ==
  /\ \/ part = "scheduler" /\ SchedNext /\ UNCHANGED <<lifeVars, noticeVars, tuVars, exportVars, verifyVars>>
     \/ part = "settings" /\ LifeNext /\ UNCHANGED <<schedVars, noticeVars, tuVars, exportVars, verifyVars>>
     \/ part = "notices" /\ NoticesNext /\ UNCHANGED <<schedVars, lifeVars, tuVars, exportVars, verifyVars>>
     \/ part = "tushare" /\ TuNext /\ UNCHANGED <<schedVars, lifeVars, noticeVars, exportVars, verifyVars>>
     \/ part = "export" /\ ExportNext /\ UNCHANGED <<schedVars, lifeVars, noticeVars, tuVars, verifyVars>>
     \/ part = "verification" /\ VerifyNext /\ UNCHANGED <<schedVars, lifeVars, noticeVars, tuVars, exportVars>>
  /\ UNCHANGED part

ServicesSpec == ServicesInit /\ [][ServicesNext]_servicesVars /\ SchedFairness /\ LifeFairness

\* Worker -> its lanes besides the one that downloads.
QmtLanes == [w \in Workers |-> IF w = "qmt" THEN {"export"} ELSE {}]
=============================================================================
