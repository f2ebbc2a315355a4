----------------------------- MODULE JobLedger -----------------------------
(***************************************************************************)
(* What the queue promises about a job, without workers, leases, retries   *)
(* or recoveries: an accepted job is open until it is closed once, its     *)
(* units get their outcomes in order and only while it is open, it closes  *)
(* as succeeded only with all of them, and nothing ever reopens it.  A     *)
(* cancellation that arrives late may still replace the result it closed   *)
(* with.                                                                   *)
(***************************************************************************)
EXTENDS Integers

CONSTANTS NumJobs, NumUnits

Jobs  == 1..NumJobs
Units == 0..(NumUnits - 1)
Closed == {"succeeded", "failed", "partial", "blocked", "cancelled"}

VARIABLES phase, settled

vars == <<phase, settled>>

Init ==
  /\ phase = [j \in Jobs |-> "absent"]
  /\ settled = [j \in Jobs |-> {}]

Submit(j) ==
  /\ phase[j] = "absent"
  /\ phase' = [phase EXCEPT ![j] = "open"]
  /\ UNCHANGED settled

Settle(j, i) ==
  /\ phase[j] = "open"
  /\ \A k \in Units : k < i => k \in settled[j]
  /\ settled' = [settled EXCEPT ![j] = @ \union {i}]
  /\ UNCHANGED phase

Close(j, result) ==
  /\ phase[j] = "open"
  /\ result = "succeeded" => settled[j] = Units
  /\ phase' = [phase EXCEPT ![j] = result]
  /\ UNCHANGED settled

Overrule(j) ==
  /\ phase[j] \in Closed
  /\ phase' = [phase EXCEPT ![j] = "cancelled"]
  /\ UNCHANGED settled

Next ==
  \E j \in Jobs :
    \/ Submit(j)
    \/ \E i \in Units : Settle(j, i)
    \/ \E result \in Closed : Close(j, result)
    \/ Overrule(j)

Spec == Init /\ [][Next]_vars

=============================================================================
