----------------------------- MODULE MCJobQueue -----------------------------
(* Instances of JobQueue for TLC. *)
EXTENDS JobQueue, TLC

\* Two units of one interface, or of two.
OneKey  == [i \in Units |-> "1d"]
TwoKeys == [i \in Units |-> IF i = 0 THEN "1d" ELSE "minutes"]

=============================================================================
