--------------------------- MODULE MCMaintenance ---------------------------
(* Small instances of Maintenance: one payload that names the dataset.     *)
EXTENDS Maintenance, TLC

CONSTANTS of, own, d1

MCDatasetOf == [p \in Payloads |-> IF p = of THEN d1 ELSE "none"]

PlansAlike == Permutations(Plans)
=============================================================================
