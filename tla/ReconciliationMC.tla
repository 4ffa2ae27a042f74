--------------------------- MODULE ReconciliationMC --------------------------
(***************************************************************************)
(* Instances of Reconciliation for TLC.  The larger one is two: a node     *)
(* that restarts and drops shipments, nobody comparing, and a node in its  *)
(* first life whose trail is compared.                                     *)
(***************************************************************************)
EXTENDS Reconciliation

CONSTANTS server, retire

VARIABLE part

MaxNumbered == 2   \* bound: shipments per life of the node that restarts
MaxDelayed == 1    \* bound: requests given up and under way at the other one

TrimInit == RInit /\ part \in {"restarts", "compared"} /\ (part = "compared" => life = 1)

TrimNext ==
  /\ \/ part = "restarts" /\ Next /\ UNCHANGED compareVars /\ \A i \in Lives : numbered'[i] <= MaxNumbered
     \/ part = "compared" /\ RNext /\ life' = life /\ Cardinality(delayed') <= MaxDelayed
  /\ UNCHANGED part

TrimSpec == TrimInit /\ [][TrimNext]_<<vars, compareVars, part>>

RestartSpec ==
  RInit /\ part = "compared" /\ [][RNext /\ UNCHANGED part]_<<vars, compareVars, part>>
=============================================================================
