---------------------------- MODULE UsageStreamMC ----------------------------
(***************************************************************************)
(* Instances for TLC of what becomes of the calls that were recorded: they *)
(* are delivered to central (UsageStream), what central cannot store is    *)
(* kept aside (DeadLetters), both ends raise alerts of them (Alerts), the  *)
(* hooks that record them stay wired (HookWiring), and the node reports    *)
(* what they decided without its server (NodeHealth).  Each behaviour is   *)
(* of one of the parts, and the others rest in an initial state.           *)
(***************************************************************************)
EXTENDS UsageStream, DeadLetters, Alerts, NodeHealth, HookWiring, TLC

CONSTANTS server, retire, n1, n2

VARIABLE part

TwoAdapters == <<"claude", "agy">>
Thresholds == [node |-> 2, fleet |-> 2]

-----------------------------------------------------------------------------
recordedVars == <<vars, deadVars, alertVars, healthVars, wiringVars, part>>

RecordedInit ==
  /\ Init /\ DeadInit /\ AlertsInit /\ HealthInit /\ WiringInit
  /\ part \in {"delivery", "letters", "alerts", "health", "wiring"}
  /\ part # "letters" => needs = [s \in Shipments |-> 1]

RecordedNext ==
  \/ part = "delivery" /\ Next /\ UNCHANGED <<deadVars, alertVars, healthVars, wiringVars, part>>
  \/ part = "letters" /\ DeadNext /\ UNCHANGED <<vars, alertVars, healthVars, wiringVars, part>>
  \/ part = "alerts" /\ AlertsNext /\ UNCHANGED <<vars, deadVars, healthVars, wiringVars, part>>
  \/ part = "health" /\ HealthNext /\ UNCHANGED <<vars, deadVars, alertVars, wiringVars, part>>
  \/ part = "wiring" /\ WiringNext /\ UNCHANGED <<vars, deadVars, alertVars, healthVars, part>>

RecordedSafety == RecordedInit /\ [][RecordedNext]_recordedVars

(* The fairness of the delivery, of the reports and of the hooks' watcher, *)
(* each in its part.                                                       *)
RecordedSpec ==
  /\ RecordedSafety
  /\ \A d \in Timers : WF_vars(part = "delivery" /\ Step(d))
  /\ <>[][~Faults]_vars
  /\ WF_healthVars(part = "health" /\ Reporting)
  /\ WF_wiringVars(part = "wiring" /\ Watching)

(* The parts have the states they are meant to have.                       *)
RecordedTypeOK == TypeOK /\ DeadTypeOK /\ AlertsTypeOK

(* A node's reports reach central's roster (server/nodeHealth.js), in the  *)
(* part where there are any.                                               *)
ReportsCome == part = "health" => ReportsArrive
=============================================================================
