------------------------------ MODULE ServicesMC -----------------------------
(***************************************************************************)
(* One instance for TLC of what runs beside the governed calls: the        *)
(* credentials of the nodes, the supervisor of the node's backend, and the *)
(* observations of native tool calls.  Each behaviour is of one of the     *)
(* three parts, and the others rest in their initial state.                *)
(***************************************************************************)
EXTENDS Enrollment, Supervisor, NativeObservations, TLC

CONSTANTS m1, m2, n1, n2, t1, t2, r1, r2, r3, l1, l2

VARIABLE part

Env == (m1 :> t1) @@ (m2 :> NoToken)
Names == (m1 :> n1) @@ (m2 :> NoName)
Uses == (t1 :> 1) @@ (t2 :> 2)
One == (t1 :> 1)

-----------------------------------------------------------------------------
servicesVars == <<enrollVars, superVars, nativeVars, part>>

ServicesInit ==
  EnrollInit /\ SuperInit /\ NativeInit /\ part \in {"credentials", "backend", "observations"}

ServicesNext ==
  \/ part = "credentials" /\ EnrollNext /\ UNCHANGED <<superVars, nativeVars, part>>
  \/ part = "backend" /\ SuperNext /\ UNCHANGED <<enrollVars, nativeVars, part>>
  \/ part = "observations" /\ NativeNext /\ UNCHANGED <<enrollVars, superVars, part>>

ServicesSafety == ServicesInit /\ [][ServicesNext]_servicesVars

(* The fairness of each component, in its own part.                        *)
Credentials == part = "credentials"
Backend == part = "backend"

ServicesSpec ==
  /\ ServicesSafety
  /\ \A m \in Machines :
       WF_enrollVars(Credentials /\ CheckOnce(m)) /\ WF_enrollVars(Credentials /\ Serve(m)) /\ WF_enrollVars(Credentials /\ Keep(m))
  /\ WF_superVars(Backend /\ Listen) /\ WF_superVars(Backend /\ SpawnChild)
  /\ WF_superVars(Backend /\ child = "up" /\ MarkReady)
  /\ WF_superVars(Backend /\ child = "dying" /\ OnChildExit)

(* One part alone.                                                         *)
CredentialsSpec == ServicesSpec /\ Credentials
ObservationsSpec == ServicesSafety /\ part = "observations"

(* The parts have the states they are meant to have.                       *)
ServicesTypeOK == EnrollTypeOK /\ SuperTypeOK /\ NativeTypeOK
=============================================================================
