---------------------------- MODULE GovernedCallMC ---------------------------
(***************************************************************************)
(* One instance for TLC of what a governed call meets on its node: the     *)
(* decision of the hook, the audit row and its corrections, the proposals  *)
(* for more grants.  Each behaviour is of one of the three parts, and the  *)
(* others rest in an initial state.                                        *)
(***************************************************************************)
EXTENDS HookDecision, UsageAudit, Approvals, TLC

CONSTANTS c1, c2, c3, i1, i2, a1, a2, d1, d2

VARIABLE part

NoPause == {{}}
NoLease == {{}}
SomePauses == {{}, {"read_only", "mutating"}, Tiers}
SomeLeases == {{}, {"read_only"}, {"read_only", "mutating"}}

Uncapped(t, r) == [tier |-> t, auto |-> FALSE, ceiling |-> "destructive", replicating |-> r]
Capping(t, a) == [tier |-> t, auto |-> a, ceiling |-> "read_only", replicating |-> TRUE]
OneSetting == {Uncapped("mutating", TRUE)}
AllSettings ==
  {Uncapped(t, r) : t \in Tiers, r \in BOOLEAN} \cup {Capping("mutating", TRUE), Capping("destructive", FALSE)}

TwoAlike == [c \in Calls |-> IF c = c3 THEN i2 ELSE i1]
Symmetry == Permutations({c1, c2})

-----------------------------------------------------------------------------
governedVars == <<hookVars, auditVars, approvalVars, part>>

GovernedInit ==
  /\ HookInit /\ AuditInit /\ ApprovalInit
  /\ part \in {"decision", "audit", "approval"}
  /\ part # "decision" => setting = Uncapped("mutating", TRUE)

GovernedNext ==
  /\ \/ part = "decision" /\ HookNext /\ UNCHANGED <<auditVars, approvalVars>>
     \/ part = "audit" /\ AuditNext /\ UNCHANGED <<hookVars, approvalVars>>
     \/ part = "approval" /\ ApprovalNext /\ UNCHANGED <<hookVars, auditVars>>
  /\ UNCHANGED part

GovernedSpec == GovernedInit /\ [][GovernedNext]_governedVars

(* The parts alone.                                                        *)
DecisionSpec == GovernedInit /\ part = "decision" /\ [][GovernedNext]_governedVars
AuditOnlySpec == GovernedInit /\ part = "audit" /\ [][GovernedNext]_governedVars

(* The parts have the states they are meant to have.                       *)
CallTypeOK == HookTypeOK /\ AuditTypeOK /\ ApprovalTypeOK
=============================================================================
