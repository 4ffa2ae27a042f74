------------------------------- MODULE Approvals ------------------------------
(***************************************************************************)
(* Proposals for one principal and one capability, and the grants they     *)
(* become, where central decides them: POST .../approvals/:id/decide in    *)
(* server/central/policyRoutes.js, over server/central/policyStore.js.     *)
(* The handler awaits the database between its steps, so administrators'   *)
(* requests interleave, and a crash may come between any two.              *)
(***************************************************************************)
EXTENDS Naturals, FiniteSets

CONSTANTS
  Proposals,   \* the rows of the approvals table
  Actions,     \* what each may propose, in central's words or in a node's
  Deciders,    \* requests of administrators
  MaxGrants    \* bound: grants issued

ASSUME ApprovalAssumption == Actions \subseteq {"grant_capability", "grant", "revoke"} /\ MaxGrants \in Nat

VARIABLES
  approvals,  \* each row: its action, its status, the grant it resulted in
  grants,     \* the grants of the pair: live, and the proposal each was issued for
  deciding,   \* each decider's request
  trail       \* the audit entries of grants issued

approvalVars == <<approvals, grants, deciding, trail>>

GrantIds == 1 .. MaxGrants
Direct == "direct"
NotDeciding == [step |-> "idle", of |-> Direct, says |-> "denied", grant |-> 0]

ApprovalInit ==
  /\ approvals = [a \in Proposals |-> [action |-> "none", status |-> "none", grant |-> 0]]
  /\ grants = [g \in GrantIds |-> [state |-> "none", by |-> Direct]]
  /\ deciding = [d \in Deciders |-> NotDeciding]
  /\ trail = {}

Live == {g \in GrantIds : grants[g].state = "live"}
Unissued == {g \in GrantIds : grants[g].state = "none"}

InsertApproval(a, action) ==
  /\ approvals[a].status = "none"
  /\ approvals' = [approvals EXCEPT ![a] = [action |-> action, status |-> "pending", grant |-> 0]]
  /\ UNCHANGED <<grants, deciding, trail>>

-----------------------------------------------------------------------------
(* insertGrant, in its transaction                                         *)

(* The unique index over the live grants of a pair.                        *)
NoConflict == Live = {}

InsertGrant(g, by) ==
  /\ g = CHOOSE x \in Unissued : \A y \in Unissued : x <= y
  /\ grants' = [grants EXCEPT ![g] = [state |-> "live", by |-> by]]

(* An administrator grants or revokes without a proposal.                  *)
GrantDirectly ==
  /\ NoConflict
  /\ \E g \in Unissued : InsertGrant(g, Direct)
  /\ UNCHANGED <<approvals, deciding, trail>>

RevokeGrant(g) ==
  /\ g \in Live
  /\ grants' = [grants EXCEPT ![g].state = "revoked"]
  /\ UNCHANGED <<approvals, deciding, trail>>

-----------------------------------------------------------------------------
(* decide                                                                  *)

At(d, step) == deciding[d].step = step
Respond(d) == deciding' = [deciding EXCEPT ![d] = NotDeciding]

(* 404 and 409 answers leave everything as it is.                          *)
FindApproval(d, a, says) ==
  /\ At(d, "idle") /\ approvals[a].status = "pending"
  /\ deciding' = [deciding EXCEPT ![d] =
       [NotDeciding EXCEPT !.of = a, !.says = says,
          !.step = IF says = "approved" /\ approvals[a].action = "grant_capability" THEN "granting" ELSE "recording"]]
  /\ UNCHANGED <<approvals, grants, trail>>

(* Mutant: a live grant of the pair is as good as a new one.               *)
IssueOrReuse(d) ==
  /\ At(d, "granting") /\ Unissued # {}
  /\ \E g \in Live \cup Unissued :
       /\ IF NoConflict THEN InsertGrant(g, deciding[d].of) ELSE g \in Live /\ UNCHANGED grants
       /\ deciding' = [deciding EXCEPT ![d].step = "auditing", ![d].grant = g]
  /\ UNCHANGED <<approvals, trail>>

(* The grant, or 409 and the proposal stays as it is.                      *)
IssueGrant(d) ==
  /\ At(d, "granting") /\ Unissued # {}
  /\ IF NoConflict
     THEN \E g \in Unissued :
            /\ InsertGrant(g, deciding[d].of)
            /\ deciding' = [deciding EXCEPT ![d].step = "auditing", ![d].grant = g]
     ELSE Respond(d) /\ UNCHANGED grants
  /\ UNCHANGED <<approvals, trail>>

RecordAuditEntry(d) ==
  /\ At(d, "auditing")
  /\ trail' = trail \cup {deciding[d].grant}
  /\ deciding' = [deciding EXCEPT ![d].step = "recording"]
  /\ UNCHANGED <<approvals, grants>>

Decided(d) ==
  approvals' = [approvals EXCEPT ![deciding[d].of].status = deciding[d].says, ![deciding[d].of].grant = deciding[d].grant]

(* UPDATE ... WHERE status = 'pending': the second decision changes nothing*)
DecideApproval(d) ==
  /\ At(d, "recording")
  /\ IF approvals[deciding[d].of].status = "pending" THEN Decided(d) ELSE UNCHANGED approvals
  /\ Respond(d)
  /\ UNCHANGED <<grants, trail>>

(* The server stops, or the database refuses: every request is gone.       *)
LoseRequests ==
  /\ \E d \in Deciders : ~At(d, "idle")
  /\ deciding' = [d \in Deciders |-> NotDeciding]
  /\ UNCHANGED <<approvals, grants, trail>>

ApprovalNext ==
  \/ \E a \in Proposals, action \in Actions : InsertApproval(a, action)
  \/ GrantDirectly \/ LoseRequests
  \/ \E g \in GrantIds : RevokeGrant(g)
  \/ \E d \in Deciders, a \in Proposals, says \in {"approved", "denied"} : FindApproval(d, a, says)
  \/ \E d \in Deciders : IssueGrant(d) \/ RecordAuditEntry(d) \/ DecideApproval(d)

ApprovalSpec == ApprovalInit /\ [][ApprovalNext]_approvalVars

-----------------------------------------------------------------------------
(* Properties *)

ApprovalTypeOK ==
  /\ approvals \in [Proposals -> [action : Actions \cup {"none"}, status : {"none", "pending", "approved", "denied"},
                                  grant : 0 .. MaxGrants]]
  /\ grants \in [GrantIds -> [state : {"none", "live", "revoked"}, by : Proposals \cup {Direct}]]
  /\ deciding \in [Deciders -> [step : {"idle", "granting", "auditing", "recording"}, of : Proposals \cup {Direct},
                                says : {"approved", "denied"}, grant : 0 .. MaxGrants]]
  /\ trail \subseteq GrantIds

(* Of two administrators who decide one proposal, one decides it: its      *)
(* status, and the grant it names, never change again.                     *)
DecidedOnce ==
  [][\A a \in Proposals : approvals[a].status \in {"approved", "denied"} => approvals'[a] = approvals[a]]_approvalVars

(* A grant that a proposal names was issued for it, and the audit has it,  *)
(* whoever granted or revoked the same pair meanwhile.                     *)
ResultIsItsGrant ==
  \A a \in Proposals : approvals[a].grant # 0 =>
    grants[approvals[a].grant].by = a /\ approvals[a].status = "approved" /\ approvals[a].grant \in trail

(* Refuted (README, section 5).  "An approved `grant_capability` becomes   *)
(* the grant in the same transaction" (docs/reference/api.md): a grant     *)
(* issued for a proposal is named by it, or about to be.                   *)
GrantWithItsProposal ==
  \A g \in GrantIds : grants[g].by # Direct =>
    \/ approvals[grants[g].by].grant = g
    \/ \E d \in Deciders : deciding[d].grant = g /\ approvals[deciding[d].of].status = "pending"
=============================================================================
