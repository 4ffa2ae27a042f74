------------------------------- MODULE Packages -------------------------------
(***************************************************************************)
(* One package of capabilities at central: enabled, synced into grants of  *)
(* its roles, and revoked again (server/central/packages.js, with the      *)
(* routes in server/central/routes.js and the grants of                    *)
(* server/central/policyStore.js), by several administrators, while others *)
(* grant, revoke, and register roles and capabilities.                     *)
(***************************************************************************)
EXTENDS Naturals, FiniteSets

CONSTANTS
  Owned,         \* capabilities whose owner the package claims
  Skills,        \* those of them that are skills
  PackageRoles,  \* the package's own list of roles
  OtherRoles,    \* roles that only the policy of a tier names
  RolesFor,      \* whom a sync grants each capability at each tier
  Operators,     \* administrators' requests, one after another
  MaxIssued,     \* bound: grants in all
  MaxByHand      \* bound: writes beside the package, and requests that fail

CapTiers == {"read_only", "mutating", "destructive"}
Unknown == "unknown"    \* no row yet: nobody has discovered the capability

ASSUME PackagesAssumption ==
  /\ Skills \subseteq Owned
  /\ RolesFor \in [Owned \X CapTiers -> SUBSET (PackageRoles \cup OtherRoles)]
  /\ {MaxIssued, MaxByHand} \subseteq Nat

RolePairs == (PackageRoles \cup OtherRoles) \X Owned

VARIABLES
  enabled,   \* package_state
  capTier,   \* the capabilities' tiers, which nobody changes
  roles,     \* the roles that are registered
  issued,    \* grants, by number: [pair, live, package]; package says who issued it
  audited,   \* grants whose issue is in the audit log
  request,   \* the requests under way
  byHand

packageVars == <<enabled, capTier, roles, issued, audited, request, byHand>>

Idle == [op |-> "none"]

LivePairs == {issued[g].pair : g \in {g \in DOMAIN issued : issued[g].live}}

PackagesInit ==
  /\ enabled = FALSE
  /\ capTier \in [Owned -> CapTiers \cup {Unknown}]
  /\ roles \in SUBSET (PackageRoles \cup OtherRoles)
  /\ issued = <<>> /\ audited = {}
  /\ request = [a \in Operators |-> Idle]
  /\ byHand = 0

-----------------------------------------------------------------------------
(* A request *)

Begun(op) == [op |-> op, step |-> "read", has |-> {}, targets |-> {}, known |-> {}, live |-> {},
              left |-> {}, entry |-> 0, seen |-> {}, revoked |-> {}]

(* Enabling syncs; disabling writes the decision, and revokes nothing.     *)
SetEnabled(a, to) ==
  /\ request[a] = Idle
  /\ enabled' = to
  /\ request' = IF to THEN [request EXCEPT ![a] = Begun("sync")] ELSE request
  /\ UNCHANGED <<capTier, roles, issued, audited, byHand>>

Ask(a, op) ==
  /\ request[a] = Idle
  /\ request' = [request EXCEPT ![a] = Begun(op)]
  /\ UNCHANGED <<enabled, capTier, roles, issued, audited, byHand>>

Reading(a) == request[a] # Idle /\ request[a].step = "read"

(* The pairs that the policy includes, or that the teardown goes over.     *)
Known == {c \in Owned : capTier[c] # Unknown}

Targets(op) ==
  IF op = "sync" THEN {p \in RolePairs : p[2] \in Known /\ p[1] \in RolesFor[p[2], capTier[p[2]]]}
                 ELSE PackageRoles \X Known

(* Three SELECTs on the pool, side by side.                                *)
ListCapabilities(a) ==
  /\ Reading(a) /\ "capabilities" \notin request[a].has
  /\ LET r == request[a]
     IN  request' = [request EXCEPT ![a] = [r EXCEPT !.targets = Targets(r.op), !.has = @ \cup {"capabilities"}]]
  /\ UNCHANGED <<enabled, capTier, roles, issued, audited, byHand>>

ListPrincipals(a) ==
  /\ Reading(a) /\ "principals" \notin request[a].has
  /\ request' = [request EXCEPT ![a] = [request[a] EXCEPT !.known = roles, !.has = @ \cup {"principals"}]]
  /\ UNCHANGED <<enabled, capTier, roles, issued, audited, byHand>>

LiveNow == {g \in DOMAIN issued : issued[g].live}

ListGrants(a) ==
  /\ Reading(a) /\ "grants" \notin request[a].has
  /\ request' = [request EXCEPT ![a] = [request[a] EXCEPT !.live = LiveNow, !.has = @ \cup {"grants"}]]
  /\ UNCHANGED <<enabled, capTier, roles, issued, audited, byHand>>

PairsOf(grants) == {issued[g].pair : g \in grants}

(* What the three of them say is to be done.  The order is the database's. *)
ToGrant(r) == {p \in r.targets : p[1] \in r.known}
ToRevoke(r) == {g \in r.live : issued[g].pair \in ToGrant(r)}

StartWork(a) ==
  LET r == request[a]
      sync == r.op = "sync"
  IN  /\ Reading(a) /\ r.has = {"capabilities", "principals", "grants"}
      /\ request' = [request EXCEPT ![a] =
           [r EXCEPT !.step = "write", !.has = {}, !.known = {}, !.live = IF sync THEN {} ELSE ToRevoke(r),
                     !.targets = IF sync THEN ToGrant(r) ELSE {},
                     !.left = IF sync THEN ToGrant(r) \ PairsOf(r.live) ELSE {},
                     !.seen = IF sync THEN {} ELSE ToRevoke(r)]]
      /\ UNCHANGED <<enabled, capTier, roles, issued, audited, byHand>>

AtWork(a) == request[a] # Idle /\ request[a].step = "write" /\ request[a].entry = 0

Room == Cardinality(DOMAIN issued) < MaxIssued

WithGrant(p, package) ==
  [g \in DOMAIN issued \cup {Cardinality(DOMAIN issued) + 1} |->
     IF g \in DOMAIN issued THEN issued[g] ELSE [pair |-> p, live |-> TRUE, package |-> package]]

(* Mutant: a pair that is live after all ends the sync.                    *)
InsertGrantOrStop(a, p) ==
  /\ AtWork(a) /\ p \in request[a].left
  /\ IF p[2] \in Skills
     THEN request' = [request EXCEPT ![a] = Idle] /\ UNCHANGED issued
     ELSE IF p \in LivePairs
     THEN request' = [request EXCEPT ![a].left = {}] /\ UNCHANGED issued
     ELSE /\ Room /\ issued' = WithGrant(p, TRUE)
          /\ request' = [request EXCEPT ![a] = [request[a] EXCEPT !.left = @ \ {p}, !.entry = Cardinality(DOMAIN issued')]]
  /\ UNCHANGED <<enabled, capTier, roles, audited, byHand>>

(* syncPackage: a pair that has become live is counted as present.  For a  *)
(* skill insertGrant throws, which ends the request.                       *)
InsertGrant(a, p) ==
  /\ AtWork(a) /\ p \in request[a].left
  /\ IF p[2] \in Skills
     THEN request' = [request EXCEPT ![a] = Idle] /\ UNCHANGED issued
     ELSE IF p \in LivePairs
     THEN request' = [request EXCEPT ![a].left = @ \ {p}] /\ UNCHANGED issued
     ELSE /\ Room /\ issued' = WithGrant(p, TRUE)
          /\ request' = [request EXCEPT ![a] = [request[a] EXCEPT !.left = @ \ {p}, !.entry = Cardinality(DOMAIN issued')]]
  /\ UNCHANGED <<enabled, capTier, roles, audited, byHand>>

(* recordAuditEntry, a statement of its own.                               *)
RecordAuditEntry(a) ==
  /\ request[a] # Idle /\ request[a].entry # 0
  /\ audited' = audited \cup {request[a].entry}
  /\ request' = [request EXCEPT ![a].entry = 0]
  /\ UNCHANGED <<enabled, capTier, roles, issued, byHand>>

(* Those that are under way are told, for the properties.                  *)
Revoked(g, left) ==
  /\ issued' = [issued EXCEPT ![g].live = FALSE]
  /\ request' = [b \in Operators |->
       IF left[b] = Idle THEN Idle ELSE [left[b] EXCEPT !.revoked = @ \cup {issued[g].pair}]]

(* revokePackage: the grant that was read, if it is live still; another    *)
(* one that has been issued for the pair since is left.                    *)
RevokeGrant(a, g) ==
  /\ AtWork(a) /\ g \in request[a].live
  /\ LET left == [request EXCEPT ![a].live = @ \ {g}]
     IN  IF issued[g].live THEN Revoked(g, left) ELSE request' = left /\ UNCHANGED issued
  /\ UNCHANGED <<enabled, capTier, roles, audited, byHand>>

Done(a) == AtWork(a) /\ request[a].left = {} /\ request[a].live = {}

(* The answer, and before it the grants are announced to the nodes that    *)
(* are connected.                                                          *)
Answer(a) ==
  /\ Done(a)
  /\ request' = [request EXCEPT ![a] = Idle]
  /\ UNCHANGED <<enabled, capTier, roles, issued, audited, byHand>>

-----------------------------------------------------------------------------
(* Beside the package *)

ByHand == byHand < MaxByHand /\ byHand' = byHand + 1

GrantByHand(p) ==
  /\ ByHand /\ Room /\ p[1] \in roles /\ p[2] \in Known \ Skills /\ p \notin LivePairs
  /\ issued' = WithGrant(p, FALSE)
  /\ UNCHANGED <<enabled, capTier, roles, audited, request>>

RevokeByHand(g) ==
  /\ ByHand /\ g \in LiveNow
  /\ Revoked(g, request)
  /\ UNCHANGED <<enabled, capTier, roles, audited>>

RegisterCapability(c, tier) ==
  /\ ByHand /\ c \notin Known
  /\ capTier' = [capTier EXCEPT ![c] = tier]
  /\ UNCHANGED <<enabled, roles, issued, audited, request>>

RegisterRole(role) ==
  /\ ByHand /\ role \notin roles
  /\ roles' = roles \cup {role}
  /\ UNCHANGED <<enabled, capTier, issued, audited, request>>

(* A statement fails, or central dies: what was written stays.             *)
BreakOff(a) ==
  /\ ByHand /\ request[a] # Idle
  /\ request' = [request EXCEPT ![a] = Idle]
  /\ UNCHANGED <<enabled, capTier, roles, issued, audited>>

PackagesNext ==
  \/ \E a \in Operators :
       \/ \E to \in BOOLEAN : SetEnabled(a, to)
       \/ \E op \in {"sync", "revoke"} : Ask(a, op)
       \/ ListCapabilities(a) \/ ListPrincipals(a) \/ ListGrants(a) \/ StartWork(a)
       \/ \E p \in RolePairs : InsertGrant(a, p)
       \/ \E g \in DOMAIN issued : RevokeGrant(a, g)
       \/ RecordAuditEntry(a) \/ Answer(a) \/ BreakOff(a)
  \/ \E p \in RolePairs : GrantByHand(p)
  \/ \E g \in DOMAIN issued : RevokeByHand(g)
  \/ \E c \in Owned, tier \in CapTiers : RegisterCapability(c, tier)
  \/ \E role \in PackageRoles \cup OtherRoles : RegisterRole(role)

-----------------------------------------------------------------------------
(* Properties *)

(* "A re-run only adds what is missing", "actually take it back"           *)
(* (packages.js): when a sync is answered, each pair it had to see to is   *)
(* live, by whomever, or has been revoked since it began; when a revoke is *)
(* answered, no grant it saw for the package's roles is live; no pair is   *)
(* ever granted twice; and each grant that the package issued is in the    *)
(* audit log by then.  Whatever other administrators do meanwhile, and     *)
(* whichever requests were broken off.                                     *)
Kept(a) ==
  /\ request[a].targets \subseteq LivePairs \cup request[a].revoked
  /\ \A g \in request[a].seen : ~issued[g].live

PackagesKeepWord ==
  /\ \A a \in Operators : Done(a) => Kept(a)
  /\ \A g, h \in LiveNow : issued[g].pair = issued[h].pair => g = h
  /\ (\A a \in Operators : request[a] = Idle) /\ byHand = 0 =>
       \A g \in DOMAIN issued : issued[g].package => g \in audited
=============================================================================
