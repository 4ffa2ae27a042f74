----------------------------- MODULE HookDecision ----------------------------
(***************************************************************************)
(* One governed call of an instance, decided by runPreToolUse in           *)
(* server/hooks/lib.js, while policy moves underneath it.  The hook has no *)
(* state of its own: it reads the node's files (the deny-list, the grant   *)
(* cache, pause and lease) and asks the node's server, whose mirror of     *)
(* central's tables may be behind.  How the files get their contents is    *)
(* PolicyChannel's subject; here each copy is taken at any time, or never. *)
(***************************************************************************)
EXTENDS Naturals, FiniteSets

CONSTANTS
  Pauses,     \* the enforcement pauses a call may meet, as sets of tiers
  Leases,     \* the maintenance leases a call may meet, as sets of tiers
  Settings,   \* the situations of Setting that an instance starts from
  MaxWrites   \* bound: grants and revocations

Tiers == {"read_only", "mutating", "destructive"}

ASSUME HookAssumption ==
  /\ Pauses \subseteq SUBSET Tiers /\ Pauses # {}
  /\ Leases \subseteq SUBSET {"read_only", "mutating"} /\ Leases # {}
  /\ MaxWrites \in Nat

(* Who can hold a grant that covers the call: the instance that calls, or  *)
(* the role it is an instance of.                                          *)
Holders == {"instance", "role"}

Rank == [read_only |-> 0, mutating |-> 1, destructive |-> 2]

(* The capability's tier and autoGrant, the node profile's tier ceiling,   *)
(* and whose policy it is: central's, or (standalone) the node's own.      *)
Setting == [tier : Tiers, auto : BOOLEAN, ceiling : Tiers, replicating : BOOLEAN]

ASSUME SettingAssumption ==
  Settings \subseteq {s \in Setting : s.auto => s.tier # "destructive"}

VARIABLES
  setting,  \* the situation, fixed
  tables,   \* the authority's: is the capability there, grants live and ever revoked
  list,     \* the deny-list file: age, listed pairs, ceiling; who was granted then
  mirror,   \* the tables the node's server answers from
  cache,    \* the signed grant cache: has it been written, its grants
  call      \* the call under way, or the last one

hookVars == <<setting, tables, list, mirror, cache, call>>

Ages == {"absent", "never", "fresh", "stale"}
Phases == {"idle", "lookup", "resolve", "gate", "invoke", "override", "decided"}
Verdicts == {"none", "allow", "ask", "deny"}
Reasons == {"none", "unregistered", "tier-unknown", "not-replicated", "node-profile-ceiling", "deny-list",
            "read_only", "destructive-under-lease", "destructive-no-lease", "no-lease",
            "unattributed-under-lease", "replica-grant-check", "no-replica",
            "grant", "no-grant", "velocity", "enforcement-pause", "harness-deadline"}

NoCall == [phase |-> "idle", verdict |-> "none", why |-> "none", at |-> "none",
           listed |-> {}, held |-> {}, capped |-> FALSE, resolved |-> FALSE, relief |-> {}]

HookInit ==
  /\ setting \in Settings
  /\ tables = [registered |-> FALSE, live |-> {}, revoked |-> {}, writes |-> 0]
  /\ list = [age |-> "absent", listed |-> {}, seeded |-> FALSE, live |-> {}]
  /\ mirror = [registered |-> FALSE, live |-> {}]
  /\ cache = [warm |-> FALSE, live |-> {}]
  /\ call = NoCall

-----------------------------------------------------------------------------
(* Policy moves.  A standalone node's mirror is the table itself.          *)

SetTables(t) ==
  /\ tables' = t
  /\ mirror' = IF setting.replicating THEN mirror ELSE [registered |-> t.registered, live |-> t.live]
  /\ UNCHANGED <<setting, list, cache, call>>

Register == ~tables.registered /\ SetTables([tables EXCEPT !.registered = TRUE])

Grant(h) ==
  /\ tables.registered /\ h \notin tables.live /\ tables.writes < MaxWrites
  /\ SetTables([tables EXCEPT !.live = @ \cup {h}, !.writes = @ + 1])

Revoke(h) ==
  /\ h \in tables.live /\ tables.writes < MaxWrites
  /\ SetTables([tables EXCEPT !.live = @ \ {h}, !.revoked = @ \cup {h}, !.writes = @ + 1])

(* The marker a replica's client leaves when central has never answered.   *)
LayMarker ==
  /\ setting.replicating /\ list.age = "absent"
  /\ list' = [list EXCEPT !.age = "never"]
  /\ UNCHANGED <<setting, tables, mirror, cache, call>>

(* The pairs of every revoked grant, whether granted again or not.         *)
ListedPairs == tables.revoked

WriteDenyList ==
  /\ list' = [age |-> "fresh", listed |-> ListedPairs, seeded |-> tables.registered, live |-> tables.live]
  /\ UNCHANGED <<setting, tables, mirror, cache, call>>

(* The bound on the age of policy passes.  Only central's has one.         *)
GrowStale ==
  /\ setting.replicating /\ list.age = "fresh"
  /\ list' = [list EXCEPT !.age = "stale"]
  /\ UNCHANGED <<setting, tables, mirror, cache, call>>

Mirror ==
  /\ setting.replicating /\ list.age \in {"fresh", "stale"}
  /\ mirror' = [registered |-> tables.registered, live |-> tables.live]
  /\ UNCHANGED <<setting, tables, list, cache, call>>

WarmCache ==
  /\ cache' = [warm |-> TRUE, live |-> mirror.live]
  /\ UNCHANGED <<setting, tables, list, mirror, call>>

Policy ==
  \/ Register \/ LayMarker \/ WriteDenyList \/ GrowStale \/ Mirror \/ WarmCache
  \/ \E h \in Holders : Grant(h) \/ Revoke(h)

-----------------------------------------------------------------------------
(* The verdicts.                                                           *)

Ruling(v, why) == [verdict |-> v, why |-> why]

HoldsGrant(grants) == setting.auto \/ grants # {}

(* Mutant: no verdict but for reads.                                       *)
FaultPolicySilent(lease, known) ==
  IF setting.tier = "read_only" THEN Ruling("allow", "read_only") ELSE Ruling("none", "none")

(* Mutant: any lease covers every tier, destructive ones too.              *)
FaultPolicyLeased(lease, known) ==
  IF setting.tier = "read_only" \/ lease # {} THEN Ruling("allow", "read_only") ELSE Ruling("deny", "no-lease")

(* What the ladder says of a call that governance could not answer, under  *)
(* a lease, for a principal that is known or is what could not be read.    *)
FaultPolicyStrict(lease, known) ==
  CASE setting.tier = "read_only" -> Ruling("allow", "read_only")
    [] setting.tier = "destructive" ->
         IF lease # {} THEN Ruling("ask", "destructive-under-lease") ELSE Ruling("deny", "destructive-no-lease")
    [] setting.tier = "mutating" ->
         IF setting.tier \notin lease THEN Ruling("deny", "no-lease")
         ELSE IF ~known THEN Ruling("allow", "unattributed-under-lease")
         ELSE IF HoldsGrant(cache.live) THEN Ruling("allow", "replica-grant-check")
         ELSE Ruling("deny", IF cache.warm THEN "replica-grant-check" ELSE "no-replica")

(* The one place where a denial is suppressed.                             *)
EnforcementPauseOverride(pause, v) ==
  IF v.verdict # "allow" /\ setting.tier \in pause THEN Ruling("allow", "enforcement-pause") ELSE v

FaultPolicy(lease, pause, known) == EnforcementPauseOverride(pause, FaultPolicyStrict(lease, known))

(* A pause covers a tier nobody knows only if it names them all.           *)
PauseCoversUnknownTier(pause) == pause = Tiers

Relief(lease, pause) == (IF lease # {} THEN {"lease"} ELSE {}) \cup (IF pause # {} THEN {"pause"} ELSE {})

(* Mutant: a copy is trusted for good once it was confirmed.               *)
StaleIfNever == setting.replicating /\ list.age = "never"

Stale == setting.replicating /\ list.age \in {"never", "stale"}

(* Mutant: a deny-list past the bound is not trusted.                      *)
ListedWhileFresh == list.age = "fresh" /\ "instance" \in list.listed

Listed == list.age # "absent" /\ "instance" \in list.listed

Capped == list.age \in {"fresh", "stale"} /\ setting.replicating /\ Rank[setting.tier] > Rank[setting.ceiling]

AboveCeiling == Capped

-----------------------------------------------------------------------------
(* runPreToolUse, from read to read.                                       *)

Went(c) == call' = c /\ UNCHANGED <<setting, tables, list, mirror, cache>>

Decide(v, relief) ==
  Went([call EXCEPT !.phase = "decided", !.verdict = v.verdict, !.why = v.why, !.relief = @ \cup relief])

Begin ==
  /\ call.phase \in {"idle", "decided"}
  /\ Went([NoCall EXCEPT !.phase = "lookup", !.listed = list.listed, !.held = list.live, !.capped = Capped])

(* The capability is found, in its cache or by asking, and the profile's   *)
(* ceiling comes before anything that depends on who calls.                *)
FoundCapability ==
  /\ call.phase = "lookup" /\ mirror.registered
  /\ IF AboveCeiling THEN Decide(Ruling("deny", "node-profile-ceiling"), {})
                     ELSE Went([call EXCEPT !.phase = "resolve"])

(* It is in no registry the node has, or not yet in the hook's cache of it:*)
(* ungoverned, unless the registry cannot be trusted to be complete.       *)
UnknownCapability(pause) ==
  /\ call.phase = "lookup"
  /\ LET unseeded == ~setting.replicating /\ list.age # "absent" /\ ~list.seeded
     IN  IF unseeded \/ Stale
         THEN IF PauseCoversUnknownTier(pause) THEN Decide(Ruling("allow", "enforcement-pause"), Relief({}, pause))
                                               ELSE Decide(Ruling("deny", "not-replicated"), {})
         ELSE Decide(Ruling("allow", "unregistered"), {})

(* Neither the server nor an old cache can say what it is.                 *)
LookupFailed(pause) ==
  /\ call.phase = "lookup"
  /\ IF PauseCoversUnknownTier(pause) THEN Decide(Ruling("allow", "enforcement-pause"), Relief({}, pause))
                                      ELSE Decide(Ruling("deny", "tier-unknown"), {})

ResolvePrincipal ==
  /\ call.phase = "resolve"
  /\ Went([call EXCEPT !.phase = "gate", !.resolved = TRUE])

ResolveFailed(lease, pause) ==
  /\ call.phase = "resolve"
  /\ Decide(FaultPolicy(lease, pause, FALSE), Relief(lease, pause))

(* The deny-list, then the age of policy; what the ladder allows there     *)
(* still goes to the live check.                                           *)
PolicyChannelGate(lease, pause) ==
  /\ call.phase = "gate"
  /\ LET stale == FaultPolicy(lease, pause, TRUE)
         here == [call EXCEPT !.phase = "invoke", !.at = list.age]
     IN  IF Listed THEN Decide(Ruling("deny", "deny-list"), {})
         ELSE IF ~Stale THEN Went(here)
         ELSE IF stale.verdict = "allow" THEN Went([here EXCEPT !.relief = Relief(lease, pause)])
         ELSE Decide(stale, Relief(lease, pause))

(* /invoke answers from the mirror: allowed, allowed but too fast, or not. *)
Invoke ==
  /\ call.phase = "invoke"
  /\ IF HoldsGrant(mirror.live)
     THEN \/ Decide(Ruling("allow", "grant"), {})
          \/ Decide(Ruling("deny", "velocity"), {})
     ELSE Went([call EXCEPT !.phase = "override"])

(* Healthy governance said no; a pause is looked up only then.             *)
DenyOrAsk(pause) ==
  /\ call.phase = "override"
  /\ LET no == IF setting.tier = "destructive" THEN Ruling("ask", "no-grant") ELSE Ruling("deny", "no-grant")
     IN  Decide(EnforcementPauseOverride(pause, no), Relief({}, pause))

InvokeFailed(lease, pause) ==
  /\ call.phase = "invoke"
  /\ Decide(FaultPolicy(lease, pause, TRUE), Relief(lease, pause))

(* The watchdog: whatever stalls, the call is denied within the budget.    *)
Deadline ==
  /\ call.phase \notin {"idle", "decided"}
  /\ Decide(Ruling("deny", "harness-deadline"), {})

Hook ==
  \/ Begin \/ FoundCapability \/ ResolvePrincipal \/ Invoke \/ Deadline
  \/ \E pause \in Pauses : UnknownCapability(pause) \/ LookupFailed(pause) \/ DenyOrAsk(pause)
  \/ \E lease \in Leases, pause \in Pauses :
       ResolveFailed(lease, pause) \/ PolicyChannelGate(lease, pause) \/ InvokeFailed(lease, pause)

HookNext == Policy \/ Hook

HookSpec == HookInit /\ [][HookNext]_hookVars

-----------------------------------------------------------------------------
(* Properties *)

HookTypeOK ==
  /\ setting \in Settings
  /\ tables \in [registered : BOOLEAN, live : SUBSET Holders, revoked : SUBSET Holders, writes : 0 .. MaxWrites]
  /\ list \in [age : Ages, listed : SUBSET Holders, seeded : BOOLEAN, live : SUBSET Holders]
  /\ mirror \in [registered : BOOLEAN, live : SUBSET Holders]
  /\ cache \in [warm : BOOLEAN, live : SUBSET Holders]
  /\ call \in [phase : Phases, verdict : Verdicts, why : Reasons, at : Ages \cup {"none"},
               listed : SUBSET Holders, held : SUBSET Holders, capped : BOOLEAN, resolved : BOOLEAN,
               relief : SUBSET {"lease", "pause"}]
  /\ call.phase = "decided" <=> call.verdict # "none"

Allowed == call.verdict = "allow"
MayRun == call.verdict \in {"allow", "ask"}

(* A call that starts when its own pair is on the deny-list, and whose     *)
(* caller is known, neither runs nor is offered to a human: whatever the   *)
(* tier, the mirror, the grant cache, a pause or a lease say, and however  *)
(* policy moves while it is decided.                                       *)
RevokedNeverRuns == call.resolved /\ "instance" \in call.listed => ~MayRun

(* "Then bound the failure": on a replica that has not confirmed policy    *)
(* within the bound, or never, a call above read_only whose caller is      *)
(* known runs only by leave of a lease or a pause that was in force.       *)
FailsClosed ==
  Allowed /\ call.resolved /\ call.at \in {"never", "stale"} /\ setting.replicating
    /\ setting.tier # "read_only" => call.relief # {}

(* A destructive call runs without a human's yes only if the server found  *)
(* a grant that was given, or a pause was in force; no lease, cache or     *)
(* outage is enough.                                                       *)
DestructiveNeedsGrant ==
  Allowed /\ setting.tier = "destructive" /\ call.resolved =>
    "pause" \in call.relief \/ (call.why = "grant" /\ tables.live \cup tables.revoked # {})

(* A profile's ceiling that the node had when the call began holds against *)
(* autoGrant, leases, pauses and outages, whenever the capability is known.*)
CeilingHolds ==
  call.capped /\ (call.resolved \/ call.why \in {"read_only", "unattributed-under-lease", "destructive-under-lease"})
    => ~MayRun

(* No call above read_only runs for a caller that was never granted, unless*)
(* the capability is for everyone, enforcement was paused, the capability  *)
(* was not known, or the caller was not, under a lease.                    *)
NeverGrantedNeverRuns ==
  Allowed /\ setting.tier # "read_only" /\ tables.live \cup tables.revoked = {} =>
    \/ setting.auto \/ "pause" \in call.relief
    \/ call.why = "unregistered"
    \/ call.why = "unattributed-under-lease" /\ call.relief = {"lease"}

(* lib.js says that its gate is "the only thing standing between a node    *)
(* whose delta stream is broken and a revoked grant that still works".     *)
(* The grants an instance works by are its role's.                         *)
RevokedRoleStops ==
  [][call.phase = "invoke" /\ call'.why = "grant" /\ ~setting.auto /\ tables.live = {} /\ call.held = {}
       => call.listed = {}]_hookVars

(* Refuted (README, section 5).  A revoked pair may be granted again       *)
(* (store.js: "while still letting a revoked pair be re-granted"): nobody  *)
(* is told "revoked" by a list that was computed while his grant was live. *)
RegrantedRuns ==
  [][call.phase = "gate" /\ call'.why = "deny-list" => ~("instance" \in list.live \cap tables.live)]_hookVars
=============================================================================
