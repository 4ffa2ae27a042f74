------------------------- MODULE GovernedCallProofs -------------------------
(***************************************************************************)
(* What a governed call is promised: by the hook that decides it, for      *)
(* every pause, lease and situation and any number of grants and           *)
(* revocations; by the audit row that is written of it, and by the         *)
(* approvals it may wait for, for any number of calls that look alike,     *)
(* administrators and crashes.                                             *)
(***************************************************************************)
EXTENDS GovernedCallMC, TLAPS

(* The hook's verdict *)

Rulings == [verdict : Verdicts \ {"none"}, why : Reasons]

CallRecord ==
  [phase : Phases, verdict : Verdicts, why : Reasons, at : Ages \cup {"none"},
   listed : SUBSET Holders, held : SUBSET Holders, capped : BOOLEAN, resolved : BOOLEAN,
   relief : SUBSET {"lease", "pause"}]

TablesRecord == [registered : BOOLEAN, live : SUBSET Holders, revoked : SUBSET Holders, writes : 0 .. MaxWrites]

EverGranted == tables.live \cup tables.revoked # {}

(* What the node's files hold was in the authority's tables; a pair that   *)
(* was listed stays listed.                                                *)
CopiesInv ==
  /\ list.listed \subseteq tables.revoked
  /\ list.age = "absent" => list.listed = {}
  /\ mirror.live \cup cache.live \subseteq tables.live \cup tables.revoked

(* The call: what it saw when it began still stands; a caller that is      *)
(* known has come as far as the gate, and one whose pair was listed no     *)
(* further; whoever passed the gate on policy that is too old had leave.   *)
ProgressInv ==
  /\ call.phase = "decided" <=> call.verdict # "none"
  /\ call.listed \subseteq list.listed
  /\ call.capped => Capped
  /\ call.resolved => call.phase \in {"gate", "invoke", "override", "decided"}
  /\ call.phase \in {"gate", "invoke", "override"} => call.resolved
  /\ call.phase \in {"lookup", "resolve", "gate"} => call.relief = {}
  /\ call.capped => ~call.resolved /\ call.phase \in {"lookup", "decided"}
  /\ "instance" \in call.listed => call.phase \notin {"invoke", "override"}
  /\ call.at \in {"never", "stale"} /\ setting.replicating /\ setting.tier # "read_only" => call.relief # {}

(* ... and what a verdict rests on.                                        *)
VerdictInv ==
  /\ "instance" \in call.listed /\ call.resolved => call.verdict \in {"none", "deny"}
  /\ call.capped => call.why \notin {"read_only", "unattributed-under-lease", "destructive-under-lease"}
  /\ Allowed /\ setting.tier # "read_only" =>
       \/ "pause" \in call.relief
       \/ call.why = "unregistered" /\ ~call.resolved
       \/ call.why = "unattributed-under-lease" /\ call.relief = {"lease"} /\ setting.tier = "mutating"
       \/ call.why = "replica-grant-check" /\ setting.tier = "mutating" /\ (setting.auto \/ EverGranted)
       \/ call.why = "grant" /\ (setting.auto \/ EverGranted)

HookTypes ==
  /\ setting \in Settings /\ setting \in Setting
  /\ tables \in TablesRecord
  /\ list \in [age : Ages, listed : SUBSET Holders, seeded : BOOLEAN, live : SUBSET Holders]
  /\ mirror \in [registered : BOOLEAN, live : SUBSET Holders]
  /\ cache \in [warm : BOOLEAN, live : SUBSET Holders]
  /\ call \in CallRecord

HookInv == HookTypes /\ CopiesInv /\ ProgressInv /\ VerdictInv

(* At the start.                                                           *)
LEMMA HookInitInv == HookInit => HookInv
<1> SUFFICES ASSUME HookInit PROVE HookInv
  OBVIOUS
<1>1. HookTypes
  <2>1. setting \in Setting
    BY SettingAssumption DEF HookInit
  <2>2. call \in CallRecord
    BY DEF HookInit, NoCall, CallRecord, Phases, Verdicts, Reasons, Ages
  <2>3. tables \in TablesRecord
    BY HookAssumption DEF HookInit, TablesRecord
  <2> QED BY <2>1, <2>2, <2>3 DEF HookInit, HookTypes, Ages
<1>2. CopiesInv
  BY DEF HookInit, CopiesInv
<1>3. ProgressInv /\ VerdictInv
  BY DEF HookInit, NoCall, ProgressInv, VerdictInv, Allowed
<1> QED BY <1>1, <1>2, <1>3 DEF HookInv

-----------------------------------------------------------------------------
(* Policy moves.                                                           *)

(* A write at the authority, with the mirror following it or not.          *)
LEMMA SetTablesStep ==
  ASSUME HookInv, NEW t \in TablesRecord, SetTables(t),
         tables.revoked \subseteq t.revoked, tables.live \subseteq t.live \cup t.revoked
  PROVE  /\ HookTypes' /\ CopiesInv' /\ setting' = setting /\ call' = call
         /\ list.listed \subseteq list'.listed /\ (Capped => Capped')
         /\ EverGranted => EverGranted'
<1>1. tables' = t /\ setting' = setting /\ call' = call /\ list' = list /\ cache' = cache
  BY DEF SetTables
<1>2. mirror' = mirror \/ mirror' = [registered |-> t.registered, live |-> t.live]
  BY DEF SetTables
<1>3. mirror' \in [registered : BOOLEAN, live : SUBSET Holders]
  BY <1>2 DEF HookInv, HookTypes, TablesRecord
<1>4. HookTypes'
  BY <1>1, <1>3 DEF HookInv, HookTypes, TablesRecord
<1>5. mirror'.live = mirror.live \/ mirror'.live = t.live
  BY <1>2
<1>6. CopiesInv'
  BY <1>1, <1>5 DEF HookInv, CopiesInv
<1> QED BY <1>1, <1>4, <1>6 DEF EverGranted, Capped

(* No step of policy takes a pair from the deny-list, forgets that a grant *)
(* was ever given, or makes the copies hold what was not in the tables.    *)
LEMMA PolicySteps ==
  ASSUME HookInv, Policy
  PROVE  /\ HookTypes' /\ CopiesInv' /\ setting' = setting /\ call' = call
         /\ list.listed \subseteq list'.listed /\ (Capped => Capped')
         /\ EverGranted => EverGranted'
<1> USE DEF HookInv
<1>1. CASE Register
  <2> DEFINE t == [tables EXCEPT !.registered = TRUE]
  <2>1. SetTables(t)
    BY <1>1 DEF Register
  <2>2. t \in TablesRecord /\ t.live = tables.live /\ t.revoked = tables.revoked
    BY DEF HookTypes, TablesRecord
  <2> HIDE DEF t
  <2> QED BY <2>1, <2>2, SetTablesStep
<1>2. ASSUME NEW h \in Holders, Grant(h) \/ Revoke(h)
      PROVE  /\ HookTypes' /\ CopiesInv' /\ setting' = setting /\ call' = call
             /\ list.listed \subseteq list'.listed /\ (Capped => Capped')
             /\ EverGranted => EverGranted'
  <2>1. /\ tables.writes + 1 \in 0 .. MaxWrites
        /\ tables.live \in SUBSET Holders /\ tables.revoked \in SUBSET Holders /\ tables.registered \in BOOLEAN
    <3>1. tables.writes < MaxWrites
      BY <1>2 DEF Grant, Revoke
    <3> QED BY <3>1, HookAssumption DEF HookTypes, TablesRecord
  <2>2. CASE Grant(h)
    <3> DEFINE t == [tables EXCEPT !.live = @ \cup {h}, !.writes = @ + 1]
    <3>1. SetTables(t)
      BY <2>2 DEF Grant
    <3>2. t \in TablesRecord /\ t.live = tables.live \cup {h} /\ t.revoked = tables.revoked
      BY <2>1 DEF HookTypes, TablesRecord
    <3> HIDE DEF t
    <3> QED BY <3>1, <3>2, SetTablesStep
  <2>3. CASE Revoke(h)
    <3> DEFINE t == [tables EXCEPT !.live = @ \ {h}, !.revoked = @ \cup {h}, !.writes = @ + 1]
    <3>1. SetTables(t)
      BY <2>3 DEF Revoke
    <3>2. t \in TablesRecord /\ t.live = tables.live \ {h} /\ t.revoked = tables.revoked \cup {h}
      BY <2>1 DEF HookTypes, TablesRecord
    <3>3. tables.live \subseteq t.live \cup t.revoked /\ tables.revoked \subseteq t.revoked
      BY <3>2
    <3> HIDE DEF t
    <3> QED BY <3>1, <3>2, <3>3, SetTablesStep
  <2> QED BY <1>2, <2>2, <2>3
<1>3. CASE LayMarker
  BY <1>3 DEF LayMarker, HookTypes, CopiesInv, Capped, EverGranted, Ages
<1>4. CASE WriteDenyList
  BY <1>4 DEF WriteDenyList, ListedPairs, HookTypes, TablesRecord, CopiesInv, Capped, EverGranted, Ages
<1>5. CASE GrowStale
  BY <1>5 DEF GrowStale, HookTypes, CopiesInv, Capped, EverGranted, Ages
<1>6. CASE Mirror
  BY <1>6 DEF Mirror, HookTypes, TablesRecord, CopiesInv, Capped, EverGranted
<1>7. CASE WarmCache
  BY <1>7 DEF WarmCache, HookTypes, CopiesInv, Capped, EverGranted
<1> QED BY <1>1, <1>2, <1>3, <1>4, <1>5, <1>6, <1>7 DEF Policy

(* Policy does not disturb the call that is under way.                     *)
LEMMA PolicyStep == ASSUME HookInv, Policy PROVE HookInv'
<1>1. CASE EverGranted
  <2>1. ProgressInv' /\ VerdictInv'
    BY <1>1, PolicySteps DEF HookInv, ProgressInv, VerdictInv, Allowed
  <2> QED BY <2>1, PolicySteps DEF HookInv
<1>2. CASE ~EverGranted
  <2>1. ProgressInv' /\ VerdictInv'
    BY <1>2, PolicySteps DEF HookInv, ProgressInv, VerdictInv, Allowed
  <2> QED BY <2>1, PolicySteps DEF HookInv
<1> QED BY <1>1, <1>2
-----------------------------------------------------------------------------
(* The ladder.                                                             *)

(* What the ladder lets through above read_only, it lets through a pause,  *)
(* or, below destructive, a lease that is joined by a grant in the cache or*)
(* by a caller that could not be read.                                     *)
LEMMA LadderLetsThrough ==
  ASSUME HookInv, NEW lease \in Leases, NEW pause \in Pauses, NEW known \in BOOLEAN,
         NEW v, v = FaultPolicy(lease, pause, known)
  PROVE  /\ v \in Rulings
         /\ v.verdict = "allow" /\ setting.tier # "read_only" =>
              \/ pause # {}
              \/ /\ lease # {} /\ setting.tier = "mutating"
                 /\ \/ v.why = "unattributed-under-lease" /\ ~known
                    \/ v.why = "replica-grant-check" /\ (setting.auto \/ EverGranted)
<1>1. setting.tier \in Tiers
  BY DEF HookInv, HookTypes, Setting
<1>2. ASSUME NEW s, s = FaultPolicyStrict(lease, known)
      PROVE  /\ s \in Rulings
             /\ s.verdict = "allow" /\ setting.tier # "read_only" =>
                  /\ lease # {} /\ setting.tier = "mutating"
                  /\ \/ s.why = "unattributed-under-lease" /\ ~known
                     \/ s.why = "replica-grant-check" /\ (setting.auto \/ EverGranted)
  <2>1. CASE setting.tier = "read_only"
    BY <1>2, <2>1 DEF FaultPolicyStrict, Ruling, Rulings, Verdicts, Reasons
  <2>2. CASE setting.tier = "destructive"
    BY <1>2, <2>2 DEF FaultPolicyStrict, Ruling, Rulings, Verdicts, Reasons
  <2>3. CASE setting.tier = "mutating"
    <3>1. CASE setting.tier \notin lease
      BY <1>2, <2>3, <3>1 DEF FaultPolicyStrict, Ruling, Rulings, Verdicts, Reasons
    <3>2. CASE setting.tier \in lease /\ ~known
      BY <1>2, <2>3, <3>2 DEF FaultPolicyStrict, Ruling, Rulings, Verdicts, Reasons
    <3>3. CASE setting.tier \in lease /\ known /\ HoldsGrant(cache.live)
      <4>1. s = Ruling("allow", "replica-grant-check")
        BY <1>2, <2>3, <3>3 DEF FaultPolicyStrict
      <4>2. setting.auto \/ EverGranted
        BY <3>3 DEF HoldsGrant, EverGranted, HookInv, CopiesInv
      <4> QED BY <2>3, <3>3, <4>1, <4>2 DEF Ruling, Rulings, Verdicts, Reasons
    <3>4. CASE setting.tier \in lease /\ known /\ ~HoldsGrant(cache.live)
      <4>1. s = Ruling("deny", IF cache.warm THEN "replica-grant-check" ELSE "no-replica")
        BY <1>2, <2>3, <3>4 DEF FaultPolicyStrict
      <4> QED BY <4>1 DEF Ruling, Rulings, Verdicts, Reasons
    <3> QED BY <3>1, <3>2, <3>3, <3>4
  <2> QED BY <1>1, <2>1, <2>2, <2>3 DEF Tiers
<1> DEFINE s == FaultPolicyStrict(lease, known)
<1>3. v = s \/ (setting.tier \in pause /\ v = Ruling("allow", "enforcement-pause"))
  BY DEF FaultPolicy, EnforcementPauseOverride
<1>4. Ruling("allow", "enforcement-pause") \in Rulings
  BY DEF Ruling, Rulings, Verdicts, Reasons
<1> HIDE DEF s
<1>5. CASE v = s
  BY <1>2, <1>5 DEF s
<1>6. CASE setting.tier \in pause /\ v = Ruling("allow", "enforcement-pause")
  BY <1>4, <1>6
<1> QED BY <1>3, <1>5, <1>6

(* What a pause and a lease are noted as.                                  *)
LEMMA ReliefIs ==
  ASSUME NEW lease, NEW pause
  PROVE  /\ Relief(lease, pause) \in SUBSET {"lease", "pause"}
         /\ "pause" \in Relief(lease, pause) <=> pause # {}
         /\ "lease" \in Relief(lease, pause) <=> lease # {}
  BY DEF Relief

-----------------------------------------------------------------------------
(* The hook's steps.                                                       *)

(* A step of the hook moves the call alone.                                *)
LEMMA WentStays == ASSUME NEW c, HookInv, Went(c), c \in CallRecord
                   PROVE  HookTypes' /\ CopiesInv' /\ UNCHANGED <<setting, tables, list, mirror, cache>>
  BY DEF Went, HookInv, HookTypes, CopiesInv

(* A decision writes the verdict and what it was owed to, nothing else.    *)
LEMMA HookDecides ==
  ASSUME HookInv, NEW v \in Rulings, NEW relief \in SUBSET {"lease", "pause"}, Decide(v, relief)
  PROVE  /\ HookTypes' /\ CopiesInv' /\ UNCHANGED <<setting, tables, list, mirror, cache>>
         /\ call'.phase = "decided" /\ call'.verdict = v.verdict /\ call'.why = v.why
         /\ call'.relief = call.relief \cup relief /\ v.verdict # "none"
         /\ call'.listed = call.listed /\ call'.capped = call.capped
         /\ call'.resolved = call.resolved /\ call'.at = call.at
<1> DEFINE c == [call EXCEPT !.phase = "decided", !.verdict = v.verdict, !.why = v.why, !.relief = @ \cup relief]
<1>1. Went(c)
  BY DEF Decide
<1>2. call \in CallRecord
  BY DEF HookInv, HookTypes
<1>3. /\ c \in CallRecord
      /\ c.phase = "decided" /\ c.verdict = v.verdict /\ c.why = v.why
      /\ c.relief = call.relief \cup relief /\ v.verdict # "none"
      /\ c.listed = call.listed /\ c.capped = call.capped
      /\ c.resolved = call.resolved /\ c.at = call.at
  BY <1>2 DEF CallRecord, Rulings, Phases
<1>4. call' = c
  BY <1>1 DEF Went
<1> HIDE DEF c
<1> QED BY <1>1, <1>3, <1>4, WentStays

(* What a ruling is made of.                                               *)
LEMMA RulingIs == ASSUME NEW v \in Verdicts \ {"none"}, NEW why \in Reasons
                  PROVE  Ruling(v, why) \in Rulings /\ Ruling(v, why).verdict = v /\ Ruling(v, why).why = why
  BY DEF Ruling, Rulings

(* What is left to show of a decision.                                     *)
LEMMA DecisionStands ==
  ASSUME HookInv, NEW v \in Rulings, NEW relief \in SUBSET {"lease", "pause"}, Decide(v, relief),
         call.phase \in {"lookup", "resolve", "gate", "invoke", "override"},
         call.capped => call.phase = "lookup" /\ v.why \notin {"read_only", "unattributed-under-lease", "destructive-under-lease"},
         call.phase = "gate" /\ "instance" \in call.listed => v.verdict = "deny",
         v.verdict = "allow" /\ setting.tier # "read_only" =>
           \/ "pause" \in relief
           \/ v.why = "unregistered" /\ ~call.resolved
           \/ v.why = "unattributed-under-lease" /\ call.phase = "resolve" /\ relief = {"lease"} /\ setting.tier = "mutating"
           \/ v.why = "replica-grant-check" /\ setting.tier = "mutating" /\ (setting.auto \/ EverGranted)
           \/ v.why = "grant" /\ (setting.auto \/ EverGranted)
  PROVE  HookInv'
<1>1. /\ HookTypes' /\ CopiesInv' /\ UNCHANGED <<setting, tables, list, mirror, cache>>
      /\ call'.phase = "decided" /\ call'.verdict = v.verdict /\ call'.why = v.why
      /\ call'.relief = call.relief \cup relief /\ v.verdict # "none"
      /\ call'.listed = call.listed /\ call'.capped = call.capped
      /\ call'.resolved = call.resolved /\ call'.at = call.at
  BY HookDecides
<1>2. ProgressInv'
  BY <1>1 DEF HookInv, ProgressInv, Capped
<1>3. EverGranted' = EverGranted
  BY <1>1 DEF EverGranted
<1>4. VerdictInv'
  <2>1. ("instance" \in call.listed /\ call.resolved => call.verdict \in {"none", "deny"})'
    BY <1>1 DEF HookInv, ProgressInv
  <2>2. (call.capped => call.why \notin {"read_only", "unattributed-under-lease", "destructive-under-lease"})'
    BY <1>1
  <2>3. (Allowed /\ setting.tier # "read_only" =>
           \/ "pause" \in call.relief
           \/ call.why = "unregistered" /\ ~call.resolved
           \/ call.why = "unattributed-under-lease" /\ call.relief = {"lease"} /\ setting.tier = "mutating"
           \/ call.why = "replica-grant-check" /\ setting.tier = "mutating" /\ (setting.auto \/ EverGranted)
           \/ call.why = "grant" /\ (setting.auto \/ EverGranted))'
    BY <1>1, <1>3 DEF HookInv, ProgressInv, Allowed
  <2> QED BY <2>1, <2>2, <2>3 DEF VerdictInv
<1> QED BY <1>1, <1>2, <1>4 DEF HookInv

(* A call begins, and notes what the node knows of it.                     *)
LEMMA BeginStep == ASSUME HookInv, Begin PROVE HookInv'
<1> DEFINE c == [NoCall EXCEPT !.phase = "lookup", !.listed = list.listed, !.held = list.live, !.capped = Capped]
<1>1. Went(c)
  BY DEF Begin
<1>2. /\ c \in CallRecord
      /\ c.phase = "lookup" /\ c.verdict = "none" /\ c.why = "none" /\ c.relief = {} /\ c.at = "none"
      /\ c.listed = list.listed /\ c.capped = Capped /\ c.resolved = FALSE
  <2>1. Capped \in BOOLEAN
    BY DEF Capped
  <2>2. list.listed \in SUBSET Holders /\ list.live \in SUBSET Holders
    BY DEF HookInv, HookTypes
  <2> HIDE DEF Capped
  <2> QED BY <2>1, <2>2 DEF NoCall, CallRecord, Phases, Verdicts, Reasons, Ages
<1>3. call' = c
  BY <1>1 DEF Went
<1> HIDE DEF c
<1>4. HookTypes' /\ CopiesInv' /\ UNCHANGED <<setting, tables, list, mirror, cache>>
  BY <1>1, <1>2, WentStays
<1>5. ProgressInv' /\ VerdictInv'
  BY <1>2, <1>3, <1>4 DEF ProgressInv, VerdictInv, Allowed, Capped
<1> QED BY <1>4, <1>5 DEF HookInv

(* From the lookup to the question of who calls, and from there to the     *)
(* gate, the call only moves on.                                           *)
LEMMA MovesOn ==
  ASSUME HookInv, NEW phase, NEW resolved \in BOOLEAN,
         Went([call EXCEPT !.phase = phase, !.resolved = resolved]),
         \/ call.phase = "lookup" /\ ~Capped /\ phase = "resolve" /\ resolved = call.resolved
         \/ call.phase = "resolve" /\ phase = "gate" /\ resolved = TRUE
  PROVE  HookInv'
<1> DEFINE c == [call EXCEPT !.phase = phase, !.resolved = resolved]
<1>1. /\ c \in CallRecord
      /\ c.phase = phase /\ c.resolved = resolved /\ c.verdict = call.verdict /\ c.why = call.why
      /\ c.relief = call.relief /\ c.at = call.at /\ c.listed = call.listed /\ c.capped = call.capped
  BY DEF HookInv, HookTypes, CallRecord, Phases
<1>2. call' = c /\ Went(c)
  BY DEF Went
<1> HIDE DEF c
<1>3. HookTypes' /\ CopiesInv' /\ UNCHANGED <<setting, tables, list, mirror, cache>>
  BY <1>1, <1>2, WentStays
<1>4. ProgressInv' /\ VerdictInv'
  BY <1>1, <1>2, <1>3 DEF HookInv, ProgressInv, VerdictInv, Allowed, Capped, EverGranted
<1> QED BY <1>3, <1>4 DEF HookInv

(* The capability is found or it is not; a call that the ceiling bars is   *)
(* denied here.                                                            *)
LEMMA LookupSteps ==
  ASSUME HookInv, FoundCapability \/ \E pause \in Pauses : UnknownCapability(pause) \/ LookupFailed(pause)
  PROVE  HookInv'
<1>1. ASSUME call.phase = "lookup", NEW pause \in Pauses, pause = Tiers,
             Decide(Ruling("allow", "enforcement-pause"), Relief({}, pause))
      PROVE  HookInv'
  <2>1. /\ Relief({}, pause) \in SUBSET {"lease", "pause"} /\ "pause" \in Relief({}, pause)
        /\ Ruling("allow", "enforcement-pause") \in Rulings
        /\ Ruling("allow", "enforcement-pause").why = "enforcement-pause"
    BY <1>1, ReliefIs DEF Tiers, Ruling, Rulings, Verdicts, Reasons
  <2> QED BY <1>1, <2>1, DecisionStands
<1>2. ASSUME call.phase = "lookup", NEW why \in Reasons, NEW v \in {"allow", "deny"}, Decide(Ruling(v, why), {}),
             v = "allow" => why = "unregistered",
             why \notin {"read_only", "unattributed-under-lease", "destructive-under-lease"}
      PROVE  HookInv'
  <2>1. Ruling(v, why) \in Rulings /\ Ruling(v, why).verdict = v /\ Ruling(v, why).why = why
    BY RulingIs DEF Verdicts
  <2>2. ~call.resolved
    BY <1>2 DEF HookInv, ProgressInv
  <2>3. {} \in SUBSET {"lease", "pause"}
    OBVIOUS
  <2> QED BY <1>2, <2>1, <2>2, <2>3, DecisionStands
<1>3. CASE FoundCapability
  <2>1. CASE AboveCeiling
    BY <1>2, <1>3, <2>1 DEF FoundCapability, Reasons
  <2>2. CASE ~AboveCeiling
    <3>1. call.phase = "lookup" /\ Went([call EXCEPT !.phase = "resolve"])
      BY <1>3, <2>2 DEF FoundCapability
    <3>2. [call EXCEPT !.phase = "resolve"] = [call EXCEPT !.phase = "resolve", !.resolved = call.resolved]
      BY DEF HookInv, HookTypes, CallRecord
    <3>3. call.resolved \in BOOLEAN
      BY DEF HookInv, HookTypes, CallRecord
    <3> QED BY <2>2, <3>1, <3>2, <3>3, MovesOn DEF AboveCeiling
  <2> QED BY <2>1, <2>2
<1>4. ASSUME NEW pause \in Pauses, UnknownCapability(pause) PROVE HookInv'
  <2>1. /\ call.phase = "lookup"
        /\ \/ pause = Tiers /\ Decide(Ruling("allow", "enforcement-pause"), Relief({}, pause))
           \/ Decide(Ruling("deny", "not-replicated"), {})
           \/ Decide(Ruling("allow", "unregistered"), {})
    BY <1>4 DEF UnknownCapability, PauseCoversUnknownTier
  <2> QED BY <1>1, <1>2, <2>1 DEF Reasons
<1>5. ASSUME NEW pause \in Pauses, LookupFailed(pause) PROVE HookInv'
  <2>1. /\ call.phase = "lookup"
        /\ \/ pause = Tiers /\ Decide(Ruling("allow", "enforcement-pause"), Relief({}, pause))
           \/ Decide(Ruling("deny", "tier-unknown"), {})
    BY <1>5 DEF LookupFailed, PauseCoversUnknownTier
  <2> QED BY <1>1, <1>2, <2>1 DEF Reasons
<1> QED BY <1>3, <1>4, <1>5

(* The caller is known, or the ladder decides for one who could not be read.*)
LEMMA ResolveSteps ==
  ASSUME HookInv, ResolvePrincipal \/ \E lease \in Leases, pause \in Pauses : ResolveFailed(lease, pause)
  PROVE  HookInv'
<1>1. CASE ResolvePrincipal
  BY <1>1, MovesOn DEF ResolvePrincipal
<1>2. ASSUME NEW lease \in Leases, NEW pause \in Pauses, ResolveFailed(lease, pause) PROVE HookInv'
  <2> DEFINE v == FaultPolicy(lease, pause, FALSE)
             relief == Relief(lease, pause)
  <2>1. call.phase = "resolve" /\ Decide(v, relief)
    BY <1>2 DEF ResolveFailed
  <2>2. /\ v \in Rulings
        /\ v.verdict = "allow" /\ setting.tier # "read_only" =>
             \/ pause # {}
             \/ /\ lease # {} /\ setting.tier = "mutating"
                /\ \/ v.why = "unattributed-under-lease" /\ ~FALSE
                   \/ v.why = "replica-grant-check" /\ (setting.auto \/ EverGranted)
    BY LadderLetsThrough, Zenon
  <2>3. relief \in SUBSET {"lease", "pause"} /\ ("pause" \in relief <=> pause # {}) /\ ("lease" \in relief <=> lease # {})
    BY ReliefIs
  <2>4. ~call.capped
    BY <2>1 DEF HookInv, ProgressInv
  <2> HIDE DEF v, relief
  <2> QED BY <2>1, <2>2, <2>3, <2>4, DecisionStands
<1> QED BY <1>1, <1>2

(* A caller whose pair was listed when the call began is stopped here; who *)
(* passes on policy that is too old does so by leave.                      *)
LEMMA GateStep ==
  ASSUME HookInv, NEW lease \in Leases, NEW pause \in Pauses, PolicyChannelGate(lease, pause)
  PROVE  HookInv'
<1> DEFINE v == FaultPolicy(lease, pause, TRUE)
           relief == Relief(lease, pause)
           here == [call EXCEPT !.phase = "invoke", !.at = list.age]
<1>1. /\ call.phase = "gate"
      /\ \/ Listed /\ Decide(Ruling("deny", "deny-list"), {})
         \/ ~Listed /\ ~Stale /\ Went(here)
         \/ ~Listed /\ Stale /\ v.verdict = "allow" /\ Went([here EXCEPT !.relief = relief])
         \/ ~Listed /\ Stale /\ v.verdict # "allow" /\ Decide(v, relief)
  BY DEF PolicyChannelGate
<1>2. /\ v \in Rulings
      /\ v.verdict = "allow" /\ setting.tier # "read_only" => pause # {} \/ lease # {}
  BY LadderLetsThrough
<1>3. relief \in SUBSET {"lease", "pause"} /\ (pause # {} \/ lease # {} => relief # {})
  BY ReliefIs
<1>4. ~call.capped /\ call.relief = {} /\ call.verdict = "none" /\ call.resolved
  BY <1>1 DEF HookInv, ProgressInv
<1>5. ~Listed => "instance" \notin call.listed
  BY DEF Listed, HookInv, CopiesInv, ProgressInv
<1>6. ASSUME NEW r \in SUBSET {"lease", "pause"}, ~Listed, Went([here EXCEPT !.relief = r]),
             Stale /\ setting.tier # "read_only" => r # {}
      PROVE  HookInv'
  <2> DEFINE c == [here EXCEPT !.relief = r]
  <2>1. /\ c \in CallRecord
        /\ c.phase = "invoke" /\ c.at = list.age /\ c.relief = r /\ c.resolved = call.resolved
        /\ c.verdict = call.verdict /\ c.why = call.why /\ c.listed = call.listed /\ c.capped = call.capped
    BY <1>6 DEF HookInv, HookTypes, CallRecord, Phases
  <2>2. call' = c /\ Went(c)
    BY <1>6 DEF Went
  <2> HIDE DEF c
  <2>3. HookTypes' /\ CopiesInv' /\ UNCHANGED <<setting, tables, list, mirror, cache>>
    BY <2>1, <2>2, WentStays
  <2>4. ProgressInv' /\ VerdictInv'
    BY <1>4, <1>5, <1>6, <2>1, <2>2, <2>3 DEF HookInv, ProgressInv, VerdictInv, Allowed, Stale
  <2> QED BY <2>3, <2>4 DEF HookInv
<1>7. CASE Listed /\ Decide(Ruling("deny", "deny-list"), {})
  <2>1. Ruling("deny", "deny-list") \in Rulings /\ Ruling("deny", "deny-list").verdict = "deny"
    BY DEF Ruling, Rulings, Verdicts, Reasons
  <2>2. {} \in SUBSET {"lease", "pause"}
    OBVIOUS
  <2> QED BY <1>1, <1>4, <1>7, <2>1, <2>2, DecisionStands
<1>8. CASE ~Listed /\ ~Stale /\ Went(here)
  <2>1. here = [here EXCEPT !.relief = {}]
    BY <1>4 DEF HookInv, HookTypes, CallRecord
  <2>2. {} \in SUBSET {"lease", "pause"}
    OBVIOUS
  <2> QED BY <1>6, <1>8, <2>1, <2>2
<1>9. CASE ~Listed /\ Stale /\ v.verdict = "allow" /\ Went([here EXCEPT !.relief = relief])
  <2> HIDE DEF v, relief, here
  <2> QED BY <1>2, <1>3, <1>6, <1>9 DEF here
<1>10. CASE ~Listed /\ Stale /\ v.verdict # "allow" /\ Decide(v, relief)
  <2> HIDE DEF v, relief
  <2> QED BY <1>1, <1>2, <1>3, <1>4, <1>5, <1>10, DecisionStands
<1> QED BY <1>1, <1>7, <1>8, <1>9, <1>10

(* The local server answers, fails or is late; its no may be overridden by a*)
(* pause or put to a human.                                                *)
LEMMA InvokeSteps ==
  ASSUME HookInv,
         \/ Invoke
         \/ \E pause \in Pauses : DenyOrAsk(pause)
         \/ \E lease \in Leases, pause \in Pauses : InvokeFailed(lease, pause)
         \/ Deadline
  PROVE  HookInv'
<1>1. {} \in SUBSET {"lease", "pause"}
  OBVIOUS
<1>2. CASE Invoke
  <2>1. call.phase = "invoke" /\ ~call.capped
    BY <1>2 DEF Invoke, HookInv, ProgressInv
  <2>2. CASE HoldsGrant(mirror.live)
    <3>1. setting.auto \/ EverGranted
      BY <2>2 DEF HoldsGrant, EverGranted, HookInv, CopiesInv
    <3>2. \/ Decide(Ruling("allow", "grant"), {})
          \/ Decide(Ruling("deny", "velocity"), {})
      BY <1>2, <2>2 DEF Invoke
    <3>3. /\ Ruling("allow", "grant") \in Rulings /\ Ruling("allow", "grant").why = "grant"
          /\ Ruling("deny", "velocity") \in Rulings /\ Ruling("deny", "velocity").verdict = "deny"
      BY DEF Ruling, Rulings, Verdicts, Reasons
    <3> QED BY <1>1, <2>1, <3>1, <3>2, <3>3, DecisionStands
  <2>3. CASE ~HoldsGrant(mirror.live)
    <3> DEFINE c == [call EXCEPT !.phase = "override"]
    <3>1. call' = c /\ Went(c)
      BY <1>2, <2>3 DEF Invoke, Went
    <3>2. /\ c \in CallRecord
          /\ c.phase = "override" /\ c.at = call.at /\ c.relief = call.relief /\ c.resolved = call.resolved
          /\ c.verdict = call.verdict /\ c.why = call.why /\ c.listed = call.listed /\ c.capped = call.capped
      BY DEF HookInv, HookTypes, CallRecord, Phases
    <3> HIDE DEF c
    <3>3. HookTypes' /\ CopiesInv' /\ UNCHANGED <<setting, tables, list, mirror, cache>>
      BY <3>1, <3>2, WentStays
    <3>4. ProgressInv' /\ VerdictInv'
      BY <2>1, <3>1, <3>2, <3>3 DEF HookInv, ProgressInv, VerdictInv, Allowed
    <3> QED BY <3>3, <3>4 DEF HookInv
  <2> QED BY <2>2, <2>3
<1>3. ASSUME NEW pause \in Pauses, DenyOrAsk(pause) PROVE HookInv'
  <2>1. PICK no \in {Ruling("ask", "no-grant"), Ruling("deny", "no-grant")} :
          Decide(EnforcementPauseOverride(pause, no), Relief({}, pause))
    BY <1>3 DEF DenyOrAsk
  <2> DEFINE v == EnforcementPauseOverride(pause, no)
  <2>2. v \in Rulings /\ (v.verdict = "allow" => pause # {})
    BY DEF EnforcementPauseOverride, Ruling, Rulings, Verdicts, Reasons
  <2>3. Relief({}, pause) \in SUBSET {"lease", "pause"} /\ (pause # {} => "pause" \in Relief({}, pause))
    BY ReliefIs
  <2>4. call.phase = "override" /\ ~call.capped
    BY <1>3 DEF DenyOrAsk, HookInv, ProgressInv
  <2>5. Decide(v, Relief({}, pause))
    BY <2>1
  <2> HIDE DEF v
  <2> QED BY <2>2, <2>3, <2>4, <2>5, DecisionStands
<1>4. ASSUME NEW lease \in Leases, NEW pause \in Pauses, InvokeFailed(lease, pause) PROVE HookInv'
  <2> DEFINE v == FaultPolicy(lease, pause, TRUE)
             relief == Relief(lease, pause)
  <2>1. call.phase = "invoke" /\ Decide(v, relief) /\ ~call.capped
    BY <1>4 DEF InvokeFailed, HookInv, ProgressInv
  <2>2. /\ v \in Rulings
        /\ v.verdict = "allow" /\ setting.tier # "read_only" =>
             \/ pause # {}
             \/ /\ lease # {} /\ setting.tier = "mutating"
                /\ \/ v.why = "unattributed-under-lease" /\ ~TRUE
                   \/ v.why = "replica-grant-check" /\ (setting.auto \/ EverGranted)
    BY LadderLetsThrough, Zenon
  <2>3. relief \in SUBSET {"lease", "pause"} /\ (pause # {} => "pause" \in relief)
    BY ReliefIs
  <2> HIDE DEF v, relief
  <2> QED BY <2>1, <2>2, <2>3, DecisionStands
<1>5. CASE Deadline
  <2>1. call.phase \in {"lookup", "resolve", "gate", "invoke", "override"} /\ Decide(Ruling("deny", "harness-deadline"), {})
    BY <1>5 DEF Deadline, HookInv, HookTypes, CallRecord, Phases
  <2>2. /\ Ruling("deny", "harness-deadline") \in Rulings /\ Ruling("deny", "harness-deadline").verdict = "deny"
        /\ Ruling("deny", "harness-deadline").why = "harness-deadline"
    BY DEF Ruling, Rulings, Verdicts, Reasons
  <2>3. call.capped => call.phase = "lookup"
    BY <2>1 DEF HookInv, ProgressInv
  <2> QED BY <1>1, <2>1, <2>2, <2>3, DecisionStands
<1> QED BY <1>2, <1>3, <1>4, <1>5

(* Every step of hook and policy keeps the invariant.                      *)
LEMMA HookStep == HookInv /\ [HookNext]_hookVars => HookInv'
<1> SUFFICES ASSUME HookInv, [HookNext]_hookVars PROVE HookInv'
  OBVIOUS
<1>1. CASE Policy
  BY <1>1, PolicyStep
<1>2. CASE Hook
  BY <1>2, BeginStep, LookupSteps, ResolveSteps, GateStep, InvokeSteps DEF Hook
<1>3. CASE UNCHANGED hookVars
  BY <1>3 DEF hookVars, HookInv, HookTypes, CopiesInv, ProgressInv, VerdictInv, Allowed, Capped, EverGranted
<1> QED BY <1>1, <1>2, <1>3 DEF HookNext

(* So it holds throughout.                                                 *)
LEMMA HookAlways == HookSpec => []HookInv
  BY HookInitInv, HookStep, PTL DEF HookSpec

-----------------------------------------------------------------------------
(* The promises.                                                           *)

(* The variables keep their types: the situation is one of those given, and*)
(* a decision has a verdict (hooks/lib.js runPreToolUse).                  *)
THEOREM HookTypeCorrect == HookSpec => []HookTypeOK
<1>1. HookInv => HookTypeOK
  BY DEF HookInv, HookTypes, ProgressInv, HookTypeOK, TablesRecord, CallRecord
<1> QED BY <1>1, HookAlways, PTL

(* A caller whose own pair was on the node's deny-list when the call began *)
(* neither runs nor is offered to a human: the gate comes before /invoke,  *)
(* its answer, the fault ladder and every pause (hooks/lib.js              *)
(* policyChannelGate).                                                     *)
THEOREM RevokedIsStopped == HookSpec => []RevokedNeverRuns
<1>1. HookInv => RevokedNeverRuns
  BY DEF HookInv, VerdictInv, RevokedNeverRuns, MayRun
<1> QED BY <1>1, HookAlways, PTL

(* Above read_only, nothing gets past the gate on policy older than its    *)
(* bound without a lease or a pause (hooks/lib.js policyChannelGate,       *)
(* faultPolicy).                                                           *)
THEOREM StalePolicyFailsClosed == HookSpec => []FailsClosed
<1>1. HookInv => FailsClosed
  BY DEF HookInv, ProgressInv, FailsClosed
<1> QED BY <1>1, HookAlways, PTL

(* A destructive call that was allowed to a known caller without asking a  *)
(* human had a grant, now or once, or a pause that covered it: no lease,   *)
(* cache or outage is enough (hooks/lib.js faultPolicyStrict).             *)
THEOREM DestructiveWasGranted == HookSpec => []DestructiveNeedsGrant
<1>1. HookInv => DestructiveNeedsGrant
  <2> SUFFICES ASSUME HookInv, Allowed, setting.tier = "destructive", call.resolved
               PROVE  "pause" \in call.relief \/ (call.why = "grant" /\ tables.live \cup tables.revoked # {})
    BY DEF DestructiveNeedsGrant
  <2>1. ~setting.auto
    BY SettingAssumption DEF HookInv, HookTypes
  <2> QED BY <2>1 DEF HookInv, VerdictInv, EverGranted
<1> QED BY <1>1, HookAlways, PTL

(* No lease, pause or outage lifts a ceiling that the node had when the call*)
(* began (hooks/lib.js, the tier ceiling).                                 *)
THEOREM CeilingIsKept == HookSpec => []CeilingHolds
<1>1. HookInv => CeilingHolds
  BY DEF HookInv, ProgressInv, VerdictInv, CeilingHolds
<1> QED BY <1>1, HookAlways, PTL

(* Where nothing was ever granted, no call above read_only is allowed,     *)
(* whatever copy of the policy is looked at, but for a capability that is  *)
(* granted to all, one the node has not heard of, a pause, and a caller that*)
(* could not be read under a lease (hooks/lib.js).                         *)
THEOREM NobodyUngrantedRuns == HookSpec => []NeverGrantedNeverRuns
<1>1. HookInv => NeverGrantedNeverRuns
  BY DEF HookInv, VerdictInv, EverGranted, NeverGrantedNeverRuns
<1> QED BY <1>1, HookAlways, PTL

-----------------------------------------------------------------------------
(* The audit row *)

FileRecord == [of : Calls \cup {Nobody}, ask : BOOLEAN]
AuditedCall == [step : Steps, way : Ways, ran : BOOLEAN, failed : BOOLEAN, claim : FileRecord]
RowRecord == [outcome : Outcomes, stored : BOOLEAN, corrected : BOOLEAN]

AuditTypes ==
  /\ calls \in [Calls -> AuditedCall]
  /\ rows \in [Calls -> RowRecord]
  /\ files \in [Inputs -> FileRecord]

(* A file that asks names a call at a prompt, or past it.                  *)
Asked(file) == file.ask => file.of \in Calls /\ calls[file.of].way = "asked"

AskedInv ==
  /\ \A c \in Calls : calls[c].way = "asked" => calls[c].step \notin {"idle", "answered"}
  /\ \A i \in Inputs : Asked(files[i])
  /\ \A c \in Calls : Asked(calls[c].claim)
  /\ ApprovedWasAsked

AuditInv == AuditTypes /\ AskedInv

(* No file asks nothing.                                                   *)
LEMMA NoFileIs == NoFile \in FileRecord /\ ~NoFile.ask
  BY DEF NoFile, FileRecord

(* At the start.                                                           *)
LEMMA AuditInitInv == AuditInit => AuditInv
<1> SUFFICES ASSUME AuditInit PROVE AuditInv
  OBVIOUS
<1>1. AuditTypes
  <2>1. \A c \in Calls : calls[c] \in AuditedCall
    BY NoFileIs DEF AuditInit, AuditedCall, Steps, Ways
  <2>2. NoRow \in RowRecord
    BY DEF NoRow, RowRecord, Outcomes
  <2> QED BY <2>1, <2>2, NoFileIs DEF AuditInit, AuditTypes
<1>2. AskedInv
  BY NoFileIs DEF AuditInit, AskedInv, Asked, ApprovedWasAsked, NoRow
<1> QED BY <1>1, <1>2 DEF AuditInv

(* A step that moves one call on, and whatever it does to its row and its  *)
(* file.                                                                   *)
LEMMA CallMoves ==
  ASSUME AuditInv, NEW c \in Calls, NEW r \in AuditedCall, calls' = [calls EXCEPT ![c] = r],
         calls[c].way = "asked" => r.way = "asked",
         r.way = "asked" => r.step \notin {"idle", "answered"},
         r.claim = calls[c].claim \/ ~r.claim.ask \/ \E i \in Inputs : r.claim = files[i],
         rows' \in [Calls -> RowRecord],
         \A e \in Calls : rows'[e].outcome = "approved" => rows[e].outcome = "approved" \/ calls[e].way = "asked",
         files' \in [Inputs -> FileRecord],
         \A i \in Inputs : files'[i] = files[i] \/ ~files'[i].ask \/ (files'[i].of = c /\ r.way = "asked")
  PROVE  AuditInv'
<1>1. AuditTypes'
  BY DEF AuditInv, AuditTypes
<1>2. \A e \in Calls : calls'[e] = (IF e = c THEN r ELSE calls[e])
  BY DEF AuditInv, AuditTypes
<1>3. \A e \in Calls : calls[e].way = "asked" => calls'[e].way = "asked"
  BY <1>2
<1>4. \A f \in FileRecord : Asked(f) => Asked(f)'
  BY <1>3 DEF Asked
<1>5. \A e \in Calls : (calls[e].way = "asked" => calls[e].step \notin {"idle", "answered"})'
  BY <1>2 DEF AuditInv, AskedInv
<1>6. \A i \in Inputs : Asked(files[i])'
  <2> TAKE i \in Inputs
  <2>1. CASE files'[i] = files[i]
    <3>1. Asked(files[i]) /\ files[i] \in FileRecord
      BY DEF AuditInv, AskedInv, AuditTypes
    <3> QED BY <1>3, <2>1, <3>1 DEF Asked
  <2>2. CASE ~files'[i].ask \/ (files'[i].of = c /\ r.way = "asked")
    BY <1>2, <2>2 DEF Asked
  <2> QED BY <2>1, <2>2
<1>7. \A e \in Calls : Asked(calls[e].claim)'
  <2> TAKE e \in Calls
  <2>1. PICK f \in FileRecord : f = calls'[e].claim /\ (~f.ask \/ Asked(f))
    BY <1>2 DEF AuditInv, AskedInv, AuditTypes, AuditedCall, Asked
  <2> QED BY <1>3, <2>1 DEF Asked
<1>8. ApprovedWasAsked'
  BY <1>3 DEF AuditInv, AskedInv, ApprovedWasAsked
<1> QED BY <1>1, <1>5, <1>6, <1>7, <1>8 DEF AuditInv, AskedInv

(* From the question to the tool.                                          *)
LEMMA PreSteps == ASSUME AuditInv, NEW c \in Calls, Pre(c) \/ Human(c) PROVE AuditInv'
<1> DEFINE r == calls'[c]
<1>1. calls[c] \in AuditedCall /\ calls \in [Calls -> AuditedCall] /\ rows \in [Calls -> RowRecord]
      /\ files \in [Inputs -> FileRecord] /\ PendingKey(c) \in Inputs
      /\ (calls[c].way = "asked" => calls[c].step \notin {"idle", "answered"})
  BY AuditAssumption DEF AuditInv, AuditTypes, AskedInv, PendingKey
<1> USE <1>1 DEF CallAt
<1>2. ASSUME NEW allowed \in BOOLEAN, RecordInvoke(c, allowed) PROVE AuditInv'
  <2> DEFINE s == [calls[c] EXCEPT !.step = "answered"]
  <2>1. calls' = [calls EXCEPT ![c] = s] /\ calls[c].step = "idle" /\ files' = files
    BY <1>2 DEF RecordInvoke, Goes
  <2>2. s \in AuditedCall /\ s.way = calls[c].way /\ s.claim = calls[c].claim
    BY DEF AuditedCall, Steps
  <2>3. rows' \in [Calls -> RowRecord] /\ \A e \in Calls : rows'[e].outcome = "approved" => rows[e].outcome = "approved"
    BY <1>2 DEF RecordInvoke, RowRecord, Outcomes
  <2> HIDE DEF s
  <2> QED BY <2>1, <2>2, <2>3, CallMoves
<1>3. CASE RecordUsageEvent(c)
  <2>1. calls' = [calls EXCEPT ![c] = calls[c]] /\ files' = files
    BY <1>3 DEF RecordUsageEvent
  <2>2. rows' \in [Calls -> RowRecord] /\ \A e \in Calls : rows'[e].outcome = "approved" => rows[e].outcome = "approved"
    BY <1>3 DEF RecordUsageEvent, RowRecord, Outcomes
  <2> QED BY <2>1, <2>2, CallMoves
<1>4. ASSUME NEW step \in Steps \ {"idle", "answered"}, NEW way \in Ways, NEW ran \in BOOLEAN, NEW ask \in BOOLEAN,
             calls' = [calls EXCEPT ![c] = [@ EXCEPT !.step = step, !.way = way, !.ran = ran]],
             calls[c].way = "asked" \/ ask => way = "asked",
             rows' = rows,
             files' = files \/ files' = [files EXCEPT ![PendingKey(c)] = [of |-> c, ask |-> ask]]
      PROVE  AuditInv'
  <2> DEFINE s == [calls[c] EXCEPT !.step = step, !.way = way, !.ran = ran]
  <2>1. calls' = [calls EXCEPT ![c] = s]
    BY <1>4
  <2>2. s \in AuditedCall /\ s.way = way /\ s.step = step /\ s.claim = calls[c].claim
    BY DEF AuditedCall
  <2>3. [of |-> c, ask |-> ask] \in FileRecord
    BY DEF FileRecord
  <2>4. /\ files' \in [Inputs -> FileRecord]
        /\ \A i \in Inputs : files'[i] = files[i] \/ ~files'[i].ask \/ (files'[i].of = c /\ s.way = "asked")
    BY <1>4, <2>2, <2>3
  <2> HIDE DEF s
  <2> QED BY <1>4, <2>1, <2>2, <2>4, CallMoves
<1>5. CASE RunUnrecorded(c)
  <2>1. calls' = [calls EXCEPT ![c] = [@ EXCEPT !.step = "running", !.way = "ungoverned", !.ran = TRUE]]
    BY <1>5 DEF RunUnrecorded
  <2>2. calls[c].way # "asked" /\ rows' = rows /\ files' = files
    BY <1>5 DEF RunUnrecorded
  <2> QED BY <1>4, <2>1, <2>2 DEF Steps, Ways
<1>6. CASE Allow(c)
  <2>1. PICK way \in {"granted", "paused"} :
          calls' = [calls EXCEPT ![c] = [@ EXCEPT !.step = "running", !.way = way, !.ran = TRUE]]
    BY <1>6 DEF Allow
  <2>2. calls[c].way # "asked" /\ rows' = rows /\ files' = [files EXCEPT ![PendingKey(c)] = [of |-> c, ask |-> FALSE]]
    BY <1>6 DEF Allow, WritePending
  <2> QED BY <1>4, <2>1, <2>2 DEF Steps, Ways
<1>7. CASE Ask(c)
  <2>1. calls' = [calls EXCEPT ![c] = [@ EXCEPT !.step = "prompt", !.way = "asked", !.ran = calls[c].ran]]
    BY <1>7 DEF Ask, AuditedCall
  <2>2. rows' = rows /\ files' = [files EXCEPT ![PendingKey(c)] = [of |-> c, ask |-> TRUE]]
    BY <1>7 DEF Ask, WritePending
  <2>3. calls[c].ran \in BOOLEAN
    BY DEF AuditedCall
  <2> QED BY <1>4, <2>1, <2>2, <2>3 DEF Steps, Ways
<1>8. ASSUME NEW way \in Ways, Block(c, way), calls[c].way = "asked" => way = "asked" PROVE AuditInv'
  <2>1. calls' = [calls EXCEPT ![c] = [@ EXCEPT !.step = "blocked", !.way = way, !.ran = calls[c].ran]]
    BY <1>8 DEF Block, AuditedCall
  <2>2. rows' = rows /\ files' = files
    BY <1>8 DEF Block
  <2>3. calls[c].ran \in BOOLEAN /\ FALSE \in BOOLEAN
    BY DEF AuditedCall
  <2> QED BY <1>4, <1>8, <2>1, <2>2, <2>3 DEF Steps
<1>9. CASE Deny(c)
  BY <1>8, <1>9 DEF Deny, Ways
<1>10. CASE AnswerUnheard(c)
  BY <1>8, <1>10 DEF AnswerUnheard, Ways
<1>11. CASE SayYes(c)
  <2>1. calls' = [calls EXCEPT ![c] = [@ EXCEPT !.step = "running", !.way = calls[c].way, !.ran = TRUE]]
    BY <1>11 DEF SayYes, AuditedCall
  <2>2. rows' = rows /\ files' = files /\ calls[c].way \in Ways
    BY <1>11 DEF SayYes, AuditedCall
  <2> QED BY <1>4, <2>1, <2>2 DEF Steps
<1>12. CASE SayNo(c)
  BY <1>8, <1>12 DEF SayNo, Ways
<1> QED BY <1>2, <1>3, <1>5, <1>6, <1>7, <1>9, <1>10, <1>11, <1>12 DEF Pre, Human

(* After the tool.                                                         *)
LEMMA PostSteps == ASSUME AuditInv, NEW c \in Calls, Post(c) PROVE AuditInv'
<1>1. calls[c] \in AuditedCall /\ calls \in [Calls -> AuditedCall] /\ rows \in [Calls -> RowRecord]
      /\ files \in [Inputs -> FileRecord] /\ PendingKey(c) \in Inputs
  BY AuditAssumption DEF AuditInv, AuditTypes, PendingKey
<1> USE <1>1 DEF CallAt
<1>2. ASSUME NEW step \in Steps \ {"idle", "answered"}, NEW claim \in FileRecord, NEW failed \in BOOLEAN,
             calls' = [calls EXCEPT ![c] = [@ EXCEPT !.step = step, !.claim = claim, !.failed = failed]],
             claim = calls[c].claim \/ claim = NoFile \/ \E i \in Inputs : claim = files[i],
             rows' \in [Calls -> RowRecord],
             \A e \in Calls : rows'[e].outcome = "approved" => rows[e].outcome = "approved" \/ calls[e].way = "asked",
             files' = files \/ files' = [files EXCEPT ![PendingKey(c)] = NoFile]
      PROVE  AuditInv'
  <2> DEFINE s == [calls[c] EXCEPT !.step = step, !.claim = claim, !.failed = failed]
  <2>1. calls' = [calls EXCEPT ![c] = s]
    BY <1>2
  <2>2. s \in AuditedCall /\ s.way = calls[c].way /\ s.step = step /\ s.claim = claim
    BY DEF AuditedCall
  <2>3. /\ files' \in [Inputs -> FileRecord]
        /\ \A i \in Inputs : files'[i] = files[i] \/ ~files'[i].ask
    BY <1>2, NoFileIs
  <2>4. s.claim = calls[c].claim \/ ~s.claim.ask \/ \E i \in Inputs : s.claim = files[i]
    BY <1>2, <2>2, NoFileIs
  <2>5. (calls[c].way = "asked" => s.way = "asked") /\ (s.way = "asked" => s.step \notin {"idle", "answered"})
    BY <2>2
  <2> HIDE DEF s
  <2> QED BY <1>2, <2>1, <2>2, <2>3, <2>4, <2>5, CallMoves
<1>3. calls[c].failed \in BOOLEAN /\ calls[c].claim \in FileRecord /\ calls[c].step \in Steps
  BY DEF AuditedCall
<1>4. ASSUME NEW step \in Steps \ {"idle", "answered"}, Goes(c, step)
      PROVE  calls' = [calls EXCEPT ![c] = [@ EXCEPT !.step = step, !.claim = calls[c].claim, !.failed = calls[c].failed]]
  BY <1>4 DEF Goes, AuditedCall
<1>5. ASSUME Ends(c)
      PROVE  calls' = [calls EXCEPT ![c] = [@ EXCEPT !.step = "done", !.claim = NoFile, !.failed = calls[c].failed]]
  BY <1>5 DEF Ends, AuditedCall
<1>6. ASSUME NEW failed \in BOOLEAN, ReadPending(c, failed) PROVE AuditInv'
  <2>1. PICK step \in {"done", "claiming"} :
          calls' = [calls EXCEPT ![c] = [@ EXCEPT !.step = step, !.claim = files[PendingKey(c)], !.failed = failed]]
    BY <1>6 DEF ReadPending
  <2>2. rows' = rows /\ files' = files
    BY <1>6 DEF ReadPending
  <2> QED BY <1>2, <2>1, <2>2 DEF Steps
<1>7. CASE ClearPending(c)
  <2>1. Ends(c) \/ Goes(c, "posting")
    BY <1>7 DEF ClearPending
  <2>2. rows' = rows /\ files' = [files EXCEPT ![PendingKey(c)] = NoFile]
    BY <1>7 DEF ClearPending
  <2> QED BY <1>2, <1>3, <1>4, <1>5, <2>1, <2>2, NoFileIs DEF Steps
<1>8. CASE PatchUsage(c)
  <2>1. Ends(c) /\ files' = files
    BY <1>8 DEF PatchUsage
  <2>2. rows' = rows \/ \E outcome \in {"error", "ok"} : Corrected(Claimed(c), outcome)
    BY <1>8 DEF PatchUsage
  <2>3. rows' \in [Calls -> RowRecord] /\ \A e \in Calls : rows'[e].outcome = "approved" => rows[e].outcome = "approved"
    BY <2>2 DEF Corrected, RowRecord, Outcomes
  <2> QED BY <1>2, <1>3, <1>5, <2>1, <2>3, NoFileIs DEF Steps
<1>9. CASE ApproveConsent(c)
  <2>1. (Ends(c) \/ Goes(c, "consenting")) /\ files' = files
    BY <1>9 DEF ApproveConsent
  <2>2. Claimed(c) \in Calls /\ calls[Claimed(c)].way = "asked"
    BY <1>9 DEF ApproveConsent, Claimed, AuditInv, AskedInv, Asked
  <2>3. rows' = rows \/ Corrected(Claimed(c), "approved")
    BY <1>9 DEF ApproveConsent
  <2>4. /\ rows' \in [Calls -> RowRecord]
        /\ \A e \in Calls : rows'[e].outcome = "approved" => rows[e].outcome = "approved" \/ calls[e].way = "asked"
    BY <2>2, <2>3 DEF Corrected, RowRecord, Outcomes
  <2>5. CASE Ends(c)
    BY <1>2, <1>3, <1>5, <2>1, <2>4, <2>5, NoFileIs DEF Steps
  <2>6. CASE Goes(c, "consenting")
    BY <1>2, <1>3, <1>4, <2>1, <2>4, <2>6 DEF Steps
  <2> QED BY <2>1, <2>5, <2>6
<1>10. CASE InsertConsent(c) \/ DecideConsent(c) \/ GiveUp(c)
  <2>1. (Ends(c) \/ Goes(c, "deciding")) /\ files' = files /\ rows' = rows
    BY <1>10 DEF InsertConsent, DecideConsent, GiveUp
  <2> QED BY <1>2, <1>3, <1>4, <1>5, <2>1, NoFileIs DEF Steps
<1> QED BY <1>6, <1>7, <1>8, <1>9, <1>10 DEF Post

(* A crash takes rows that were not stored, and what hooks had claimed.    *)
LEMMA CrashStep == ASSUME AuditInv, Crash PROVE AuditInv'
<1>1. calls \in [Calls -> AuditedCall] /\ rows \in [Calls -> RowRecord] /\ files' = files
  BY DEF AuditInv, AuditTypes, Crash
<1>2. /\ NoRow \in RowRecord /\ NoRow.outcome # "approved"
      /\ rows' \in [Calls -> RowRecord] /\ \A c \in Calls : rows'[c] = rows[c] \/ rows'[c] = NoRow
  BY <1>1 DEF Crash, NoRow, RowRecord, Outcomes
<1>3. /\ calls' \in [Calls -> AuditedCall]
      /\ \A c \in Calls : /\ calls'[c].way = calls[c].way
                          /\ calls'[c].step = calls[c].step \/ calls'[c].step = "done"
                          /\ calls'[c].claim = calls[c].claim \/ calls'[c].claim = NoFile
  <2>1. \A c \in Calls : calls'[c] = calls[c] \/ calls'[c] = [calls[c] EXCEPT !.step = "done", !.claim = NoFile]
    BY DEF Crash
  <2>2. \A c \in Calls : [calls[c] EXCEPT !.step = "done", !.claim = NoFile] \in AuditedCall
    BY <1>1, NoFileIs DEF AuditedCall, Steps
  <2>3. calls' \in [Calls -> AuditedCall]
    BY <1>1, <2>2 DEF Crash
  <2> QED BY <1>1, <2>1, <2>3 DEF AuditedCall
<1>4. AuditTypes'
  BY <1>1, <1>2, <1>3 DEF AuditInv, AuditTypes
<1>5. AskedInv'
  <2>1. \A f : Asked(f) => Asked(f)'
    BY <1>3 DEF Asked
  <2>2. \A c \in Calls : Asked(calls[c].claim)'
    BY <1>3, NoFileIs DEF Asked, AuditInv, AskedInv
  <2>3. \A i \in Inputs : Asked(files[i])'
    BY <1>1, <1>3 DEF Asked, AuditInv, AskedInv
  <2> QED BY <1>2, <1>3, <2>2, <2>3 DEF AuditInv, AskedInv, ApprovedWasAsked
<1> QED BY <1>4, <1>5 DEF AuditInv

LEMMA AuditStep == AuditInv /\ [AuditNext]_auditVars => AuditInv'
<1> SUFFICES ASSUME AuditInv, [AuditNext]_auditVars PROVE AuditInv'
  OBVIOUS
<1>1. CASE UNCHANGED auditVars
  BY <1>1 DEF auditVars, AuditInv, AuditTypes, AskedInv, Asked, ApprovedWasAsked
<1> QED BY <1>1, PreSteps, PostSteps, CrashStep DEF AuditNext

(* Whose row it is *)

RanSteps == {"running", "claiming", "posting", "consenting", "deciding"}
ClaimSteps == {"claiming", "posting", "consenting", "deciding"}
PastSteps == {"consenting", "deciding", "done"}

(* A file, read or not, names a call of its own key that has begun.        *)
Names(file, key) == file # NoFile => file.of \in Calls /\ InputOf[file.of] = key /\ calls[file.of].step # "idle"

(* Each corrected row has a call of its own to tell of, whose hooks are    *)
(* past correcting rows.                                                   *)
TellerInv ==
  \E teller \in Injection(CorrectedRows, Calls) :
    \A c \in CorrectedRows : TellsOf(c, teller[c]) /\ calls[teller[c]].step \in PastSteps

OwnInv ==
  /\ \A i \in Inputs : Names(files[i], i)
  /\ \A c \in Calls : Names(calls[c].claim, InputOf[c])
  /\ \A c \in Calls : calls[c].step \in ClaimSteps => calls[c].claim # NoFile
  /\ \A c \in Calls : calls[c].step \in RanSteps => calls[c].ran
  /\ \A c \in Calls : rows[c].corrected => rows[c].stored /\ calls[c].step # "idle"
  /\ TellerInv

LEMMA OwnStart == AuditInit => OwnInv
<1> SUFFICES ASSUME AuditInit PROVE OwnInv
  OBVIOUS
<1>1. CorrectedRows = {}
  BY DEF AuditInit, CorrectedRows, NoRow
<1>2. TellerInv
  <2> DEFINE none == [e \in CorrectedRows |-> e]
  <2>1. none \in Injection(CorrectedRows, Calls)
    BY <1>1 DEF Injection, IsInjective
  <2> QED BY <1>1, <2>1 DEF TellerInv
<1> QED BY <1>2 DEF AuditInit, OwnInv, Names, NoRow, ClaimSteps, RanSteps

(* No two rows come to tell of one call: at most one row is corrected, by a*)
(* call that was not past correcting, so that no row told of it.           *)
LEMMA TellersGoOn ==
  ASSUME TellerInv, NEW c, NEW row,
         \A d \in Calls : calls[d].step \in PastSteps =>
           calls'[d].step \in PastSteps /\ calls'[d].failed = calls[d].failed /\ (calls[d].ran => calls'[d].ran),
         \A e \in Calls : rows'[e].corrected =>
           \/ rows[e].corrected /\ rows'[e].outcome = rows[e].outcome
           \/ /\ ~rows[e].corrected /\ e = row /\ c \in Calls /\ calls[c].step \notin PastSteps
              /\ InputOf[e] = InputOf[c] /\ calls'[c].ran /\ calls'[c].step \in PastSteps
              /\ rows'[e].outcome = "approved" \/ (rows'[e].outcome = "error" <=> calls'[c].failed)
  PROVE  TellerInv'
<1>1. PICK teller \in [CorrectedRows -> Calls] :
        /\ \A e, f \in CorrectedRows : teller[e] = teller[f] => e = f
        /\ \A e \in CorrectedRows : TellsOf(e, teller[e]) /\ calls[teller[e]].step \in PastSteps
  BY DEF TellerInv, Injection, IsInjective
<1>2. PICK was \in SUBSET Calls, now \in SUBSET Calls :
        was = CorrectedRows /\ now = {e \in Calls : rows'[e].corrected}
  BY DEF CorrectedRows
<1>3. \A e \in now : \/ e \in was /\ rows'[e].outcome = rows[e].outcome
                     \/ /\ e \notin was /\ e = row /\ c \in Calls /\ calls[c].step \notin PastSteps
                        /\ InputOf[e] = InputOf[c] /\ calls'[c].ran /\ calls'[c].step \in PastSteps
                        /\ rows'[e].outcome = "approved" \/ (rows'[e].outcome = "error" <=> calls'[c].failed)
  BY <1>2 DEF CorrectedRows
<1> DEFINE next == [e \in now |-> IF e \in was THEN teller[e] ELSE c]
<1>4. next \in [now -> Calls]
  BY <1>1, <1>2, <1>3
<1>5. ASSUME NEW e \in now, NEW f \in now, next[e] = next[f] PROVE e = f
  <2>1. CASE e \in was /\ f \in was
    BY <1>1, <1>2, <1>5, <2>1
  <2>2. CASE e \notin was /\ f \notin was
    BY <1>3, <2>2
  <2>3. CASE (e \in was) # (f \in was)
    BY <1>1, <1>2, <1>3, <1>5, <2>3
  <2> QED BY <2>1, <2>2, <2>3
<1>6. ASSUME NEW e \in now
      PROVE  /\ InputOf[e] = InputOf[next[e]] /\ calls'[next[e]].ran /\ calls'[next[e]].step \in PastSteps
             /\ rows'[e].outcome = "approved" \/ (rows'[e].outcome = "error" <=> calls'[next[e]].failed)
  <2>1. CASE e \notin was
    BY <1>3, <2>1
  <2>2. CASE e \in was
    <3>1. PICK d \in Calls : d = teller[e] /\ d = next[e]
      BY <1>1, <1>2, <2>2
    <3>2. TellsOf(e, d) /\ calls[d].step \in PastSteps /\ rows'[e].outcome = rows[e].outcome
      BY <1>1, <1>2, <1>3, <2>2, <3>1
    <3>3. calls'[d].step \in PastSteps /\ calls'[d].failed = calls[d].failed /\ calls'[d].ran
      BY <3>2 DEF TellsOf
    <3> HIDE DEF next
    <3> QED BY <3>1, <3>2, <3>3 DEF TellsOf
  <2> QED BY <2>1, <2>2
<1> HIDE DEF next
<1>7. PICK g : g = next
  OBVIOUS
<1>8. g \in Injection(now, Calls)
  BY <1>4, <1>5, <1>7 DEF Injection, IsInjective
<1>9. \A e \in now :
        /\ InputOf[e] = InputOf[g[e]] /\ calls'[g[e]].ran /\ calls'[g[e]].step \in PastSteps
        /\ rows'[e].outcome = "approved" \/ (rows'[e].outcome = "error" <=> calls'[g[e]].failed)
  BY <1>6, <1>7
<1>10. CorrectedRows' = now
  BY <1>2 DEF CorrectedRows
<1> QED BY <1>8, <1>9, <1>10 DEF TellerInv, TellsOf

(* A hook corrects the row that it claimed, of a call that looks like its  *)
(* own, to what became of its own.                                         *)
LEMMA OwnMoves ==
  ASSUME AuditInv, OwnInv, NEW c \in Calls, NEW r \in AuditedCall, calls' = [calls EXCEPT ![c] = r],
         calls[c].step # "idle" => r.step # "idle",
         calls[c].ran => r.ran,
         r.step \in RanSteps => r.ran,
         r.step \in ClaimSteps => r.claim # NoFile,
         r.claim \in {NoFile, calls[c].claim, files[PendingKey(c)]},
         calls[c].step \in PastSteps => r.step \in PastSteps /\ r.failed = calls[c].failed,
         \A i \in Inputs : \/ files'[i] = files[i]
                           \/ files'[i] = NoFile
                           \/ i = PendingKey(c) /\ files'[i].of = c /\ r.step # "idle",
         \A e \in Calls : rows'[e].corrected =>
           \/ /\ rows[e].corrected /\ (rows[e].stored => rows'[e].stored)
              /\ rows'[e].outcome = rows[e].outcome \/ (e = c /\ calls[c].step = "idle")
           \/ /\ ~rows[e].corrected /\ rows'[e].stored
              /\ e = Claimed(c) /\ calls[c].step = "posting" /\ r.step \in PastSteps
              /\ rows'[e].outcome = "approved" \/ (rows'[e].outcome = "error" <=> r.failed)
  PROVE  OwnInv'
<1>1. calls \in [Calls -> AuditedCall] /\ PendingKey(c) \in Inputs /\ PendingKey(c) = InputOf[c]
  BY AuditAssumption DEF AuditInv, AuditTypes, PendingKey
<1>2. \A e \in Calls : calls'[e] = (IF e = c THEN r ELSE calls[e])
  BY <1>1
<1>3. \A e \in Calls : calls[e].step # "idle" => calls'[e].step # "idle"
  BY <1>2
<1>4. ASSUME NEW file, NEW key, Names(file, key) PROVE file # NoFile => file.of \in Calls /\ InputOf[file.of] = key /\ calls'[file.of].step # "idle"
  BY <1>3, <1>4 DEF Names
<1>5. \A i \in Inputs : Names(files[i], i)'
  BY <1>1, <1>2, <1>4 DEF OwnInv, Names
<1>6. \A e \in Calls : Names(calls[e].claim, InputOf[e])'
  <2> TAKE e \in Calls
  <2>1. CASE e # c
    BY <1>2, <1>4, <2>1 DEF OwnInv, Names
  <2>2. CASE e = c
    <3>1. Names(calls[c].claim, InputOf[c]) /\ Names(files[PendingKey(c)], InputOf[c])
      BY <1>1 DEF OwnInv
    <3> QED BY <1>2, <1>4, <2>2, <3>1 DEF Names
  <2> QED BY <2>1, <2>2
<1>7. \A e \in Calls : rows'[e].corrected =>
         \/ rows[e].corrected /\ rows'[e].outcome = rows[e].outcome
         \/ /\ ~rows[e].corrected /\ e = Claimed(c) /\ calls[e].step # "idle" /\ calls[c].step \notin PastSteps
            /\ InputOf[e] = InputOf[c] /\ calls'[c].ran /\ calls'[c].step \in PastSteps
            /\ rows'[e].outcome = "approved" \/ (rows'[e].outcome = "error" <=> calls'[c].failed)
  <2> TAKE e \in Calls
  <2> HAVE rows'[e].corrected
  <2>1. CASE rows[e].corrected
    BY <2>1 DEF OwnInv
  <2>2. CASE ~rows[e].corrected
    <3>1. /\ e = Claimed(c) /\ calls[c].step = "posting" /\ r.step \in PastSteps
          /\ rows'[e].outcome = "approved" \/ (rows'[e].outcome = "error" <=> r.failed)
      BY <2>2
    <3>2. Names(calls[c].claim, InputOf[c]) /\ calls[c].claim # NoFile /\ calls[c].ran
      BY <3>1 DEF OwnInv, ClaimSteps, RanSteps
    <3>3. InputOf[e] = InputOf[c] /\ calls[e].step # "idle"
      BY <3>1, <3>2 DEF Names, Claimed
    <3> QED BY <1>2, <2>2, <3>1, <3>2, <3>3 DEF PastSteps
  <2> QED BY <2>1, <2>2, Zenon
<1>8. \A e \in Calls : /\ calls'[e].step \in ClaimSteps => calls'[e].claim # NoFile
                       /\ calls'[e].step \in RanSteps => calls'[e].ran
                       /\ rows'[e].corrected => rows'[e].stored /\ calls'[e].step # "idle"
  BY <1>2, <1>3, <1>7 DEF OwnInv
<1>9. TellerInv'
  <2>1. \A d \in Calls : calls[d].step \in PastSteps =>
          calls'[d].step \in PastSteps /\ calls'[d].failed = calls[d].failed /\ (calls[d].ran => calls'[d].ran)
    BY <1>2
  <2>2. PICK row : row = Claimed(c)
    OBVIOUS
  <2>3. \A e \in Calls : rows'[e].corrected =>
          \/ rows[e].corrected /\ rows'[e].outcome = rows[e].outcome
          \/ /\ ~rows[e].corrected /\ e = row /\ c \in Calls /\ calls[c].step \notin PastSteps
             /\ InputOf[e] = InputOf[c] /\ calls'[c].ran /\ calls'[c].step \in PastSteps
             /\ rows'[e].outcome = "approved" \/ (rows'[e].outcome = "error" <=> calls'[c].failed)
    BY <1>7, <2>2, Zenon
  <2>4. TellerInv
    BY DEF OwnInv
  <2> QED BY <2>1, <2>3, <2>4, TellersGoOn
<1> QED BY <1>5, <1>6, <1>8, <1>9 DEF OwnInv

(* From the question to the tool.                                          *)
LEMMA OwnPreSteps == ASSUME AuditInv, OwnInv, NEW c \in Calls, Pre(c) \/ Human(c) PROVE OwnInv'
<1>1. /\ calls[c] \in AuditedCall /\ calls \in [Calls -> AuditedCall] /\ rows \in [Calls -> RowRecord]
      /\ files \in [Inputs -> FileRecord] /\ PendingKey(c) \in Inputs
      /\ calls[c].step \in RanSteps => calls[c].ran
      /\ calls[c].step \in ClaimSteps => calls[c].claim # NoFile
  BY AuditAssumption DEF AuditInv, AuditTypes, PendingKey, OwnInv
<1> USE <1>1 DEF CallAt
<1>2. ASSUME NEW allowed \in BOOLEAN, RecordInvoke(c, allowed) PROVE OwnInv'
  <2> DEFINE s == [calls[c] EXCEPT !.step = "answered"]
  <2>1. calls' = [calls EXCEPT ![c] = s] /\ calls[c].step = "idle" /\ files' = files
    BY <1>2 DEF RecordInvoke, Goes
  <2>2. s \in AuditedCall /\ s.step = "answered" /\ s.claim = calls[c].claim /\ s.ran = calls[c].ran
    BY DEF AuditedCall, Steps
  <2>3. \A e \in Calls : /\ rows'[e].corrected = rows[e].corrected /\ rows'[e].stored = rows[e].stored
                         /\ e # c => rows'[e].outcome = rows[e].outcome
    BY <1>2 DEF RecordInvoke, RowRecord
  <2> HIDE DEF s
  <2> QED BY <2>1, <2>2, <2>3, OwnMoves DEF PastSteps, ClaimSteps, RanSteps
<1>3. CASE RecordUsageEvent(c)
  <2>1. calls' = [calls EXCEPT ![c] = calls[c]] /\ files' = files
    BY <1>3 DEF RecordUsageEvent
  <2>2. \A e \in Calls : /\ rows'[e].corrected = rows[e].corrected /\ (rows[e].stored => rows'[e].stored)
                         /\ rows'[e].outcome = rows[e].outcome
    BY <1>3 DEF RecordUsageEvent, RowRecord
  <2> QED BY <2>1, <2>2, OwnMoves
<1>4. ASSUME NEW step \in {"running", "prompt", "blocked"}, NEW way \in Ways, NEW ran \in BOOLEAN, NEW ask \in BOOLEAN,
             calls' = [calls EXCEPT ![c] = [@ EXCEPT !.step = step, !.way = way, !.ran = ran]],
             calls[c].step \in {"idle", "answered", "prompt"},
             calls[c].ran \/ step = "running" => ran,
             rows' = rows,
             files' = files \/ files' = [files EXCEPT ![PendingKey(c)] = [of |-> c, ask |-> ask]]
      PROVE  OwnInv'
  <2> DEFINE s == [calls[c] EXCEPT !.step = step, !.way = way, !.ran = ran]
  <2>1. calls' = [calls EXCEPT ![c] = s]
    BY <1>4
  <2>2. s \in AuditedCall /\ s.ran = ran /\ s.step = step /\ s.claim = calls[c].claim
    BY DEF AuditedCall, Steps
  <2>3. [of |-> c, ask |-> ask] \in FileRecord
    BY DEF FileRecord
  <2>4. \A i \in Inputs : files'[i] = files[i] \/ (i = PendingKey(c) /\ files'[i].of = c)
    BY <1>4, <2>3
  <2> HIDE DEF s
  <2>5. /\ s.step # "idle" /\ s.step \notin ClaimSteps /\ (s.step \in RanSteps => s.ran) /\ (calls[c].ran => s.ran)
        /\ calls[c].step \notin PastSteps
    BY <1>4, <2>2 DEF PastSteps, ClaimSteps, RanSteps
  <2>6. \A e \in Calls : rows'[e] = rows[e]
    BY <1>4
  <2> QED BY <2>1, <2>2, <2>4, <2>5, <2>6, OwnMoves
<1>5. CASE RunUnrecorded(c)
  <2>1. calls' = [calls EXCEPT ![c] = [@ EXCEPT !.step = "running", !.way = "ungoverned", !.ran = TRUE]]
    BY <1>5 DEF RunUnrecorded
  <2>2. calls[c].step \in {"idle", "answered"} /\ rows' = rows /\ files' = files
    BY <1>5 DEF RunUnrecorded
  <2> QED BY <1>4, <2>1, <2>2 DEF Ways
<1>6. CASE Allow(c)
  <2>1. PICK way \in {"granted", "paused"} :
          calls' = [calls EXCEPT ![c] = [@ EXCEPT !.step = "running", !.way = way, !.ran = TRUE]]
    BY <1>6 DEF Allow
  <2>2. calls[c].step = "answered" /\ rows' = rows /\ files' = [files EXCEPT ![PendingKey(c)] = [of |-> c, ask |-> FALSE]]
    BY <1>6 DEF Allow, WritePending
  <2> QED BY <1>4, <2>1, <2>2 DEF Ways
<1>7. CASE Ask(c)
  <2>1. calls' = [calls EXCEPT ![c] = [@ EXCEPT !.step = "prompt", !.way = "asked", !.ran = calls[c].ran]]
    BY <1>7 DEF Ask, AuditedCall
  <2>2. calls[c].step = "answered" /\ rows' = rows /\ files' = [files EXCEPT ![PendingKey(c)] = [of |-> c, ask |-> TRUE]]
    BY <1>7 DEF Ask, WritePending
  <2>3. calls[c].ran \in BOOLEAN
    BY DEF AuditedCall
  <2> QED BY <1>4, <2>1, <2>2, <2>3 DEF Ways
<1>8. ASSUME NEW way \in Ways, Block(c, way), calls[c].step \in {"answered", "prompt"} PROVE OwnInv'
  <2>1. calls' = [calls EXCEPT ![c] = [@ EXCEPT !.step = "blocked", !.way = way, !.ran = calls[c].ran]]
    BY <1>8 DEF Block, AuditedCall
  <2>2. rows' = rows /\ files' = files
    BY <1>8 DEF Block
  <2>3. calls[c].ran \in BOOLEAN /\ FALSE \in BOOLEAN
    BY DEF AuditedCall
  <2> QED BY <1>4, <1>8, <2>1, <2>2, <2>3
<1>9. CASE Deny(c)
  BY <1>8, <1>9 DEF Deny, Ways
<1>10. CASE AnswerUnheard(c)
  BY <1>8, <1>10 DEF AnswerUnheard, Ways
<1>11. CASE SayYes(c)
  <2>1. calls' = [calls EXCEPT ![c] = [@ EXCEPT !.step = "running", !.way = calls[c].way, !.ran = TRUE]]
    BY <1>11 DEF SayYes, AuditedCall
  <2>2. rows' = rows /\ files' = files /\ calls[c].way \in Ways /\ calls[c].step = "prompt"
    BY <1>11 DEF SayYes, AuditedCall
  <2> QED BY <1>4, <2>1, <2>2
<1>12. CASE SayNo(c)
  BY <1>8, <1>12 DEF SayNo, Ways
<1> QED BY <1>2, <1>3, <1>5, <1>6, <1>7, <1>9, <1>10, <1>11, <1>12 DEF Pre, Human

(* After the tool.                                                         *)
LEMMA OwnPostSteps == ASSUME AuditInv, OwnInv, NEW c \in Calls, Post(c) PROVE OwnInv'
<1>1. /\ calls[c] \in AuditedCall /\ calls \in [Calls -> AuditedCall] /\ rows \in [Calls -> RowRecord]
      /\ files \in [Inputs -> FileRecord] /\ PendingKey(c) \in Inputs
      /\ calls[c].step \in RanSteps => calls[c].ran
      /\ calls[c].step \in ClaimSteps => calls[c].claim # NoFile
  BY AuditAssumption DEF AuditInv, AuditTypes, PendingKey, OwnInv
<1> USE <1>1 DEF CallAt
<1>2. ASSUME NEW step \in ClaimSteps \cup {"done"}, NEW claim \in FileRecord, NEW failed \in BOOLEAN,
             calls[c].step \in RanSteps,
             calls' = [calls EXCEPT ![c] = [@ EXCEPT !.step = step, !.claim = claim, !.failed = failed]],
             claim \in {NoFile, calls[c].claim, files[PendingKey(c)]},
             step \in ClaimSteps => claim # NoFile,
             calls[c].step \in PastSteps => step \in PastSteps /\ failed = calls[c].failed,
             \A e \in Calls : rows'[e].corrected =>
               \/ rows'[e] = rows[e]
               \/ /\ ~rows[e].corrected /\ rows'[e].stored
                  /\ e = Claimed(c) /\ calls[c].step = "posting" /\ step \in PastSteps
                  /\ rows'[e].outcome = "approved" \/ (rows'[e].outcome = "error" <=> failed),
             files' = files \/ files' = [files EXCEPT ![PendingKey(c)] = NoFile]
      PROVE  OwnInv'
  <2> DEFINE s == [calls[c] EXCEPT !.step = step, !.claim = claim, !.failed = failed]
  <2>1. calls' = [calls EXCEPT ![c] = s]
    BY <1>2
  <2>2. s \in AuditedCall /\ s.ran = calls[c].ran /\ s.step = step /\ s.claim = claim /\ s.failed = failed
    BY DEF AuditedCall, Steps, ClaimSteps
  <2>3. \A i \in Inputs : files'[i] = files[i] \/ files'[i] = NoFile
    BY <1>2
  <2>4. calls[c].ran /\ step # "idle"
    BY <1>2 DEF ClaimSteps
  <2> HIDE DEF s
  <2>5. /\ s.step # "idle" /\ s.ran /\ (s.step \in ClaimSteps => s.claim # NoFile)
        /\ s.claim \in {NoFile, calls[c].claim, files[PendingKey(c)]}
        /\ calls[c].step \in PastSteps => s.step \in PastSteps /\ s.failed = calls[c].failed
    BY <1>2, <2>2, <2>4
  <2>6. \A e \in Calls : rows'[e].corrected =>
           \/ /\ rows[e].corrected /\ (rows[e].stored => rows'[e].stored)
              /\ rows'[e].outcome = rows[e].outcome
           \/ /\ ~rows[e].corrected /\ rows'[e].stored
              /\ e = Claimed(c) /\ calls[c].step = "posting" /\ s.step \in PastSteps
              /\ rows'[e].outcome = "approved" \/ (rows'[e].outcome = "error" <=> s.failed)
    BY <1>2, <2>2
  <2> QED BY <2>1, <2>2, <2>3, <2>5, <2>6, OwnMoves
<1>3. calls[c].failed \in BOOLEAN /\ calls[c].claim \in FileRecord
  BY DEF AuditedCall
<1>4. ASSUME NEW step, Goes(c, step)
      PROVE  calls' = [calls EXCEPT ![c] = [@ EXCEPT !.step = step, !.claim = calls[c].claim, !.failed = calls[c].failed]]
  BY <1>4 DEF Goes, AuditedCall
<1>5. ASSUME Ends(c)
      PROVE  calls' = [calls EXCEPT ![c] = [@ EXCEPT !.step = "done", !.claim = NoFile, !.failed = calls[c].failed]]
  BY <1>5 DEF Ends, AuditedCall
<1>6. ASSUME NEW failed \in BOOLEAN, ReadPending(c, failed) PROVE OwnInv'
  <2> DEFINE step == IF files[PendingKey(c)] = NoFile THEN "done" ELSE "claiming"
  <2>1. calls' = [calls EXCEPT ![c] = [@ EXCEPT !.step = step, !.claim = files[PendingKey(c)], !.failed = failed]]
    BY <1>6 DEF ReadPending
  <2>2. rows' = rows /\ files' = files /\ calls[c].step = "running" /\ files[PendingKey(c)] \in FileRecord
    BY <1>6 DEF ReadPending
  <2>3. step \in ClaimSteps \cup {"done"} /\ (step \in ClaimSteps => files[PendingKey(c)] # NoFile)
    BY DEF ClaimSteps
  <2> HIDE DEF step
  <2> QED BY <1>2, <2>1, <2>2, <2>3 DEF RanSteps, PastSteps
<1>7. ASSUME NEW step \in ClaimSteps, Ends(c) \/ Goes(c, step), calls[c].step \in ClaimSteps,
             calls[c].step \in PastSteps => step \in PastSteps,
             \A e \in Calls : rows'[e].corrected =>
               \/ rows'[e] = rows[e]
               \/ /\ ~rows[e].corrected /\ rows'[e].stored
                  /\ e = Claimed(c) /\ calls[c].step = "posting" /\ step \in PastSteps
                  /\ rows'[e].outcome = "approved" \/ (rows'[e].outcome = "error" <=> calls[c].failed),
             files' = files \/ files' = [files EXCEPT ![PendingKey(c)] = NoFile]
      PROVE  OwnInv'
  <2>1. calls[c].step \in RanSteps /\ calls[c].claim # NoFile
    BY <1>7 DEF RanSteps, ClaimSteps
  <2>2. CASE Ends(c)
    <3>1. /\ "done" \in ClaimSteps \cup {"done"} /\ "done" \notin ClaimSteps /\ "done" \in PastSteps
          /\ NoFile \in FileRecord
      BY NoFileIs DEF PastSteps, ClaimSteps
    <3>2. calls' = [calls EXCEPT ![c] = [@ EXCEPT !.step = "done", !.claim = NoFile, !.failed = calls[c].failed]]
      BY <1>5, <2>2
    <3>3. \A e \in Calls : rows'[e].corrected =>
            \/ rows'[e] = rows[e]
            \/ /\ ~rows[e].corrected /\ rows'[e].stored
               /\ e = Claimed(c) /\ calls[c].step = "posting" /\ "done" \in PastSteps
               /\ rows'[e].outcome = "approved" \/ (rows'[e].outcome = "error" <=> calls[c].failed)
      BY <1>7, <3>1
    <3> QED BY <1>2, <1>3, <1>7, <2>1, <3>1, <3>2, <3>3
  <2>3. CASE Goes(c, step)
    <3>1. step \in ClaimSteps \cup {"done"}
      BY <1>7
    <3>2. calls' = [calls EXCEPT ![c] = [@ EXCEPT !.step = step, !.claim = calls[c].claim, !.failed = calls[c].failed]]
      BY <1>4, <2>3
    <3>3. calls[c].step \in PastSteps => step \in PastSteps /\ calls[c].failed = calls[c].failed
      BY <1>7
    <3> QED BY <1>2, <1>3, <1>7, <2>1, <3>1, <3>2, <3>3
  <2> QED BY <1>7, <2>2, <2>3
<1>8. CASE ClearPending(c)
  <2>1. (Ends(c) \/ Goes(c, "posting")) /\ rows' = rows /\ files' = [files EXCEPT ![PendingKey(c)] = NoFile]
        /\ calls[c].step = "claiming"
    BY <1>8 DEF ClearPending
  <2> QED BY <1>7, <2>1 DEF ClaimSteps, PastSteps
<1>9. CASE PatchUsage(c)
  <2>1. Ends(c) /\ files' = files /\ calls[c].step = "posting"
    BY <1>9 DEF PatchUsage
  <2>2. \A e \in Calls : rows'[e].corrected =>
          \/ rows'[e] = rows[e]
          \/ /\ ~rows[e].corrected /\ rows'[e].stored /\ e = Claimed(c)
             /\ rows'[e].outcome = "error" <=> calls[c].failed
    <3>1. CASE rows' = rows
      BY <3>1
    <3>2. ASSUME NEW outcome \in {"error", "ok"}, outcome = "error" <=> calls[c].failed,
                 Correctable(Claimed(c), "ok"), Corrected(Claimed(c), outcome)
          PROVE  \A e \in Calls : rows'[e].corrected =>
                   \/ rows'[e] = rows[e]
                   \/ ~rows[e].corrected /\ rows'[e].stored /\ e = Claimed(c) /\ rows'[e].outcome = outcome
      BY <3>2 DEF Correctable, Corrected, RowRecord
    <3>3. rows' = rows \/ \E outcome \in {"error", "ok"} :
            (outcome = "error" <=> calls[c].failed) /\ Correctable(Claimed(c), "ok") /\ Corrected(Claimed(c), outcome)
      <4>1. CASE calls[c].failed
        BY <1>9, <4>1 DEF PatchUsage
      <4>2. CASE ~calls[c].failed
        BY <1>9, <4>2 DEF PatchUsage
      <4> QED BY <4>1, <4>2
    <3> QED BY <3>1, <3>2, <3>3
  <2> QED BY <1>7, <2>1, <2>2 DEF ClaimSteps, PastSteps
<1>10. CASE ApproveConsent(c)
  <2>1. (Ends(c) \/ Goes(c, "consenting")) /\ files' = files /\ calls[c].step = "posting"
    BY <1>10 DEF ApproveConsent
  <2>2. \A e \in Calls : rows'[e].corrected =>
          \/ rows'[e] = rows[e]
          \/ ~rows[e].corrected /\ rows'[e].stored /\ e = Claimed(c) /\ rows'[e].outcome = "approved"
    <3>1. CASE rows' = rows
      BY <3>1
    <3>2. CASE Correctable(Claimed(c), "denied") /\ Corrected(Claimed(c), "approved")
      BY <3>2 DEF Correctable, Corrected, RowRecord
    <3> QED BY <1>10, <3>1, <3>2 DEF ApproveConsent
  <2> QED BY <1>7, <2>1, <2>2 DEF ClaimSteps, PastSteps
<1>11. CASE InsertConsent(c) \/ DecideConsent(c)
  <2>1. (Ends(c) \/ Goes(c, "deciding")) /\ files' = files /\ rows' = rows /\ calls[c].step \in {"consenting", "deciding"}
    BY <1>11 DEF InsertConsent, DecideConsent
  <2> QED BY <1>7, <2>1 DEF ClaimSteps, PastSteps
<1>12. CASE GiveUp(c)
  <2>1. Ends(c) /\ files' = files /\ rows' = rows /\ calls[c].step \in RanSteps
    BY <1>12 DEF GiveUp, RanSteps
  <2>2. /\ "done" \in ClaimSteps \cup {"done"} /\ "done" \notin ClaimSteps /\ "done" \in PastSteps
        /\ NoFile \in FileRecord
    BY NoFileIs DEF PastSteps, ClaimSteps
  <2>3. calls' = [calls EXCEPT ![c] = [@ EXCEPT !.step = "done", !.claim = NoFile, !.failed = calls[c].failed]]
    BY <1>5, <2>1
  <2>4. \A e \in Calls : rows'[e] = rows[e]
    BY <2>1
  <2> QED BY <1>2, <1>3, <2>1, <2>2, <2>3, <2>4
<1> QED BY <1>6, <1>8, <1>9, <1>10, <1>11, <1>12 DEF Post

(* A crash takes rows that were not stored, and what hooks had claimed.    *)
LEMMA OwnCrash == ASSUME AuditInv, OwnInv, Crash PROVE OwnInv'
<1>1. calls \in [Calls -> AuditedCall] /\ rows \in [Calls -> RowRecord] /\ files' = files
  BY DEF AuditInv, AuditTypes, Crash
<1>2. \A c \in Calls : rows'[c] = rows[c] \/ (rows'[c] = NoRow /\ ~rows'[c].corrected)
  BY <1>1 DEF Crash, NoRow
<1>3. \A c \in Calls :
        \/ calls'[c] = calls[c]
        \/ /\ calls[c].step \in {"consenting", "deciding"} /\ calls'[c].step = "done" /\ calls'[c].claim = NoFile
           /\ calls'[c].ran = calls[c].ran /\ calls'[c].failed = calls[c].failed
  <2> TAKE c \in Calls
  <2>1. \/ calls'[c] = calls[c]
        \/ /\ calls[c].step \in {"consenting", "deciding"}
           /\ calls'[c] = [calls[c] EXCEPT !.step = "done", !.claim = NoFile]
    BY DEF Crash
  <2>2. calls[c] \in AuditedCall
    BY <1>1
  <2> QED BY <2>1, <2>2 DEF AuditedCall
<1>4. \A c \in Calls : calls[c].step = "idle" <=> calls'[c].step = "idle"
  BY <1>3
<1>6. \A file, key : Names(file, key) => Names(file, key)'
  BY <1>4 DEF Names
<1>7. \A key : Names(NoFile, key)'
  BY DEF Names
<1>8. \A c \in Calls : Names(calls[c].claim, InputOf[c])'
  BY <1>3, <1>6, <1>7 DEF OwnInv, Names
<1>9. \A i \in Inputs : Names(files[i], i)'
  BY <1>1, <1>6 DEF OwnInv, Names
<1>10. \A c \in Calls : /\ calls'[c].step \in ClaimSteps => calls'[c].claim # NoFile
                        /\ calls'[c].step \in RanSteps => calls'[c].ran
                        /\ rows'[c].corrected => rows'[c].stored /\ calls'[c].step # "idle"
  BY <1>2, <1>3 DEF OwnInv, ClaimSteps, RanSteps
<1>11. TellerInv'
  <2>1. \A d \in Calls : calls[d].step \in PastSteps =>
          calls'[d].step \in PastSteps /\ calls'[d].failed = calls[d].failed /\ (calls[d].ran => calls'[d].ran)
    BY <1>3 DEF PastSteps
  <2>2. \A e \in Calls : rows'[e].corrected => rows[e].corrected /\ rows'[e].outcome = rows[e].outcome
    BY <1>2
  <2> QED BY <2>1, <2>2, TellersGoOn DEF OwnInv
<1> QED BY <1>8, <1>9, <1>10, <1>11 DEF OwnInv

LEMMA OwnStep == AuditInv /\ OwnInv /\ [AuditNext]_auditVars => OwnInv'
<1> SUFFICES ASSUME AuditInv, OwnInv, [AuditNext]_auditVars PROVE OwnInv'
  OBVIOUS
<1>1. CASE UNCHANGED auditVars
  <2>1. TellerInv'
    <3>1. TellerInv /\ UNCHANGED <<calls, rows>>
      BY <1>1 DEF auditVars, OwnInv
    <3> QED BY <3>1, TellersGoOn
  <2> QED BY <1>1, <2>1 DEF auditVars, OwnInv, Names
<1> QED BY <1>1, OwnPreSteps, OwnPostSteps, OwnCrash DEF AuditNext

(* A row that says a human approved is of a call that a human was asked    *)
(* about, though pending files are shared by calls that look alike         *)
(* (hooks/lib.js runPostToolUse, app.js approve-consent).                  *)
THEOREM ApprovalsWereAsked == AuditSpec => []ApprovedWasAsked
<1>1. AuditInv => ApprovedWasAsked
  BY DEF AuditInv, AskedInv
<1> QED BY <1>1, AuditInitInv, AuditStep, PTL DEF AuditSpec

(* Every corrected row tells of a run of its own, of a call that looks like*)
(* the row's, though hooks claim each other's files and rows, crash and    *)
(* give up (hooks/lib.js runPostToolUse, app.js).                          *)
THEOREM RowsTell == AuditSpec => []RowsTellOfRuns
<1>1. OwnInv => RowsTellOfRuns
  BY DEF OwnInv, TellerInv, RowsTellOfRuns
<1> QED BY <1>1, AuditInitInv, AuditStep, OwnStart, OwnStep, PTL DEF AuditSpec

(* So while no other call looks like it, a call's row is corrected only    *)
(* after it ran, to what the tool or the human said (hooks/lib.js          *)
(* pendingKey, runPostToolUse).                                            *)
THEOREM OwnRows == AuditSpec => []OwnRowTrue
<1>1. OwnInv => OwnRowTrue
  <2> SUFFICES ASSUME OwnInv, NEW c \in Calls, Alone(c), rows[c].corrected PROVE TellsOf(c, c)
    BY DEF OwnRowTrue
  <2>1. PICK teller \in Injection(CorrectedRows, Calls) :
          \A e \in CorrectedRows : TellsOf(e, teller[e]) /\ calls[teller[e]].step \in PastSteps
    BY DEF OwnInv, TellerInv
  <2>2. c \in CorrectedRows /\ teller[c] \in Calls
    BY <2>1 DEF CorrectedRows, Injection
  <2>3. InputOf[teller[c]] = InputOf[c] /\ calls[teller[c]].step # "idle"
    BY <2>1, <2>2 DEF TellsOf, PastSteps
  <2>4. teller[c] = c
    BY <2>2, <2>3 DEF Alone, CallAt
  <2> QED BY <2>1, <2>2, <2>4
<1> QED BY <1>1, AuditInitInv, AuditStep, OwnStart, OwnStep, PTL DEF AuditSpec

-----------------------------------------------------------------------------
(* Decisions                                                               *)

Verdict == {"approved", "denied"}
ApprovalRecord == [action : Actions \cup {"none"}, status : {"none", "pending"} \cup Verdict, grant : 0 .. MaxGrants]
GrantRecord == [state : {"none", "live", "revoked"}, by : Proposals \cup {Direct}]
DecisionRecord == [step : {"idle", "granting", "auditing", "recording"}, of : Proposals \cup {Direct},
                   says : Verdict, grant : 0 .. MaxGrants]

ApprovalTypes ==
  /\ approvals \in [Proposals -> ApprovalRecord] /\ grants \in [GrantIds -> GrantRecord]
  /\ deciding \in [Deciders -> DecisionRecord] /\ trail \subseteq GrantIds

(* The grant was issued for the proposal.                                  *)
Issued(g, a) == g \in GrantIds /\ grants[g].by = a /\ grants[g].state # "none"

(* A decider that holds a grant had it issued for the proposal he decides, *)
(* and has it in the audit when he comes to record it.                     *)
DecidingInv ==
  \A d \in Deciders :
    /\ deciding[d].step \in {"granting", "auditing"} => deciding[d].says = "approved"
    /\ deciding[d].step = "granting" => deciding[d].grant = 0
    /\ deciding[d].step = "auditing" => Issued(deciding[d].grant, deciding[d].of)
    /\ deciding[d].step = "recording" /\ deciding[d].grant # 0 =>
         deciding[d].says = "approved" /\ Issued(deciding[d].grant, deciding[d].of) /\ deciding[d].grant \in trail

ResultInv ==
  \A a \in Proposals : approvals[a].grant # 0 =>
    Issued(approvals[a].grant, a) /\ approvals[a].status = "approved" /\ approvals[a].grant \in trail

ApprovalInv == ApprovalTypes /\ DecidingInv /\ ResultInv

(* Who decides nothing is no exception.                                    *)
LEMMA IdleDecider == NotDeciding \in DecisionRecord /\ NotDeciding.step = "idle"
  BY ApprovalAssumption DEF NotDeciding, DecisionRecord, Verdict

(* At the start.                                                           *)
LEMMA ApprovalInitInv == ApprovalInit => ApprovalInv
<1> SUFFICES ASSUME ApprovalInit PROVE ApprovalInv
  OBVIOUS
<1>1. ApprovalTypes
  <2>1. [action |-> "none", status |-> "none", grant |-> 0] \in ApprovalRecord
    BY ApprovalAssumption DEF ApprovalRecord
  <2>2. [state |-> "none", by |-> Direct] \in GrantRecord
    BY DEF GrantRecord
  <2> QED BY <2>1, <2>2, IdleDecider DEF ApprovalInit, ApprovalTypes
<1>2. DecidingInv /\ ResultInv
  BY IdleDecider DEF ApprovalInit, DecidingInv, ResultInv
<1> QED BY <1>1, <1>2 DEF ApprovalInv

(* Grants keep the proposal that they were issued for.                     *)
LEMMA GrantsMove ==
  ASSUME ApprovalInv, NEW g \in GrantIds, NEW by \in Proposals \cup {Direct}, NEW state \in {"live", "revoked"},
         grants' = [grants EXCEPT ![g] = [state |-> state, by |-> by]],
         grants[g].state = "none" \/ grants[g].by = by
  PROVE  /\ grants' \in [GrantIds -> GrantRecord] /\ Issued(g, by)'
         /\ \A x, a : Issued(x, a) => Issued(x, a)'
  BY DEF ApprovalInv, ApprovalTypes, GrantRecord, Issued

(* Grants given and revoked beside the queue.                              *)
LEMMA GrantSteps ==
  ASSUME ApprovalInv, GrantDirectly \/ \E g \in GrantIds : RevokeGrant(g)
  PROVE  ApprovalInv'
<1>1. /\ approvals' = approvals /\ deciding' = deciding /\ trail' = trail
      /\ grants' \in [GrantIds -> GrantRecord] /\ \A x, a : Issued(x, a) => Issued(x, a)'
  <2>1. CASE GrantDirectly
    <3>1. PICK g \in Unissued : InsertGrant(g, Direct)
      BY <2>1 DEF GrantDirectly
    <3>2. g \in GrantIds /\ grants[g].state = "none" /\ grants' = [grants EXCEPT ![g] = [state |-> "live", by |-> Direct]]
      BY <3>1 DEF InsertGrant, Unissued
    <3> QED BY <2>1, <3>2, GrantsMove DEF GrantDirectly
  <2>2. ASSUME NEW g \in GrantIds, RevokeGrant(g)
        PROVE  /\ approvals' = approvals /\ deciding' = deciding /\ trail' = trail
               /\ grants' \in [GrantIds -> GrantRecord] /\ \A x, a : Issued(x, a) => Issued(x, a)'
    <3>1. grants[g] \in GrantRecord
      BY DEF ApprovalInv, ApprovalTypes
    <3>2. PICK by \in Proposals \cup {Direct} : by = grants[g].by
      BY <3>1 DEF GrantRecord
    <3>3. [grants[g] EXCEPT !.state = "revoked"] = [state |-> "revoked", by |-> by]
      BY <3>1, <3>2 DEF GrantRecord
    <3>4. grants' = [grants EXCEPT ![g] = [state |-> "revoked", by |-> by]]
      BY <2>2, <3>3 DEF RevokeGrant
    <3> QED BY <2>2, <3>2, <3>4, GrantsMove DEF RevokeGrant
  <2> QED BY <2>1, <2>2
<1> QED BY <1>1 DEF ApprovalInv, ApprovalTypes, DecidingInv, ResultInv

(* A proposal is queued.                                                   *)
LEMMA ProposeStep ==
  ASSUME ApprovalInv, NEW a \in Proposals, NEW action \in Actions, InsertApproval(a, action)
  PROVE  ApprovalInv'
<1>1. /\ approvals' = [approvals EXCEPT ![a] = [action |-> action, status |-> "pending", grant |-> 0]]
      /\ grants' = grants /\ deciding' = deciding /\ trail' = trail
  BY DEF InsertApproval
<1>2. [action |-> action, status |-> "pending", grant |-> 0] \in ApprovalRecord
  BY ApprovalAssumption DEF ApprovalRecord
<1>3. \A x, b : Issued(x, b)' <=> Issued(x, b)
  BY <1>1 DEF Issued
<1> QED BY <1>1, <1>2, <1>3 DEF ApprovalInv, ApprovalTypes, DecidingInv, ResultInv

(* One decider's request moves on.                                         *)
LEMMA DeciderMoves ==
  ASSUME ApprovalInv, NEW d \in Deciders, NEW r \in DecisionRecord, deciding' = [deciding EXCEPT ![d] = r],
         grants' \in [GrantIds -> GrantRecord], \A x, a : Issued(x, a) => Issued(x, a)',
         trail \subseteq trail', trail' \subseteq GrantIds, approvals' = approvals,
         r.step \in {"granting", "auditing"} => r.says = "approved",
         r.step = "granting" => r.grant = 0,
         r.step = "auditing" => Issued(r.grant, r.of)',
         r.step = "recording" /\ r.grant # 0 => r.says = "approved" /\ Issued(r.grant, r.of)' /\ r.grant \in trail'
  PROVE  ApprovalInv'
<1>1. deciding' \in [Deciders -> DecisionRecord] /\ \A e \in Deciders : deciding'[e] = (IF e = d THEN r ELSE deciding[e])
  BY DEF ApprovalInv, ApprovalTypes
<1>2. DecidingInv'
  <2> SUFFICES ASSUME NEW e \in Deciders
               PROVE  /\ deciding'[e].step \in {"granting", "auditing"} => deciding'[e].says = "approved"
                      /\ deciding'[e].step = "granting" => deciding'[e].grant = 0
                      /\ deciding'[e].step = "auditing" => Issued(deciding[e].grant, deciding[e].of)'
                      /\ deciding'[e].step = "recording" /\ deciding'[e].grant # 0 =>
                           /\ deciding'[e].says = "approved"
                           /\ Issued(deciding[e].grant, deciding[e].of)' /\ deciding'[e].grant \in trail'
    BY DEF DecidingInv
  <2>1. CASE e = d
    BY <1>1, <2>1 DEF Issued
  <2>2. CASE e # d
    <3>1. deciding'[e] = deciding[e]
      BY <1>1, <2>2
    <3> QED BY <3>1 DEF ApprovalInv, DecidingInv, Issued
  <2> QED BY <2>1, <2>2
<1>3. ResultInv'
  BY DEF ApprovalInv, ResultInv, Issued
<1> QED BY <1>1, <1>2, <1>3 DEF ApprovalInv, ApprovalTypes

(* A decision: found, granted, put in the audit, recorded.                 *)
LEMMA DecideSteps ==
  ASSUME ApprovalInv, NEW d \in Deciders,
         \/ \E a \in Proposals, says \in Verdict : FindApproval(d, a, says)
         \/ IssueGrant(d) \/ RecordAuditEntry(d) \/ DecideApproval(d)
  PROVE  ApprovalInv'
<1>1. deciding[d] \in DecisionRecord /\ trail \subseteq GrantIds /\ grants \in [GrantIds -> GrantRecord]
  BY DEF ApprovalInv, ApprovalTypes
<1>2. ASSUME grants' = grants PROVE \A x, a : Issued(x, a)' <=> Issued(x, a)
  BY <1>2 DEF Issued
<1>3. ASSUME NEW a \in Proposals, NEW says \in Verdict, FindApproval(d, a, says) PROVE ApprovalInv'
  <2>1. PICK step \in {"granting", "recording"} :
          /\ step = "granting" => says = "approved"
          /\ deciding' = [deciding EXCEPT ![d] = [NotDeciding EXCEPT !.of = a, !.says = says, !.step = step]]
    BY <1>3 DEF FindApproval
  <2> DEFINE r == [NotDeciding EXCEPT !.of = a, !.says = says, !.step = step]
  <2>2. r \in DecisionRecord /\ r.step = step /\ r.says = says /\ r.grant = NotDeciding.grant
    BY IdleDecider DEF DecisionRecord
  <2>3. NotDeciding.grant = 0
    BY DEF NotDeciding
  <2>4. approvals' = approvals /\ grants' = grants /\ trail' = trail /\ deciding' = [deciding EXCEPT ![d] = r]
    BY <1>3, <2>1 DEF FindApproval
  <2> HIDE DEF r
  <2> QED BY <1>1, <1>2, <2>1, <2>2, <2>3, <2>4, DeciderMoves
<1>4. ASSUME Respond(d), grants' = grants, trail' = trail, approvals' = approvals PROVE ApprovalInv'
  <2>1. deciding' = [deciding EXCEPT ![d] = NotDeciding]
    BY <1>4 DEF Respond
  <2> QED BY <1>1, <1>2, <1>4, <2>1, IdleDecider, DeciderMoves
<1>5. CASE IssueGrant(d)
  <2>1. CASE NoConflict
    <3>1. PICK g \in Unissued :
            InsertGrant(g, deciding[d].of) /\ deciding' = [deciding EXCEPT ![d].step = "auditing", ![d].grant = g]
      BY <1>5, <2>1 DEF IssueGrant
    <3>2. PICK by \in Proposals \cup {Direct} : by = deciding[d].of
      BY <1>1 DEF DecisionRecord
    <3>3. PICK r \in DecisionRecord :
            /\ r = [deciding[d] EXCEPT !.step = "auditing", !.grant = g]
            /\ r.step = "auditing" /\ r.grant = g /\ r.of = by /\ r.says = deciding[d].says
      <4> DEFINE moved == [deciding[d] EXCEPT !.step = "auditing", !.grant = g]
      <4>1. g \in 0 .. MaxGrants
        BY ApprovalAssumption DEF Unissued, GrantIds
      <4>2. /\ moved \in DecisionRecord
            /\ moved.step = "auditing" /\ moved.grant = g /\ moved.of = by /\ moved.says = deciding[d].says
        BY <1>1, <3>2, <4>1 DEF DecisionRecord
      <4> HIDE DEF moved
      <4> QED BY <4>2 DEF moved
    <3>4. /\ g \in GrantIds /\ grants[g].state = "none"
          /\ grants' = [grants EXCEPT ![g] = [state |-> "live", by |-> by]]
      BY <3>1, <3>2 DEF InsertGrant, Unissued
    <3>5. /\ grants' \in [GrantIds -> GrantRecord] /\ Issued(g, by)'
          /\ \A x, a : Issued(x, a) => Issued(x, a)'
      BY <3>4, GrantsMove
    <3>6. deciding' = [deciding EXCEPT ![d] = r]
      BY <3>1, <3>3
    <3>7. r.says = "approved" /\ approvals' = approvals /\ trail' = trail
      BY <1>5, <3>3 DEF IssueGrant, At, ApprovalInv, DecidingInv
    <3> QED BY <1>1, <3>3, <3>5, <3>6, <3>7, DeciderMoves
  <2>2. CASE ~NoConflict
    BY <1>4, <1>5, <2>2 DEF IssueGrant
  <2> QED BY <2>1, <2>2
<1>6. CASE RecordAuditEntry(d)
  <2>1. PICK r \in DecisionRecord :
          /\ r = [deciding[d] EXCEPT !.step = "recording"] /\ r.step = "recording"
          /\ r.grant = deciding[d].grant /\ r.of = deciding[d].of /\ r.says = deciding[d].says
    <3> DEFINE moved == [deciding[d] EXCEPT !.step = "recording"]
    <3>1. /\ moved \in DecisionRecord /\ moved.step = "recording"
          /\ moved.grant = deciding[d].grant /\ moved.of = deciding[d].of /\ moved.says = deciding[d].says
      BY <1>1 DEF DecisionRecord
    <3> HIDE DEF moved
    <3> QED BY <3>1 DEF moved
  <2>2. deciding' = [deciding EXCEPT ![d] = r] /\ grants' = grants /\ approvals' = approvals
        /\ trail' = trail \cup {r.grant} /\ deciding[d].step = "auditing"
    BY <1>6, <2>1 DEF RecordAuditEntry, At
  <2>3. r.says = "approved" /\ Issued(r.grant, r.of) /\ r.grant \in GrantIds
    BY <2>1, <2>2 DEF ApprovalInv, DecidingInv, Issued
  <2>4. /\ grants' \in [GrantIds -> GrantRecord] /\ \A x, a : Issued(x, a) => Issued(x, a)'
        /\ trail \subseteq trail' /\ trail' \subseteq GrantIds /\ r.grant \in trail' /\ Issued(r.grant, r.of)'
    BY <1>1, <1>2, <2>2, <2>3
  <2> QED BY <2>1, <2>2, <2>3, <2>4, DeciderMoves
<1>7. CASE DecideApproval(d)
  <2>1. /\ Respond(d) /\ grants' = grants /\ trail' = trail /\ deciding[d].step = "recording"
        /\ approvals' = approvals \/ (approvals[deciding[d].of].status = "pending" /\ Decided(d))
    BY <1>7 DEF DecideApproval, At
  <2>2. CASE approvals' = approvals
    BY <1>4, <2>1, <2>2
  <2>3. CASE Decided(d)
    <3>1. deciding' \in [Deciders -> DecisionRecord] /\ \A e \in Deciders : deciding'[e] = deciding[e] \/ deciding'[e] = NotDeciding
      BY <2>1, IdleDecider DEF Respond, ApprovalInv, ApprovalTypes
    <3>2. approvals' \in [Proposals -> ApprovalRecord]
      <4>1. PICK says \in Verdict, grant \in 0 .. MaxGrants :
              deciding[d].says = says /\ deciding[d].grant = grant
        BY <1>1 DEF DecisionRecord
      <4>2. PICK of : of = deciding[d].of
        OBVIOUS
      <4>3. approvals' = [approvals EXCEPT ![of].status = says, ![of].grant = grant]
        BY <2>3, <4>1, <4>2 DEF Decided
      <4> QED BY <4>3 DEF ApprovalRecord, ApprovalInv, ApprovalTypes
    <3>3. \A a \in Proposals :
            \/ approvals'[a] = approvals[a]
            \/ a = deciding[d].of /\ approvals'[a].status = deciding[d].says /\ approvals'[a].grant = deciding[d].grant
      BY <2>3 DEF Decided, ApprovalRecord, ApprovalInv, ApprovalTypes
    <3>4. ResultInv'
      BY <2>1, <3>3 DEF ResultInv, ApprovalInv, DecidingInv, Issued
    <3>5. DecidingInv'
      BY <2>1, <3>1, IdleDecider DEF ApprovalInv, DecidingInv, Issued
    <3> QED BY <1>1, <2>1, <3>1, <3>2, <3>4, <3>5 DEF ApprovalInv, ApprovalTypes
  <2> QED BY <2>1, <2>2, <2>3
<1> QED BY <1>3, <1>5, <1>6, <1>7

(* Every step keeps the invariant.                                         *)
LEMMA ApprovalStep == ApprovalInv /\ [ApprovalNext]_approvalVars => ApprovalInv'
<1> SUFFICES ASSUME ApprovalInv, [ApprovalNext]_approvalVars PROVE ApprovalInv'
  OBVIOUS
<1>1. CASE LoseRequests
  <2>1. deciding' \in [Deciders -> DecisionRecord] /\ \A d \in Deciders : deciding'[d] = NotDeciding
    BY <1>1, IdleDecider DEF LoseRequests
  <2>2. approvals' = approvals /\ grants' = grants /\ trail' = trail
    BY <1>1 DEF LoseRequests
  <2> QED BY <2>1, <2>2, IdleDecider DEF ApprovalInv, ApprovalTypes, DecidingInv, ResultInv, Issued
<1>2. CASE UNCHANGED approvalVars
  BY <1>2 DEF approvalVars, ApprovalInv, ApprovalTypes, DecidingInv, ResultInv, Issued
<1> QED BY <1>1, <1>2, GrantSteps, ProposeStep, DecideSteps DEF ApprovalNext, Verdict

(* So it holds throughout.                                                 *)
LEMMA ApprovalsAlways == ApprovalSpec => []ApprovalInv
  BY ApprovalInitInv, ApprovalStep, PTL DEF ApprovalSpec

(* The variables keep their types (central/policyStore.js, proposals, grants*)
(* and the audit; one request of each administrator).                      *)
THEOREM ApprovalTypeCorrect == ApprovalSpec => []ApprovalTypeOK
<1>1. ApprovalInv => ApprovalTypeOK
  BY DEF ApprovalInv, ApprovalTypes, ApprovalRecord, GrantRecord, DecisionRecord, Verdict, ApprovalTypeOK
<1> QED BY <1>1, ApprovalsAlways, PTL

(* The grant that an approved proposal names was issued for that proposal  *)
(* and is in the audit, whoever else decides, grants or revokes meanwhile  *)
(* (central/policyRoutes.js, POST /api/policy/approvals/:id/decide).       *)
THEOREM ResultsAreTheirs == ApprovalSpec => []ResultIsItsGrant
<1>1. ApprovalInv => ResultIsItsGrant
  BY DEF ApprovalInv, ResultInv, Issued, ResultIsItsGrant
<1> QED BY <1>1, ApprovalsAlways, PTL

(* Of two who decide one proposal one does, and nothing changes it again:  *)
(* the decision is written where the status is pending still               *)
(* (central/policyStore.js decideApproval).                                *)
THEOREM DecidesOnce == ApprovalSpec => DecidedOnce
<1>1. ApprovalInv /\ [ApprovalNext]_approvalVars =>
        [\A a \in Proposals : approvals[a].status \in Verdict => approvals'[a] = approvals[a]]_approvalVars
  <2> SUFFICES ASSUME ApprovalInv, ApprovalNext, NEW a \in Proposals, approvals[a].status \in Verdict
               PROVE  approvals'[a] = approvals[a]
    OBVIOUS
  <2>1. approvals \in [Proposals -> ApprovalRecord]
    BY DEF ApprovalInv, ApprovalTypes
  <2>2. ASSUME NEW b \in Proposals, NEW action \in Actions, InsertApproval(b, action) PROVE approvals'[a] = approvals[a]
    BY <2>1, <2>2 DEF InsertApproval, Verdict
  <2>3. ASSUME NEW d \in Deciders, DecideApproval(d) PROVE approvals'[a] = approvals[a]
    BY <2>1, <2>3 DEF DecideApproval, Decided, Verdict
  <2>4. CASE approvals' = approvals
    BY <2>4
  <2> QED BY <2>2, <2>3, <2>4 DEF ApprovalNext, GrantDirectly, LoseRequests, RevokeGrant, FindApproval, IssueGrant, RecordAuditEntry
<1> QED BY <1>1, ApprovalsAlways, PTL DEF ApprovalSpec, DecidedOnce, Verdict
(* The rows' corrections, the consents and the crashes *)

RowInv ==
  /\ \A c \in Calls : rows[c].corrected => calls[c].step # "idle" /\ rows[c].outcome \in {"ok", "error", "approved"}
  /\ consents \in [Calls -> {"none", "pending", "approved"}]
  /\ crashes \in 0 .. MaxCrashes

LEMMA RowStart == AuditInit => RowInv
BY AuditAssumption DEF AuditInit, RowInv, NoRow

(* A row is corrected by a hook that claimed it, so after its call began.  *)
LEMMA RowMoves ==
  ASSUME AuditInv, OwnInv, NEW c \in Calls, Pre(c) \/ Post(c) \/ Human(c)
  PROVE  /\ \A e \in Calls : calls[e].step # "idle" => calls'[e].step # "idle"
         /\ \A e \in Calls : rows'[e].corrected =>
              \/ rows[e].corrected /\ (rows'[e].outcome = rows[e].outcome \/ calls[e].step = "idle")
              \/ calls[e].step # "idle" /\ rows'[e].outcome \in {"ok", "error", "approved"}
         /\ crashes' = crashes
<1>1. calls \in [Calls -> AuditedCall] /\ rows \in [Calls -> RowRecord] /\ calls[c] \in AuditedCall
  BY DEF AuditInv, AuditTypes
<1>2. calls[c].step = "posting" => Claimed(c) \in Calls /\ calls[Claimed(c)].step # "idle"
  BY DEF OwnInv, Names, ClaimSteps, Claimed
<1>3. ASSUME NEW s \in Steps, s # "idle", Goes(c, s) PROVE \A e \in Calls : calls[e].step # "idle" => calls'[e].step # "idle"
  BY <1>1, <1>3 DEF Goes, AuditedCall
<1>4. ASSUME Ends(c) PROVE \A e \in Calls : calls[e].step # "idle" => calls'[e].step # "idle"
  BY <1>1, <1>4 DEF Ends, AuditedCall
<1>5. CASE \E allowed \in BOOLEAN : RecordInvoke(c, allowed)
  BY <1>1, <1>3, <1>5 DEF RecordInvoke, CallAt, RowRecord, Steps
<1>6. CASE RecordUsageEvent(c)
  BY <1>1, <1>6 DEF RecordUsageEvent, RowRecord
<1>7. CASE RunUnrecorded(c) \/ Allow(c) \/ Ask(c) \/ SayYes(c)
  <2>1. rows' = rows /\ crashes' = crashes
    BY <1>7 DEF RunUnrecorded, Allow, Ask, SayYes
  <2>2. \A e \in Calls \ {c} : calls'[e] = calls[e]
    BY <1>1, <1>7 DEF RunUnrecorded, Allow, Ask, SayYes
  <2>3. calls'[c].step \in {"running", "prompt"}
    <3>1. CASE RunUnrecorded(c)
      BY <1>1, <3>1 DEF RunUnrecorded, AuditedCall
    <3>2. CASE Allow(c)
      BY <1>1, <3>2 DEF Allow, AuditedCall
    <3>3. CASE Ask(c)
      BY <1>1, <3>3 DEF Ask, AuditedCall
    <3>4. CASE SayYes(c)
      BY <1>1, <3>4 DEF SayYes, AuditedCall
    <3> QED BY <1>7, <3>1, <3>2, <3>3, <3>4
  <2> QED BY <2>1, <2>2, <2>3
<1>8. CASE Deny(c) \/ AnswerUnheard(c) \/ SayNo(c)
  BY <1>1, <1>8 DEF Deny, AnswerUnheard, SayNo, Block, AuditedCall
<1>9. CASE \E failed \in BOOLEAN : ReadPending(c, failed)
  BY <1>1, <1>9 DEF ReadPending, AuditedCall
<1>10. CASE ClearPending(c) \/ InsertConsent(c) \/ DecideConsent(c) \/ GiveUp(c)
  BY <1>1, <1>3, <1>4, <1>10 DEF ClearPending, InsertConsent, DecideConsent, GiveUp, Steps
<1>11. ASSUME NEW was, NEW outcome \in {"ok", "error", "approved"}, calls[c].step = "posting",
              Correctable(Claimed(c), was), Corrected(Claimed(c), outcome)
       PROVE  \A e \in Calls : rows'[e].corrected =>
                \/ rows[e].corrected /\ rows'[e].outcome = rows[e].outcome
                \/ calls[e].step # "idle" /\ rows'[e].outcome \in {"ok", "error", "approved"}
  BY <1>1, <1>2, <1>11 DEF Corrected, RowRecord
<1>12. CASE PatchUsage(c)
  <2>1. Ends(c) /\ calls[c].step = "posting" /\ crashes' = crashes
    BY <1>12 DEF PatchUsage, CallAt
  <2>2. CASE rows' = rows
    BY <1>4, <2>1, <2>2
  <2>3. CASE rows' # rows
    <3>1. \E outcome \in {"ok", "error"} : Correctable(Claimed(c), "ok") /\ Corrected(Claimed(c), outcome)
      BY <1>12, <2>3 DEF PatchUsage
    <3> QED BY <1>4, <1>11, <2>1, <3>1
  <2> QED BY <2>2, <2>3
<1>13. CASE ApproveConsent(c)
  <2>1. (Ends(c) \/ Goes(c, "consenting")) /\ calls[c].step = "posting" /\ crashes' = crashes
    BY <1>13 DEF ApproveConsent, CallAt
  <2>2. CASE rows' = rows
    BY <1>3, <1>4, <2>1, <2>2 DEF Steps
  <2>3. CASE rows' # rows
    <3>1. Correctable(Claimed(c), "denied") /\ Corrected(Claimed(c), "approved")
      BY <1>13, <2>3 DEF ApproveConsent
    <3> QED BY <1>3, <1>4, <1>11, <2>1, <3>1 DEF Steps
  <2> QED BY <2>2, <2>3
<1> QED BY <1>5, <1>6, <1>7, <1>8, <1>9, <1>10, <1>12, <1>13 DEF Pre, Post, Human

(* A consent is pending, then approved.                                    *)
LEMMA ConsentsMove ==
  ASSUME NEW c \in Calls, Pre(c) \/ Post(c) \/ Human(c), consents \in [Calls -> {"none", "pending", "approved"}]
  PROVE  consents' \in [Calls -> {"none", "pending", "approved"}]
<1>1. CASE InsertConsent(c)
  BY <1>1 DEF InsertConsent
<1>2. CASE DecideConsent(c)
  BY <1>2 DEF DecideConsent
<1>3. CASE consents' = consents
  BY <1>3
<1> QED BY <1>1, <1>2, <1>3 DEF Pre, Post, Human, RecordInvoke, RecordUsageEvent, RunUnrecorded, Allow, Ask, Deny,
       AnswerUnheard, Block, SayYes, SayNo, ReadPending, ClearPending, PatchUsage, ApproveConsent, GiveUp

LEMMA RowStep == AuditInv /\ OwnInv /\ RowInv /\ [AuditNext]_auditVars => RowInv'
<1> SUFFICES ASSUME AuditInv, OwnInv, RowInv, [AuditNext]_auditVars PROVE RowInv'
  OBVIOUS
<1>1. CASE UNCHANGED auditVars
  BY <1>1 DEF auditVars, RowInv
<1>2. ASSUME NEW c \in Calls, Pre(c) \/ Post(c) \/ Human(c) PROVE RowInv'
  BY <1>2, RowMoves, ConsentsMove DEF RowInv
<1>3. CASE Crash
  <2>1. crashes' \in 0 .. MaxCrashes /\ consents' = consents
    <3>1. crashes \in 0 .. MaxCrashes
      BY DEF RowInv
    <3>2. crashes < MaxCrashes /\ crashes' = crashes + 1 /\ consents' = consents
      BY <1>3 DEF Crash
    <3> QED BY <3>1, <3>2, AuditAssumption
  <2>2. \A c \in Calls : rows'[c].corrected => rows'[c] = rows[c]
    BY <1>3 DEF Crash, NoRow
  <2>3. \A c \in Calls : calls[c].step # "idle" => calls'[c].step # "idle"
    <3>1. \A c \in Calls : calls[c] \in AuditedCall
      BY DEF AuditInv, AuditTypes
    <3> QED BY <1>3, <3>1 DEF Crash, AuditedCall
  <2> QED BY <2>1, <2>2, <2>3 DEF RowInv
<1> QED BY <1>1, <1>2, <1>3 DEF AuditNext

-----------------------------------------------------------------------------
(* The parts of one instance *)

GovernedInv == HookInv /\ AuditInv /\ OwnInv /\ RowInv /\ ApprovalInv

LEMMA GovernedStart == GovernedInit => GovernedInv
BY HookInitInv, AuditInitInv, OwnStart, RowStart, ApprovalInitInv DEF GovernedInit, GovernedInv

LEMMA GovernedStep == GovernedInv /\ [GovernedNext]_governedVars => GovernedInv'
<1> SUFFICES ASSUME GovernedInv, [GovernedNext]_governedVars PROVE GovernedInv'
  OBVIOUS
<1>1. [HookNext]_hookVars /\ [AuditNext]_auditVars /\ [ApprovalNext]_approvalVars
  BY DEF GovernedNext, governedVars
<1> QED BY <1>1, HookStep, AuditStep, OwnStep, RowStep, ApprovalStep DEF GovernedInv

(* The parts of a governed call keep the states they are meant to have; a  *)
(* corrected row says what a tool or a human can have said, and never that *)
(* the call was denied (hooks/lib.js, store.js patchUsage, app.js).        *)
THEOREM CallTypeCorrect == GovernedSpec => []CallTypeOK
<1>1. HookInv => HookTypeOK
  BY DEF HookInv, HookTypes, ProgressInv, HookTypeOK, TablesRecord, CallRecord
<1>2. AuditInv /\ RowInv => AuditTypeOK
  BY DEF AuditInv, AuditTypes, RowInv, AuditTypeOK, AuditedCall, RowRecord, FileRecord
<1>3. ApprovalInv => ApprovalTypeOK
  BY DEF ApprovalInv, ApprovalTypes, ApprovalTypeOK, ApprovalRecord, GrantRecord, DecisionRecord, Verdict
<1>4. GovernedInv => CallTypeOK
  BY <1>1, <1>2, <1>3 DEF GovernedInv, CallTypeOK
<1> QED BY <1>4, GovernedStart, GovernedStep, PTL DEF GovernedSpec

=============================================================================
