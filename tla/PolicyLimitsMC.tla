---------------------------- MODULE PolicyLimitsMC ---------------------------
(***************************************************************************)
(* One instance for TLC of the policy channel at its worst, of the limits  *)
(* that policy sets on a call (rates, and merged constraints) or on the    *)
(* windows in which a node may be lenient, of the packages that central    *)
(* turns into grants, and of the schema of the databases that hold all of  *)
(* it.  Each behaviour is of one of the parts, and the others rest in an   *)
(* initial state.                                                          *)
(***************************************************************************)
EXTENDS PolicyChannelMC, Velocity, Constraints, EnforcementWindows, Packages, Migrations

CONSTANTS k1, k2, ra, rb

VARIABLE part

Slow == [rate |-> 1, burst |-> 3]
Quick == [rate |-> 3, burst |-> 7]
TwoVelocities == {Slow, Quick}

(* Legs of at most two keys; bounds, paths and velocities of which neither *)
(* contains the other.                                                     *)
Saying(key, values) == {key :> value : value \in values}
OneKeyLegs ==
  UNION {Saying("expiresAt", {1, 2, Unreadable}), Saying("maxPerHour", {1, 2}),
         Saying("paths", SUBSET {"a", "b"}), Saying("readOnly", BOOLEAN), Saying("other", {1}),
         Saying("velocity", {NoVelocity, [rate |-> 1, burst |-> 2], [rate |-> 2, burst |-> 1]})}
SomeLegs == {Unparseable, <<>>} \cup {a @@ b : a, b \in OneKeyLegs}
SomeAttempts ==
  [at : 1 .. 3, nth : 1 .. 3, path : {"a", "b"}, writes : BOOLEAN, pace : 1 .. 2, spike : 1 .. 2]

(* What central's profile and the environment of a node may say; asks that *)
(* are allowed, refused and cut, at the API and at boot.                   *)
SomeProfiles ==
  {<<>>, [allowPause |-> FALSE], [pauseMax |-> 10, pauseTiers |-> {"mutating"}],
   [pauseMax |-> Null, leaseTiers |-> Null],
   [pauseDefault |-> 30, leaseMax |-> 20, pauseTiers |-> {"read_only", "mutating"}]}
SomeFloors ==
  {<<>>, [pauseMax |-> 3, pauseTiers |-> {"read_only", "destructive"}],
   [allowPause |-> Junk, leaseMax |-> 5, leaseTiers |-> {"read_only"}]}
SomePauses ==
  [tolerate : {{}, {"read_only"}, RiskTiers}, minutes : {Absent, 1, 120}]
    \cup {[tolerate |-> {"read_only"}, minutes |-> Junk]}
SomeLeases == [tolerate : {{}, {"read_only"}, Junk}, minutes : {Absent, 120}]

(* k1 and the skill k2 are read by the package's role; what k1 changes is  *)
(* for a role that is not on the package's own list.                       *)
SomeRoles ==
  [pair \in Owned \X CapTiers |->
     IF pair[2] = "read_only" THEN {ra} ELSE IF pair = <<k1, "mutating">> THEN {rb} ELSE {}]

-----------------------------------------------------------------------------
limitedVars == <<vars, velocityVars, constraintVars, windowVars, packageVars, migrationVars, part>>

LimitsInit ==
  /\ Init /\ VelocityInit /\ ConstraintInit /\ WindowsInit /\ PackagesInit /\ MigrationInit
  /\ part \in {"channel", "rate", "merge", "windows", "packages", "schema"}
  /\ part # "rate" => limit = [p \in Pairs |-> Slow]
  /\ part # "windows" => lever = "pause"
  /\ capTier[k1] # "destructive" /\ capTier[k2] = "read_only"
  /\ part # "packages" => roles = {} /\ capTier = [c \in Owned |-> "read_only"]
  /\ part # "schema" => engine = "sqlite"

LimitsNext ==
  /\ \/ part = "channel" /\ Next
        /\ UNCHANGED <<velocityVars, constraintVars, windowVars, packageVars, migrationVars>>
     \/ part = "rate" /\ VelocityNext
        /\ UNCHANGED <<vars, constraintVars, windowVars, packageVars, migrationVars>>
     \/ part = "merge" /\ ConstraintNext
        /\ UNCHANGED <<vars, velocityVars, windowVars, packageVars, migrationVars>>
     \/ part = "windows" /\ WindowsNext
        /\ UNCHANGED <<vars, velocityVars, constraintVars, packageVars, migrationVars>>
     \/ part = "packages" /\ PackagesNext
        /\ UNCHANGED <<vars, velocityVars, constraintVars, windowVars, migrationVars>>
     \/ part = "schema" /\ MigrationNext
        /\ UNCHANGED <<vars, velocityVars, constraintVars, windowVars, packageVars>>
  /\ UNCHANGED part

LimitsSpec == LimitsInit /\ [][LimitsNext]_limitedVars

-----------------------------------------------------------------------------
(* What policy limits is limited to what the code says: a caller told to   *)
(* wait is let through when told (server/policy/velocity.js), merged legs  *)
(* allow what every leg allows (server/policy/constraints.js), and a pause *)
(* or a lease keeps within what central and the environment allow          *)
(* (server/policy/nodeConfig.js).                                          *)
LimitsAsTold == RateAsTold /\ MergeIsIntersection /\ WindowsBounded
=============================================================================
