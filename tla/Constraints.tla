------------------------------ MODULE Constraints ----------------------------
(***************************************************************************)
(* What the legs of a decision (user, role, node profile) restrict, merged *)
(* one leg after the other: server/policy/constraints.js, called by the    *)
(* shadow evaluation of server/app.js.  One key of each kind stands for    *)
(* the keys of its kind.                                                   *)
(***************************************************************************)
EXTENDS Integers, FiniteSets

CONSTANTS
  Legs,     \* what a leg may say: [some keys -> values]
  Attempts, \* calls, by what the keys restrict
  MaxLegs   \* bound

VARIABLES
  merged,    \* the loop's result so far
  taken,     \* how many legs it has taken in
  refused  \* the attempts that one of them, by itself, does not let through

constraintVars == <<merged, taken, refused>>

(* A bound, or a velocity, that cannot be read.                            *)
Unreadable == -1
NoVelocity == [rate |-> 0, burst |-> 0]
Unparseable == [unparseable |-> TRUE]

KnownKeys == {"expiresAt", "maxPerHour", "paths", "readOnly", "velocity"}

(* A velocity that can be read has a rate and a burst above zero.          *)
ASSUME ConstraintAssumption ==
  /\ \A leg \in Legs \ {Unparseable} :
       /\ \A key \in {"expiresAt", "maxPerHour"} \cap DOMAIN leg : leg[key] \in Int
       /\ "readOnly" \in DOMAIN leg => leg.readOnly \in BOOLEAN
       /\ "velocity" \in DOMAIN leg => leg.velocity \in {NoVelocity} \cup [rate : Nat \ {0}, burst : Nat \ {0}]
  /\ \A call \in Attempts : {call.at, call.nth, call.pace, call.spike} \subseteq Int
  /\ MaxLegs \in Nat

unknownKeys(leg) == DOMAIN leg \ KnownKeys

Lower(a, b) == IF a <= b THEN a ELSE b

(* A bound nobody can read gives way to one that can be read.              *)
LowerBound(a, b) == IF a = Unreadable THEN b ELSE IF b = Unreadable THEN a ELSE Lower(a, b)

(* Mutant: the slower leg's velocity, burst and all.                       *)
combineSlower(a, b) == IF a.rate <= b.rate THEN a ELSE b

combineVelocity(a, b) == [rate |-> Lower(a.rate, b.rate), burst |-> Lower(a.burst, b.burst)]

combine(key, a, b) ==
  CASE key \in {"expiresAt", "maxPerHour"} -> LowerBound(a, b)
    [] key = "paths" -> a \cap b
    [] key = "readOnly" -> a \/ b
    [] key = "velocity" -> combineVelocity(a, b)

(* A leg that says what this build cannot evaluate refuses the call.       *)
Evaluable(leg) ==
  unknownKeys(leg) = {} /\ ("velocity" \in DOMAIN leg => leg.velocity # NoVelocity)

RefuseAll == [allowed |-> FALSE, constraints |-> <<>>]

(* Mutant: a key that one of the two does not have is dropped.             *)
MergedCommon(a, b) == [key \in DOMAIN a \cap DOMAIN b |-> combine(key, a[key], b[key])]

(* A key on one of the two applies as written.                             *)
MergedKeys(a, b) ==
  [key \in DOMAIN a \cup DOMAIN b |->
     IF key \notin DOMAIN a THEN b[key] ELSE IF key \notin DOMAIN b THEN a[key] ELSE combine(key, a[key], b[key])]

NothingInCommon(a, b) == "paths" \in DOMAIN a \cap DOMAIN b /\ a.paths \cap b.paths = {}

ConstraintInit == merged = [allowed |-> TRUE, constraints |-> <<>>] /\ taken = 0 /\ refused = {}

(* What a leg lets through, read on its own.                               *)
Permits(leg, call) ==
  /\ leg # Unparseable /\ Evaluable(leg)
  /\ \A key \in DOMAIN leg :
       CASE key = "expiresAt" -> leg[key] = Unreadable \/ call.at <= leg[key]
         [] key = "maxPerHour" -> leg[key] = Unreadable \/ call.nth <= leg[key]
         [] key = "paths" -> call.path \in leg[key]
         [] key = "readOnly" -> leg[key] => ~call.writes
         [] key = "velocity" -> call.pace <= leg[key].rate /\ call.spike <= leg[key].burst

mergeConstraints(leg) ==
  /\ merged.allowed /\ taken < MaxLegs
  /\ merged' = IF leg = Unparseable \/ ~Evaluable(leg) \/ NothingInCommon(merged.constraints, leg) THEN RefuseAll
               ELSE [allowed |-> TRUE, constraints |-> MergedKeys(merged.constraints, leg)]
  /\ taken' = taken + 1
  /\ refused' = refused \cup {call \in Attempts : ~Permits(leg, call)}

ConstraintNext == \E leg \in Legs : mergeConstraints(leg)

ConstraintSpec == ConstraintInit /\ [][ConstraintNext]_constraintVars

-----------------------------------------------------------------------------
(* "the merge takes the most restrictive on every axis", and "A            *)
(* restriction is never dropped by the other leg's silence"                *)
(* (tokenBucket.js, constraints.js): in whatever order the legs come, the  *)
(* merged constraints let through what every leg lets through, no more and *)
(* no less.                                                                *)
MergeIsIntersection ==
  taken > 0 => refused = {call \in Attempts : ~(merged.allowed /\ Permits(merged.constraints, call))}
=============================================================================
