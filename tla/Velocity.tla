------------------------------- MODULE Velocity ------------------------------
(***************************************************************************)
(* The rate limit of a grant: a token bucket for each pair of a calling    *)
(* principal and a capability, in the memory of the node's server.         *)
(* server/policy/tokenBucket.js, server/policy/velocity.js, and the one    *)
(* caller in server/app.js.  Tokens are counted in units of which a call   *)
(* costs Cost, so that what the clock adds in one tick is a whole number.  *)
(***************************************************************************)
EXTENDS Integers, FiniteSets

CONSTANTS
  Pairs,        \* principal and capability
  Cost,         \* units in a token
  Velocities,   \* [rate, burst]: units per tick, units
  MaxBuckets,   \* MAX_BUCKETS
  MaxTime,      \* bound: ticks
  MaxSetBack,   \* bound: ticks by which the clock is set back
  MaxRestarts,  \* bound
  MaxRegrants   \* bound: changes of a grant's velocity

NoPair == "none"

ASSUME VelocityAssumption ==
  /\ NoPair \notin Pairs
  /\ Cost \in Nat \ {0} /\ Velocities \subseteq [rate : Nat \ {0}, burst : Nat \ {0}]
  /\ {MaxBuckets, MaxTime, MaxSetBack, MaxRestarts, MaxRegrants} \subseteq Nat

VARIABLES
  limit,    \* the velocity that the grant of each pair carries
  buckets,  \* what the map holds: [some pairs -> [tokens, at]]
  time,     \* ticks that have passed
  setBack,  \* by how much the clock is behind them
  restarts,
  regrants,
  watch,    \* an observer of one pair, from one of its calls on
  promise   \* what a refused caller was told: when to come back

velocityVars == <<limit, buckets, time, setBack, restarts, regrants, watch, promise>>

now == time - setBack

Least(a, b) == IF a <= b THEN a ELSE b
Most(a, b) == IF a >= b THEN a ELSE b

(* A capacity below one token is raised to one.                            *)
parseVelocity(raw) == [raw EXCEPT !.burst = Most(@, Cost)]
Of(p) == parseVelocity(limit[p])

NoPromise == -1
Unwatched == [pair |-> NoPair, calls |-> 0, ticks |-> 0, restarts |-> 0, pruned |-> 0]

(* What happens to the pair that is watched is counted.                    *)
Observe(what) == watch' = IF watch.pair = NoPair THEN watch ELSE [watch EXCEPT ![what] = @ + 1]

VelocityInit ==
  /\ limit \in [Pairs -> Velocities]
  /\ buckets = <<>>
  /\ time = MaxSetBack /\ setBack = 0 /\ restarts = 0 /\ regrants = 0
  /\ watch = Unwatched
  /\ promise = [p \in Pairs |-> NoPromise]

-----------------------------------------------------------------------------
(* Mutant: time that was not used is saved without end.                    *)
refillUncapped(p) ==
  IF p \notin DOMAIN buckets THEN Of(p).burst
  ELSE buckets[p].tokens + Most(0, now - buckets[p].at) * Of(p).rate

(* A bucket that nobody has touched is full; a clock that is behind the    *)
(* bucket's adds nothing.                                                  *)
refill(p) ==
  IF p \notin DOMAIN buckets THEN Of(p).burst
  ELSE Least(Of(p).burst, buckets[p].tokens + Most(0, now - buckets[p].at) * Of(p).rate)

Holds(p) == refill(p) >= Cost

RetryAfter(p) == (Cost - refill(p) + Of(p).rate - 1) \div Of(p).rate

(* Mutant: the oldest go, whatever they hold.                              *)
PrunableOlder(p) == {q \in DOMAIN buckets : now > buckets[q].at}

(* Buckets that hold the capacity of the call that is being inserted.      *)
Prunable(p) == {q \in DOMAIN buckets : buckets[q].tokens >= Of(p).burst /\ now > buckets[q].at}

pruneIfNeeded(p) ==
  IF p \notin DOMAIN buckets /\ Cardinality(DOMAIN buckets) >= MaxBuckets THEN Prunable(p) ELSE {}

Store(p, tokens) ==
  LET kept == (DOMAIN buckets \ pruneIfNeeded(p)) \cup {p}
  IN  buckets' = [q \in kept |-> IF q = p THEN [tokens |-> tokens, at |-> now] ELSE buckets[q]]

SeesPruned(p) == IF watch.pair \in pruneIfNeeded(p) THEN Observe("pruned") ELSE UNCHANGED watch

(* The observer counts from any call of a pair on.                         *)
Watched(p) ==
  \/ watch.pair = NoPair /\ watch' = [Unwatched EXCEPT !.pair = p, !.calls = 1]
  \/ watch.pair = p /\ watch' = [watch EXCEPT !.calls = @ + 1]
  \/ watch.pair # p /\ SeesPruned(p)    \* begins at a later call, or counts other calls

(* /invoke with a grant: the bucket is brought up to date, and a token     *)
(* spent if there is one.                                                  *)
Spent(p) ==
  /\ Holds(p)
  /\ Store(p, refill(p) - Cost)
  /\ Watched(p)
  /\ promise' = [promise EXCEPT ![p] = NoPromise]

Limited(p) ==
  /\ ~Holds(p)
  /\ Store(p, refill(p))
  /\ promise' = [promise EXCEPT ![p] = now + RetryAfter(p)]
  /\ SeesPruned(p)

checkVelocity(p) ==
  /\ Spent(p) \/ Limited(p)
  /\ UNCHANGED <<limit, time, setBack, restarts, regrants>>

(* The grant is replaced by one of another velocity; the bucket stays.     *)
Regrant(p, v) ==
  /\ v # limit[p] /\ regrants < MaxRegrants
  /\ limit' = [limit EXCEPT ![p] = v]
  /\ regrants' = regrants + 1
  /\ watch' = IF watch.pair = p THEN Unwatched ELSE watch
  /\ promise' = [promise EXCEPT ![p] = NoPromise]
  /\ UNCHANGED <<buckets, time, setBack, restarts>>

(* The server starts again with an empty map.                              *)
Restart ==
  /\ buckets # <<>> /\ restarts < MaxRestarts
  /\ restarts' = restarts + 1
  /\ buckets' = <<>>
  /\ Observe("restarts")
  /\ UNCHANGED <<limit, time, setBack, regrants, promise>>

Tick ==
  /\ time < MaxSetBack + MaxTime
  /\ time' = time + 1
  /\ Observe("ticks")
  /\ UNCHANGED <<limit, buckets, setBack, restarts, regrants, promise>>

(* The machine's clock is corrected.                                       *)
ClockBack ==
  /\ setBack < MaxSetBack
  /\ setBack' = setBack + 1
  /\ UNCHANGED <<limit, buckets, time, restarts, regrants, watch, promise>>

VelocityNext ==
  \/ \E p \in Pairs : checkVelocity(p) \/ \E v \in Velocities : Regrant(p, v)
  \/ Restart \/ Tick \/ ClockBack

VelocitySpec == VelocityInit /\ [][VelocityNext]_velocityVars

-----------------------------------------------------------------------------
(* Properties *)

(* "a burst is bounded by `burst` at every instant and the sustained rate  *)
(* is bounded by `ratePerMin` over any interval", and "the worst a restart *)
(* buys a looping agent is one more burst" (tokenBucket.js, velocity.js):  *)
(* between any two calls that were let through there are no more than the  *)
(* burst and what the interval adds, however the clock is set back.  A     *)
(* restart adds a burst, and a bucket that was dropped for room adds what  *)
(* its burst is above the smallest one.                                    *)
SmallestBurst == CHOOSE b \in {parseVelocity(v).burst : v \in Velocities} : \A v \in Velocities : b <= parseVelocity(v).burst
WithinRate ==
  watch.pair \in Pairs =>
    LET v == Of(watch.pair)
    IN  watch.calls * Cost <= v.burst + v.rate * watch.ticks
          + v.burst * watch.restarts + (v.burst - SmallestBurst) * watch.pruned

(* "retryAfterMs is the real time until the next token, not a guess"       *)
(* (velocity-test.js): who comes back when he was told to is let through,  *)
(* unless the same agent was let through or its velocity changed meanwhile.*)
RetryHonoured == \A p \in Pairs : promise[p] # NoPromise /\ now >= promise[p] => Holds(p)

(* The limit is the one the grant states, neither more nor less.           *)
RateAsTold == WithinRate /\ RetryHonoured
=============================================================================
