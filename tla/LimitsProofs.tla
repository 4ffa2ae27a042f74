----------------------------- MODULE LimitsProofs ------------------------------
(***************************************************************************)
(* The limits that policy sets, for every number of pairs, legs, profiles, *)
(* roles and requests: a grant's rate, merged constraints, the windows of  *)
(* leniency, and the word that packages give; and the schema of the        *)
(* databases that hold it, which whoever opens one finds whole, with chains*)
(* that verify.                                                            *)
(***************************************************************************)
EXTENDS PolicyLimitsMC, OrderFacts, FiniteSetTheorems

-----------------------------------------------------------------------------
(* Rates: arithmetic *)

LEMMA Times ==
  ASSUME NEW a \in Nat, NEW b \in Nat
  PROVE  a * b \in Nat /\ a * (b + 1) = a * b + a /\ a * 0 = 0
OBVIOUS

LEMMA TimesMore ==
  ASSUME NEW a \in Nat, NEW b \in Nat, NEW c \in Nat, b <= c
  PROVE  a * b <= a * c
<1>1. PICK d \in Nat : c = b + d
  OBVIOUS
<1>2. a * c = a * b + a * d /\ a * d \in Nat /\ a * b \in Nat
  BY <1>1
<1> QED BY <1>2

LEMMA Ceiling ==
  ASSUME NEW a \in Nat, NEW r \in Nat \ {0}
  PROVE  (a + r - 1) \div r \in Nat /\ a <= ((a + r - 1) \div r) * r
<1> DEFINE x == a + r - 1
           q == x \div r
<1>1. x \in Nat /\ q \in Int
  OBVIOUS
<1>2. x = (r * q) + (x % r) /\ (x % r) \in 0 .. (r - 1)
  OBVIOUS
<1> QED BY <1>1, <1>2

(* What is in a bucket of some tokens after a time.                        *)
Filled(burst, rate, tokens, elapsed) == Least(burst, tokens + Most(0, elapsed) * rate)

LEMMA FilledFacts ==
  ASSUME NEW b \in Nat, NEW r \in Nat, NEW k \in Nat, NEW d \in Int
  PROVE  /\ Filled(b, r, k, d) \in Nat /\ Filled(b, r, k, d) <= b
         /\ k <= b => k <= Filled(b, r, k, d)
         /\ b <= k => Filled(b, r, k, d) = b
<1>1. Most(0, d) \in Nat
  BY DEF Most
<1>2. PICK x \in Nat : x = Most(0, d) * r
  BY <1>1
<1> QED BY <1>2 DEF Filled, Least

LEMMA FilledLater ==
  ASSUME NEW b \in Nat, NEW r \in Nat, NEW k \in Nat, NEW d \in Int, NEW l \in Int
  PROVE  /\ l = d + 1 => Filled(b, r, k, l) <= Filled(b, r, k, d) + r
         /\ l = d - 1 => Filled(b, r, k, l) <= Filled(b, r, k, d)
<1> DEFINE e == Most(0, d)  f == Most(0, l)
<1>1. /\ e \in Nat /\ f \in Nat
      /\ l = d + 1 => f = e + 1 \/ f = 0
      /\ l = d - 1 => f <= e
  BY DEF Most
<1> HIDE DEF e, f
<1>2. e * r \in Nat /\ f * r \in Nat
  BY <1>1
<1>3. ASSUME l = d - 1 PROVE f * r <= e * r
  <2>1. r * f <= r * e
    BY <1>1, <1>3, TimesMore
  <2> QED BY <1>1, <2>1
<1>4. ASSUME l = d + 1 PROVE f * r <= e * r + r
  <2>1. CASE f = 0
    BY <1>2, <2>1
  <2>2. CASE f = e + 1
    BY <1>1, <2>2
  <2> QED BY <1>1, <1>4, <2>1, <2>2
<1>5. Filled(b, r, k, d) = Least(b, k + e * r) /\ Filled(b, r, k, l) = Least(b, k + f * r)
  BY DEF Filled, e, f
<1>6. PICK x \in Nat, y \in Nat : x = e * r /\ y = f * r
  BY <1>2
<1>7. (l = d - 1 => y <= x) /\ (l = d + 1 => y <= x + r)
  BY <1>3, <1>4, <1>6
<1> QED BY <1>5, <1>6, <1>7 DEF Least

LEMMA FilledAtOnce ==
  ASSUME NEW b \in Nat, NEW r \in Nat, NEW k \in Nat, k <= b
  PROVE  Filled(b, r, k, 0) = k
<1>1. Most(0, 0) = 0 /\ 0 * r = 0
  BY DEF Most
<1>2. Filled(b, r, k, 0) = Least(b, k + 0)
  BY <1>1 DEF Filled
<1> QED BY <1>2 DEF Least

(* Who comes when he was told to finds what he needs.                      *)
LEMMA FilledWhenTold ==
  ASSUME NEW b \in Nat, NEW r \in Nat, NEW k \in Nat, NEW d \in Int, NEW c \in Nat, NEW need \in Nat,
         c <= d, need <= b, need <= k + c * r
  PROVE  need <= Filled(b, r, k, d)
<1>1. Most(0, d) = d /\ d \in Nat
  BY DEF Most
<1>2. r * c <= r * d
  BY <1>1, TimesMore
<1>3. c * r \in Nat /\ d * r \in Nat /\ c * r <= d * r
  BY <1>1, <1>2
<1>4. PICK x \in Nat : x = d * r /\ need <= k + x
  BY <1>3
<1> QED BY <1>1, <1>4 DEF Filled, Least

-----------------------------------------------------------------------------
(* Rates: the bucket of a pair *)

Watches == [pair : Pairs \cup {NoPair}, calls : Nat, ticks : Nat, restarts : Nat, pruned : Nat]
RateType ==
  /\ limit \in [Pairs -> Velocities]
  /\ DOMAIN buckets \subseteq Pairs
  /\ \A p \in DOMAIN buckets : buckets[p] \in [tokens : Nat, at : Int]
  /\ time \in Nat /\ setBack \in Nat /\ setBack <= MaxSetBack /\ MaxSetBack <= time
  /\ watch \in Watches
  /\ promise \in [Pairs -> Int]

LEMMA OfFacts ==
  ASSUME RateType, NEW p \in Pairs
  PROVE  /\ Of(p).rate \in Nat \ {0} /\ Of(p).burst \in Nat \ {0} /\ Cost <= Of(p).burst
         /\ SmallestBurst \in Nat /\ SmallestBurst <= Of(p).burst
         /\ Cost \in Nat \ {0} /\ now \in Nat
<1>1. Cost \in Nat \ {0} /\ Velocities \subseteq [rate : Nat \ {0}, burst : Nat \ {0}]
  BY VelocityAssumption
<1>2. \A v \in Velocities : /\ parseVelocity(v).rate \in Nat \ {0} /\ parseVelocity(v).burst \in Nat \ {0}
                            /\ Cost <= parseVelocity(v).burst
  BY <1>1 DEF parseVelocity, Most
<1>3. limit[p] \in Velocities
  BY DEF RateType
<1>4. PICK b \in {parseVelocity(v).burst : v \in Velocities} : \A v \in Velocities : b <= parseVelocity(v).burst
  <2> DEFINE B == {parseVelocity(v).burst : v \in Velocities}
  <2>1. B \in SUBSET Nat /\ B # {}
    BY <1>2, <1>3
  <2>2. \E b \in B : \A c \in B : b <= c
    <3> HIDE DEF B
    <3> QED BY <2>1, LeastOfNats
  <2> QED BY <2>2
<1>5. /\ SmallestBurst \in {parseVelocity(v).burst : v \in Velocities}
      /\ \A v \in Velocities : SmallestBurst <= parseVelocity(v).burst
  BY <1>4 DEF SmallestBurst
<1>6. now \in Nat
  <2>1. MaxSetBack \in Nat
    BY VelocityAssumption
  <2> QED BY <2>1 DEF RateType, now
<1> QED BY <1>1, <1>2, <1>3, <1>5, <1>6 DEF Of

LEMMA RefillFacts ==
  ASSUME RateType, NEW p \in Pairs
  PROVE  /\ refill(p) \in Nat /\ refill(p) <= Of(p).burst
         /\ p \in DOMAIN buckets => refill(p) = Filled(Of(p).burst, Of(p).rate, buckets[p].tokens, now - buckets[p].at)
         /\ p \notin DOMAIN buckets => refill(p) = Of(p).burst
         /\ p \in DOMAIN buckets /\ buckets[p].tokens <= Of(p).burst => buckets[p].tokens <= refill(p)
         /\ p \in DOMAIN buckets /\ Of(p).burst <= buckets[p].tokens => refill(p) = Of(p).burst
<1>1. p \in DOMAIN buckets => refill(p) = Filled(Of(p).burst, Of(p).rate, buckets[p].tokens, now - buckets[p].at)
  BY DEF refill, Filled
<1>2. p \notin DOMAIN buckets => refill(p) = Of(p).burst
  BY DEF refill
<1>3. Of(p).rate \in Nat /\ Of(p).burst \in Nat /\ now \in Int
  BY OfFacts
<1>4. p \in DOMAIN buckets => buckets[p].tokens \in Nat /\ now - buckets[p].at \in Int
  BY <1>3 DEF RateType
<1>5. CASE p \in DOMAIN buckets
  <2>1. PICK b \in Nat, r \in Nat, k \in Nat, d \in Int :
          b = Of(p).burst /\ r = Of(p).rate /\ k = buckets[p].tokens /\ d = now - buckets[p].at
    BY <1>3, <1>4, <1>5
  <2>2. /\ Filled(b, r, k, d) \in Nat /\ Filled(b, r, k, d) <= b
        /\ k <= b => k <= Filled(b, r, k, d)
        /\ b <= k => Filled(b, r, k, d) = b
    BY FilledFacts
  <2>3. refill(p) = Filled(b, r, k, d)
    BY <1>1, <1>5, <2>1
  <2> QED BY <1>1, <1>5, <2>1, <2>2, <2>3
<1>6. CASE p \notin DOMAIN buckets
  BY <1>2, <1>3, <1>6
<1> QED BY <1>1, <1>2, <1>5, <1>6

LEMMA Stored ==
  ASSUME RateType, NEW p \in Pairs, NEW tokens \in Nat, Store(p, tokens)
  PROVE  /\ p \in DOMAIN buckets' /\ buckets'[p] = [tokens |-> tokens, at |-> now]
         /\ DOMAIN buckets' \subseteq DOMAIN buckets \cup {p}
         /\ \A q \in DOMAIN buckets' : q # p => buckets'[q] = buckets[q]
         /\ \A q \in DOMAIN buckets : q \notin DOMAIN buckets' => q \in pruneIfNeeded(p)
         /\ \A q \in pruneIfNeeded(p) : q # p /\ q \in DOMAIN buckets /\ Of(p).burst <= buckets[q].tokens
<1>1. \A q \in pruneIfNeeded(p) : q # p /\ q \in DOMAIN buckets /\ Of(p).burst <= buckets[q].tokens
  <2> SUFFICES ASSUME NEW q \in pruneIfNeeded(p)
               PROVE  q # p /\ q \in DOMAIN buckets /\ Of(p).burst <= buckets[q].tokens
    OBVIOUS
  <2>1. p \notin DOMAIN buckets /\ q \in DOMAIN buckets /\ buckets[q].tokens >= Of(p).burst
    BY DEF pruneIfNeeded, Prunable
  <2>2. buckets[q].tokens \in Nat /\ Of(p).burst \in Nat
    BY <2>1, OfFacts DEF RateType
  <2> QED BY <2>1, <2>2
<1> DEFINE kept == (DOMAIN buckets \ pruneIfNeeded(p)) \cup {p}
<1>2. buckets' = [q \in kept |-> IF q = p THEN [tokens |-> tokens, at |-> now] ELSE buckets[q]]
  BY DEF Store
<1> QED BY <1>1, <1>2

(* What a call does.                                                       *)
Called(p) ==
  \/ /\ Cost <= refill(p) /\ Store(p, refill(p) - Cost)
     /\ Watched(p) /\ promise' = [promise EXCEPT ![p] = NoPromise]
  \/ /\ refill(p) < Cost /\ Store(p, refill(p))
     /\ SeesPruned(p) /\ promise' = [promise EXCEPT ![p] = now + RetryAfter(p)]

LEMMA CallFacts ==
  ASSUME RateType, NEW p \in Pairs, checkVelocity(p)
  PROVE  /\ Called(p) /\ UNCHANGED <<limit, time, setBack>>
         /\ refill(p) \in Nat /\ refill(p) < Cost => RetryAfter(p) \in Nat /\ Cost <= refill(p) + RetryAfter(p) * Of(p).rate
<1>1. refill(p) \in Nat /\ Cost \in Nat /\ Of(p).rate \in Nat \ {0}
  BY RefillFacts, OfFacts
<1>2. Called(p) /\ UNCHANGED <<limit, time, setBack>>
  <2>1. Holds(p) <=> Cost <= refill(p)
    BY <1>1 DEF Holds
  <2>2. ~(Cost <= refill(p)) <=> refill(p) < Cost
    BY <1>1
  <2> QED BY <2>1, <2>2 DEF checkVelocity, Spent, Limited, Called
<1>3. ASSUME refill(p) < Cost
      PROVE  RetryAfter(p) \in Nat /\ Cost <= refill(p) + RetryAfter(p) * Of(p).rate
  <2>1. PICK a \in Nat : a = Cost - refill(p)
    BY <1>1, <1>3
  <2>2. PICK r \in Nat \ {0} : r = Of(p).rate
    BY <1>1
  <2>3. (a + r - 1) \div r \in Nat /\ a <= ((a + r - 1) \div r) * r
    BY Ceiling
  <2>4. RetryAfter(p) = (a + r - 1) \div r
    BY <2>1, <2>2 DEF RetryAfter
  <2>5. RetryAfter(p) \in Nat /\ a <= RetryAfter(p) * r
    BY <2>3, <2>4
  <2>6. RetryAfter(p) * r \in Nat
    BY <2>2, <2>5
  <2>7. Cost <= refill(p) + RetryAfter(p) * r
    BY <1>1, <2>1, <2>5, <2>6
  <2> QED BY <2>2, <2>5, <2>7
<1> QED BY <1>1, <1>2, <1>3

(* What the observer makes of what it counts.                              *)
LEMMA WatchFacts ==
  ASSUME RateType, NEW w
  PROVE  /\ Unwatched \in Watches /\ Unwatched.pair = NoPair
         /\ \A p \in Pairs : w = [Unwatched EXCEPT !.pair = p, !.calls = 1] =>
              w \in Watches /\ w.pair = p /\ w.calls = 1 /\ w.ticks = 0 /\ w.restarts = 0 /\ w.pruned = 0
         /\ w = [watch EXCEPT !.calls = @ + 1] =>
              /\ w \in Watches /\ w.pair = watch.pair /\ w.calls = watch.calls + 1
              /\ w.ticks = watch.ticks /\ w.restarts = watch.restarts /\ w.pruned = watch.pruned
         /\ w = [watch EXCEPT !.ticks = @ + 1] =>
              /\ w \in Watches /\ w.pair = watch.pair /\ w.calls = watch.calls
              /\ w.ticks = watch.ticks + 1 /\ w.restarts = watch.restarts /\ w.pruned = watch.pruned
         /\ w = [watch EXCEPT !.restarts = @ + 1] =>
              /\ w \in Watches /\ w.pair = watch.pair /\ w.calls = watch.calls
              /\ w.ticks = watch.ticks /\ w.restarts = watch.restarts + 1 /\ w.pruned = watch.pruned
         /\ w = [watch EXCEPT !.pruned = @ + 1] =>
              /\ w \in Watches /\ w.pair = watch.pair /\ w.calls = watch.calls
              /\ w.ticks = watch.ticks /\ w.restarts = watch.restarts /\ w.pruned = watch.pruned + 1
<1>1. Unwatched \in Watches /\ Unwatched.pair = NoPair
  BY DEF Watches, Unwatched
<1>2. ASSUME NEW p \in Pairs, w = [Unwatched EXCEPT !.pair = p, !.calls = 1]
      PROVE  w \in Watches /\ w.pair = p /\ w.calls = 1 /\ w.ticks = 0 /\ w.restarts = 0 /\ w.pruned = 0
  <2>1. w \in Watches
    BY <1>2 DEF Watches, Unwatched
  <2>2. w.pair = p
    BY <1>2 DEF Unwatched
  <2>3. w.calls = 1 /\ w.ticks = 0 /\ w.restarts = 0 /\ w.pruned = 0
    BY <1>2 DEF Unwatched
  <2> QED BY <2>1, <2>2, <2>3
<1>3. watch \in Watches
  BY DEF RateType
<1>4. w = [watch EXCEPT !.calls = @ + 1] =>
        /\ w \in Watches /\ w.pair = watch.pair /\ w.calls = watch.calls + 1
        /\ w.ticks = watch.ticks /\ w.restarts = watch.restarts /\ w.pruned = watch.pruned
  BY <1>3 DEF Watches
<1>5. w = [watch EXCEPT !.ticks = @ + 1] =>
        /\ w \in Watches /\ w.pair = watch.pair /\ w.calls = watch.calls
        /\ w.ticks = watch.ticks + 1 /\ w.restarts = watch.restarts /\ w.pruned = watch.pruned
  BY <1>3 DEF Watches
<1>6. w = [watch EXCEPT !.restarts = @ + 1] =>
        /\ w \in Watches /\ w.pair = watch.pair /\ w.calls = watch.calls
        /\ w.ticks = watch.ticks /\ w.restarts = watch.restarts + 1 /\ w.pruned = watch.pruned
  BY <1>3 DEF Watches
<1>7. w = [watch EXCEPT !.pruned = @ + 1] =>
        /\ w \in Watches /\ w.pair = watch.pair /\ w.calls = watch.calls
        /\ w.ticks = watch.ticks /\ w.restarts = watch.restarts /\ w.pruned = watch.pruned + 1
  BY <1>3 DEF Watches
<1> QED BY <1>1, <1>2, <1>4, <1>5, <1>6, <1>7

LEMMA ObserveFacts ==
  ASSUME RateType, watch.pair \in Pairs, NEW what \in {"ticks", "restarts", "pruned"}, Observe(what)
  PROVE  watch' = [watch EXCEPT ![what] = @ + 1]
BY VelocityAssumption DEF Observe

LEMMA WatchType ==
  ASSUME RateType
  PROVE  /\ \A what \in {"ticks", "restarts", "pruned"} : Observe(what) => watch' \in Watches
         /\ \A p \in Pairs : Watched(p) \/ SeesPruned(p) => watch' \in Watches
<1>1. watch \in Watches
  BY DEF RateType
<1>2. \A what \in {"ticks", "restarts", "pruned"} : Observe(what) => watch' \in Watches
  <2> SUFFICES ASSUME NEW what \in {"ticks", "restarts", "pruned"}, Observe(what) PROVE watch' \in Watches
    OBVIOUS
  <2>1. watch' = watch \/ watch' = [watch EXCEPT ![what] = @ + 1]
    BY DEF Observe
  <2> QED BY <1>1, <2>1, WatchFacts
<1>3. \A p \in Pairs : SeesPruned(p) => watch' \in Watches
  BY <1>1, <1>2 DEF SeesPruned
<1>4. \A p \in Pairs : Watched(p) => watch' \in Watches
  BY <1>3, WatchFacts DEF Watched
<1> QED BY <1>2, <1>3, <1>4

LEMMA RateTypeStep ==
  ASSUME RateType, [VelocityNext]_velocityVars
  PROVE  RateType'
<1>1. CASE UNCHANGED velocityVars
  BY <1>1 DEF velocityVars, RateType
<1>2. ASSUME NEW p \in Pairs, checkVelocity(p) PROVE RateType'
  <2>1. /\ Called(p) /\ UNCHANGED <<limit, time, setBack>>
        /\ refill(p) \in Nat /\ refill(p) < Cost => RetryAfter(p) \in Nat
    BY <1>2, CallFacts
  <2>2. Cost \in Nat /\ now \in Nat
    BY OfFacts
  <2>3. \E tokens \in Nat : Store(p, tokens)
    <3>1. refill(p) \in Nat
      BY RefillFacts
    <3>2. CASE Cost <= refill(p) /\ Store(p, refill(p) - Cost)
      <4>1. refill(p) - Cost \in Nat
        BY <2>2, <3>1, <3>2
      <4> QED BY <3>2, <4>1
    <3> QED BY <2>1, <3>1, <3>2 DEF Called
  <2>4. PICK tokens \in Nat : Store(p, tokens)
    BY <2>3
  <2>5. /\ DOMAIN buckets' \subseteq DOMAIN buckets \cup {p} /\ buckets'[p] = [tokens |-> tokens, at |-> now]
        /\ \A q \in DOMAIN buckets' : q # p => buckets'[q] = buckets[q]
    BY <2>4, Stored
  <2>6. promise' \in [Pairs -> Int]
    <3>1. refill(p) \in Nat
      BY RefillFacts
    <3>2. promise' = [promise EXCEPT ![p] = NoPromise] \/ \E t \in Int : promise' = [promise EXCEPT ![p] = t]
      BY <2>1, <2>2, <3>1 DEF Called
    <3> QED BY <3>2 DEF RateType, NoPromise
  <2>7. watch' \in Watches
    BY <2>1, WatchType DEF Called
  <2>8. \A q \in DOMAIN buckets' : buckets'[q] \in [tokens : Nat, at : Int]
    BY <2>2, <2>5 DEF RateType
  <2> QED BY <2>1, <2>5, <2>6, <2>7, <2>8 DEF RateType
<1>3. ASSUME NEW p \in Pairs, NEW v \in Velocities, Regrant(p, v) PROVE RateType'
  <2>1. watch' \in Watches
    BY <1>3, WatchFacts DEF Regrant, RateType
  <2> QED BY <1>3, <2>1 DEF Regrant, RateType, NoPromise
<1>4. CASE Restart
  <2>1. watch' \in Watches
    BY <1>4, WatchType DEF Restart
  <2>2. DOMAIN buckets' = {}
    BY <1>4 DEF Restart
  <2> QED BY <1>4, <2>1, <2>2 DEF Restart, RateType
<1>5. CASE Tick
  <2>1. watch' \in Watches
    BY <1>5, WatchType DEF Tick
  <2>2. MaxSetBack \in Nat
    BY VelocityAssumption
  <2> QED BY <1>5, <2>1, <2>2 DEF Tick, RateType
<1>6. CASE ClockBack
  <2>1. MaxSetBack \in Nat
    BY VelocityAssumption
  <2> QED BY <1>6, <2>1 DEF ClockBack, RateType
<1> QED BY <1>1, <1>2, <1>3, <1>4, <1>5, <1>6 DEF VelocityNext

(* A promise is of a time by which the bucket, as it is, has what it needs.*)
PromiseInv ==
  \A p \in DOMAIN buckets : promise[p] # NoPromise =>
    /\ buckets[p].at <= promise[p]
    /\ Cost <= buckets[p].tokens + (promise[p] - buckets[p].at) * Of(p).rate

LEMMA PromiseStep ==
  ASSUME RateType, PromiseInv, [VelocityNext]_velocityVars
  PROVE  PromiseInv'
<1>1. CASE UNCHANGED <<limit, buckets, promise>>
  BY <1>1 DEF PromiseInv, Of
<1>2. ASSUME NEW p \in Pairs, checkVelocity(p) PROVE PromiseInv'
  <2>1. /\ Called(p) /\ UNCHANGED <<limit, time, setBack>>
        /\ refill(p) \in Nat
        /\ refill(p) < Cost => RetryAfter(p) \in Nat /\ Cost <= refill(p) + RetryAfter(p) * Of(p).rate
    BY <1>2, CallFacts, RefillFacts
  <2>2. Cost \in Nat /\ now \in Nat
    BY OfFacts
  <2>3. promise \in [Pairs -> Int] /\ DOMAIN buckets \subseteq Pairs
    BY DEF RateType
  <2>4. CASE Cost <= refill(p) /\ Store(p, refill(p) - Cost) /\ promise' = [promise EXCEPT ![p] = NoPromise]
    <3>1. refill(p) - Cost \in Nat
      BY <2>1, <2>2, <2>4
    <3>2. /\ DOMAIN buckets' \subseteq DOMAIN buckets \cup {p}
          /\ \A q \in DOMAIN buckets' : q # p => buckets'[q] = buckets[q]
      BY <2>4, <3>1, Stored
    <3>3. promise'[p] = NoPromise /\ \A q \in DOMAIN buckets : q # p => promise'[q] = promise[q]
      BY <2>3, <2>4
    <3> QED BY <2>1, <3>2, <3>3 DEF PromiseInv, Of
  <2>5. CASE refill(p) < Cost /\ Store(p, refill(p)) /\ promise' = [promise EXCEPT ![p] = now + RetryAfter(p)]
    <3>2. /\ DOMAIN buckets' \subseteq DOMAIN buckets \cup {p} /\ buckets'[p] = [tokens |-> refill(p), at |-> now]
          /\ \A q \in DOMAIN buckets' : q # p => buckets'[q] = buckets[q]
      BY <2>1, <2>5, Stored
    <3>3. promise'[p] = now + RetryAfter(p) /\ \A q \in DOMAIN buckets : q # p => promise'[q] = promise[q]
      BY <2>3, <2>5
    <3>4. /\ buckets'[p].at <= promise'[p] /\ promise'[p] - buckets'[p].at = RetryAfter(p)
          /\ buckets'[p].tokens = refill(p)
      BY <2>1, <2>2, <2>5, <3>2, <3>3
    <3>5. Cost <= buckets'[p].tokens + (promise'[p] - buckets'[p].at) * Of(p).rate
      BY <2>1, <2>5, <3>4
    <3> QED BY <2>1, <3>2, <3>3, <3>4, <3>5 DEF PromiseInv, Of
  <2> QED BY <2>1, <2>4, <2>5 DEF Called
<1>3. ASSUME NEW p \in Pairs, NEW v \in Velocities, Regrant(p, v) PROVE PromiseInv'
  <2>1. /\ \A q \in DOMAIN buckets : q # p => limit'[q] = limit[q] /\ promise'[q] = promise[q]
        /\ promise'[p] = NoPromise /\ buckets' = buckets
    BY <1>3 DEF Regrant, RateType
  <2> QED BY <2>1 DEF PromiseInv, Of
<1>4. CASE Restart
  <2>1. DOMAIN buckets' = {}
    BY <1>4 DEF Restart
  <2> QED BY <2>1 DEF PromiseInv
<1>5. Tick \/ ClockBack \/ UNCHANGED velocityVars => UNCHANGED <<limit, buckets, promise>>
  BY DEF Tick, ClockBack, velocityVars
<1> QED BY <1>1, <1>2, <1>3, <1>4, <1>5 DEF VelocityNext

LEMMA PromiseKept ==
  ASSUME RateType, PromiseInv
  PROVE  RetryHonoured
<1> SUFFICES ASSUME NEW p \in Pairs, promise[p] # NoPromise, now >= promise[p] PROVE Holds(p)
  BY DEF RetryHonoured
<1>1. /\ Of(p).rate \in Nat /\ Of(p).burst \in Nat /\ Cost \in Nat /\ Cost <= Of(p).burst /\ now \in Nat
      /\ refill(p) \in Nat
  BY OfFacts, RefillFacts
<1>2. CASE p \notin DOMAIN buckets
  <2>1. refill(p) = Of(p).burst
    BY <1>2, RefillFacts
  <2> QED BY <1>1, <2>1 DEF Holds
<1>3. CASE p \in DOMAIN buckets
  <2>1. promise[p] \in Int /\ buckets[p].at \in Int /\ buckets[p].tokens \in Nat
    BY <1>3 DEF RateType
  <2>2. PICK c \in Nat : c = promise[p] - buckets[p].at
    BY <1>3, <2>1 DEF PromiseInv
  <2>3. PICK d \in Int : d = now - buckets[p].at
    BY <1>1, <2>1
  <2>4. c <= d /\ Cost <= buckets[p].tokens + c * Of(p).rate
    BY <1>1, <1>3, <2>1, <2>2, <2>3 DEF PromiseInv
  <2>5. Cost <= Filled(Of(p).burst, Of(p).rate, buckets[p].tokens, d)
    BY <1>1, <2>1, <2>4, FilledWhenTold
  <2>6. Cost <= refill(p)
    BY <1>3, <2>3, <2>5, RefillFacts
  <2> QED BY <1>1, <2>6 DEF Holds
<1> QED BY <1>2, <1>3

-----------------------------------------------------------------------------
(* Rates: the observer's count *)

Bound(b, r, s, t, n, k) == b + r * t + b * n + (b - s) * k

LEMMA BoundFacts ==
  ASSUME NEW b \in Nat, NEW r \in Nat, NEW s \in Nat, s <= b, NEW t \in Nat, NEW n \in Nat, NEW k \in Nat
  PROVE  Bound(b, r, s, t, n, k) \in Nat /\ Bound(b, r, s, 0, 0, 0) = b
<1>1. PICK d \in Nat : d = b - s
  OBVIOUS
<1>2. r * t \in Nat /\ b * n \in Nat /\ d * k \in Nat
  BY Times
<1>3. r * 0 = 0 /\ b * 0 = 0 /\ d * 0 = 0
  BY Times
<1> QED BY <1>1, <1>2, <1>3 DEF Bound

Allowance ==
  Bound(Of(watch.pair).burst, Of(watch.pair).rate, SmallestBurst, watch.ticks, watch.restarts, watch.pruned)

(* What was let through and what is left keep within what there was to be. *)
RateInv == watch.pair \in Pairs => watch.calls * Cost + refill(watch.pair) <= Allowance

LEMMA RateHolds ==
  ASSUME RateType, RateInv
  PROVE  WithinRate
<1> SUFFICES ASSUME watch.pair \in Pairs
             PROVE  watch.calls * Cost <= Allowance
  BY DEF WithinRate, Allowance, Bound
<1>1. Cost \in Nat /\ refill(watch.pair) \in Nat /\ watch.calls \in Nat
  BY OfFacts, RefillFacts DEF RateType, Watches
<1>2. PICK x \in Nat : x = watch.calls * Cost
  BY <1>1, Times
<1>3. Allowance \in Nat
  <2>1. /\ Of(watch.pair).rate \in Nat /\ Of(watch.pair).burst \in Nat
        /\ SmallestBurst \in Nat /\ SmallestBurst <= Of(watch.pair).burst
    BY OfFacts
  <2>2. watch.ticks \in Nat /\ watch.restarts \in Nat /\ watch.pruned \in Nat
    BY DEF RateType, Watches
  <2> QED BY <2>1, <2>2, BoundFacts DEF Allowance
<1> QED BY <1>1, <1>2, <1>3 DEF RateInv

(* What a call leaves to the pair it is of, and to another pair.           *)
LEMMA RefillAfterCall ==
  ASSUME RateType, RateType', NEW p \in Pairs, UNCHANGED <<limit, time, setBack>>,
         NEW tokens \in Nat, tokens <= Of(p).burst, Store(p, tokens)
  PROVE  /\ \A q \in Pairs : Of(q)' = Of(q)
         /\ refill(p)' = tokens
         /\ \A q \in Pairs : q # p /\ q \notin pruneIfNeeded(p) => refill(q)' = refill(q)
         /\ \A q \in Pairs : q \in pruneIfNeeded(p) =>
              q # p /\ refill(q)' = Of(q).burst /\ SmallestBurst <= refill(q)
<1>1. /\ p \in DOMAIN buckets' /\ buckets'[p] = [tokens |-> tokens, at |-> now]
      /\ DOMAIN buckets' \subseteq DOMAIN buckets \cup {p}
      /\ \A q \in DOMAIN buckets' : q # p => buckets'[q] = buckets[q]
      /\ \A q \in DOMAIN buckets : q \notin DOMAIN buckets' => q \in pruneIfNeeded(p)
      /\ \A q \in pruneIfNeeded(p) : q # p /\ q \in DOMAIN buckets /\ Of(p).burst <= buckets[q].tokens
  BY Stored
<1>2. \A q \in pruneIfNeeded(p) : q \notin DOMAIN buckets'
  BY <1>1 DEF Store
<1>3. (\A q \in Pairs : Of(q)' = Of(q)) /\ now' = now
  BY DEF Of, now
<1>4. refill(p)' = tokens
  <2>1. /\ Of(p).burst \in Nat /\ Of(p).rate \in Nat /\ now \in Nat
    BY OfFacts
  <2>2. refill(p)' = Filled(Of(p).burst, Of(p).rate, tokens, now - now)
    BY <1>1, <1>3 DEF refill, Filled
  <2>3. now - now = 0
    BY <2>1
  <2>4. refill(p)' = Filled(Of(p).burst, Of(p).rate, tokens, 0)
    BY <2>2, <2>3
  <2> QED BY <2>1, <2>4, FilledAtOnce
<1>5. ASSUME NEW q \in Pairs, q # p, q \notin pruneIfNeeded(p) PROVE refill(q)' = refill(q)
  <2>1. q \in DOMAIN buckets <=> q \in DOMAIN buckets'
    BY <1>1, <1>5
  <2>2. q \in DOMAIN buckets => buckets'[q] = buckets[q]
    BY <1>1, <1>5, <2>1
  <2> QED BY <1>3, <2>1, <2>2 DEF refill
<1>6. ASSUME NEW q \in Pairs, q \in pruneIfNeeded(p)
      PROVE  q # p /\ refill(q)' = Of(q).burst /\ SmallestBurst <= refill(q)
  <2>1. q # p /\ q \in DOMAIN buckets /\ Of(p).burst <= buckets[q].tokens /\ q \notin DOMAIN buckets'
    BY <1>1, <1>2, <1>6
  <2>2. refill(q)' = Of(q).burst
    BY <1>3, <2>1 DEF refill
  <2>3. /\ Of(q).burst \in Nat /\ Of(q).rate \in Nat /\ SmallestBurst \in Nat /\ now - buckets[q].at \in Int
        /\ SmallestBurst <= Of(q).burst /\ SmallestBurst <= Of(p).burst /\ Of(p).burst \in Nat
        /\ buckets[q].tokens \in Nat
    BY <2>1, OfFacts DEF RateType
  <2>4. /\ buckets[q].tokens <= Of(q).burst => buckets[q].tokens <= refill(q)
        /\ Of(q).burst <= buckets[q].tokens => refill(q) = Of(q).burst
    BY <2>1, RefillFacts
  <2>5. SmallestBurst <= refill(q)
    <3>1. refill(q) \in Nat
      BY RefillFacts
    <3> QED BY <2>1, <2>3, <2>4, <3>1
  <2> QED BY <2>1, <2>2, <2>5
<1> QED BY <1>3, <1>4, <1>5, <1>6

(* The numbers that the invariant is about.                                *)
LEMMA RateNumbers ==
  ASSUME RateType, watch.pair \in Pairs
  PROVE  /\ Of(watch.pair).burst \in Nat /\ Of(watch.pair).rate \in Nat /\ Cost \in Nat /\ Cost <= Of(watch.pair).burst
         /\ SmallestBurst \in Nat /\ SmallestBurst <= Of(watch.pair).burst
         /\ refill(watch.pair) \in Nat /\ refill(watch.pair) <= Of(watch.pair).burst
         /\ watch.calls \in Nat /\ watch.ticks \in Nat /\ watch.restarts \in Nat /\ watch.pruned \in Nat
         /\ watch.calls * Cost \in Nat /\ (watch.calls + 1) * Cost = watch.calls * Cost + Cost
         /\ Allowance \in Nat
<1>1. /\ Of(watch.pair).burst \in Nat /\ Of(watch.pair).rate \in Nat /\ Cost \in Nat /\ Cost <= Of(watch.pair).burst
      /\ SmallestBurst \in Nat /\ SmallestBurst <= Of(watch.pair).burst
      /\ refill(watch.pair) \in Nat /\ refill(watch.pair) <= Of(watch.pair).burst
  BY OfFacts, RefillFacts
<1>2. watch.calls \in Nat /\ watch.ticks \in Nat /\ watch.restarts \in Nat /\ watch.pruned \in Nat
  BY DEF RateType, Watches
<1>3. watch.calls * Cost \in Nat /\ (watch.calls + 1) * Cost = watch.calls * Cost + Cost
  BY <1>1, <1>2
<1>4. Allowance \in Nat
  BY <1>1, <1>2, BoundFacts DEF Allowance
<1> QED BY <1>1, <1>2, <1>3, <1>4

LEMMA AllowanceGrows ==
  ASSUME RateType, watch.pair \in Pairs, watch'.pair = watch.pair, Of(watch.pair)' = Of(watch.pair)
  PROVE  /\ watch'.ticks = watch.ticks + 1 /\ watch'.restarts = watch.restarts /\ watch'.pruned = watch.pruned =>
              Allowance' = Allowance + Of(watch.pair).rate
         /\ watch'.ticks = watch.ticks /\ watch'.restarts = watch.restarts + 1 /\ watch'.pruned = watch.pruned =>
              Allowance' = Allowance + Of(watch.pair).burst
         /\ watch'.ticks = watch.ticks /\ watch'.restarts = watch.restarts /\ watch'.pruned = watch.pruned + 1 =>
              Allowance' = Allowance + (Of(watch.pair).burst - SmallestBurst)
<1>1. SmallestBurst' = SmallestBurst
  BY DEF SmallestBurst
<1>2. Allowance' = Bound(Of(watch.pair).burst, Of(watch.pair).rate, SmallestBurst, watch'.ticks, watch'.restarts, watch'.pruned)
  BY <1>1 DEF Allowance
<1>3. PICK b \in Nat, r \in Nat, s \in Nat, t \in Nat, n \in Nat, k \in Nat :
        /\ b = Of(watch.pair).burst /\ r = Of(watch.pair).rate /\ s = SmallestBurst /\ s <= b
        /\ t = watch.ticks /\ n = watch.restarts /\ k = watch.pruned
  BY RateNumbers
<1>4. PICK d \in Nat : d = b - s
  BY <1>3
<1>5. /\ r * t \in Nat /\ r * (t + 1) = r * t + r
      /\ b * n \in Nat /\ b * (n + 1) = b * n + b
      /\ d * k \in Nat /\ d * (k + 1) = d * k + d
  BY <1>3, <1>4, Times
<1>6. PICK x \in Nat, y \in Nat, z \in Nat : x = r * t /\ y = b * n /\ z = d * k
  BY <1>5
<1>7. Allowance = b + x + y + z
  BY <1>3, <1>4, <1>6 DEF Allowance, Bound
<1>8. Bound(b, r, s, t + 1, n, k) = b + (x + r) + y + z
  BY <1>4, <1>5, <1>6 DEF Bound
<1>9. Bound(b, r, s, t, n + 1, k) = b + x + (y + b) + z
  BY <1>4, <1>5, <1>6 DEF Bound
<1>10. Bound(b, r, s, t, n, k + 1) = b + x + y + (z + d)
  BY <1>4, <1>5, <1>6 DEF Bound
<1> QED BY <1>2, <1>3, <1>4, <1>6, <1>7, <1>8, <1>9, <1>10

LEMMA RateOthersCall ==
  ASSUME RateType, RateType', RateInv, NEW p \in Pairs, UNCHANGED <<limit, time, setBack>>,
         NEW tokens \in Nat, tokens <= Of(p).burst, Store(p, tokens), SeesPruned(p),
         watch.pair = p => tokens = refill(p)
  PROVE  RateInv'
<1> SUFFICES ASSUME watch'.pair \in Pairs PROVE RateInv'
  BY DEF RateInv
<1> DEFINE q == watch.pair
<1>1. /\ \A o \in Pairs : Of(o)' = Of(o)
      /\ refill(p)' = tokens
      /\ \A o \in Pairs : o # p /\ o \notin pruneIfNeeded(p) => refill(o)' = refill(o)
      /\ \A o \in Pairs : o \in pruneIfNeeded(p) =>
           o # p /\ refill(o)' = Of(o).burst /\ SmallestBurst <= refill(o)
  BY RefillAfterCall
<1>2. watch'.pair = q /\ q \in Pairs
  <2>1. watch' = watch \/ watch' = [watch EXCEPT !.pruned = @ + 1]
    BY DEF SeesPruned, Observe
  <2> QED BY <2>1, WatchFacts
<1>3. SmallestBurst' = SmallestBurst /\ Of(q)' = Of(q)
  BY <1>1, <1>2 DEF SmallestBurst
<1>4. CASE q \notin pruneIfNeeded(p)
  <2>1. watch' = watch
    BY <1>4 DEF SeesPruned
  <2>2. refill(q)' = refill(q)
    BY <1>1, <1>2, <1>4
  <2>3. Allowance' = Allowance
    BY <1>3, <2>1 DEF Allowance
  <2> QED BY <1>2, <2>1, <2>2, <2>3 DEF RateInv
<1>5. CASE q \in pruneIfNeeded(p)
  <2>1. watch' = [watch EXCEPT !.pruned = @ + 1]
    BY <1>2, <1>5, ObserveFacts DEF SeesPruned
  <2>2. /\ watch'.pair = q /\ watch'.calls = watch.calls /\ watch'.ticks = watch.ticks
        /\ watch'.restarts = watch.restarts /\ watch'.pruned = watch.pruned + 1
    BY <2>1, WatchFacts
  <2>3. Allowance' = Allowance + (Of(q).burst - SmallestBurst)
    BY <1>2, <1>3, <2>2, AllowanceGrows
  <2>4. refill(q)' = Of(q).burst /\ SmallestBurst <= refill(q)
    BY <1>1, <1>2, <1>5
  <2>5. watch.calls * Cost + refill(q) <= Allowance
    BY <1>2 DEF RateInv
  <2>6. watch.calls * Cost + refill(q)' <= Allowance'
    <3>1. PICK x \in Nat : x = watch.calls * Cost
      BY <1>2, RateNumbers
    <3> QED BY <1>2, <2>3, <2>4, <2>5, <3>1, RateNumbers
  <2> QED BY <2>2, <2>6 DEF RateInv
<1> QED BY <1>4, <1>5

LEMMA RateOwnCall ==
  ASSUME RateType, RateType', RateInv, NEW p \in Pairs, UNCHANGED <<limit, time, setBack>>,
         Cost <= refill(p), Store(p, refill(p) - Cost),
         \/ watch' = [Unwatched EXCEPT !.pair = p, !.calls = 1]
         \/ watch.pair = p /\ watch' = [watch EXCEPT !.calls = @ + 1]
  PROVE  RateInv'
<1>1. /\ refill(p) \in Nat /\ refill(p) <= Of(p).burst /\ Of(p).burst \in Nat /\ Of(p).rate \in Nat /\ Cost \in Nat
      /\ SmallestBurst \in Nat /\ SmallestBurst <= Of(p).burst
  BY OfFacts, RefillFacts
<1>2. refill(p) - Cost \in Nat /\ refill(p) - Cost <= Of(p).burst
  BY <1>1
<1>3. Of(p)' = Of(p) /\ refill(p)' = refill(p) - Cost
  BY <1>2, RefillAfterCall
<1>4. SmallestBurst' = SmallestBurst
  BY DEF SmallestBurst
<1>5. CASE watch' = [Unwatched EXCEPT !.pair = p, !.calls = 1]
  <2>1. watch'.pair = p /\ watch'.calls = 1 /\ watch'.ticks = 0 /\ watch'.restarts = 0 /\ watch'.pruned = 0
    BY <1>5, WatchFacts
  <2>2. Allowance' = Bound(Of(p).burst, Of(p).rate, SmallestBurst, 0, 0, 0)
    BY <1>3, <1>4, <2>1 DEF Allowance
  <2>3. Bound(Of(p).burst, Of(p).rate, SmallestBurst, 0, 0, 0) = Of(p).burst
    BY <1>1, BoundFacts
  <2>4. 1 * Cost + (refill(p) - Cost) <= Of(p).burst
    BY <1>1
  <2> QED BY <1>3, <2>1, <2>2, <2>3, <2>4 DEF RateInv
<1>6. CASE watch.pair = p /\ watch' = [watch EXCEPT !.calls = @ + 1]
  <2>1. /\ watch'.pair = p /\ watch'.calls = watch.calls + 1 /\ watch'.ticks = watch.ticks
        /\ watch'.restarts = watch.restarts /\ watch'.pruned = watch.pruned
    BY <1>6, WatchFacts
  <2>2. Allowance' = Allowance
    BY <1>3, <1>4, <1>6, <2>1 DEF Allowance
  <2>3. watch.calls * Cost \in Nat /\ (watch.calls + 1) * Cost = watch.calls * Cost + Cost
    BY <1>6, RateNumbers
  <2>4. PICK x \in Nat : x = watch.calls * Cost
    BY <2>3
  <2>5. x + refill(p) <= Allowance
    BY <1>6, <2>4 DEF RateInv
  <2>6. x + Cost + (refill(p) - Cost) <= Allowance
    BY <1>1, <2>5
  <2> QED BY <1>3, <2>1, <2>2, <2>3, <2>4, <2>6 DEF RateInv
<1> QED BY <1>5, <1>6

(* As time passes the bucket gains what the interval adds, at most.        *)
LEMMA RefillAsTimePasses ==
  ASSUME RateType, RateType', NEW p \in Pairs, UNCHANGED <<limit, buckets>>
  PROVE  /\ refill(p)' \in Nat
         /\ now' = now + 1 => refill(p)' <= refill(p) + Of(p).rate
         /\ now' = now - 1 => refill(p)' <= refill(p)
<1>1. Of(p)' = Of(p) /\ Of(p).burst \in Nat /\ Of(p).rate \in Nat /\ now \in Int /\ now' \in Int
  <2>1. now' \in Int
    BY DEF RateType, now
  <2> QED BY <2>1, OfFacts DEF Of
<1>2. CASE p \notin DOMAIN buckets
  <2>1. refill(p) = Of(p).burst /\ refill(p)' = Of(p).burst
    BY <1>1, <1>2 DEF refill
  <2> QED BY <1>1, <2>1
<1>3. CASE p \in DOMAIN buckets
  <2>1. buckets[p].at \in Int /\ buckets[p].tokens \in Nat
    BY <1>3 DEF RateType
  <2>2. PICK b \in Nat, r \in Nat, k \in Nat, d \in Int, l \in Int :
          /\ b = Of(p).burst /\ r = Of(p).rate /\ k = buckets[p].tokens
          /\ d = now - buckets[p].at /\ l = now' - buckets[p].at
    BY <1>1, <2>1
  <2>3. /\ l = d + 1 => Filled(b, r, k, l) <= Filled(b, r, k, d) + r
        /\ l = d - 1 => Filled(b, r, k, l) <= Filled(b, r, k, d)
    BY FilledLater
  <2>4. refill(p) = Filled(b, r, k, d) /\ refill(p)' = Filled(b, r, k, l)
    BY <1>1, <1>3, <2>2 DEF refill, Filled
  <2>5. (now' = now + 1 => l = d + 1) /\ (now' = now - 1 => l = d - 1)
    BY <1>1, <2>1, <2>2
  <2>6. Filled(b, r, k, l) \in Nat
    BY FilledFacts
  <2> QED BY <2>2, <2>3, <2>4, <2>5, <2>6
<1> QED BY <1>2, <1>3

LEMMA RateTick ==
  ASSUME RateType, RateType', RateInv, Tick \/ ClockBack
  PROVE  RateInv'
<1>1. UNCHANGED <<limit, buckets>> /\ SmallestBurst' = SmallestBurst /\ \A p \in Pairs : Of(p)' = Of(p)
  BY DEF Tick, ClockBack, Of, SmallestBurst
<1> SUFFICES ASSUME watch'.pair \in Pairs PROVE RateInv'
  BY DEF RateInv
<1>2. CASE ClockBack
  <2>1. watch' = watch /\ now' = now - 1
    BY <1>2 DEF ClockBack, RateType, now
  <2>2. watch.pair \in Pairs /\ refill(watch.pair)' <= refill(watch.pair)
    BY <1>1, <2>1, RefillAsTimePasses
  <2>3. Allowance' = Allowance
    BY <1>1, <2>1, <2>2 DEF Allowance
  <2>4. refill(watch.pair)' \in Nat
    BY <1>1, <2>2, RefillAsTimePasses
  <2>5. watch.calls * Cost + refill(watch.pair)' <= Allowance
    <3>1. watch.calls * Cost \in Nat /\ refill(watch.pair) \in Nat /\ Allowance \in Nat
      BY <2>2, RateNumbers
    <3>2. watch.calls * Cost + refill(watch.pair) <= Allowance
      BY <2>2 DEF RateInv
    <3> QED BY <2>2, <2>4, <3>1, <3>2
  <2> QED BY <2>1, <2>3, <2>5 DEF RateInv
<1>3. CASE Tick
  <2>1. now' = now + 1 /\ watch.pair \in Pairs /\ watch' = [watch EXCEPT !.ticks = @ + 1]
    <3>1. Observe("ticks") /\ now' = now + 1
      BY <1>3 DEF Tick, RateType, now
    <3>2. watch.pair \in Pairs
      <4>1. watch' = watch \/ watch' = [watch EXCEPT !.ticks = @ + 1]
        BY <3>1 DEF Observe
      <4> QED BY <4>1, WatchFacts
    <3> QED BY <3>1, <3>2, ObserveFacts
  <2>2. /\ watch'.pair = watch.pair /\ watch'.calls = watch.calls /\ watch'.ticks = watch.ticks + 1
        /\ watch'.restarts = watch.restarts /\ watch'.pruned = watch.pruned
    BY <2>1, WatchFacts
  <2>3. refill(watch.pair)' <= refill(watch.pair) + Of(watch.pair).rate
    BY <1>1, <2>1, RefillAsTimePasses
  <2>4. Allowance' = Allowance + Of(watch.pair).rate
    BY <1>1, <2>1, <2>2, AllowanceGrows
  <2>5. refill(watch.pair)' \in Nat
    BY <1>1, <2>1, RefillAsTimePasses
  <2>6. watch.calls * Cost + refill(watch.pair)' <= Allowance'
    <3>1. /\ watch.calls * Cost \in Nat /\ refill(watch.pair) \in Nat /\ Allowance \in Nat
          /\ Of(watch.pair).rate \in Nat
      BY <2>1, RateNumbers
    <3>2. watch.calls * Cost + refill(watch.pair) <= Allowance
      BY <2>1 DEF RateInv
    <3> QED BY <2>3, <2>4, <2>5, <3>1, <3>2
  <2> QED BY <2>2, <2>6 DEF RateInv
<1> QED BY <1>2, <1>3

LEMMA RateRestart ==
  ASSUME RateType, RateType', RateInv, Restart
  PROVE  RateInv'
<1>1. UNCHANGED limit /\ DOMAIN buckets' = {} /\ Observe("restarts")
  BY DEF Restart
<1> SUFFICES ASSUME watch'.pair \in Pairs PROVE RateInv'
  BY DEF RateInv
<1>2. watch.pair \in Pairs /\ watch' = [watch EXCEPT !.restarts = @ + 1]
  <2>1. watch' = watch \/ watch' = [watch EXCEPT !.restarts = @ + 1]
    BY <1>1 DEF Observe
  <2>2. watch.pair \in Pairs
    BY <2>1, WatchFacts
  <2> QED BY <1>1, <2>2, ObserveFacts
<1>3. /\ watch'.pair = watch.pair /\ watch'.calls = watch.calls /\ watch'.ticks = watch.ticks
      /\ watch'.restarts = watch.restarts + 1 /\ watch'.pruned = watch.pruned
  BY <1>2, WatchFacts
<1>4. Of(watch.pair)' = Of(watch.pair) /\ refill(watch.pair)' = Of(watch.pair).burst
  BY <1>1, <1>3 DEF Of, refill
<1>5. Allowance' = Allowance + Of(watch.pair).burst
  BY <1>2, <1>3, <1>4, AllowanceGrows
<1>6. watch.calls * Cost + Of(watch.pair).burst <= Allowance'
  <2>1. /\ watch.calls * Cost \in Nat /\ refill(watch.pair) \in Nat /\ Allowance \in Nat
        /\ Of(watch.pair).burst \in Nat
    BY <1>2, RateNumbers
  <2>2. watch.calls * Cost + refill(watch.pair) <= Allowance
    BY <1>2 DEF RateInv
  <2> QED BY <1>5, <2>1, <2>2
<1> QED BY <1>3, <1>4, <1>6 DEF RateInv

LEMMA RateRegrant ==
  ASSUME RateType, RateInv, NEW p \in Pairs, NEW v \in Velocities, Regrant(p, v)
  PROVE  RateInv'
<1>1. UNCHANGED <<buckets, time, setBack>> /\ \A q \in Pairs : q # p => limit'[q] = limit[q]
  BY DEF Regrant, RateType
<1>2. CASE watch.pair = p
  <2>1. watch'.pair = NoPair
    BY <1>2, WatchFacts DEF Regrant
  <2> QED BY <2>1, VelocityAssumption DEF RateInv
<1>3. CASE watch.pair # p
  <2>1. watch' = watch
    BY <1>3 DEF Regrant
  <2>2. watch.pair \in Pairs => Of(watch.pair)' = Of(watch.pair)
    BY <1>1, <1>3, <2>1 DEF Of
  <2>3. watch.pair \in Pairs => refill(watch.pair)' = refill(watch.pair)
    BY <1>1, <2>1, <2>2 DEF refill, now
  <2>4. watch.pair \in Pairs => Allowance' = Allowance
    BY <2>1, <2>2 DEF Allowance, SmallestBurst
  <2> QED BY <2>1, <2>3, <2>4 DEF RateInv
<1> QED BY <1>2, <1>3

LEMMA RateStep ==
  ASSUME RateType, RateInv, [VelocityNext]_velocityVars
  PROVE  RateInv'
<1>1. RateType'
  BY RateTypeStep
<1>2. CASE UNCHANGED velocityVars
  BY <1>2 DEF velocityVars, RateInv, Allowance, Of, refill, now, SmallestBurst
<1>3. ASSUME NEW p \in Pairs, checkVelocity(p) PROVE RateInv'
  <2>1. Called(p) /\ UNCHANGED <<limit, time, setBack>>
    BY <1>3, CallFacts
  <2>2. refill(p) \in Nat /\ refill(p) <= Of(p).burst /\ Of(p).burst \in Nat /\ Cost \in Nat
    BY OfFacts, RefillFacts
  <2>3. CASE /\ Cost <= refill(p) /\ Store(p, refill(p) - Cost)
             /\ Watched(p)
    <3>1. refill(p) - Cost \in Nat /\ refill(p) - Cost <= Of(p).burst
      BY <2>2, <2>3
    <3>2. CASE watch.pair # p /\ SeesPruned(p)
      BY <1>1, <2>1, <2>3, <3>1, <3>2, RateOthersCall
    <3>3. CASE \/ watch' = [Unwatched EXCEPT !.pair = p, !.calls = 1]
               \/ watch.pair = p /\ watch' = [watch EXCEPT !.calls = @ + 1]
      BY <1>1, <2>1, <2>3, <3>3, RateOwnCall
    <3> QED BY <2>3, <3>2, <3>3 DEF Watched
  <2>4. CASE refill(p) < Cost /\ Store(p, refill(p)) /\ SeesPruned(p)
    BY <1>1, <2>1, <2>2, <2>4, RateOthersCall
  <2> QED BY <2>1, <2>3, <2>4 DEF Called
<1>4. ASSUME NEW p \in Pairs, NEW v \in Velocities, Regrant(p, v) PROVE RateInv'
  BY <1>4, RateRegrant
<1>5. CASE Restart
  BY <1>1, <1>5, RateRestart
<1>6. CASE Tick \/ ClockBack
  BY <1>1, <1>6, RateTick
<1> QED BY <1>2, <1>3, <1>4, <1>5, <1>6 DEF VelocityNext

LEMMA RateStart ==
  VelocityInit => RateType /\ PromiseInv /\ RateInv
<1> SUFFICES ASSUME VelocityInit PROVE RateType /\ PromiseInv /\ RateInv
  OBVIOUS
<1>1. DOMAIN buckets = {} /\ watch = Unwatched /\ MaxSetBack \in Nat
  BY VelocityAssumption DEF VelocityInit
<1>2. Unwatched \in Watches /\ Unwatched.pair \notin Pairs
  BY VelocityAssumption DEF Unwatched, Watches
<1>3. RateType
  BY <1>1, <1>2 DEF VelocityInit, RateType, NoPromise
<1> QED BY <1>1, <1>2, <1>3 DEF PromiseInv, RateInv

(* A grant's rate is what it says, for any velocities, pairs and cap of    *)
(* the map: between any calls of a pair no more pass than its burst and    *)
(* the interval allow, and who was told when to come back is let through   *)
(* then (tokenBucket.js, velocity.js).                                     *)
THEOREM RatesAreTold == VelocitySpec => []RateAsTold
<1>1. RateType /\ PromiseInv /\ RateInv /\ [VelocityNext]_velocityVars => (RateType /\ PromiseInv /\ RateInv)'
  BY RateTypeStep, PromiseStep, RateStep
<1>2. RateType /\ PromiseInv /\ RateInv => RateAsTold
  BY PromiseKept, RateHolds DEF RateAsTold
<1> QED BY <1>1, <1>2, RateStart, PTL DEF VelocitySpec

-----------------------------------------------------------------------------
(* Windows: what each side says, and what both of them allow *)

Typed(side) ==
  /\ DOMAIN side \subseteq Keys
  /\ \A key \in DOMAIN side : side[key] \in {Null, Junk} \/ side[key] \in ValuesOf(key)

LEMMA AbsentIsNoValue ==
  \A key \in Keys : Absent \notin ValuesOf(key)
<1>1. \A tiers \in SUBSET RiskTiers : Absent # tiers
  BY WindowsAssumption
<1> QED BY <1>1, WindowsAssumption DEF ValuesOf, Keys

LEMMA SaysTyped ==
  ASSUME NEW side, Typed(side), NEW key \in Keys
  PROVE  Says(side, key) = Absent \/ Says(side, key) \in ValuesOf(key)
<1>1. 0 \in Int /\ {} \in SUBSET RiskTiers
  OBVIOUS
<1>2. Numbers \cap TierLists = {}
  BY DEF Numbers, TierLists
<1>3. key \in DOMAIN side => side[key] \in {Null, Junk} \/ side[key] \in ValuesOf(key)
  BY DEF Typed
<1> QED BY <1>1, <1>2, <1>3 DEF Says, Parse, ValuesOf

LEMMA NarrowNumber ==
  ASSUME NEW key \in Numbers, NEW c, NEW l,
         c = Absent \/ c \in Int, l = Absent \/ l \in Int,
         Absent \notin Int
  PROVE  LET n == Narrow(key, c, l)
         IN  /\ n = Absent \/ n \in Int
             /\ c # Absent => n # Absent /\ n <= c
             /\ l # Absent => n # Absent /\ n <= l
BY DEF Narrow, Lesser

LEMMA NarrowTiers ==
  ASSUME NEW key \in TierLists, NEW c, NEW l,
         c = Absent \/ c \in SUBSET RiskTiers, l = Absent \/ l \in SUBSET RiskTiers,
         Absent \notin SUBSET RiskTiers
  PROVE  LET n == Narrow(key, c, l)
         IN  /\ n = Absent \/ n \in SUBSET RiskTiers
             /\ c # Absent => n # Absent /\ n \subseteq c
             /\ l # Absent => n # Absent /\ n \subseteq l
<1>1. key \notin Numbers
  BY DEF Numbers, TierLists
<1>2. c # Absent /\ l # Absent => c \cap l \in SUBSET RiskTiers /\ c \cap l \subseteq c /\ c \cap l \subseteq l
  BY Zenon
<1>3. c # Absent /\ l # Absent => c \cap l # Absent
  BY <1>2
<1> QED BY <1>1, <1>2, <1>3 DEF Narrow

LEMMA NarrowFlag ==
  ASSUME NEW c, NEW l,
         c = Absent \/ c \in BOOLEAN, l = Absent \/ l \in BOOLEAN,
         Absent \notin BOOLEAN
  PROVE  LET n == Narrow("allowPause", c, l)
         IN  /\ n = Absent \/ n \in BOOLEAN
             /\ c # Absent => n # Absent /\ (n => c)
             /\ l # Absent => n # Absent /\ (n => l)
<1>1. "allowPause" \notin Numbers /\ "allowPause" \notin TierLists
  BY DEF Numbers, TierLists
<1>2. CASE c = Absent
  BY <1>1, <1>2, Zenon DEF Narrow
<1>3. CASE c # Absent /\ l = Absent
  BY <1>1, <1>3, Zenon DEF Narrow
<1>4. CASE c # Absent /\ l # Absent
  <2>1. Narrow("allowPause", c, l) = (c /\ l)
    BY <1>1, <1>4, Zenon DEF Narrow
  <2>2. c \in BOOLEAN /\ l \in BOOLEAN
    BY <1>4
  <2>3. (c /\ l) \in BOOLEAN /\ ((c /\ l) => c) /\ ((c /\ l) => l)
    OBVIOUS
  <2> QED BY <2>1, <2>3, <1>4
<1> QED BY <1>2, <1>3, <1>4

LEMMA NumberAllowed ==
  ASSUME NEW env, Typed(copy), Typed(env), NEW key \in Numbers
  PROVE  /\ Value(key, env) \in Int
         /\ \A side \in {copy, env} : Says(side, key) # Absent => Says(side, key) \in Int /\ Value(key, env) <= Says(side, key)
<1> DEFINE c == Says(copy, key)
           l == Says(env, key)
           n == Narrow(key, c, l)
<1>1. key \in Keys /\ ValuesOf(key) = Int
  BY DEF Keys, ValuesOf
<1>2. (c = Absent \/ c \in Int) /\ (l = Absent \/ l \in Int) /\ Absent \notin Int
  BY <1>1, SaysTyped, AbsentIsNoValue
<1>3. Fallback[key] \in Int
  BY DEF Fallback, Numbers
<1>4. Value(key, env) = IF n = Absent THEN Fallback[key] ELSE n
  BY DEF Value
<1> HIDE DEF c, l
<1>5. /\ n = Absent \/ n \in Int
      /\ c # Absent => n # Absent /\ n <= c
      /\ l # Absent => n # Absent /\ n <= l
  BY <1>2, NarrowNumber
<1> HIDE DEF n
<1>6. Value(key, env) \in Int /\ (c # Absent => c \in Int /\ Value(key, env) <= c) /\ (l # Absent => l \in Int /\ Value(key, env) <= l)
  BY <1>2, <1>3, <1>4, <1>5
<1> QED BY <1>6 DEF c, l

LEMMA TiersAllowed ==
  ASSUME NEW env, Typed(copy), Typed(env), NEW key \in TierLists
  PROVE  /\ Value(key, env) \in SUBSET RiskTiers
         /\ \A side \in {copy, env} : Says(side, key) # Absent => Value(key, env) \subseteq Says(side, key)
<1> DEFINE c == Says(copy, key)
           l == Says(env, key)
           n == Narrow(key, c, l)
<1>1. key \in Keys /\ ValuesOf(key) = SUBSET RiskTiers
  BY DEF Keys, ValuesOf, Numbers, TierLists
<1>2. (c = Absent \/ c \in SUBSET RiskTiers) /\ (l = Absent \/ l \in SUBSET RiskTiers) /\ Absent \notin SUBSET RiskTiers
  BY <1>1, SaysTyped, AbsentIsNoValue
<1>3. Fallback[key] \in SUBSET RiskTiers
  BY DEF Fallback, TierLists, LeasableTiers, RiskTiers
<1>4. Value(key, env) = IF n = Absent THEN Fallback[key] ELSE n
  BY DEF Value
<1> HIDE DEF c, l
<1>5. /\ n = Absent \/ n \in SUBSET RiskTiers
      /\ c # Absent => n # Absent /\ n \subseteq c
      /\ l # Absent => n # Absent /\ n \subseteq l
  BY <1>2, NarrowTiers
<1> HIDE DEF n
<1>6. Value(key, env) \in SUBSET RiskTiers /\ (c # Absent => Value(key, env) \subseteq c) /\ (l # Absent => Value(key, env) \subseteq l)
  BY <1>3, <1>4, <1>5
<1> QED BY <1>6 DEF c, l

LEMMA PauseAllowedByBoth ==
  ASSUME NEW env, Typed(copy), Typed(env), Value("allowPause", env)
  PROVE  \A side \in {copy, env} : Says(side, "allowPause") # Absent => Says(side, "allowPause")
<1> DEFINE c == Says(copy, "allowPause")
           l == Says(env, "allowPause")
           n == Narrow("allowPause", c, l)
<1>1. "allowPause" \in Keys /\ ValuesOf("allowPause") = BOOLEAN
  BY DEF Keys, ValuesOf, Numbers, TierLists
<1>2. (c = Absent \/ c \in BOOLEAN) /\ (l = Absent \/ l \in BOOLEAN) /\ Absent \notin BOOLEAN
  BY <1>1, SaysTyped, AbsentIsNoValue
<1>4. Value("allowPause", env) = IF n = Absent THEN Fallback["allowPause"] ELSE n
  BY DEF Value
<1> HIDE DEF c, l
<1>5. /\ c # Absent => n # Absent /\ (n => c)
      /\ l # Absent => n # Absent /\ (n => l)
  BY <1>2, NarrowFlag
<1> HIDE DEF n
<1>6. n # Absent => n
  BY <1>4, Zenon
<1>7. (c # Absent => c) /\ (l # Absent => l)
  BY <1>5, <1>6, Zenon
<1> QED BY <1>7 DEF c, l

-----------------------------------------------------------------------------
(* Windows: a window keeps within what its sides allowed when it was opened *)

Sides == Profiles \cup Floors \cup {SaysNothing}

WindowsType ==
  /\ lever \in {"pause", "lease"}
  /\ copy \in Sides /\ floor \in Sides
  /\ minute \in Int /\ behind \in Int
  /\ window.until \in Int /\ window.at \in Int /\ window.lag \in Int

LEMMA SidesTyped ==
  \A side \in Sides : Typed(side)
<1>1. Typed(SaysNothing)
  BY DEF Typed, SaysNothing
<1>2. \A side \in Profiles \cup Floors : Typed(side)
  BY WindowsAssumption DEF Typed
<1> QED BY <1>1, <1>2 DEF Sides

(* What a side allows of a window at most.                                 *)
LongestSaid(side) == Lesser(Bounds.most, Said(side, Bounds.minutes, Bounds.most))

Within(w, side) ==
  /\ w.until <= w.at - w.lag + LongestSaid(side)
  /\ w.tolerate \subseteq Bounds.all \cap Said(side, Bounds.tiers, Bounds.all)
  /\ lever = "pause" => Said(side, "allowPause", TRUE)

WindowInv == window.tolerate # {} => \A side \in window.sides : Typed(side) /\ Within(window, side)

LEMMA WindowFacts ==
  ASSUME NEW tolerate, NEW minutes \in Int, NEW env, minute \in Int, behind \in Int
  PROVE  LET w == Window(tolerate, minutes, env)
         IN  /\ w.until = minute - behind + minutes /\ w.at = minute /\ w.lag = behind
             /\ w.until \in Int /\ w.at \in Int /\ w.lag \in Int
             /\ w.tolerate = tolerate /\ w.sides = {copy, env}
BY DEF Window, Now

LEMMA LongestFacts ==
  ASSUME NEW side, Typed(side), lever \in {"pause", "lease"}
  PROVE  LongestSaid(side) \in Int /\ Said(side, Bounds.minutes, Bounds.most) \in Int
<1>1. Bounds.most \in Int /\ Bounds.minutes \in Numbers
  BY DEF Bounds, Numbers
<1>2. Bounds.minutes \in Keys /\ ValuesOf(Bounds.minutes) = Int
  BY <1>1 DEF Keys, ValuesOf
<1>3. Said(side, Bounds.minutes, Bounds.most) \in Int
  BY <1>1, <1>2, SaysTyped DEF Said
<1> QED BY <1>1, <1>3 DEF LongestSaid, Lesser

LEMMA PauseBegins ==
  ASSUME WindowsType, WindowInv, NEW ask \in PauseAsks, NEW env \in Sides,
         lever = "pause", lever' = lever, BeginEnforcementPause(ask, env)
  PROVE  WindowInv' /\ window'.until \in Int /\ window'.at \in Int /\ window'.lag \in Int
<1>1. CASE ~PauseAllowed(ask, env)
  <2>1. window' = window
    BY <1>1 DEF BeginEnforcementPause
  <2> QED BY <2>1 DEF WindowInv, WindowsType, Within, LongestSaid, Bounds, Said
<1>2. CASE PauseAllowed(ask, env)
  <2> DEFINE minutes == PauseLength(ask.minutes, env)
             w == Window(ask.tolerate, minutes, env)
             all == Value("pauseTiers", env)
             most == Value("pauseMax", env)
  <2>1. window' = w
    BY <1>2 DEF BeginEnforcementPause
  <2>2. Typed(copy) /\ Typed(env) /\ minute \in Int /\ behind \in Int
    BY SidesTyped DEF WindowsType
  <2>3. "pauseMax" \in Numbers /\ "pauseDefault" \in Numbers /\ "pauseTiers" \in TierLists
    BY DEF Numbers, TierLists
  <2>4. /\ most \in Int /\ Value("pauseDefault", env) \in Int
        /\ \A side \in {copy, env} : Says(side, "pauseMax") # Absent => Says(side, "pauseMax") \in Int /\ most <= Says(side, "pauseMax")
    BY <2>2, <2>3, NumberAllowed
  <2>5. /\ all \subseteq RiskTiers
        /\ \A side \in {copy, env} : Says(side, "pauseTiers") # Absent => all \subseteq Says(side, "pauseTiers")
    BY <2>2, <2>3, TiersAllowed
  <2>6. ask.minutes = Absent \/ ask.minutes \in Int
    BY <1>2, WindowsAssumption DEF PauseAllowed
  <2>7. minutes \in Int /\ minutes <= 30 /\ minutes <= most
    BY <2>4, <2>6 DEF PauseLength, Lesser, Greater
  <2>8. \A side \in {copy, env} : Says(side, "allowPause") # Absent => Says(side, "allowPause")
    BY <1>2, <2>2, PauseAllowedByBoth DEF PauseAllowed
  <2>9. ask.tolerate \subseteq all
    BY <1>2 DEF PauseAllowed
  <2> HIDE DEF all, most, minutes
  <2>10. /\ w.until = w.at - w.lag + minutes /\ w.until \in Int /\ w.at \in Int /\ w.lag \in Int
         /\ w.tolerate = ask.tolerate /\ w.sides = {copy, env}
    BY <2>2, <2>7, WindowFacts
  <2> HIDE DEF w
  <2>11. ASSUME NEW side \in {copy, env} PROVE Within(w, side)
    <3>1. Bounds.tiers = "pauseTiers" /\ Bounds.minutes = "pauseMax" /\ Bounds.most = 30 /\ Bounds.all = RiskTiers
      BY DEF Bounds
    <3>2. Said(side, "pauseMax", 30) \in Int /\ minutes <= Said(side, "pauseMax", 30)
      BY <2>4, <2>7, <2>11 DEF Said
    <3>3. minutes <= LongestSaid(side) /\ LongestSaid(side) \in Int
      BY <2>7, <3>1, <3>2 DEF LongestSaid, Lesser
    <3>4. all \subseteq Said(side, "pauseTiers", RiskTiers)
      BY <2>5, <2>11 DEF Said
    <3>5. Said(side, "allowPause", TRUE)
      BY <2>8, <2>11, Zenon DEF Said
    <3>6. w.until <= w.at - w.lag + LongestSaid(side)
      BY <2>7, <2>10, <3>3
    <3>7. w.tolerate \subseteq Bounds.all \cap Said(side, Bounds.tiers, Bounds.all)
      BY <2>5, <2>9, <2>10, <3>1, <3>4
    <3> QED BY <3>5, <3>6, <3>7, Zenon DEF Within
  <2>12. \A side \in w.sides : Typed(side) /\ Within(w, side)
    BY <2>2, <2>10, <2>11
  <2>13. WindowInv'
    BY <2>1, <2>12 DEF WindowInv, Within, LongestSaid, Bounds, Said
  <2> QED BY <2>1, <2>10, <2>13
<1> QED BY <1>1, <1>2

LEMMA GraceBegins ==
  ASSUME WindowsType, WindowInv, NEW ask \in LeaseAsks, BeginGrace(ask)
  PROVE  WindowInv' /\ window'.until \in Int /\ window'.at \in Int /\ window'.lag \in Int
<1> DEFINE all == Value("leaseTiers", floor)
           most == Value("leaseMax", floor)
           leasable == LeasableTiers \cap all
           requested == IF ask.tolerate = Junk THEN leasable ELSE ask.tolerate
           given == IF ask.minutes \in {Absent, Junk, 0} THEN 15 ELSE ask.minutes
           minutes == Lesser(Greater(given, 1), Lesser(60, most))
           w == Window(requested, minutes, floor)
<1>1. window' = w /\ requested \subseteq leasable /\ lever = "lease" /\ lever' = lever
  BY DEF BeginGrace
<1>2. Typed(copy) /\ Typed(floor) /\ minute \in Int /\ behind \in Int
  BY SidesTyped DEF WindowsType
<1>3. "leaseMax" \in Numbers /\ "leaseTiers" \in TierLists
  BY DEF Numbers, TierLists
<1>4. /\ most \in Int
      /\ \A side \in {copy, floor} : Says(side, "leaseMax") # Absent => Says(side, "leaseMax") \in Int /\ most <= Says(side, "leaseMax")
  BY <1>2, <1>3, NumberAllowed
<1>5. \A side \in {copy, floor} : Says(side, "leaseTiers") # Absent => all \subseteq Says(side, "leaseTiers")
  BY <1>2, <1>3, TiersAllowed
<1>6. given \in Int
  BY WindowsAssumption
<1> HIDE DEF given, most, all
<1>7. minutes \in Int /\ minutes <= 60 /\ minutes <= most
  BY <1>4, <1>6 DEF Lesser, Greater
<1> HIDE DEF requested, minutes
<1>8. /\ w.until = w.at - w.lag + minutes /\ w.until \in Int /\ w.at \in Int /\ w.lag \in Int
      /\ w.tolerate = requested /\ w.sides = {copy, floor}
  BY <1>2, <1>7, WindowFacts
<1> HIDE DEF w
<1>9. ASSUME NEW side \in {copy, floor} PROVE Within(w, side)
  <2>1. Bounds.tiers = "leaseTiers" /\ Bounds.minutes = "leaseMax" /\ Bounds.most = 60 /\ Bounds.all = LeasableTiers
    BY <1>1 DEF Bounds
  <2>2. Said(side, "leaseMax", 60) \in Int /\ minutes <= Said(side, "leaseMax", 60)
    BY <1>4, <1>7, <1>9 DEF Said
  <2>3. minutes <= LongestSaid(side) /\ LongestSaid(side) \in Int
    BY <1>7, <2>1, <2>2 DEF LongestSaid, Lesser
  <2>4. leasable \subseteq LeasableTiers \cap Said(side, "leaseTiers", LeasableTiers)
    BY <1>5, <1>9 DEF Said
  <2>5. w.until <= w.at - w.lag + LongestSaid(side)
    BY <1>7, <1>8, <2>3
  <2>6. w.tolerate \subseteq Bounds.all \cap Said(side, Bounds.tiers, Bounds.all)
    BY <1>1, <1>8, <2>1, <2>4
  <2> QED BY <1>1, <2>5, <2>6 DEF Within
<1>10. \A side \in w.sides : Typed(side) /\ Within(w, side)
  BY <1>2, <1>8, <1>9
<1>11. WindowInv'
  BY <1>1, <1>10 DEF WindowInv, Within, LongestSaid, Bounds, Said
<1> QED BY <1>1, <1>8, <1>11

LEMMA WindowsStep ==
  ASSUME WindowsType, WindowInv, [WindowsNext]_windowVars
  PROVE  WindowsType' /\ WindowInv'
<1>1. CASE UNCHANGED <<lever, window>> /\ {copy', floor'} \subseteq Sides /\ minute' \in Int /\ behind' \in Int
  BY <1>1 DEF WindowsType, WindowInv, Within, LongestSaid, Bounds, Said
<1>2. CASE UNCHANGED windowVars
  BY <1>1, <1>2 DEF windowVars, WindowsType
<1>3. CASE (\E says \in Profiles : SaveDenyList(says)) \/ LoseDenyList \/ Stop
  BY <1>1, <1>3 DEF SaveDenyList, LoseDenyList, Stop, WindowsType, Sides
<1>4. ASSUME NEW ask \in PauseAsks, PausePosted(ask) PROVE WindowsType' /\ WindowInv'
  <2>1. BeginEnforcementPause(ask, floor) /\ lever = "pause" /\ UNCHANGED <<lever, copy, floor, serving, minute, behind>>
    BY <1>4 DEF PausePosted
  <2>2. WindowInv' /\ window'.until \in Int /\ window'.at \in Int /\ window'.lag \in Int
    BY <2>1, PauseBegins DEF WindowsType
  <2> QED BY <2>1, <2>2 DEF WindowsType
<1>5. ASSUME NEW ask \in LeaseAsks, BeginGrace(ask) PROVE WindowsType' /\ WindowInv'
  <2>1. UNCHANGED <<lever, copy, floor, serving, minute, behind>>
    BY <1>5 DEF BeginGrace
  <2>2. WindowInv' /\ window'.until \in Int /\ window'.at \in Int /\ window'.lag \in Int
    BY <1>5, GraceBegins
  <2> QED BY <2>1, <2>2 DEF WindowsType
<1>6. CASE EndWindow
  <2>1. window' = NoWindow /\ UNCHANGED <<lever, copy, floor, minute, behind>>
    BY <1>6 DEF EndWindow
  <2> QED BY <2>1 DEF NoWindow, WindowsType, WindowInv
<1>7. ASSUME NEW env \in Floors, NEW ask \in PauseAsks \cup {Absent}, Boot(env, ask) PROVE WindowsType' /\ WindowInv'
  <2>1. env \in Sides /\ floor' = env /\ UNCHANGED <<lever, copy, minute, behind>>
    BY <1>7 DEF Boot, Sides
  <2>2. CASE UNCHANGED window
    BY <1>1, <2>1, <2>2 DEF WindowsType
  <2>3. CASE lever = "pause" /\ ask # Absent /\ BeginEnforcementPause(ask, env)
    <3>1. WindowInv' /\ window'.until \in Int /\ window'.at \in Int /\ window'.lag \in Int
      BY <2>1, <2>3, PauseBegins
    <3> QED BY <2>1, <3>1 DEF WindowsType
  <2> QED BY <1>7, <2>2, <2>3 DEF Boot
<1>8. CASE (\E minutes \in Jumps : Pass(minutes)) \/ (\E lag \in 0 .. MaxBehind : SetClock(lag))
  <2>1. UNCHANGED <<lever, copy, floor, window>> /\ minute' \in Int /\ behind' \in Int
    BY <1>8, WindowsAssumption DEF Pass, SetClock, WindowsType
  <2> QED BY <1>1, <2>1 DEF WindowsType
<1> QED BY <1>2, <1>3, <1>4, <1>5, <1>6, <1>7, <1>8 DEF WindowsNext

LEMMA WindowsStart ==
  WindowsInit => WindowsType /\ WindowInv
BY WindowsAssumption DEF WindowsInit, NoWindow, WindowsType, WindowInv, Sides

LEMMA WindowHolds ==
  WindowsType /\ WindowInv => WindowsBounded
<1> SUFFICES ASSUME WindowsType, WindowInv, InForce, NEW side \in window.sides
             PROVE  /\ minute - window.at < LongestSaid(side) + Greater(0, behind - window.lag)
                    /\ window.tolerate \subseteq Bounds.all \cap Said(side, Bounds.tiers, Bounds.all)
                    /\ lever = "pause" => Said(side, "allowPause", TRUE)
  BY Zenon DEF WindowsBounded, LongestSaid
<1>1. Typed(side) /\ Within(window, side)
  BY DEF InForce, WindowInv
<1>2. LongestSaid(side) \in Int
  BY <1>1, LongestFacts DEF WindowsType
<1>3. minute - behind < window.at - window.lag + LongestSaid(side)
  BY <1>1, <1>2 DEF InForce, Within, Now, WindowsType
<1>4. minute - window.at < LongestSaid(side) + Greater(0, behind - window.lag)
  BY <1>2, <1>3 DEF Greater, WindowsType
<1> QED BY <1>1, <1>4, Zenon DEF Within

-----------------------------------------------------------------------------
(* Constraints: one key of a leg *)

(* What a value of a key lets through.                                     *)
KeyPermits(key, value, call) ==
  CASE key = "expiresAt" -> value = Unreadable \/ call.at <= value
    [] key = "maxPerHour" -> value = Unreadable \/ call.nth <= value
    [] key = "paths" -> call.path \in value
    [] key = "readOnly" -> value => ~call.writes
    [] key = "velocity" -> call.pace <= value.rate /\ call.spike <= value.burst

(* A value that this build can evaluate.                                   *)
Meaningful(key, value) ==
  /\ key \in {"expiresAt", "maxPerHour"} => value \in Int
  /\ key = "readOnly" => value \in BOOLEAN
  /\ key = "velocity" => value \in [rate : Nat \ {0}, burst : Nat \ {0}]

(* A leg that it can evaluate.                                             *)
Sound(leg) ==
  /\ DOMAIN leg \subseteq KnownKeys
  /\ \A key \in DOMAIN leg : Meaningful(key, leg[key])

LEMMA SoundPermits ==
  ASSUME NEW leg, Sound(leg), NEW call
  PROVE  Permits(leg, call) <=> \A key \in DOMAIN leg : KeyPermits(key, leg[key], call)
<1>1. leg # Unparseable
  <2>1. DOMAIN Unparseable = {"unparseable"}
    BY DEF Unparseable
  <2>2. "unparseable" \notin KnownKeys
    BY DEF KnownKeys
  <2> QED BY <2>1, <2>2 DEF Sound
<1>2. Evaluable(leg)
  <2>1. DOMAIN leg \ KnownKeys = {}
    BY DEF Sound
  <2>2. ASSUME "velocity" \in DOMAIN leg PROVE leg.velocity # NoVelocity
    <3>1. leg.velocity \in [rate : Nat \ {0}, burst : Nat \ {0}]
      BY <2>2 DEF Sound, Meaningful
    <3>2. NoVelocity.rate = 0
      BY DEF NoVelocity
    <3> QED BY <3>1, <3>2
  <2> QED BY <2>1, <2>2 DEF Evaluable, unknownKeys
<1> QED BY <1>1, <1>2 DEF Permits, KeyPermits

LEMMA EvaluableIsSound ==
  ASSUME NEW leg \in Legs, leg # Unparseable, Evaluable(leg)
  PROVE  Sound(leg)
<1>1. DOMAIN leg \subseteq KnownKeys
  BY DEF Evaluable, unknownKeys
<1>2. "velocity" \in DOMAIN leg => leg.velocity # NoVelocity
  BY DEF Evaluable
<1>3. /\ \A key \in {"expiresAt", "maxPerHour"} \cap DOMAIN leg : leg[key] \in Int
      /\ "readOnly" \in DOMAIN leg => leg.readOnly \in BOOLEAN
      /\ "velocity" \in DOMAIN leg => leg.velocity \in {NoVelocity} \cup [rate : Nat \ {0}, burst : Nat \ {0}]
  BY ConstraintAssumption
<1>4. ASSUME NEW key \in DOMAIN leg PROVE Meaningful(key, leg[key])
  BY <1>2, <1>3, <1>4 DEF Meaningful
<1> QED BY <1>1, <1>4 DEF Sound

-----------------------------------------------------------------------------
(* Constraints: two values of a key *)

LEMMA CombineBounds ==
  ASSUME NEW a \in Int, NEW b \in Int, NEW x \in Int
  PROVE  /\ LowerBound(a, b) \in Int
         /\ LowerBound(a, b) = Unreadable \/ x <= LowerBound(a, b)
              <=> (a = Unreadable \/ x <= a) /\ (b = Unreadable \/ x <= b)
BY DEF LowerBound, Lower, Unreadable

LEMMA CombineFlags ==
  ASSUME NEW a \in BOOLEAN, NEW b \in BOOLEAN, NEW x
  PROVE  (a \/ b) \in BOOLEAN /\ (((a \/ b) => ~x) <=> (a => ~x) /\ (b => ~x))
OBVIOUS

LEMMA CombineVelocities ==
  ASSUME NEW a \in [rate : Nat \ {0}, burst : Nat \ {0}], NEW b \in [rate : Nat \ {0}, burst : Nat \ {0}],
         NEW x \in Int, NEW y \in Int
  PROVE  LET v == combineVelocity(a, b)
         IN  /\ v \in [rate : Nat \ {0}, burst : Nat \ {0}]
             /\ (x <= v.rate /\ y <= v.burst) <=> (x <= a.rate /\ y <= a.burst) /\ (x <= b.rate /\ y <= b.burst)
BY DEF combineVelocity, Lower

LEMMA CombineIsBoth ==
  ASSUME NEW key \in KnownKeys, NEW a, NEW b, Meaningful(key, a), Meaningful(key, b)
  PROVE  /\ Meaningful(key, combine(key, a, b))
         /\ \A call \in Attempts :
              KeyPermits(key, combine(key, a, b), call) <=> KeyPermits(key, a, call) /\ KeyPermits(key, b, call)
<1>1. \A call \in Attempts : call.at \in Int /\ call.nth \in Int /\ call.pace \in Int /\ call.spike \in Int
  BY ConstraintAssumption
<1>2. CASE key = "expiresAt"
  BY <1>1, <1>2, CombineBounds DEF Meaningful, combine, KeyPermits
<1>3. CASE key = "maxPerHour"
  BY <1>1, <1>3, CombineBounds DEF Meaningful, combine, KeyPermits
<1>4. CASE key = "paths"
  <2>1. combine(key, a, b) = a \cap b
    BY <1>4 DEF combine
  <2> QED BY <1>4, <2>1 DEF Meaningful, KeyPermits
<1>5. CASE key = "readOnly"
  <2>1. combine(key, a, b) = (a \/ b)
    BY <1>5 DEF combine
  <2>2. a \in BOOLEAN /\ b \in BOOLEAN
    BY <1>5 DEF Meaningful
  <2>3. \A value, call : KeyPermits(key, value, call) <=> (value => ~call.writes)
    BY <1>5 DEF KeyPermits
  <2>4. (a \/ b) \in BOOLEAN
    BY <2>2, CombineFlags
  <2>5. \A call : ((a \/ b) => ~call.writes) <=> (a => ~call.writes) /\ (b => ~call.writes)
    BY <2>2, Zenon
  <2> QED BY <1>5, <2>1, <2>3, <2>4, <2>5, Zenon DEF Meaningful
<1>6. CASE key = "velocity"
  <2>1. combine(key, a, b) = combineVelocity(a, b)
    BY <1>6 DEF combine
  <2>2. a \in [rate : Nat \ {0}, burst : Nat \ {0}] /\ b \in [rate : Nat \ {0}, burst : Nat \ {0}]
    BY <1>6 DEF Meaningful
  <2>3. \A value, call : KeyPermits(key, value, call) <=> (call.pace <= value.rate /\ call.spike <= value.burst)
    BY <1>6 DEF KeyPermits
  <2>4. combineVelocity(a, b) \in [rate : Nat \ {0}, burst : Nat \ {0}]
    BY <2>2 DEF combineVelocity, Lower
  <2>5. \A call \in Attempts :
          (call.pace <= combineVelocity(a, b).rate /\ call.spike <= combineVelocity(a, b).burst)
            <=> (call.pace <= a.rate /\ call.spike <= a.burst) /\ (call.pace <= b.rate /\ call.spike <= b.burst)
    BY <1>1, <2>2 DEF combineVelocity, Lower
  <2> QED BY <1>6, <2>1, <2>3, <2>4, <2>5, Zenon DEF Meaningful
<1> QED BY <1>2, <1>3, <1>4, <1>5, <1>6 DEF KnownKeys

-----------------------------------------------------------------------------
(* Constraints: the merged legs *)

LEMMA MergedIsBoth ==
  ASSUME NEW a, NEW b, Sound(a), Sound(b)
  PROVE  /\ Sound(MergedKeys(a, b))
         /\ \A call \in Attempts : Permits(MergedKeys(a, b), call) <=> Permits(a, call) /\ Permits(b, call)
<1> DEFINE m == MergedKeys(a, b)
<1>1. DOMAIN m = DOMAIN a \cup DOMAIN b
  BY DEF MergedKeys
<1>2. /\ \A key \in DOMAIN a \ DOMAIN b : m[key] = a[key]
      /\ \A key \in DOMAIN b \ DOMAIN a : m[key] = b[key]
      /\ \A key \in DOMAIN a \cap DOMAIN b : m[key] = combine(key, a[key], b[key])
  BY DEF MergedKeys
<1> HIDE DEF m
<1>3. ASSUME NEW key \in DOMAIN a \cap DOMAIN b
      PROVE  /\ Meaningful(key, m[key])
             /\ \A call \in Attempts : KeyPermits(key, m[key], call) <=> KeyPermits(key, a[key], call) /\ KeyPermits(key, b[key], call)
  <2>1. key \in KnownKeys /\ Meaningful(key, a[key]) /\ Meaningful(key, b[key]) /\ m[key] = combine(key, a[key], b[key])
    BY <1>2 DEF Sound
  <2> QED BY <2>1, CombineIsBoth
<1>4. Sound(m)
  <2>1. \A key \in DOMAIN m : Meaningful(key, m[key])
    BY <1>1, <1>2, <1>3 DEF Sound
  <2> QED BY <1>1, <2>1 DEF Sound
<1>5. ASSUME NEW call \in Attempts
      PROVE  (\A key \in DOMAIN m : KeyPermits(key, m[key], call))
               <=> (\A key \in DOMAIN a : KeyPermits(key, a[key], call)) /\ (\A key \in DOMAIN b : KeyPermits(key, b[key], call))
  <2>1. \A key \in DOMAIN a \cap DOMAIN b : KeyPermits(key, m[key], call) <=> KeyPermits(key, a[key], call) /\ KeyPermits(key, b[key], call)
    BY <1>3
  <2> QED BY <1>1, <1>2, <2>1
<1>6. \A call \in Attempts : Permits(m, call) <=> Permits(a, call) /\ Permits(b, call)
  BY <1>4, <1>5, SoundPermits
<1> QED BY <1>4, <1>6 DEF m

LEMMA NothingInCommonPermits ==
  ASSUME NEW a, NEW b, Sound(a), Sound(b), NothingInCommon(a, b), NEW call
  PROVE  ~(Permits(a, call) /\ Permits(b, call))
<1>1. "paths" \in DOMAIN a /\ "paths" \in DOMAIN b /\ a["paths"] \cap b["paths"] = {}
  BY DEF NothingInCommon
<1>2. \A value : KeyPermits("paths", value, call) <=> call.path \in value
  BY DEF KeyPermits
<1>3. ~(KeyPermits("paths", a["paths"], call) /\ KeyPermits("paths", b["paths"], call))
  BY <1>1, <1>2
<1> QED BY <1>1, <1>3, SoundPermits

(* The merged legs let through what none of the legs refused.              *)
MergeInv ==
  /\ merged.allowed \in BOOLEAN
  /\ merged.allowed => Sound(merged.constraints)
  /\ refused = {call \in Attempts : ~(merged.allowed /\ Permits(merged.constraints, call))}

LEMMA MergeStart ==
  ConstraintInit => MergeInv
<1> SUFFICES ASSUME ConstraintInit PROVE MergeInv
  OBVIOUS
<1>1. merged.allowed = TRUE /\ merged.constraints = <<>> /\ refused = {}
  BY DEF ConstraintInit
<1>2. DOMAIN merged.constraints = {}
  BY <1>1
<1>3. Sound(merged.constraints)
  BY <1>2 DEF Sound
<1>4. \A call : Permits(merged.constraints, call)
  BY <1>2, <1>3, SoundPermits
<1> QED BY <1>1, <1>3, <1>4 DEF MergeInv

LEMMA MergeStep ==
  ASSUME MergeInv, [ConstraintNext]_constraintVars
  PROVE  MergeInv'
<1>1. CASE UNCHANGED constraintVars
  BY <1>1 DEF constraintVars, MergeInv, Sound, Meaningful, Permits, Evaluable, unknownKeys
<1>2. ASSUME NEW leg \in Legs, mergeConstraints(leg) PROVE MergeInv'
  <2> DEFINE old == merged.constraints
             over == leg = Unparseable \/ ~Evaluable(leg) \/ NothingInCommon(old, leg)
             new == IF over THEN RefuseAll ELSE [allowed |-> TRUE, constraints |-> MergedKeys(old, leg)]
             refusedNow == refused \cup {call \in Attempts : ~Permits(leg, call)}
  <2>1. merged.allowed /\ merged' = new /\ refused' = refusedNow
    BY <1>2 DEF mergeConstraints
  <2>2. Sound(old) /\ \A call \in Attempts : call \in refused <=> ~Permits(old, call)
    BY <2>1 DEF MergeInv
  <2>3. refused \subseteq Attempts
    BY DEF MergeInv
  <2>4. CASE over
    <3>1. \A call \in Attempts : ~(Permits(old, call) /\ Permits(leg, call))
      <4>1. CASE leg = Unparseable \/ ~Evaluable(leg)
        BY <4>1 DEF Permits
      <4>2. CASE leg # Unparseable /\ Evaluable(leg) /\ NothingInCommon(old, leg)
        BY <2>2, <4>2, EvaluableIsSound, NothingInCommonPermits
      <4> QED BY <2>4, <4>1, <4>2
    <3>2. refused' = Attempts
      BY <2>1, <2>2, <2>3, <3>1
    <3>3. merged'.allowed = FALSE
      BY <2>1, <2>4 DEF RefuseAll
    <3> QED BY <3>2, <3>3 DEF MergeInv
  <2>5. CASE ~over
    <3>1. Sound(leg)
      BY <2>5, EvaluableIsSound
    <3> DEFINE m == MergedKeys(old, leg)
    <3>2. Sound(m) /\ \A call \in Attempts : Permits(m, call) <=> Permits(old, call) /\ Permits(leg, call)
      BY <2>2, <3>1, MergedIsBoth
    <3>3. merged'.allowed = TRUE /\ merged'.constraints = m
      BY <2>1, <2>5
    <3> HIDE DEF m, old
    <3>4. refused' = {call \in Attempts : ~Permits(m, call)}
      BY <2>1, <2>2, <2>3, <3>2
    <3>5. merged'.allowed \in BOOLEAN /\ Sound(merged'.constraints)
      BY <3>2, <3>3
    <3>6. refused' = {call \in Attempts : ~(merged'.allowed /\ Permits(merged'.constraints, call))}
      BY <3>3, <3>4
    <3> QED BY <3>5, <3>6 DEF MergeInv, Sound, Meaningful, Permits, Evaluable, unknownKeys
  <2> QED BY <2>4, <2>5
<1> QED BY <1>1, <1>2 DEF ConstraintNext

(* However the legs come, merging them lets through what each of them      *)
(* lets through, no more and no less (constraints.js).                     *)
THEOREM MergeTrue == ConstraintSpec => []MergeIsIntersection
<1>1. MergeInv => MergeIsIntersection
  BY DEF MergeInv, MergeIsIntersection
<1> QED BY <1>1, MergeStart, MergeStep, PTL DEF ConstraintSpec

(* No window outlasts, or tolerates more than, what central's profile, the *)
(* environment and the code each allowed when it was opened, whatever they *)
(* are changed to and however the clock is set back (nodeConfig.js,        *)
(* enforcementPause.js, maintenance.js).                                   *)
THEOREM WindowsTrue == WindowsInit /\ [][WindowsNext]_windowVars => []WindowsBounded
BY WindowsStart, WindowsStep, WindowHolds, PTL

-----------------------------------------------------------------------------
(* Packages: the grants *)

GrantRecords == [pair : RolePairs, live : BOOLEAN, package : BOOLEAN]

Log(grants) == \E n \in Nat : grants \in [1 .. n -> GrantRecords]

LiveIn(grants) == {g \in DOMAIN grants : grants[g].live}
LivePairsIn(grants) == {grants[g].pair : g \in LiveIn(grants)}

OneEach(grants) == \A g, h \in LiveIn(grants) : grants[g].pair = grants[h].pair => g = h

(* Between two sets of grants, some pairs may have been revoked.           *)
Later(x, y, gone) ==
  /\ DOMAIN x \subseteq DOMAIN y
  /\ \A g \in DOMAIN x : /\ y[g].pair = x[g].pair
                         /\ y[g].live => x[g].live
                         /\ x[g].live => y[g].live \/ x[g].pair \in gone

LEMMA GrantAdded ==
  ASSUME NEW p \in RolePairs, NEW package \in BOOLEAN, NEW n \in Nat, issued \in [1 .. n -> GrantRecords]
  PROVE  LET w == WithGrant(p, package)
         IN  /\ Cardinality(DOMAIN issued) = n /\ DOMAIN issued = 1 .. n
             /\ w \in [1 .. n + 1 -> GrantRecords]
             /\ w[n + 1] = [pair |-> p, live |-> TRUE, package |-> package]
             /\ \A g \in 1 .. n : w[g] = issued[g]
             /\ Cardinality(DOMAIN w) = n + 1
<1>1. DOMAIN issued = 1 .. n
  OBVIOUS
<1>2. \A k \in Nat : Cardinality(1 .. k) = k
  BY FS_Interval
<1>3. Cardinality(DOMAIN issued) = n
  BY <1>1, <1>2
<1> DEFINE new == [pair |-> p, live |-> TRUE, package |-> package]
           w == WithGrant(p, package)
<1>4. w = [g \in 1 .. n + 1 |-> IF g \in 1 .. n THEN issued[g] ELSE new]
  <2>1. 1 .. n \cup {n + 1} = 1 .. n + 1
    OBVIOUS
  <2> QED BY <1>1, <1>3, <2>1 DEF WithGrant
<1>5. new \in GrantRecords
  BY DEF GrantRecords
<1> HIDE DEF new, w
<1>6. /\ w \in [1 .. n + 1 -> GrantRecords]
      /\ w[n + 1] = new
      /\ \A g \in 1 .. n : w[g] = issued[g]
  BY <1>4, <1>5
<1>7. DOMAIN w = 1 .. n + 1
  BY <1>6
<1>8. Cardinality(DOMAIN w) = n + 1
  BY <1>2, <1>7
<1> QED BY <1>1, <1>3, <1>6, <1>8 DEF w, new

LEMMA GrantGiven ==
  ASSUME Log(issued), OneEach(issued), NEW p \in RolePairs, NEW package \in BOOLEAN, p \notin LivePairs,
         NEW y, y = WithGrant(p, package)
  PROVE  /\ Log(y) /\ OneEach(y) /\ Later(issued, y, {}) /\ p \in LivePairsIn(y)
         /\ Cardinality(DOMAIN y) \in Nat \ {0}
         /\ \A g \in DOMAIN y : y[g].package => (g \in DOMAIN issued /\ issued[g].package) \/ (package /\ g = Cardinality(DOMAIN y))
<1>1. PICK n \in Nat : issued \in [1 .. n -> GrantRecords]
  BY DEF Log
<1>2. /\ y \in [1 .. n + 1 -> GrantRecords] /\ DOMAIN issued = 1 .. n
      /\ y[n + 1] = [pair |-> p, live |-> TRUE, package |-> package]
      /\ \A g \in 1 .. n : y[g] = issued[g]
      /\ Cardinality(DOMAIN y) = n + 1
  BY <1>1, GrantAdded
<1>3. DOMAIN y = 1 .. n + 1
  BY <1>2
<1>4. y[n + 1].pair = p /\ y[n + 1].live /\ y[n + 1].package = package
  BY <1>2
<1>5. \A g \in DOMAIN y : g \in DOMAIN issued \/ g = n + 1
  BY <1>2, <1>3
<1>6. \A g \in LiveIn(issued) : issued[g].pair # p
  BY DEF LivePairs, LiveIn
<1>7. OneEach(y)
  BY <1>2, <1>4, <1>5, <1>6 DEF OneEach, LiveIn
<1>8. Later(issued, y, {})
  BY <1>2, <1>3 DEF Later
<1>9. p \in LivePairsIn(y)
  BY <1>3, <1>4 DEF LivePairsIn, LiveIn
<1>10. Log(y)
  BY <1>2 DEF Log
<1>11. \A g \in DOMAIN y : y[g].package => (g \in DOMAIN issued /\ issued[g].package) \/ (package /\ g = Cardinality(DOMAIN y))
  BY <1>2, <1>4, <1>5
<1> QED BY <1>2, <1>7, <1>8, <1>9, <1>10, <1>11

LEMMA GrantRevoked ==
  ASSUME Log(issued), OneEach(issued), NEW g \in DOMAIN issued,
         NEW y, y = [issued EXCEPT ![g].live = FALSE]
  PROVE  /\ Log(y) /\ OneEach(y) /\ Later(issued, y, {issued[g].pair}) /\ ~y[g].live
         /\ issued[g].pair \in RolePairs
         /\ DOMAIN y = DOMAIN issued /\ \A h \in DOMAIN y : y[h].package = issued[h].package
<1>1. PICK n \in Nat : issued \in [1 .. n -> GrantRecords]
  BY DEF Log
<1> DEFINE w == [issued[g] EXCEPT !.live = FALSE]
<1>2. issued[g] \in GrantRecords
  BY <1>1
<1>3. w \in GrantRecords /\ w.pair = issued[g].pair /\ w.live = FALSE /\ w.package = issued[g].package /\ w.pair \in RolePairs
  BY <1>2 DEF GrantRecords
<1>4. y = [issued EXCEPT ![g] = w]
  OBVIOUS
<1> HIDE DEF w
<1>5. /\ y \in [1 .. n -> GrantRecords] /\ DOMAIN y = DOMAIN issued
      /\ y[g] = w /\ \A h \in DOMAIN issued \ {g} : y[h] = issued[h]
  BY <1>1, <1>3, <1>4
<1>6. Log(y)
  BY <1>5 DEF Log
<1>7. OneEach(y)
  BY <1>3, <1>5 DEF OneEach, LiveIn
<1>8. Later(issued, y, {issued[g].pair})
  BY <1>3, <1>5 DEF Later
<1> QED BY <1>3, <1>5, <1>6, <1>7, <1>8

-----------------------------------------------------------------------------
(* Packages: the requests *)

Requests ==
  [op : {"sync", "revoke"}, step : {"read", "write"}, has : SUBSET {"capabilities", "principals", "grants"},
   targets : SUBSET RolePairs, known : SUBSET (PackageRoles \cup OtherRoles), live : SUBSET Nat,
   left : SUBSET RolePairs, entry : Nat, seen : SUBSET Nat, revoked : SUBSET RolePairs]

(* While it reads, what it saw live is, or has been revoked since; when it *)
(* works, what it does not have left to do is done, or undone since.       *)
OnCourse(r, grants) ==
  /\ r.live \subseteq DOMAIN grants /\ r.seen \subseteq DOMAIN grants
  /\ r.step = "read" => \A g \in r.live : grants[g].live \/ grants[g].pair \in r.revoked
  /\ r.step = "write" => /\ r.targets \subseteq r.left \cup LivePairsIn(grants) \cup r.revoked
                         /\ \A g \in r.seen : g \in r.live \/ ~grants[g].live

LEMMA StaysOnCourse ==
  ASSUME NEW x, NEW y, NEW r \in Requests, NEW s \in Requests, NEW gone \in SUBSET RolePairs,
         OnCourse(r, x), Later(x, y, gone),
         s.step = r.step, s.targets = r.targets, s.seen = r.seen,
         s.live \subseteq r.live, \A g \in r.live \ s.live : ~y[g].live,
         r.left \subseteq s.left \cup LivePairsIn(y),
         r.revoked \cup gone \subseteq s.revoked
  PROVE  OnCourse(s, y)
<1>1. \A p \in LivePairsIn(x) : p \in LivePairsIn(y) \/ p \in gone
  BY DEF LivePairsIn, LiveIn, Later
<1>2. s.live \subseteq DOMAIN y /\ s.seen \subseteq DOMAIN y
  BY DEF OnCourse, Later
<1>3. s.step = "read" => \A g \in s.live : y[g].live \/ y[g].pair \in s.revoked
  BY DEF OnCourse, Later
<1>4. s.step = "write" => s.targets \subseteq s.left \cup LivePairsIn(y) \cup s.revoked
  BY <1>1 DEF OnCourse
<1>5. s.step = "write" => \A g \in s.seen : g \in s.live \/ ~y[g].live
  BY DEF OnCourse, Later
<1> QED BY <1>2, <1>3, <1>4, <1>5 DEF OnCourse

PackagesType ==
  /\ Log(issued) /\ byHand \in Nat
  /\ capTier \in [Owned -> CapTiers \cup {Unknown}]
  /\ roles \subseteq PackageRoles \cup OtherRoles
  /\ request \in [Operators -> Requests \cup {Idle}]

(* A grant of the package is in the audit log, or will be by the request   *)
(* that issued it, unless a request was broken off.                        *)
PackagesInv ==
  /\ PackagesType
  /\ OneEach(issued)
  /\ \A a \in Operators : request[a] # Idle => OnCourse(request[a], issued)
  /\ byHand = 0 =>
       \A g \in DOMAIN issued : issued[g].package =>
         g \in audited \/ (g # 0 /\ \E a \in Operators : request[a] # Idle /\ request[a].entry = g)

LEMMA IdleIsNoRequest ==
  Idle \notin Requests
<1>1. \A r \in Requests : r.op # "none"
  BY DEF Requests
<1>2. Idle.op = "none"
  BY DEF Idle
<1> QED BY <1>1, <1>2

LEMMA RequestChanges ==
  ASSUME PackagesInv, NEW a \in Operators, NEW w \in Requests \cup {Idle},
         request' = [request EXCEPT ![a] = w], UNCHANGED <<capTier, roles, issued>>,
         w # Idle => OnCourse(w, issued),
         audited \subseteq audited', byHand' \in Nat, byHand' = 0 => byHand = 0,
         \/ byHand' # 0 \/ request[a] = Idle
         \/ request[a].entry = 0 \/ request[a].entry \in audited'
         \/ w # Idle /\ w.entry = request[a].entry
  PROVE  PackagesInv'
<1>1. /\ request' \in [Operators -> Requests \cup {Idle}] /\ request'[a] = w
      /\ \A b \in Operators \ {a} : request'[b] = request[b]
  BY DEF PackagesInv, PackagesType
<1>2. PackagesType'
  BY <1>1 DEF PackagesInv, PackagesType
<1>3. OneEach(issued)'
  BY DEF PackagesInv
<1>4. \A b \in Operators : request'[b] # Idle => OnCourse(request'[b], issued')
  BY <1>1 DEF PackagesInv
<1>5. ASSUME byHand' = 0, NEW g \in DOMAIN issued, issued[g].package
      PROVE  g \in audited' \/ (g # 0 /\ \E b \in Operators : request'[b] # Idle /\ request'[b].entry = g)
  <2>1. g \in audited \/ (g # 0 /\ \E b \in Operators : request[b] # Idle /\ request[b].entry = g)
    BY <1>5 DEF PackagesInv
  <2>2. CASE g \in audited
    BY <2>2
  <2>3. ASSUME g # 0, NEW b \in Operators, request[b] # Idle, request[b].entry = g
        PROVE  g \in audited' \/ \E c \in Operators : request'[c] # Idle /\ request'[c].entry = g
    <3>1. CASE b = a
      BY <1>1, <1>5, <2>3, <3>1
    <3>2. CASE b # a
      BY <1>1, <2>3, <3>2
    <3> QED BY <3>1, <3>2
  <2> QED BY <2>1, <2>2, <2>3
<1> QED BY <1>2, <1>3, <1>4, <1>5 DEF PackagesInv

(* Grants are given or revoked, and every other request learns of it.      *)
LEMMA GrantsChange ==
  ASSUME PackagesInv, NEW gone \in SUBSET RolePairs,
         Log(issued'), OneEach(issued'), Later(issued, issued', gone),
         UNCHANGED <<capTier, roles, audited>>, byHand' \in Nat, byHand' = 0 => byHand = 0,
         request' \in [Operators -> Requests \cup {Idle}],
         \A b \in Operators : request'[b] # Idle => OnCourse(request'[b], issued'),
         \A b \in Operators : request[b] # Idle =>
           request'[b] # Idle /\ (request'[b].entry = request[b].entry \/ request[b].entry = 0),
         \A g \in DOMAIN issued' : issued'[g].package =>
           \/ g \in DOMAIN issued /\ issued[g].package
           \/ byHand' # 0
           \/ g # 0 /\ \E b \in Operators : request'[b] # Idle /\ request'[b].entry = g
  PROVE  PackagesInv'
<1>1. PackagesType'
  BY DEF PackagesInv, PackagesType
<1>2. ASSUME byHand' = 0, NEW g \in DOMAIN issued', issued'[g].package
      PROVE  g \in audited' \/ (g # 0 /\ \E b \in Operators : request'[b] # Idle /\ request'[b].entry = g)
  <2>1. CASE g # 0 /\ \E b \in Operators : request'[b] # Idle /\ request'[b].entry = g
    BY <2>1
  <2>2. CASE g \in DOMAIN issued /\ issued[g].package
    <3>1. g \in audited \/ (g # 0 /\ \E b \in Operators : request[b] # Idle /\ request[b].entry = g)
      BY <1>2, <2>2 DEF PackagesInv
    <3> QED BY <3>1
  <2> QED BY <1>2, <2>1, <2>2
<1> QED BY <1>1, <1>2 DEF PackagesInv

-----------------------------------------------------------------------------
(* Packages: the steps of a request *)

LEMMA Begins ==
  ASSUME NEW op \in {"sync", "revoke"}
  PROVE  Begun(op) \in Requests /\ Begun(op) # Idle /\ OnCourse(Begun(op), issued)
<1>1. Begun(op) \in Requests
  BY DEF Begun, Requests
<1>2. Begun(op).live = {} /\ Begun(op).seen = {} /\ Begun(op).step = "read"
  BY DEF Begun
<1> QED BY <1>1, <1>2, IdleIsNoRequest DEF OnCourse

LEMMA TargetsArePairs ==
  ASSUME NEW op
  PROVE  Targets(op) \subseteq RolePairs
BY Zenon DEF Targets, RolePairs, Known

LEMMA RequestReads ==
  ASSUME PackagesInv, NEW a \in Operators, Reading(a),
         NEW w \in Requests, w.step = "read", w.seen = request[a].seen, w.entry = request[a].entry,
         w.revoked = request[a].revoked, w.live = request[a].live \/ w.live = LiveNow,
         request' = [request EXCEPT ![a] = w], UNCHANGED <<enabled, capTier, roles, issued, audited, byHand>>
  PROVE  PackagesInv'
<1>1. request[a] # Idle /\ request[a].step = "read" /\ OnCourse(request[a], issued)
  BY DEF Reading, PackagesInv
<1>2. OnCourse(w, issued)
  BY <1>1 DEF OnCourse, LiveNow
<1>3. w # Idle /\ w \in Requests \cup {Idle}
  BY IdleIsNoRequest
<1> QED BY <1>2, <1>3, RequestChanges DEF PackagesInv, PackagesType

LEMMA RequestAsks ==
  ASSUME PackagesInv, NEW a \in Operators
  PROVE  /\ \A to \in BOOLEAN : SetEnabled(a, to) => PackagesInv'
         /\ \A op \in {"sync", "revoke"} : Ask(a, op) => PackagesInv'
<1>1. \A op \in {"sync", "revoke"} : Begun(op) \in Requests \cup {Idle} /\ OnCourse(Begun(op), issued)
  BY Begins
<1>2. byHand \in Nat
  BY DEF PackagesInv, PackagesType
<1>3. ASSUME NEW op \in {"sync", "revoke"}, request[a] = Idle, request' = [request EXCEPT ![a] = Begun(op)],
             UNCHANGED <<capTier, roles, issued, audited, byHand>>
      PROVE  PackagesInv'
  BY <1>1, <1>2, <1>3, RequestChanges
<1>4. ASSUME UNCHANGED <<capTier, roles, issued, audited, request, byHand>> PROVE PackagesInv'
  BY <1>4 DEF PackagesInv, PackagesType
<1>5. ASSUME NEW to \in BOOLEAN, SetEnabled(a, to) PROVE PackagesInv'
  BY <1>3, <1>4, <1>5 DEF SetEnabled
<1> QED BY <1>3, <1>5 DEF Ask

LEMMA RequestLists ==
  ASSUME PackagesInv, NEW a \in Operators, ListCapabilities(a) \/ ListPrincipals(a) \/ ListGrants(a)
  PROVE  PackagesInv'
<1> DEFINE r == request[a]
<1>1. Reading(a)
  BY DEF ListCapabilities, ListPrincipals, ListGrants
<1>2. r \in Requests /\ r.step = "read"
  BY <1>1 DEF Reading, PackagesInv, PackagesType
<1>3. CASE ListCapabilities(a)
  <2> DEFINE w == [r EXCEPT !.targets = Targets(r.op), !.has = @ \cup {"capabilities"}]
  <2>1. w \in Requests /\ w.step = r.step /\ w.seen = r.seen /\ w.entry = r.entry /\ w.revoked = r.revoked /\ w.live = r.live
    BY <1>2, TargetsArePairs DEF Requests
  <2>2. request' = [request EXCEPT ![a] = w] /\ UNCHANGED <<enabled, capTier, roles, issued, audited, byHand>>
    BY <1>3 DEF ListCapabilities, PackagesInv, PackagesType
  <2> HIDE DEF w
  <2> QED BY <1>1, <1>2, <2>1, <2>2, RequestReads
<1>4. CASE ListPrincipals(a)
  <2> DEFINE w == [r EXCEPT !.known = roles, !.has = @ \cup {"principals"}]
  <2>1. w \in Requests /\ w.step = r.step /\ w.seen = r.seen /\ w.entry = r.entry /\ w.revoked = r.revoked /\ w.live = r.live
    BY <1>2 DEF Requests, PackagesInv, PackagesType
  <2>2. request' = [request EXCEPT ![a] = w] /\ UNCHANGED <<enabled, capTier, roles, issued, audited, byHand>>
    BY <1>4 DEF ListPrincipals, PackagesInv, PackagesType
  <2> HIDE DEF w
  <2> QED BY <1>1, <1>2, <2>1, <2>2, RequestReads
<1>5. CASE ListGrants(a)
  <2> DEFINE w == [r EXCEPT !.live = LiveNow, !.has = @ \cup {"grants"}]
  <2>1. LiveNow \subseteq Nat
    BY DEF LiveNow, PackagesInv, PackagesType, Log
  <2>2. w \in Requests /\ w.step = r.step /\ w.seen = r.seen /\ w.entry = r.entry /\ w.revoked = r.revoked /\ w.live = LiveNow
    BY <1>2, <2>1 DEF Requests
  <2>3. request' = [request EXCEPT ![a] = w] /\ UNCHANGED <<enabled, capTier, roles, issued, audited, byHand>>
    BY <1>5 DEF ListGrants, PackagesInv, PackagesType
  <2> HIDE DEF w
  <2> QED BY <1>1, <1>2, <2>2, <2>3, RequestReads
<1> QED BY <1>3, <1>4, <1>5

LEMMA RequestWorks ==
  ASSUME PackagesInv, NEW a \in Operators, StartWork(a)
  PROVE  PackagesInv'
<1> DEFINE r == request[a]
           grant == ToGrant(r)
           revoke == ToRevoke(r)
           sync == r.op = "sync"
           w == [r EXCEPT !.step = "write", !.has = {}, !.known = {}, !.live = IF sync THEN {} ELSE revoke,
                          !.targets = IF sync THEN grant ELSE {},
                          !.left = IF sync THEN grant \ PairsOf(r.live) ELSE {},
                          !.seen = IF sync THEN {} ELSE revoke]
<1>1. r \in Requests /\ r # Idle /\ r.step = "read" /\ OnCourse(r, issued)
  BY DEF StartWork, Reading, PackagesInv, PackagesType
<1>2. request' = [request EXCEPT ![a] = w] /\ UNCHANGED <<enabled, capTier, roles, issued, audited, byHand>>
  BY DEF StartWork
<1>3. grant \subseteq r.targets /\ grant \in SUBSET RolePairs
  BY <1>1 DEF ToGrant, Requests
<1>4. revoke \subseteq r.live /\ revoke \in SUBSET Nat
  BY <1>1 DEF ToRevoke, Requests
<1>5. grant \ PairsOf(r.live) \in SUBSET RolePairs
  BY <1>3
<1>6. r.live \subseteq DOMAIN issued /\ \A g \in r.live : issued[g].live \/ issued[g].pair \in r.revoked
  BY <1>1 DEF OnCourse
<1>7. PairsOf(r.live) \subseteq LivePairsIn(issued) \cup r.revoked
  BY <1>6 DEF PairsOf, LivePairsIn, LiveIn
<1> HIDE DEF grant, revoke, sync
<1>8. /\ w \in Requests /\ w.step = "write" /\ w.entry = r.entry /\ w.revoked = r.revoked
      /\ w.live = IF sync THEN {} ELSE revoke
      /\ w.targets = IF sync THEN grant ELSE {}
      /\ w.left = IF sync THEN grant \ PairsOf(r.live) ELSE {}
      /\ w.seen = IF sync THEN {} ELSE revoke
  BY <1>1, <1>3, <1>4, <1>5 DEF Requests
<1> HIDE DEF w
<1>9. OnCourse(w, issued)
  BY <1>4, <1>6, <1>7, <1>8 DEF OnCourse
<1>10. w # Idle /\ byHand \in Nat
  BY <1>8, IdleIsNoRequest DEF PackagesInv, PackagesType
<1> HIDE DEF r
<1>11. request[a] = r
  BY DEF r
<1> QED BY <1>2, <1>8, <1>9, <1>10, <1>11, RequestChanges

LEMMA AtWorkFacts ==
  ASSUME PackagesInv, NEW a \in Operators, AtWork(a)
  PROVE  /\ request[a] \in Requests /\ request[a] # Idle /\ request[a].entry = 0
         /\ OnCourse(request[a], issued) /\ byHand \in Nat
         /\ issued' = issued => Later(issued, issued', {})
BY DEF AtWork, PackagesInv, PackagesType, Later

LEMMA RequestEnds ==
  ASSUME PackagesInv, NEW a \in Operators, request' = [request EXCEPT ![a] = Idle],
         UNCHANGED <<capTier, roles, issued, audited>>,
         \/ request[a].entry = 0 /\ UNCHANGED byHand
         \/ ByHand
  PROVE  PackagesInv'
<1>1. byHand' \in Nat /\ (byHand' = 0 => byHand = 0) /\ (ByHand => byHand' # 0)
  BY DEF ByHand, PackagesInv, PackagesType
<1> QED BY <1>1, RequestChanges

LEMMA RequestGrants ==
  ASSUME PackagesInv, NEW a \in Operators, NEW p \in RolePairs, InsertGrant(a, p)
  PROVE  PackagesInv'
<1> DEFINE r == request[a]
<1>1. /\ r \in Requests /\ r # Idle /\ r.entry = 0 /\ OnCourse(r, issued) /\ byHand \in Nat
      /\ UNCHANGED <<enabled, capTier, roles, audited, byHand>>
  BY AtWorkFacts DEF InsertGrant
<1>2. CASE request' = [request EXCEPT ![a] = Idle] /\ UNCHANGED issued
  BY <1>1, <1>2, RequestEnds
<1>3. CASE p \in LivePairs /\ request' = [request EXCEPT ![a].left = @ \ {p}] /\ UNCHANGED issued
  <2> DEFINE w == [r EXCEPT !.left = @ \ {p}]
  <2>1. /\ w \in Requests /\ w.step = r.step /\ w.targets = r.targets /\ w.seen = r.seen /\ w.live = r.live
        /\ w.left = r.left \ {p} /\ w.revoked = r.revoked
    BY <1>1 DEF Requests
  <2>2. request' = [request EXCEPT ![a] = w]
    BY <1>3
  <2>3. p \in LivePairsIn(issued)
    BY <1>3 DEF LivePairs, LivePairsIn, LiveIn
  <2> HIDE DEF w
  <2>4. Later(issued, issued, {})
    BY DEF Later
  <2>5. OnCourse(w, issued)
    BY <1>1, <2>1, <2>3, <2>4, StaysOnCourse
  <2>6. w \in Requests \cup {Idle} /\ request[a].entry = 0 /\ audited \subseteq audited'
    BY <1>1, <2>1
  <2> QED BY <1>1, <1>3, <2>2, <2>5, <2>6, RequestChanges
<1>4. CASE /\ p \notin LivePairs /\ issued' = WithGrant(p, TRUE)
           /\ request' = [request EXCEPT ![a] = [request[a] EXCEPT !.left = @ \ {p}, !.entry = Cardinality(DOMAIN issued')]]
  <2> DEFINE n == Cardinality(DOMAIN issued')
             w == [r EXCEPT !.left = @ \ {p}, !.entry = n]
  <2>1. /\ Log(issued') /\ OneEach(issued') /\ Later(issued, issued', {}) /\ p \in LivePairsIn(issued')
        /\ n \in Nat \ {0}
        /\ \A g \in DOMAIN issued' : issued'[g].package => (g \in DOMAIN issued /\ issued[g].package) \/ g = n
    BY <1>4, GrantGiven DEF PackagesInv, PackagesType
  <2> HIDE DEF n
  <2>2. /\ w \in Requests /\ w.step = r.step /\ w.targets = r.targets /\ w.seen = r.seen /\ w.live = r.live
        /\ w.left = r.left \ {p} /\ w.revoked = r.revoked /\ w.entry = n
    BY <1>1, <2>1 DEF Requests
  <2>3. request' = [request EXCEPT ![a] = w]
    BY <1>4 DEF n
  <2> HIDE DEF w
  <2>4. OnCourse(w, issued')
    BY <1>1, <2>1, <2>2, StaysOnCourse
  <2>5. w # Idle
    BY <2>2, IdleIsNoRequest
  <2>6. /\ request \in [Operators -> Requests \cup {Idle}]
        /\ request' \in [Operators -> Requests \cup {Idle}]
        /\ request'[a] = w /\ \A b \in Operators \ {a} : request'[b] = request[b]
    BY <2>2, <2>3 DEF PackagesInv, PackagesType
  <2>7. ASSUME NEW b \in Operators \ {a}, request[b] # Idle PROVE OnCourse(request[b], issued')
    BY <2>1, <2>6, <2>7, StaysOnCourse DEF PackagesInv
  <2>8. \A b \in Operators : request'[b] # Idle => OnCourse(request'[b], issued')
    BY <2>4, <2>6, <2>7
  <2>9. \A b \in Operators : request[b] # Idle =>
          request'[b] # Idle /\ (request'[b].entry = request[b].entry \/ request[b].entry = 0)
    BY <1>1, <2>5, <2>6
  <2>10. \A g \in DOMAIN issued' : issued'[g].package =>
           \/ g \in DOMAIN issued /\ issued[g].package
           \/ g # 0 /\ \E b \in Operators : request'[b] # Idle /\ request'[b].entry = g
    BY <2>1, <2>2, <2>5, <2>6
  <2> QED BY <1>1, <2>1, <2>6, <2>8, <2>9, <2>10, GrantsChange
<1> QED BY <1>2, <1>3, <1>4 DEF InsertGrant

LEMMA RequestRecords ==
  ASSUME PackagesInv, NEW a \in Operators, RecordAuditEntry(a)
  PROVE  PackagesInv'
<1> DEFINE r == request[a]
           w == [r EXCEPT !.entry = 0]
<1>1. r \in Requests /\ r # Idle /\ OnCourse(r, issued) /\ byHand \in Nat
  BY DEF RecordAuditEntry, PackagesInv, PackagesType
<1>2. /\ w \in Requests /\ w.step = r.step /\ w.targets = r.targets /\ w.seen = r.seen /\ w.live = r.live
      /\ w.left = r.left /\ w.revoked = r.revoked
  BY <1>1 DEF Requests
<1>3. request' = [request EXCEPT ![a] = w] /\ audited' = audited \cup {request[a].entry}
      /\ UNCHANGED <<capTier, roles, issued, byHand>>
  BY DEF RecordAuditEntry
<1> HIDE DEF w
<1>4. OnCourse(w, issued)
  BY <1>1, <1>2 DEF OnCourse
<1> QED BY <1>1, <1>2, <1>3, <1>4, RequestChanges

-----------------------------------------------------------------------------
(* Packages: grants that are revoked, and the rest *)

(* left is request, or what it is without the grant on somebody's list.    *)
LEMMA GrantTakenBack ==
  ASSUME PackagesInv, NEW g \in DOMAIN issued, NEW left,
         \A b \in Operators : request[b] = Idle => left[b] = Idle,
         \A b \in Operators : request[b] # Idle =>
           /\ left[b] \in Requests
           /\ left[b].step = request[b].step /\ left[b].targets = request[b].targets
           /\ left[b].seen = request[b].seen /\ left[b].left = request[b].left
           /\ left[b].revoked = request[b].revoked /\ left[b].entry = request[b].entry
           /\ left[b].live \subseteq request[b].live /\ request[b].live \ left[b].live \subseteq {g},
         Revoked(g, left), UNCHANGED <<capTier, roles, audited>>,
         byHand' \in Nat, byHand' = 0 => byHand = 0
  PROVE  PackagesInv'
<1> DEFINE gone == {issued[g].pair}
<1>1. /\ Log(issued') /\ OneEach(issued') /\ Later(issued, issued', gone) /\ ~issued'[g].live
      /\ issued[g].pair \in RolePairs
      /\ DOMAIN issued' = DOMAIN issued /\ \A h \in DOMAIN issued' : issued'[h].package = issued[h].package
  <2>1. issued' = [issued EXCEPT ![g].live = FALSE]
    BY Zenon DEF Revoked
  <2>2. Log(issued) /\ OneEach(issued)
    BY DEF PackagesInv, PackagesType
  <2>3. \A y : y = [issued EXCEPT ![g].live = FALSE] =>
          /\ Log(y) /\ OneEach(y) /\ Later(issued, y, {issued[g].pair}) /\ ~y[g].live
          /\ issued[g].pair \in RolePairs
          /\ DOMAIN y = DOMAIN issued /\ \A h \in DOMAIN y : y[h].package = issued[h].package
    BY <2>2, GrantRevoked
  <2> QED BY <2>1, <2>3
<1>2. request \in [Operators -> Requests \cup {Idle}]
  BY DEF PackagesInv, PackagesType
<1>3. \A b \in Operators : request[b] = Idle => request'[b] = Idle
  BY DEF Revoked
<1>4. ASSUME NEW b \in Operators, request[b] # Idle
      PROVE  request'[b] \in Requests /\ request'[b].entry = request[b].entry /\ OnCourse(request'[b], issued')
  <2> DEFINE r == request[b]
             l == left[b]
             s == [l EXCEPT !.revoked = @ \cup {issued[g].pair}]
  <2>1. l \in Requests /\ l # Idle /\ request'[b] = s
    BY <1>4, IdleIsNoRequest DEF Revoked
  <2>2. /\ s \in Requests /\ s.step = l.step /\ s.targets = l.targets /\ s.seen = l.seen /\ s.left = l.left
        /\ s.revoked = l.revoked \cup gone /\ s.entry = l.entry /\ s.live = l.live
    BY <1>1, <2>1 DEF Requests
  <2>3. /\ l.step = r.step /\ l.targets = r.targets /\ l.seen = r.seen /\ l.left = r.left
        /\ l.revoked = r.revoked /\ l.entry = r.entry
        /\ l.live \subseteq r.live /\ r.live \ l.live \subseteq {g}
    BY <1>4
  <2>4. r \in Requests /\ OnCourse(r, issued) /\ gone \in SUBSET RolePairs
    BY <1>1, <1>2, <1>4 DEF PackagesInv
  <2> HIDE DEF s, l, gone
  <2>5. \A h \in r.live \ s.live : ~issued'[h].live
    BY <1>1, <2>2, <2>3
  <2>6. s.live \subseteq r.live /\ r.left \subseteq s.left \cup LivePairsIn(issued') /\ r.revoked \cup gone \subseteq s.revoked
    BY <2>2, <2>3
  <2>7. s.step = r.step /\ s.targets = r.targets /\ s.seen = r.seen /\ s.entry = r.entry
    BY <2>2, <2>3
  <2> HIDE DEF r
  <2>8. OnCourse(s, issued')
    BY <1>1, <2>2, <2>4, <2>5, <2>6, <2>7, StaysOnCourse
  <2> QED BY <2>1, <2>2, <2>7, <2>8 DEF r
<1>5. \A b \in Operators : request'[b] # Idle => OnCourse(request'[b], issued')
  BY <1>3, <1>4
<1>6. \A b \in Operators : request[b] # Idle => request'[b] # Idle /\ request'[b].entry = request[b].entry
  BY <1>4, IdleIsNoRequest
<1>7. request' \in [Operators -> Requests \cup {Idle}]
  <2>1. \A b \in Operators : request'[b] \in Requests \cup {Idle}
    BY <1>2, <1>3, <1>4
  <2>2. request' = [b \in Operators |-> request'[b]]
    BY DEF Revoked
  <2> QED BY <2>1, <2>2
<1>8. \A h \in DOMAIN issued' : issued'[h].package => h \in DOMAIN issued /\ issued[h].package
  BY <1>1
<1>9. gone \in SUBSET RolePairs
  BY <1>1
<1> HIDE DEF gone
<1> QED BY <1>1, <1>5, <1>6, <1>7, <1>8, <1>9, GrantsChange

LEMMA RequestRevokes ==
  ASSUME PackagesInv, NEW a \in Operators, NEW g \in DOMAIN issued, RevokeGrant(a, g)
  PROVE  PackagesInv'
<1> DEFINE r == request[a]
           w == [r EXCEPT !.live = @ \ {g}]
           left == [request EXCEPT ![a].live = @ \ {g}]
<1>1. /\ r \in Requests /\ r # Idle /\ r.entry = 0 /\ OnCourse(r, issued) /\ byHand \in Nat
      /\ UNCHANGED <<enabled, capTier, roles, audited, byHand>>
  BY AtWorkFacts DEF RevokeGrant
<1>2. /\ w \in Requests /\ w.step = r.step /\ w.targets = r.targets /\ w.seen = r.seen /\ w.left = r.left
      /\ w.revoked = r.revoked /\ w.entry = r.entry /\ w.live = r.live \ {g}
  BY <1>1 DEF Requests
<1>3. left = [request EXCEPT ![a] = w]
  OBVIOUS
<1>4. request \in [Operators -> Requests \cup {Idle}]
  BY DEF PackagesInv, PackagesType
<1>5. \/ issued[g].live /\ Revoked(g, left)
      \/ ~issued[g].live /\ request' = left /\ UNCHANGED issued
  BY DEF RevokeGrant
<1> HIDE DEF w, left
<1>6. left[a] = w /\ \A b \in Operators \ {a} : left[b] = request[b]
  BY <1>3, <1>4
<1>7. CASE Revoked(g, left)
  <2>1. \A b \in Operators : request[b] = Idle => left[b] = Idle
    BY <1>1, <1>6
  <2>2. ASSUME NEW b \in Operators, request[b] # Idle
        PROVE  /\ left[b] \in Requests
               /\ left[b].step = request[b].step /\ left[b].targets = request[b].targets
               /\ left[b].seen = request[b].seen /\ left[b].left = request[b].left
               /\ left[b].revoked = request[b].revoked /\ left[b].entry = request[b].entry
               /\ left[b].live \subseteq request[b].live /\ request[b].live \ left[b].live \subseteq {g}
    <3>1. CASE b = a
      BY <1>2, <1>6, <3>1
    <3>2. CASE b # a
      <4>1. left[b] = request[b] /\ request[b] \in Requests
        BY <1>4, <1>6, <2>2, <3>2
      <4> QED BY <4>1
    <3> QED BY <3>1, <3>2
  <2> QED BY <1>1, <1>7, <2>1, <2>2, GrantTakenBack
<1>8. CASE ~issued[g].live /\ request' = left /\ UNCHANGED issued
  <2>1. Later(issued, issued, {})
    BY DEF Later
  <2>2. OnCourse(w, issued)
    BY <1>1, <1>2, <1>8, <2>1, StaysOnCourse
  <2> QED BY <1>1, <1>2, <1>3, <1>8, <2>2, RequestChanges
<1> QED BY <1>5, <1>7, <1>8

LEMMA GrantsByHand ==
  ASSUME PackagesInv
  PROVE  /\ \A p \in RolePairs : GrantByHand(p) => PackagesInv'
         /\ \A g \in DOMAIN issued : RevokeByHand(g) => PackagesInv'
<1>1. byHand \in Nat /\ (ByHand => byHand' \in Nat /\ byHand' # 0) /\ request \in [Operators -> Requests \cup {Idle}]
  BY DEF ByHand, PackagesInv, PackagesType
<1>2. ASSUME NEW p \in RolePairs, GrantByHand(p) PROVE PackagesInv'
  <2>1. ByHand /\ p \notin LivePairs /\ issued' = WithGrant(p, FALSE) /\ UNCHANGED <<enabled, capTier, roles, audited, request>>
    BY <1>2 DEF GrantByHand
  <2>2. Log(issued') /\ OneEach(issued') /\ Later(issued, issued', {})
    BY <2>1, GrantGiven DEF PackagesInv, PackagesType
  <2>3. ASSUME NEW b \in Operators, request[b] # Idle PROVE OnCourse(request[b], issued')
    BY <1>1, <2>2, <2>3, StaysOnCourse DEF PackagesInv
  <2> QED BY <1>1, <2>1, <2>2, <2>3, GrantsChange
<1>3. ASSUME NEW g \in DOMAIN issued, RevokeByHand(g) PROVE PackagesInv'
  <2>1. ByHand /\ Revoked(g, request) /\ UNCHANGED <<enabled, capTier, roles, audited>>
    BY <1>3 DEF RevokeByHand
  <2>2. \A b \in Operators : request[b] # Idle => request[b] \in Requests
    BY <1>1
  <2>3. byHand' \in Nat /\ (byHand' = 0 => byHand = 0)
    BY <1>1, <2>1
  <2> QED BY <2>1, <2>2, <2>3, GrantTakenBack
<1> QED BY <1>2, <1>3

LEMMA Registers ==
  ASSUME PackagesInv
  PROVE  /\ \A c \in Owned, tier \in CapTiers : RegisterCapability(c, tier) => PackagesInv'
         /\ \A role \in PackageRoles \cup OtherRoles : RegisterRole(role) => PackagesInv'
<1>1. byHand \in Nat /\ (ByHand => byHand' \in Nat /\ byHand' # 0)
  BY DEF ByHand, PackagesInv, PackagesType
<1>2. ASSUME ByHand, capTier' \in [Owned -> CapTiers \cup {Unknown}], roles' \subseteq PackageRoles \cup OtherRoles,
             UNCHANGED <<issued, audited, request>>
      PROVE  PackagesInv'
  BY <1>1, <1>2 DEF PackagesInv, PackagesType
<1>3. ASSUME NEW c \in Owned, NEW tier \in CapTiers, RegisterCapability(c, tier) PROVE PackagesInv'
  BY <1>2, <1>3 DEF RegisterCapability, PackagesInv, PackagesType
<1>4. ASSUME NEW role \in PackageRoles \cup OtherRoles, RegisterRole(role) PROVE PackagesInv'
  BY <1>2, <1>4 DEF RegisterRole, PackagesInv, PackagesType
<1> QED BY <1>3, <1>4

LEMMA PackagesStep ==
  ASSUME PackagesInv, [PackagesNext]_packageVars
  PROVE  PackagesInv'
<1>1. CASE UNCHANGED packageVars
  BY <1>1 DEF packageVars, PackagesInv, PackagesType
<1>2. ASSUME NEW a \in Operators, (\E to \in BOOLEAN : SetEnabled(a, to)) \/ (\E op \in {"sync", "revoke"} : Ask(a, op))
      PROVE  PackagesInv'
  BY <1>2, RequestAsks
<1>3. ASSUME NEW a \in Operators, ListCapabilities(a) \/ ListPrincipals(a) \/ ListGrants(a) PROVE PackagesInv'
  BY <1>3, RequestLists
<1>4. ASSUME NEW a \in Operators, StartWork(a) PROVE PackagesInv'
  BY <1>4, RequestWorks
<1>5. ASSUME NEW a \in Operators, NEW p \in RolePairs, InsertGrant(a, p) PROVE PackagesInv'
  BY <1>5, RequestGrants
<1>6. ASSUME NEW a \in Operators, NEW g \in DOMAIN issued, RevokeGrant(a, g) PROVE PackagesInv'
  BY <1>6, RequestRevokes
<1>7. ASSUME NEW a \in Operators, RecordAuditEntry(a) PROVE PackagesInv'
  BY <1>7, RequestRecords
<1>8. ASSUME NEW a \in Operators, Answer(a) PROVE PackagesInv'
  BY <1>8, AtWorkFacts, RequestEnds DEF Answer, Done
<1>9. ASSUME NEW a \in Operators, BreakOff(a) PROVE PackagesInv'
  BY <1>9, RequestEnds DEF BreakOff
<1> QED BY <1>1, <1>2, <1>3, <1>4, <1>5, <1>6, <1>7, <1>8, <1>9, GrantsByHand, Registers DEF PackagesNext

LEMMA PackagesStart ==
  PackagesInit => PackagesInv
<1> SUFFICES ASSUME PackagesInit PROVE PackagesInv
  OBVIOUS
<1>1. issued = <<>> /\ byHand = 0 /\ request = [a \in Operators |-> Idle]
  BY DEF PackagesInit
<1>2. DOMAIN issued = {} /\ issued \in [1 .. 0 -> GrantRecords]
  BY <1>1
<1>3. Log(issued) /\ OneEach(issued)
  BY <1>2 DEF Log, OneEach, LiveIn
<1>4. PackagesType
  BY <1>1, <1>3 DEF PackagesInit, PackagesType
<1> QED BY <1>1, <1>2, <1>3, <1>4 DEF PackagesInv

LEMMA WordKept ==
  PackagesInv => PackagesKeepWord
<1> SUFFICES ASSUME PackagesInv PROVE PackagesKeepWord
  OBVIOUS
<1>1. ASSUME NEW a \in Operators, Done(a) PROVE Kept(a)
  <2>1. /\ request[a].step = "write" /\ request[a].left = {} /\ request[a].live = {} /\ OnCourse(request[a], issued)
    BY <1>1 DEF Done, AtWork, PackagesInv
  <2>2. LivePairsIn(issued) = LivePairs
    BY DEF LivePairs, LivePairsIn, LiveIn
  <2> QED BY <2>1, <2>2 DEF Kept, OnCourse
<1>2. \A g, h \in LiveNow : issued[g].pair = issued[h].pair => g = h
  BY DEF PackagesInv, OneEach, LiveIn, LiveNow
<1>3. (\A a \in Operators : request[a] = Idle) /\ byHand = 0 => \A g \in DOMAIN issued : issued[g].package => g \in audited
  BY DEF PackagesInv
<1> QED BY <1>1, <1>2, <1>3 DEF PackagesKeepWord

(* A sync leaves live what it had to see to, a revoke takes back what it   *)
(* saw, no pair is granted twice, and the package's grants are audited,    *)
(* for any number of administrators, roles and capabilities, and whichever *)
(* requests break off (packages.js).                                       *)
THEOREM PackagesTrue == PackagesInit /\ [][PackagesNext]_packageVars => []PackagesKeepWord
BY PackagesStart, PackagesStep, WordKept, PTL

-----------------------------------------------------------------------------
(* The three of them, in the whole that is checked *)

LimitsInv == RateType /\ PromiseInv /\ RateInv /\ MergeInv /\ WindowsType /\ WindowInv

LEMMA LimitsStart ==
  LimitsInit => LimitsInv
<1>1. VelocityInit => RateType /\ PromiseInv /\ RateInv
  BY RateStart
<1> QED BY <1>1, MergeStart, WindowsStart DEF LimitsInit, LimitsInv

LEMMA LimitsStep ==
  ASSUME LimitsInv, [LimitsNext]_limitedVars
  PROVE  LimitsInv'
<1>1. /\ [VelocityNext]_velocityVars
      /\ [ConstraintNext]_constraintVars
      /\ [WindowsNext]_windowVars
  BY DEF LimitsNext, limitedVars
<1>2. RateType' /\ PromiseInv' /\ RateInv'
  BY <1>1, RateTypeStep, PromiseStep, RateStep DEF LimitsInv
<1>3. MergeInv'
  BY <1>1, MergeStep DEF LimitsInv
<1>4. WindowsType' /\ WindowInv'
  BY <1>1, WindowsStep DEF LimitsInv
<1> QED BY <1>2, <1>3, <1>4 DEF LimitsInv

(* What policy limits is limited to what the code says, in any fleet of    *)
(* the whole that policy_hostile checks.                                   *)
THEOREM LimitsHold == LimitsSpec => []LimitsAsTold
<1>1. LimitsInv => LimitsAsTold
  <2> SUFFICES ASSUME LimitsInv PROVE LimitsAsTold
    OBVIOUS
  <2>1. RateAsTold
    BY PromiseKept, RateHolds DEF LimitsInv, RateAsTold
  <2>2. MergeIsIntersection
    BY DEF LimitsInv, MergeInv, MergeIsIntersection
  <2>3. WindowsBounded
    BY WindowHolds DEF LimitsInv
  <2> QED BY <2>1, <2>2, <2>3 DEF LimitsAsTold
<1> QED BY <1>1, LimitsStart, LimitsStep, PTL DEF LimitsSpec

-----------------------------------------------------------------------------
(* The schema *)

OpenerFields == {"pc", "build", "next", "statement", "signals", "chain", "row", "rows"}

(* The ledger has no gap, and what it records is in the schema.            *)
LedgerInv ==
  /\ \E n \in Nat : ledger = 1 .. n
  /\ \A v \in ledger : StatementsOf(v) \subseteq shape

(* How far an opener is: all before its next migration is in the ledger,   *)
(* and at central the statements of that one which it has sent are done.   *)
HasCome(p) ==
  /\ opener[p].pc \in {"rechain", "open"} => 1 .. opener[p].build \subseteq ledger
  /\ opener[p].pc = "up" =>
       /\ opener[p].build \in Nat /\ opener[p].next \in 1 .. opener[p].build
       /\ \A v \in Nat \ {0} : v < opener[p].next => v \in ledger
       /\ opener[p].statement \in 1 .. 3
       /\ \A i \in Statements : i < opener[p].statement /\ engine = "postgres" => <<opener[p].next, i>> \in shape

OpenersInv ==
  /\ engine \in {"sqlite", "postgres"}
  /\ DOMAIN opener = Openers /\ opener = [p \in Openers |-> opener[p]]
  /\ \A p \in Openers : DOMAIN opener[p] = OpenerFields /\ HasCome(p)

SchemaInv == LedgerInv /\ OpenersInv

(* The latest version of a ledger without gaps.                            *)
LEMMA HighestOfAll ==
  ASSUME NEW n \in Nat
  PROVE  Highest(1 .. n) = n
<1>1. n \in (1 .. n) \cup {0} /\ \A m \in 1 .. n : m <= n
  OBVIOUS
<1>2. ASSUME NEW k \in (1 .. n) \cup {0}, \A m \in 1 .. n : m <= k
      PROVE  k = n
  BY <1>2
<1> QED BY <1>1, <1>2 DEF Highest

(* A process that does not run.                                            *)
LEMMA DownFields == DOMAIN Down = OpenerFields /\ Down.pc = "down"
  BY DEF Down, OpenerFields

(* At the start.                                                           *)
LEMMA SchemaInitInv == MigrationInit => SchemaInv
<1> SUFFICES ASSUME MigrationInit PROVE SchemaInv
  OBVIOUS
<1>1. ledger = 1 .. 0
  BY DEF MigrationInit
<1>2. LedgerInv
  BY <1>1 DEF LedgerInv
<1>3. OpenersInv
  BY DownFields DEF MigrationInit, OpenersInv, HasCome
<1> QED BY <1>2, <1>3 DEF SchemaInv

(* An opener takes a step: what others have come to stands, since the      *)
(* ledger and the schema only grow.                                        *)
LEMMA OneOpener ==
  ASSUME SchemaInv, NEW p \in Openers, NEW o, opener' = [opener EXCEPT ![p] = o],
         DOMAIN o = OpenerFields, engine' = engine, ledger \subseteq ledger', shape \subseteq shape',
         HasCome(p)'
  PROVE  OpenersInv'
<1>1. ASSUME NEW q \in Openers, q # p PROVE HasCome(q)' /\ opener'[q] = opener[q]
  BY <1>1 DEF SchemaInv, OpenersInv, HasCome
<1> QED BY <1>1 DEF SchemaInv, OpenersInv

(* What is left to do when a migration is done.                            *)
LEMMA AfterOneFields ==
  ASSUME SchemaInv, NEW p \in Openers, NEW signals, opener[p].pc = "up"
  PROVE  /\ DOMAIN AfterOne(p, signals) = OpenerFields
         /\ AfterOne(p, signals).build = opener[p].build
         /\ \/ /\ opener[p].next < opener[p].build
               /\ AfterOne(p, signals).pc = "up" /\ AfterOne(p, signals).next = opener[p].next + 1
               /\ AfterOne(p, signals).statement = 1
            \/ opener[p].next = opener[p].build /\ AfterOne(p, signals).pc \in {"open", "rechain"}
<1>1. DOMAIN opener[p] = OpenerFields /\ opener[p].build \in Nat /\ opener[p].next \in 1 .. opener[p].build
  BY DEF SchemaInv, OpenersInv, HasCome
<1> QED BY <1>1 DEF AfterOne, OpenerFields

(* A migration that is whole is recorded.                                  *)
LEMMA Recorded ==
  ASSUME SchemaInv, NEW p \in Openers, NEW signals, opener[p].pc = "up", opener[p].next \notin ledger,
         opener' = [opener EXCEPT ![p] = AfterOne(p, signals)], engine' = engine,
         ledger' = ledger \cup {opener[p].next}, shape \subseteq shape',
         StatementsOf(opener[p].next) \subseteq shape'
  PROVE  SchemaInv'
<1> DEFINE v == opener[p].next
           o == AfterOne(p, signals)
<1>1. /\ opener[p].build \in Nat /\ v \in 1 .. opener[p].build
      /\ \A w \in Nat \ {0} : w < v => w \in ledger
  BY DEF SchemaInv, OpenersInv, HasCome
<1>2. PICK n \in Nat : ledger = 1 .. n
  BY DEF SchemaInv, LedgerInv
<1>3. v = n + 1
  <2>1. v > n
    BY <1>1, <1>2
  <2>2. v < n + 2
    <3>1. SUFFICES ASSUME n + 1 < v PROVE FALSE
      BY <1>1, <1>2
    <3>2. n + 1 \in ledger
      BY <1>1, <1>2, <3>1
    <3> QED BY <1>2, <3>2
  <2> QED BY <1>1, <1>2, <2>1, <2>2
<1>4. ledger' = 1 .. v
  BY <1>2, <1>3
<1>5. LedgerInv'
  BY <1>1, <1>4 DEF SchemaInv, LedgerInv, StatementsOf
<1>6. opener'[p] = o
  BY DEF SchemaInv, OpenersInv
<1>7. HasCome(p)'
  <2>1. CASE o.pc = "up" /\ v < opener[p].build /\ o.next = v + 1 /\ o.statement = 1 /\ o.build = opener[p].build
    BY <1>1, <1>4, <1>6, <2>1 DEF HasCome, Statements
  <2>2. CASE o.pc \in {"open", "rechain"} /\ v = opener[p].build /\ o.build = opener[p].build
    BY <1>1, <1>4, <1>6, <2>2 DEF HasCome
  <2> QED BY <2>1, <2>2, AfterOneFields
<1>8. OpenersInv'
  BY <1>7, OneOpener, AfterOneFields
<1> QED BY <1>5, <1>8 DEF SchemaInv

(* A process that goes down, for whatever reason.                          *)
LEMMA GoesDown ==
  ASSUME SchemaInv, NEW p \in Openers, opener' = [opener EXCEPT ![p] = Down],
         UNCHANGED <<engine, shape, ledger>>
  PROVE  SchemaInv'
<1>1. opener'[p] = Down
  BY DEF SchemaInv, OpenersInv
<1>2. HasCome(p)'
  BY <1>1, DownFields DEF HasCome
<1>3. OpenersInv'
  BY <1>2, OneOpener, DownFields
<1> QED BY <1>3 DEF SchemaInv, LedgerInv

(* The version is read, and the migrations begin behind it.                *)
LEMMA OpenStep ==
  ASSUME SchemaInv, NEW p \in Openers, NEW to \in SchemaVersions, OpenDatabase(p, to)
  PROVE  SchemaInv'
<1>1. PICK n \in Nat : ledger = 1 .. n
  BY DEF SchemaInv, LedgerInv
<1>2. Highest(ledger) = n /\ to \in Nat /\ n <= to
  BY <1>1, HighestOfAll, MigrationsAssumption DEF OpenDatabase, SchemaVersions
<1>3. UNCHANGED <<engine, shape, ledger>>
  BY DEF OpenDatabase
<1> DEFINE o == IF n = to THEN [Down EXCEPT !.pc = "open", !.build = to]
                ELSE [Down EXCEPT !.pc = "up", !.build = to, !.next = n + 1, !.statement = 1]
<1>4. opener' = [opener EXCEPT ![p] = o]
  BY <1>2 DEF OpenDatabase
<1>5. /\ DOMAIN o = OpenerFields /\ o.build = to
      /\ n = to => o.pc = "open"
      /\ n # to => o.pc = "up" /\ o.next = n + 1 /\ o.statement = 1
  BY DEF Down, OpenerFields
<1>6. opener'[p] = o
  BY <1>4 DEF SchemaInv, OpenersInv
<1> HIDE DEF o
<1>7. HasCome(p)'
  BY <1>1, <1>2, <1>3, <1>5, <1>6 DEF HasCome, Statements
<1>8. OpenersInv'
  BY <1>3, <1>4, <1>5, <1>7, OneOpener
<1> QED BY <1>3, <1>8 DEF SchemaInv, LedgerInv

(* A node's migration commits with its version, central's is recorded      *)
(* after its statements; whoever finds the version there goes down.        *)
LEMMA CommitSteps ==
  ASSUME SchemaInv, NEW p \in Openers, UpTogether(p) \/ Record(p)
  PROVE  SchemaInv'
<1>1. CASE UpTogether(p)
  <2>1. CASE opener[p].next \in ledger
    BY <1>1, <2>1, GoesDown DEF UpTogether, Lost
  <2>2. CASE opener[p].next \notin ledger
    <3>1. /\ opener[p].pc = "up" /\ engine' = engine /\ ledger' = ledger \cup {opener[p].next}
          /\ shape' = shape \cup Makes(opener[p].next, opener[p].build)
          /\ opener' = [opener EXCEPT ![p] = AfterOne(p, opener[p].signals \cup Signals(opener[p].next))]
      BY <1>1, <2>2 DEF UpTogether
    <3>2. StatementsOf(opener[p].next) \subseteq Makes(opener[p].next, opener[p].build)
      BY <3>1 DEF Makes, SchemaInv, OpenersInv, HasCome
    <3> QED BY <2>2, <3>1, <3>2, Recorded
  <2> QED BY <2>1, <2>2
<1>2. CASE Record(p)
  <2>1. CASE opener[p].next \in ledger
    BY <1>2, <2>1, GoesDown DEF Record, Lost
  <2>2. CASE opener[p].next \notin ledger
    <3>1. /\ opener[p].pc = "up" /\ engine = "postgres" /\ engine' = engine /\ opener[p].statement \notin Statements
          /\ ledger' = ledger \cup {opener[p].next} /\ shape' = shape
          /\ opener' = [opener EXCEPT ![p] = AfterOne(p, {})]
      BY <1>2, <2>2 DEF Record
    <3>2. /\ opener[p].statement \in 1 .. 3
          /\ \A i \in Statements : i < opener[p].statement => <<opener[p].next, i>> \in shape
      BY <3>1 DEF SchemaInv, OpenersInv, HasCome
    <3>3. StatementsOf(opener[p].next) \subseteq shape
      <4>1. \A i \in Statements : i < opener[p].statement
        BY <3>1, <3>2 DEF Statements
      <4> QED BY <3>2, <4>1 DEF StatementsOf
    <3> QED BY <2>2, <3>1, <3>3, Recorded
  <2> QED BY <2>1, <2>2
<1> QED BY <1>1, <1>2

(* A statement of central's is done.                                       *)
LEMMA ExecStep ==
  ASSUME SchemaInv, NEW p \in Openers, Exec(p)
  PROVE  SchemaInv'
<1> DEFINE o == [opener[p] EXCEPT !.statement = @ + 1]
<1>1. /\ opener[p].pc = "up" /\ opener[p].statement \in 1 .. 2 /\ UNCHANGED <<engine, ledger>>
      /\ shape' = shape \cup {<<opener[p].next, opener[p].statement>>}
      /\ opener' = [opener EXCEPT ![p] = o]
  BY DEF Exec, Statements
<1>2. /\ DOMAIN o = OpenerFields /\ o.pc = "up" /\ o.build = opener[p].build
      /\ o.next = opener[p].next /\ o.statement = opener[p].statement + 1
  BY <1>1 DEF SchemaInv, OpenersInv, OpenerFields
<1>3. opener'[p] = o
  BY <1>1 DEF SchemaInv, OpenersInv
<1> HIDE DEF o
<1>4. HasCome(p)'
  BY <1>1, <1>2, <1>3 DEF SchemaInv, OpenersInv, HasCome, Statements
<1>5. OpenersInv'
  BY <1>1, <1>2, <1>4, OneOpener
<1> QED BY <1>1, <1>5 DEF SchemaInv, LedgerInv

(* Hashing and writing leave ledger and schema alone.                      *)
LEMMA ChainingSteps ==
  ASSUME SchemaInv, NEW p \in Openers, Chaining(p)
  PROVE  SchemaInv'
<1>1. UNCHANGED <<engine, shape, ledger>>
  BY DEF Chaining, RechainRow, RechainHead, InsertUsageEvent, PatchUsageEvent
<1>2. CASE UNCHANGED opener
  BY <1>1, <1>2 DEF SchemaInv, LedgerInv, OpenersInv, HasCome
<1>3. ASSUME NEW o, opener' = [opener EXCEPT ![p] = o], opener[p].pc = "rechain",
             DOMAIN o = OpenerFields, o.pc \in {"rechain", "open"}, o.build = opener[p].build
      PROVE  SchemaInv'
  <2>1. opener'[p] = o
    BY <1>3 DEF SchemaInv, OpenersInv
  <2>2. HasCome(p)'
    BY <1>1, <1>3, <2>1 DEF SchemaInv, OpenersInv, HasCome
  <2>3. OpenersInv'
    BY <1>1, <1>3, <2>2, OneOpener
  <2> QED BY <1>1, <2>3 DEF SchemaInv, LedgerInv
<1>4. DOMAIN opener[p] = OpenerFields
  BY DEF SchemaInv, OpenersInv
<1>5. CASE RechainRow(p)
  <2> DEFINE o == [opener[p] EXCEPT !.row = opener[p].row + 1]
  <2>1. opener' = [opener EXCEPT ![p] = o] /\ opener[p].pc = "rechain"
    BY <1>5 DEF RechainRow, SchemaInv, OpenersInv
  <2>2. DOMAIN o = OpenerFields /\ o.pc = "rechain" /\ o.build = opener[p].build
    BY <1>4, <2>1 DEF OpenerFields
  <2> QED BY <1>3, <2>1, <2>2
<1>6. CASE RechainHead(p)
  <2> DEFINE more == [opener[p] EXCEPT !.chain = opener[p].chain + 1, !.row = 1,
                                       !.rows = Len(chains[ChainNames[opener[p].chain + 1]])]
             done == [Down EXCEPT !.pc = "open", !.build = opener[p].build]
  <2>1. /\ opener' = [opener EXCEPT ![p] = more] \/ opener' = [opener EXCEPT ![p] = done]
        /\ opener[p].pc = "rechain"
    BY <1>6 DEF RechainHead
  <2>2. DOMAIN more = OpenerFields /\ more.pc = "rechain" /\ more.build = opener[p].build
    BY <1>4, <2>1 DEF OpenerFields
  <2>3. DOMAIN done = OpenerFields /\ done.pc = "open" /\ done.build = opener[p].build
    BY DEF Down, OpenerFields
  <2> QED BY <1>3, <2>1, <2>2, <2>3
<1> QED BY <1>2, <1>5, <1>6 DEF Chaining, InsertUsageEvent, PatchUsageEvent

(* Whoever has opened a database finds all that its build knows, and what  *)
(* the ledger says was done was done (server/schema/migrator.js).          *)
THEOREM OpensWholly == MigrationSpec => []OpensWhole
<1>1. SchemaInv /\ [MigrationNext]_migrationVars => SchemaInv'
  <2> SUFFICES ASSUME SchemaInv, [MigrationNext]_migrationVars PROVE SchemaInv'
    OBVIOUS
  <2>1. ASSUME NEW p \in Openers, Migrating(p) PROVE SchemaInv'
    BY <2>1, OpenStep, CommitSteps, ExecStep DEF Migrating
  <2>2. ASSUME NEW p \in Openers, Exit(p) PROVE SchemaInv'
    BY <2>2, GoesDown DEF Exit
  <2>3. CASE UNCHANGED migrationVars
    BY <2>3 DEF migrationVars, SchemaInv, LedgerInv, OpenersInv, HasCome
  <2> QED BY <2>1, <2>2, <2>3, ChainingSteps DEF MigrationNext
<1>2. SchemaInv => OpensWhole
  <2> SUFFICES ASSUME SchemaInv PROVE OpensWhole
    OBVIOUS
  <2>1. ledger = 1 .. Highest(ledger)
    BY HighestOfAll DEF SchemaInv, LedgerInv
  <2> QED BY <2>1 DEF SchemaInv, LedgerInv, OpenersInv, HasCome, OpensWhole
<1> QED BY <1>1, <1>2, SchemaInitInv, PTL DEF MigrationSpec
-----------------------------------------------------------------------------
(* The chains: hashes of one form *)

Forms == {FormOf(b) : b \in SchemaVersions}
Links == [prev : Seq(Forms), hash : Seq(Forms)]

(* The link of a row in a chain that is whole.                             *)
LinkOf(form, i) == Hashed(form, Uniform(form, i - 1))

LEMMA UniformFacts ==
  ASSUME NEW f \in Forms, NEW n \in Nat
  PROVE  /\ Uniform(f, n) \in Seq(Forms) /\ Len(Uniform(f, n)) = n
         /\ \A i \in 1 .. n : Uniform(f, n)[i] = f
BY DEF Uniform

LEMMA UniformOne ==
  ASSUME NEW f \in Forms, NEW n \in Nat
  PROVE  Append(Uniform(f, n), f) = Uniform(f, n + 1)
<1> DEFINE u == Uniform(f, n)
           a == Append(u, f)
           w == Uniform(f, n + 1)
<1>1. u \in Seq(Forms) /\ Len(u) = n /\ \A i \in 1 .. n : u[i] = f
  BY UniformFacts
<1>2. n + 1 \in Nat
  OBVIOUS
<1>3. w \in Seq(Forms) /\ Len(w) = n + 1 /\ \A i \in 1 .. n + 1 : w[i] = f
  BY <1>2, UniformFacts
<1> HIDE DEF u, w
<1>4. a \in Seq(Forms) /\ Len(a) = n + 1 /\ \A i \in 1 .. n + 1 : a[i] = f
  BY <1>1
<1> HIDE DEF a
<1>5. a = w
  BY <1>3, <1>4
<1> QED BY <1>5 DEF a, u, w

LEMMA UniformMore ==
  ASSUME NEW f \in Forms, NEW m \in Nat, NEW n \in Nat
  PROVE  Uniform(f, m) \o Uniform(f, n) = Uniform(f, m + n)
<1> DEFINE u == Uniform(f, m)
           v == Uniform(f, n)
           w == Uniform(f, m + n)
           a == u \o v
<1>1. /\ u \in Seq(Forms) /\ Len(u) = m /\ \A i \in 1 .. m : u[i] = f
      /\ v \in Seq(Forms) /\ Len(v) = n /\ \A i \in 1 .. n : v[i] = f
  BY UniformFacts
<1>2. m + n \in Nat
  OBVIOUS
<1>3. w \in Seq(Forms) /\ Len(w) = m + n /\ \A i \in 1 .. m + n : w[i] = f
  BY <1>2, UniformFacts
<1> HIDE DEF u, v, w
<1>4. a \in Seq(Forms) /\ Len(a) = m + n
  BY <1>1
<1>5. ASSUME NEW i \in 1 .. m + n PROVE a[i] = f
  <2>1. a[i] = IF i <= m THEN u[i] ELSE v[i - m]
    BY <1>1
  <2> QED BY <1>1, <2>1
<1> HIDE DEF a
<1>6. a = w
  BY <1>3, <1>4, <1>5
<1> QED BY <1>6 DEF a, u, v, w

LEMMA LinkFacts ==
  ASSUME NEW f \in Forms, NEW i \in Nat \ {0}
  PROVE  /\ LinkOf(f, i) \in Links /\ LinkOf(f, i).hash = Uniform(f, i)
         /\ LinkOf(f, i).hash[i] = f
<1>1. i - 1 \in Nat /\ i - 1 + 1 = i /\ i \in 1 .. i /\ i \in Nat
  OBVIOUS
<1>2. Uniform(f, i - 1) \in Seq(Forms) /\ Uniform(f, i) \in Seq(Forms) /\ Uniform(f, i)[i] = f
  BY <1>1, UniformFacts
<1>3. Append(Uniform(f, i - 1), f) = Uniform(f, i)
  BY <1>1, UniformOne
<1> QED BY <1>2, <1>3 DEF LinkOf, Hashed, Links

(* Rows hashed anew, from one on, behind rows of the same form.            *)
LEMMA RechainedFacts ==
  ASSUME NEW list \in Seq(Links), NEW from \in 1 .. Len(list), NEW f \in Forms
  PROVE  LET r == RechainedFrom(list, from, f)
         IN  /\ r \in Seq(Links) /\ Len(r) = Len(list)
             /\ \A i \in 1 .. from - 1 : r[i] = list[i]
             /\ from = 1 \/ list[from - 1].hash = Uniform(f, from - 1) =>
                  \A i \in from .. Len(list) : r[i] = LinkOf(f, i)
<1> DEFINE kept == IF from = 1 THEN <<>> ELSE list[from - 1].hash
           r == RechainedFrom(list, from, f)
           n == Len(list)
<1>1. n \in Nat /\ from \in Nat /\ \A i \in 1 .. n : list[i] \in Links
  OBVIOUS
<1>2. kept \in Seq(Forms)
  <2>1. CASE from = 1
    <3>1. <<>> \in Seq(Forms)
      OBVIOUS
    <3> QED BY <2>1, <3>1
  <2>2. CASE from # 1
    <3>1. from - 1 \in 1 .. n
      BY <1>1, <2>2
    <3>2. list[from - 1] \in Links
      BY <1>1, <3>1
    <3>3. list[from - 1].hash \in Seq(Forms)
      BY <3>2 DEF Links
    <3> QED BY <2>2, <3>3
  <2> QED BY <2>1, <2>2
<1>3. r = [i \in 1 .. n |-> IF i < from THEN list[i] ELSE Hashed(f, kept \o Uniform(f, i - from))]
  BY DEF RechainedFrom
<1> HIDE DEF kept, r
<1>4. ASSUME NEW i \in from .. n PROVE Hashed(f, kept \o Uniform(f, i - from)) \in Links
  <2>1. i - from \in Nat
    BY <1>1
  <2>2. kept \o Uniform(f, i - from) \in Seq(Forms)
    BY <1>2, <2>1, UniformFacts
  <2> QED BY <2>2 DEF Hashed, Links
<1>5. \A i \in 1 .. n : r[i] = IF i < from THEN list[i] ELSE Hashed(f, kept \o Uniform(f, i - from))
  BY <1>3
<1>6. \A i \in 1 .. n : r[i] \in Links
  BY <1>1, <1>4, <1>5
<1>7. r \in Seq(Links) /\ Len(r) = n
  BY <1>1, <1>3, <1>6
<1>8. ASSUME from = 1 \/ list[from - 1].hash = Uniform(f, from - 1), NEW i \in from .. n
      PROVE  r[i] = LinkOf(f, i)
  <2>1. Uniform(f, 0) = <<>>
    BY DEF Uniform
  <2>2. kept = Uniform(f, from - 1)
    BY <1>8, <2>1 DEF kept
  <2>3. from - 1 \in Nat /\ i - from \in Nat /\ from - 1 + (i - from) = i - 1 /\ i \in 1 .. n /\ ~(i < from)
    BY <1>1
  <2>4. Uniform(f, from - 1) \o Uniform(f, i - from) = Uniform(f, i - 1)
    BY <2>3, UniformMore
  <2> QED BY <1>5, <2>2, <2>3, <2>4 DEF LinkOf
<1>9. ASSUME NEW i \in 1 .. from - 1 PROVE r[i] = list[i]
  <2>1. from <= n
    OBVIOUS
  <2> HIDE DEF n
  <2>2. i \in 1 .. n /\ i < from
    BY <1>1, <2>1
  <2> QED BY <1>5, <2>2
<1> QED BY <1>7, <1>8, <1>9 DEF r

LEMMA HeadFacts ==
  ASSUME NEW list \in Seq(Links)
  PROVE  /\ HeadOf(list) \in Seq(Forms)
         /\ \A f \in Forms : list # <<>> /\ list[Len(list)] = LinkOf(f, Len(list)) => HeadOf(list) = Uniform(f, Len(list))
<1>1. list # <<>> => Len(list) \in Nat \ {0} /\ list[Len(list)] \in Links
  OBVIOUS
<1>2. HeadOf(list) = IF list = <<>> THEN <<>> ELSE list[Len(list)].hash
  BY DEF HeadOf
<1>3. <<>> \in Seq(Forms)
  OBVIOUS
<1>4. ASSUME NEW f \in Forms, list # <<>>, list[Len(list)] = LinkOf(f, Len(list)) PROVE HeadOf(list) = Uniform(f, Len(list))
  BY <1>1, <1>2, <1>4, LinkFacts
<1> QED BY <1>1, <1>2, <1>3, <1>4 DEF Links

-----------------------------------------------------------------------------
(* The chains: how far the schema is, and which form goes with it *)

Lives == {"inc_0", "life"}
Shown == {v \in SchemaVersions : StatementsOf(v) \subseteq shape}
Top == Highest(Shown)

LEMMA TopIs ==
  ASSUME NEW m \in Nat, Shown = 1 .. m
  PROVE  Top = m
BY HighestOfAll DEF Top

LEMMA FormSame ==
  ASSUME NEW a \in Nat, NEW b \in Nat, \A f \in {1, LifeVersion} \cup Signalling : f <= a <=> f <= b
  PROVE  FormOf(a) = FormOf(b)
<1>1. {f \in {1} \cup Signalling \cup {LifeVersion} : f <= a} = {f \in {1} \cup Signalling \cup {LifeVersion} : f <= b}
  OBVIOUS
<1> QED BY <1>1 DEF FormOf

LEMMA FormFacts ==
  ASSUME NEW a \in SchemaVersions
  PROVE  /\ a \in Nat \ {0} /\ FormOf(a) \in Forms /\ FormsOf(a) \subseteq Forms
         /\ \A b \in 1 .. a : b \in SchemaVersions /\ FormOf(b) \in FormsOf(a) /\ FormsOf(b) \subseteq FormsOf(a)
<1>1. a \in Nat \ {0} /\ \A b \in 1 .. a : b \in SchemaVersions /\ 1 .. b \subseteq 1 .. a
  BY MigrationsAssumption DEF SchemaVersions
<1> QED BY <1>1 DEF Forms, FormsOf

-----------------------------------------------------------------------------
(* The chains: what holds of them *)

Signalled(p) == opener[p].signals # {}

UniformChain(c, form) == \A i \in 1 .. Len(chains[c]) : chains[c][i] = LinkOf(form, i)

ChainsType == chains \in [Lives -> Seq(Links)] /\ heads \in [Lives -> Seq(Forms)]

(* A process: one with a signal is on its way to, or in, the re-chain.     *)
Booted(o) ==
  /\ o.pc \in {"down", "up", "rechain", "open"}
  /\ o.pc # "down" => o.build \in SchemaVersions
  /\ o.pc \in {"down", "open"} => o.signals = {}
  /\ o.signals # {} => engine = "sqlite" /\ ledger # {}
  /\ o.pc = "rechain" =>
       /\ o.signals # {} /\ o.chain \in 1 .. 2 /\ o.rows \in Nat /\ o.row \in 1 .. o.rows + 1
       /\ o.rows <= Len(chains[ChainNames[o.chain]])

(* A node's schema shows all up to a version; the chain of a lifetime has  *)
(* no rows before there are lifetimes.  Central has no chains.             *)
ShapeInv ==
  /\ engine = "sqlite" =>
       /\ Top \in 0 .. LastVersion /\ Shown = 1 .. Top
       /\ ledger = {} => shape = {}
       /\ Top = 0 => chains["inc_0"] = <<>>
       /\ Top < LifeVersion => chains["life"] = <<>>
  /\ engine = "postgres" => \A c \in Lives : chains[c] = <<>>
  /\ \A c \in Lives : chains[c] = <<>> => heads[c] = <<>>

(* A chain of one form, which the schema knows: its latest one, unless the *)
(* chain is of the rows from before there were lifetimes.                  *)
Settled(c) ==
  /\ heads[c] = HeadOf(chains[c])
  /\ chains[c] # <<>> =>
       \E form \in FormsOf(Top) : UniformChain(c, form) /\ (c = "life" \/ Top < LifeVersion => form = FormOf(Top))

(* A re-chain that is due or under way: no form that came after it needs   *)
(* another, and the rows behind it are done.                               *)
Underway(o) ==
  LET form == FormOf(o.build)
  IN  /\ \A v \in Signalling : v <= Top => v <= o.build
      /\ o.build < LifeVersion /\ LifeVersion <= Top => chains["life"] = <<>>
      /\ o.pc = "rechain" =>
           /\ o.rows = Len(chains[ChainNames[o.chain]])
           /\ \A i \in 1 .. o.row - 1 : chains[ChainNames[o.chain]][i] = LinkOf(form, i)
           /\ o.chain = 2 => UniformChain("inc_0", form) /\ heads["inc_0"] = HeadOf(chains["inc_0"])

ChainsInv ==
  ~spoilt =>
    /\ \A p, q \in Openers : Signalled(p) /\ Signalled(q) => p = q
    /\ (\A p \in Openers : ~Signalled(p)) => \A c \in Lives : Settled(c)
    /\ \A p \in Openers : Signalled(p) => Underway(opener[p])

RestInv == ChainsType /\ (\A p \in Openers : Booted(opener[p])) /\ ShapeInv /\ ChainsInv

HashInv == SchemaInv /\ RestInv

LEMMA HashStart ==
  MigrationInit => HashInv
<1> SUFFICES ASSUME MigrationInit PROVE HashInv
  OBVIOUS
<1>1. SchemaInv
  BY SchemaInitInv
<1>2. <<>> \in Seq(Links) /\ <<>> \in Seq(Forms)
  OBVIOUS
<1>3. ChainsType /\ \A c \in Lives : chains[c] = <<>> /\ heads[c] = <<>>
  BY <1>2 DEF MigrationInit, ChainsType, Lives
<1>4. \A p \in Openers : opener[p].pc = "down" /\ opener[p].signals = {}
  BY DEF MigrationInit, Down
<1>5. shape = {} /\ Shown = 1 .. 0
  <2>1. \A v : <<v, 1>> \in StatementsOf(v)
    BY DEF StatementsOf, Statements
  <2>2. shape = {}
    BY DEF MigrationInit
  <2>3. Shown = {}
    BY <2>1, <2>2 DEF Shown
  <2>4. 1 .. 0 = {}
    OBVIOUS
  <2> QED BY <2>2, <2>3, <2>4
<1>6. Top = 0
  BY <1>5, TopIs
<1>7. ShapeInv
  BY <1>3, <1>5, <1>6, MigrationsAssumption DEF ShapeInv, Lives
<1>8. \A c \in Lives : Settled(c)
  BY <1>3 DEF Settled, HeadOf
<1> QED BY <1>1, <1>3, <1>4, <1>7, <1>8 DEF HashInv, RestInv, Booted, ChainsInv, Signalled

LEMMA ShownFacts ==
  ASSUME HashInv, engine = "sqlite"
  PROVE  /\ Top \in Nat /\ Top <= LastVersion
         /\ \A v \in SchemaVersions : StatementsOf(v) \subseteq shape <=> v <= Top
         /\ \A v \in ledger : v \in SchemaVersions => v <= Top
<1>1. Top \in 0 .. LastVersion /\ Shown = 1 .. Top /\ LastVersion \in Nat
  BY MigrationsAssumption DEF HashInv, RestInv, ShapeInv
<1>2. \A v \in SchemaVersions : StatementsOf(v) \subseteq shape <=> v <= Top
  BY <1>1 DEF Shown, SchemaVersions
<1> QED BY <1>1, <1>2 DEF HashInv, SchemaInv, LedgerInv

(* Who has opened a database knows no more than what the schema shows.     *)
LEMMA BuildIsShown ==
  ASSUME HashInv, engine = "sqlite", NEW p \in Openers, opener[p].pc \in {"rechain", "open"}
  PROVE  opener[p].build \in SchemaVersions /\ opener[p].build \in 1 .. Top /\ Top \in SchemaVersions
<1>1. opener[p].build \in SchemaVersions
  BY DEF HashInv, RestInv, Booted
<1>2. opener[p].build \in Nat \ {0}
  BY <1>1, FormFacts
<1>3. opener[p].build \in ledger
  <2>1. 1 .. opener[p].build \subseteq ledger
    BY DEF HashInv, SchemaInv, OpenersInv, HasCome
  <2> QED BY <1>2, <2>1
<1>4. opener[p].build <= Top /\ Top \in Nat /\ Top <= LastVersion
  BY <1>1, <1>3, ShownFacts
<1> QED BY <1>1, <1>2, <1>4, MigrationsAssumption DEF SchemaVersions

-----------------------------------------------------------------------------
(* The chains: openers that come and go *)

LEMMA OthersStay ==
  ASSUME HashInv, NEW p \in Openers, NEW o, opener' = [opener EXCEPT ![p] = o]
  PROVE  opener'[p] = o /\ \A q \in Openers \ {p} : opener'[q] = opener[q]
BY DEF HashInv, SchemaInv, OpenersInv

(* A process without signals, before and after; or chains that are spoilt. *)
LEMMA OpenerMoves ==
  ASSUME HashInv, SchemaInv', NEW p \in Openers, NEW o, opener' = [opener EXCEPT ![p] = o],
         o.pc \in {"down", "up", "open"}, o.pc # "down" => o.build \in SchemaVersions, o.signals = {},
         UNCHANGED <<engine, chains, heads>>, ledger \subseteq ledger',
         engine = "postgres" \/ UNCHANGED <<shape, ledger>>,
         spoilt => spoilt', Signalled(p) => spoilt'
  PROVE  HashInv'
<1>1. opener'[p] = o /\ \A q \in Openers \ {p} : opener'[q] = opener[q]
  BY OthersStay
<1>2. ChainsType' /\ ShapeInv'
  <2>1. CASE engine = "postgres"
    BY <2>1 DEF HashInv, RestInv, ChainsType, ShapeInv, SchemaInv, OpenersInv
  <2>2. CASE UNCHANGED <<shape, ledger>>
    BY <2>2 DEF HashInv, RestInv, ChainsType, ShapeInv, Top, Shown
  <2> QED BY <2>1, <2>2
<1>3. ASSUME NEW q \in Openers PROVE Booted(opener[q])'
  <2>1. CASE q = p
    BY <1>1, <2>1 DEF Booted
  <2>2. CASE q # p
    BY <1>1, <2>2 DEF HashInv, RestInv, Booted
  <2> QED BY <2>1, <2>2
<1>4. ASSUME ~spoilt' PROVE \A q \in Openers : Signalled(q)' <=> Signalled(q)
  BY <1>1, <1>4 DEF Signalled
<1>5. ASSUME NEW c \in Lives, Settled(c) PROVE Settled(c)'
  <2>1. CASE engine = "postgres"
    <3>1. chains[c] = <<>>
      BY <2>1 DEF HashInv, RestInv, ShapeInv
    <3> QED BY <1>5, <3>1 DEF Settled
  <2>2. CASE UNCHANGED <<shape, ledger>>
    BY <1>5, <2>2 DEF Settled, UniformChain, Top, Shown
  <2> QED BY <2>1, <2>2
<1>6. ASSUME NEW q \in Openers, q # p, Signalled(q), Underway(opener[q]) PROVE Underway(opener[q])'
  <2>1. opener'[q] = opener[q]
    BY <1>1, <1>6
  <2>2. UNCHANGED shape
    BY <1>6 DEF Signalled, HashInv, RestInv, Booted
  <2> QED BY <1>6, <2>1, <2>2 DEF Underway, UniformChain, Top, Shown
<1>7. ChainsInv'
  <2> SUFFICES ASSUME ~spoilt'
               PROVE  /\ \A q, r \in Openers : Signalled(q)' /\ Signalled(r)' => q = r
                      /\ (\A q \in Openers : ~Signalled(q)') => \A c \in Lives : Settled(c)'
                      /\ \A q \in Openers : Signalled(q)' => Underway(opener[q])'
    BY DEF ChainsInv
  <2>1. /\ \A q, r \in Openers : Signalled(q) /\ Signalled(r) => q = r
        /\ (\A q \in Openers : ~Signalled(q)) => \A c \in Lives : Settled(c)
        /\ \A q \in Openers : Signalled(q) => Underway(opener[q])
    BY DEF HashInv, RestInv, ChainsInv
  <2>2. ~Signalled(p)
    OBVIOUS
  <2> QED BY <1>4, <1>5, <1>6, <2>1, <2>2
<1> QED BY <1>2, <1>3, <1>7 DEF HashInv, RestInv

LEMMA Opens ==
  ASSUME HashInv, SchemaInv', NEW p \in Openers, NEW to \in SchemaVersions, OpenDatabase(p, to)
  PROVE  HashInv'
<1> DEFINE o == IF Highest(ledger) = to THEN [Down EXCEPT !.pc = "open", !.build = to]
                ELSE [Down EXCEPT !.pc = "up", !.build = to, !.next = Highest(ledger) + 1, !.statement = 1]
<1>1. opener' = [opener EXCEPT ![p] = o] /\ opener[p].pc = "down" /\ UNCHANGED <<engine, shape, ledger, chains, heads, spoilt>>
  BY DEF OpenDatabase
<1>2. o.pc \in {"up", "open"} /\ o.build = to /\ o.signals = {}
  BY DEF Down
<1>3. ~Signalled(p)
  BY <1>1 DEF HashInv, RestInv, Booted, Signalled
<1> HIDE DEF o
<1> QED BY <1>1, <1>2, <1>3, OpenerMoves

LEMMA GivesUp ==
  ASSUME HashInv, SchemaInv', NEW p \in Openers, opener' = [opener EXCEPT ![p] = Down],
         spoilt' = (spoilt \/ opener[p].signals # {}), UNCHANGED <<engine, shape, ledger, chains, heads>>
  PROVE  HashInv'
<1>1. Down.pc = "down" /\ Down.signals = {}
  BY DEF Down
<1> QED BY <1>1, OpenerMoves DEF Signalled

LEMMA CentralMigrates ==
  ASSUME HashInv, SchemaInv', NEW p \in Openers, Exec(p) \/ Record(p)
  PROVE  HashInv'
<1>1. engine = "postgres" /\ opener[p].pc = "up" /\ UNCHANGED <<engine, chains, heads>> /\ ledger \subseteq ledger'
  BY DEF Exec, Record
<1>2. DOMAIN opener[p] = OpenerFields /\ opener[p].build \in SchemaVersions /\ opener[p].signals = {}
  BY <1>1 DEF HashInv, RestInv, Booted, SchemaInv, OpenersInv
<1>3. CASE Exec(p)
  <2> DEFINE o == [opener[p] EXCEPT !.statement = @ + 1]
  <2>1. opener' = [opener EXCEPT ![p] = o] /\ UNCHANGED spoilt
    BY <1>3 DEF Exec
  <2>2. o.pc = "up" /\ o.build = opener[p].build /\ o.signals = {}
    BY <1>1, <1>2 DEF OpenerFields
  <2> HIDE DEF o
  <2> QED BY <1>1, <1>2, <2>1, <2>2, OpenerMoves DEF Signalled
<1>4. CASE Record(p)
  <2>1. CASE opener[p].next \in ledger
    BY <1>4, <2>1, GivesUp DEF Record, Lost
  <2>2. CASE opener[p].next \notin ledger
    <3>1. opener' = [opener EXCEPT ![p] = AfterOne(p, {})] /\ UNCHANGED spoilt
      BY <1>4, <2>2 DEF Record
    <3>2. AfterOne(p, {}).pc \in {"up", "open"} /\ AfterOne(p, {}).build = opener[p].build /\ AfterOne(p, {}).signals = {}
      BY <1>1, <1>2 DEF AfterOne, OpenerFields
    <3> QED BY <1>1, <1>2, <3>1, <3>2, OpenerMoves DEF Signalled
  <2> QED BY <2>1, <2>2
<1> QED BY <1>3, <1>4

-----------------------------------------------------------------------------
(* The chains: a node's migration commits *)

LEMMA StatementsDiffer ==
  ASSUME NEW v, NEW w
  PROVE  /\ StatementsOf(v) # {} /\ (StatementsOf(v) \cap StatementsOf(w) # {} => v = w)
         /\ <<v, 1>> \in StatementsOf(v)
BY DEF StatementsOf, Statements

(* What the schema shows afterwards.                                       *)
LEMMA ShowsMore ==
  ASSUME HashInv, NEW p \in Openers, opener[p].pc = "up", engine = "sqlite", NEW v, v = opener[p].next, v \notin ledger,
         shape' = shape \cup Makes(v, opener[p].build)
  PROVE  /\ v \in SchemaVersions /\ opener[p].build \in SchemaVersions /\ v <= opener[p].build
         /\ Top' \in 0 .. LastVersion /\ Shown' = 1 .. Top'
         /\ \/ v = 1 /\ ledger = {} /\ Top = 0 /\ Top' = opener[p].build
            \/ v > 1 /\ Top >= v /\ Top' = Top
            \/ v > 1 /\ Top = v - 1 /\ Top' = v
<1> DEFINE b == opener[p].build
<1>1. b \in SchemaVersions /\ b \in 1 .. LastVersion /\ v \in 1 .. b /\ LastVersion \in Nat /\ \A w \in Nat \ {0} : w < v => w \in ledger
  BY MigrationsAssumption DEF HashInv, SchemaInv, OpenersInv, HasCome, RestInv, Booted, SchemaVersions
<1>2. /\ Top \in Nat /\ Top <= LastVersion /\ Shown = 1 .. Top
      /\ \A w \in SchemaVersions : StatementsOf(w) \subseteq shape <=> w <= Top
      /\ \A w \in ledger : w \in SchemaVersions => w <= Top
      /\ ledger = {} => shape = {}
  BY ShownFacts DEF HashInv, RestInv, ShapeInv
<1>3. PICK n \in Nat : ledger = 1 .. n
  BY DEF HashInv, SchemaInv, LedgerInv
<1> HIDE DEF b
<1>4. CASE v = 1
  <2>1. ledger = {} /\ shape = {}
    <3>1. n = 0
      BY <1>3, <1>4
    <3>2. 1 .. 0 = {}
      OBVIOUS
    <3> QED BY <1>2, <1>3, <3>1, <3>2
  <2>2. Top = 0
    <3>1. CASE Top >= 1
      <4>1. 1 \in SchemaVersions
        BY <1>1 DEF SchemaVersions
      <4>2. StatementsOf(1) \subseteq shape
        BY <1>2, <3>1, <4>1
      <4> QED BY <2>1, <4>2, StatementsDiffer
    <3> QED BY <1>2, <3>1
  <2>3. shape' = UNION {StatementsOf(w) : w \in 1 .. b}
    BY <1>4, <2>1 DEF Makes, b
  <2>4. Shown' = {w \in SchemaVersions : StatementsOf(w) \subseteq UNION {StatementsOf(u) : u \in 1 .. b}}
    BY <2>3 DEF Shown
  <2>5. ASSUME NEW w PROVE StatementsOf(w) \subseteq UNION {StatementsOf(u) : u \in 1 .. b} <=> w \in 1 .. b
    <3>1. ASSUME w \in 1 .. b PROVE StatementsOf(w) \subseteq UNION {StatementsOf(u) : u \in 1 .. b}
      BY <3>1
    <3>2. ASSUME StatementsOf(w) \subseteq UNION {StatementsOf(u) : u \in 1 .. b} PROVE w \in 1 .. b
      <4>1. PICK u \in 1 .. b : <<w, 1>> \in StatementsOf(u)
        BY <3>2, StatementsDiffer
      <4>2. w = u
        BY <4>1, StatementsDiffer
      <4> QED BY <4>2
    <3> QED BY <3>1, <3>2
  <2>6. Shown' = 1 .. b
    BY <1>1, <2>4, <2>5 DEF SchemaVersions
  <2>7. Top' = b
    <3>1. Highest(1 .. b) = b
      BY <1>1, HighestOfAll
    <3> QED BY <2>6, <3>1 DEF Top
  <2> QED BY <1>1, <1>4, <2>1, <2>2, <2>6, <2>7 DEF b, SchemaVersions
<1>5. CASE v > 1
  <2>1. shape' = shape \cup StatementsOf(v)
    BY <1>1, <1>5 DEF Makes
  <2>2. Top >= v - 1
    <3>1. v - 1 \in ledger /\ v - 1 \in SchemaVersions
      BY <1>1, <1>5 DEF SchemaVersions
    <3> QED BY <1>2, <3>1
  <2>3. v \in SchemaVersions
    BY <1>1 DEF SchemaVersions
  <2>4. ASSUME NEW w \in SchemaVersions PROVE StatementsOf(w) \subseteq shape' <=> w <= Top \/ w = v
    <3>1. CASE w = v
      BY <2>1, <3>1
    <3>2. CASE w # v
      <4>1. StatementsOf(w) \cap StatementsOf(v) = {}
        BY <3>2, StatementsDiffer
      <4>2. StatementsOf(w) \subseteq shape' <=> StatementsOf(w) \subseteq shape
        BY <2>1, <4>1
      <4> QED BY <1>2, <3>2, <4>2
    <3> QED BY <3>1, <3>2
  <2>5. Shown' = {w \in SchemaVersions : w <= Top \/ w = v}
    BY <2>4 DEF Shown
  <2>6. CASE Top >= v
    <3>1. Shown' = 1 .. Top
      BY <1>1, <1>2, <2>5, <2>6 DEF SchemaVersions
    <3>2. Highest(1 .. Top) = Top
      BY <1>2, HighestOfAll
    <3>3. Top' = Top
      BY <3>1, <3>2 DEF Top
    <3> QED BY <1>1, <1>2, <1>5, <2>3, <2>6, <3>1, <3>3 DEF b, SchemaVersions
  <2>7. CASE Top = v - 1
    <3>1. Shown' = 1 .. v
      BY <1>1, <1>2, <2>5, <2>7 DEF SchemaVersions
    <3>2. Highest(1 .. v) = v
      BY <1>1, HighestOfAll
    <3>3. Top' = v
      BY <3>1, <3>2 DEF Top
    <3> QED BY <1>1, <1>5, <2>3, <2>7, <3>1, <3>3 DEF b, SchemaVersions
  <2> QED BY <1>1, <1>2, <2>2, <2>6, <2>7
<1> QED BY <1>1, <1>4, <1>5

LEMMA AfterOneBoots ==
  ASSUME HashInv, NEW p \in Openers, opener[p].pc = "up", NEW s
  PROVE  LET o == AfterOne(p, s)
         IN  /\ o.build = opener[p].build /\ o.signals = s
             /\ \/ o.pc = "up"
                \/ s = {} /\ o.pc = "open"
                \/ s # {} /\ o.pc = "rechain" /\ o.chain = 1 /\ o.row = 1 /\ o.rows = Len(chains["inc_0"])
<1>1. DOMAIN opener[p] = OpenerFields
  BY DEF HashInv, SchemaInv, OpenersInv
<1> QED BY <1>1 DEF AfterOne, OpenerFields

LEMMA SignalsNew ==
  ASSUME HashInv, engine = "sqlite", NEW v \in SchemaVersions
  PROVE  Signals(v) = IF v \in Signalling /\ Top < v THEN {v} ELSE {}
<1>1. Top \in Nat /\ (StatementsOf(v) \subseteq shape <=> v <= Top) /\ v \in Nat
  BY ShownFacts, FormFacts
<1>2. (~StatementsOf(v) \subseteq shape) <=> Top < v
  BY <1>1
<1> QED BY <1>2, Zenon DEF Signals

(* Without a signal, a chain of one form is one still.                     *)
LEMMA StaysSettled ==
  ASSUME HashInv, engine = "sqlite", NEW v \in SchemaVersions, v \in Signalling => v <= Top,
         Top' \in 0 .. LastVersion,
         \/ v = 1 /\ Top = 0
         \/ Top' = Top
         \/ v > 1 /\ Top = v - 1 /\ Top' = v,
         UNCHANGED <<chains, heads>>, NEW c \in Lives, Settled(c)
  PROVE  Settled(c)'
<1>1. v \in Nat \ {0} /\ Top \in Nat
  BY ShownFacts, FormFacts
<1>2. (Top < LifeVersion => chains["life"] = <<>>) /\ (Top = 0 => chains["inc_0"] = <<>>) /\ LifeVersion \in Nat \ {0}
  <2>1. LastVersion \in Nat /\ LifeVersion \in 1 .. LastVersion
    BY MigrationsAssumption
  <2>2. LifeVersion \in Nat \ {0}
    BY <2>1
  <2> QED BY <2>2 DEF HashInv, RestInv, ShapeInv
<1>3. heads'[c] = HeadOf(chains'[c])
  BY DEF Settled
<1>4. ASSUME chains[c] # <<>>
      PROVE  \E form \in FormsOf(Top') : UniformChain(c, form)' /\ (c = "life" \/ Top' < LifeVersion => form = FormOf(Top'))
  <2>1. PICK form \in FormsOf(Top) : UniformChain(c, form) /\ (c = "life" \/ Top < LifeVersion => form = FormOf(Top))
    BY <1>4 DEF Settled
  <2>2. UniformChain(c, form)'
    BY <2>1 DEF UniformChain
  <2>3. CASE v = 1 /\ Top = 0
    BY <1>2, <1>4, <2>3 DEF Lives
  <2>4. CASE Top' = Top
    BY <2>1, <2>2, <2>4
  <2>5. CASE v > 1 /\ Top = v - 1 /\ Top' = v
    <3>1. Top' \in SchemaVersions /\ Top \in 1 .. Top'
      BY <1>1, <2>5
    <3>2. form \in FormsOf(Top')
      BY <2>1, <3>1, FormFacts
    <3>3. CASE LifeVersion = v
      <4>1. c = "inc_0" /\ ~(Top' < LifeVersion)
        BY <1>1, <1>2, <1>4, <2>5, <3>3 DEF Lives
      <4> QED BY <2>2, <3>2, <4>1
    <3>4. CASE LifeVersion # v
      <4>1. \A f \in {1, LifeVersion} \cup Signalling : f <= Top <=> f <= Top'
        <5>1. v \notin Signalling
          BY <1>1, <2>5
        <5>2. \A f \in {1, LifeVersion} \cup Signalling : f \in Nat /\ f # v
          BY <2>5, <3>4, <5>1, MigrationsAssumption
        <5> QED BY <1>1, <2>5, <5>2
      <4>2. Top \in Nat /\ Top' \in Nat
        BY <1>1, <2>5
      <4>3. \A a, b \in Nat : a = Top /\ b = Top' => FormOf(a) = FormOf(b)
        BY <4>1, FormSame
      <4>4. FormOf(Top') = FormOf(Top)
        BY <4>2, <4>3
      <4>5. Top' < LifeVersion => Top < LifeVersion
        BY <1>1, <1>2, <2>5
      <4> QED BY <2>1, <2>2, <3>2, <4>4, <4>5
    <3> QED BY <3>3, <3>4
  <2> QED BY <2>3, <2>4, <2>5
<1> QED BY <1>3, <1>4 DEF Settled

LEMMA Commits ==
  ASSUME HashInv, SchemaInv', NEW p \in Openers, UpTogether(p), opener[p].next \notin ledger
  PROVE  HashInv'
<1> DEFINE v == opener[p].next
           b == opener[p].build
           s == opener[p].signals \cup Signals(v)
           o == AfterOne(p, s)
<1>1. /\ engine = "sqlite" /\ opener[p].pc = "up" /\ UNCHANGED <<engine, chains, heads>>
      /\ shape' = shape \cup Makes(v, b) /\ ledger' = ledger \cup {v}
      /\ opener' = [opener EXCEPT ![p] = o]
      /\ spoilt' = (spoilt \/ (Signals(v) # {} /\ Beside(p)))
  BY DEF UpTogether
<1>2. /\ v \in SchemaVersions /\ b \in SchemaVersions /\ v <= b
      /\ Top' \in 0 .. LastVersion /\ Shown' = 1 .. Top'
      /\ \/ v = 1 /\ ledger = {} /\ Top = 0 /\ Top' = b
         \/ v > 1 /\ Top >= v /\ Top' = Top
         \/ v > 1 /\ Top = v - 1 /\ Top' = v
  BY <1>1, ShowsMore
<1>3. Signals(v) = IF v \in Signalling /\ Top < v THEN {v} ELSE {}
  BY <1>1, <1>2, SignalsNew
<1>4. /\ o.build = b /\ o.signals = s
      /\ \/ o.pc = "up"
         \/ s = {} /\ o.pc = "open"
         \/ s # {} /\ o.pc = "rechain" /\ o.chain = 1 /\ o.row = 1 /\ o.rows = Len(chains["inc_0"])
  BY <1>1, AfterOneBoots
<1>5. opener'[p] = o /\ \A q \in Openers \ {p} : opener'[q] = opener[q]
  BY <1>1, OthersStay
<1>6. /\ v \in Nat \ {0} /\ b \in Nat \ {0} /\ Top \in Nat /\ Top' \in Nat /\ Top <= Top'
      /\ LifeVersion \in Nat \ {0} /\ Signalling \subseteq Nat /\ LastVersion \in Nat
  <2>1. v \in Nat \ {0} /\ b \in Nat \ {0} /\ Top \in Nat
    BY <1>1, <1>2, ShownFacts, FormFacts
  <2>2. LastVersion \in Nat /\ LifeVersion \in 1 .. LastVersion /\ Signalling \subseteq 1 .. LastVersion
    BY MigrationsAssumption
  <2>3. LifeVersion \in Nat \ {0} /\ Signalling \subseteq Nat
    BY <2>2
  <2>4. Top' \in Nat
    BY <1>2, <2>2
  <2>5. Top <= Top'
    BY <1>2, <2>1, <2>4
  <2> QED BY <2>1, <2>2, <2>3, <2>4, <2>5
<1>7. /\ Len(chains["inc_0"]) \in Nat /\ ChainNames[1] = "inc_0"
      /\ Top < LifeVersion => chains["life"] = <<>>
      /\ \A c \in Lives : chains[c] = <<>> => heads[c] = <<>>
  BY <1>1 DEF HashInv, RestInv, ChainsType, ShapeInv, Lives, ChainNames
<1> HIDE DEF o, s, v, b
<1>8. ChainsType' /\ ShapeInv'
  <2>1. ledger' # {} /\ Top' # 0
    BY <1>1, <1>2, <1>6
  <2>2. Top' < LifeVersion => chains["life"] = <<>>
    BY <1>6, <1>7
  <2> QED BY <1>1, <1>2, <1>7, <2>1, <2>2 DEF HashInv, RestInv, ChainsType, ShapeInv
<1>9. ASSUME NEW q \in Openers PROVE Booted(opener[q])'
  <2>1. CASE q = p
    BY <1>1, <1>2, <1>4, <1>5, <1>7, <2>1 DEF Booted
  <2>2. CASE q # p
    BY <1>1, <1>5, <2>2 DEF HashInv, RestInv, Booted
  <2> QED BY <2>1, <2>2
<1>10. ChainsInv'
  <2> SUFFICES ASSUME ~spoilt'
               PROVE  /\ \A q, r \in Openers : Signalled(q)' /\ Signalled(r)' => q = r
                      /\ (\A q \in Openers : ~Signalled(q)') => \A c \in Lives : Settled(c)'
                      /\ \A q \in Openers : Signalled(q)' => Underway(opener[q])'
    BY DEF ChainsInv
  <2>1. /\ \A q, r \in Openers : Signalled(q) /\ Signalled(r) => q = r
        /\ (\A q \in Openers : ~Signalled(q)) => \A c \in Lives : Settled(c)
        /\ \A q \in Openers : Signalled(q) => Underway(opener[q])
        /\ Signals(v) # {} => \A q \in Openers \ {p} : ~Signalled(q)
    BY <1>1 DEF HashInv, RestInv, ChainsInv, Beside, Signalled
  <2>2. /\ \A q \in Openers \ {p} : Signalled(q)' <=> Signalled(q)
        /\ Signalled(p)' <=> Signalled(p) \/ Signals(v) # {}
    BY <1>4, <1>5 DEF Signalled, s
  <2>3. \A q, r \in Openers : Signalled(q)' /\ Signalled(r)' => q = r
    BY <2>1, <2>2
  <2>4. ASSUME \A q \in Openers : ~Signalled(q)', NEW c \in Lives PROVE Settled(c)'
    <3>1. Signals(v) = {} /\ Settled(c)
      BY <2>1, <2>2, <2>4
    <3>2. v \in Signalling => v <= Top
      BY <1>3, <1>6, <3>1
    <3> QED BY <1>1, <1>2, <3>1, <3>2, StaysSettled
  <2>5. ASSUME NEW q \in Openers \ {p}, Signalled(q)' PROVE Underway(opener[q])'
    <3>1. Signalled(q) /\ Signals(v) = {} /\ Underway(opener[q]) /\ opener'[q] = opener[q]
      BY <1>5, <2>1, <2>2, <2>5
    <3>2. ledger # {}
      BY <3>1 DEF Signalled, HashInv, RestInv, Booted
    <3>3. Top' = Top \/ (Top = v - 1 /\ Top' = v /\ v \notin Signalling)
      <4>1. CASE Top >= v
        <5>1. Top' = Top
          BY <1>2, <1>6, <4>1
        <5> QED BY <5>1
      <4>2. CASE Top < v
        <5>1. v \notin Signalling
          BY <1>3, <3>1, <4>2
        <5>2. ~(Top >= v)
          BY <1>6, <4>2
        <5>3. Top = v - 1 /\ Top' = v
          BY <1>2, <3>2, <5>2
        <5> QED BY <5>1, <5>3
      <4> QED BY <1>6, <4>1, <4>2
    <3>4. \A w \in Signalling : w <= Top' => w <= opener'[q].build
      BY <1>6, <3>1, <3>3 DEF Underway
    <3>5. opener'[q].build < LifeVersion /\ LifeVersion <= Top' => chains'["life"] = <<>>
      BY <1>1, <1>6, <1>7, <3>1, <3>3 DEF Underway
    <3> QED BY <1>1, <3>1, <3>4, <3>5 DEF Underway, UniformChain
  <2>6. ASSUME Signalled(p)' PROVE Underway(opener[p])'
    <3>1. Signalled(p) \/ (v \in Signalling /\ Top < v)
      BY <1>3, <2>2, <2>6
    <3>2. Top' <= b \/ (Top' = Top /\ Signalled(p))
      BY <1>2, <1>6, <3>1
    <3>3. \A w \in Signalling : w <= Top' => w <= b
      BY <1>6, <2>1, <3>2 DEF Underway, b
    <3>4. b < LifeVersion /\ LifeVersion <= Top' => chains["life"] = <<>>
      BY <1>6, <2>1, <3>2 DEF Underway, b
    <3> QED BY <1>1, <1>4, <1>5, <1>7, <3>3, <3>4 DEF Underway
  <2> QED BY <2>3, <2>4, <2>5, <2>6
<1> QED BY <1>8, <1>9, <1>10 DEF HashInv, RestInv

-----------------------------------------------------------------------------
(* The chains: the re-chain at boot *)

(* What a process in the re-chain is at.                                   *)
LEMMA RechainAt ==
  ASSUME HashInv, NEW p \in Openers, opener[p].pc = "rechain"
  PROVE  LET o == opener[p]  c == ChainNames[o.chain]
         IN  /\ engine = "sqlite" /\ Signalled(p) /\ DOMAIN o = OpenerFields
             /\ o.build \in SchemaVersions /\ FormOf(o.build) \in Forms
             /\ o.chain \in 1 .. 2 /\ c \in Lives /\ c = (IF o.chain = 1 THEN "inc_0" ELSE "life")
             /\ o.rows \in Nat /\ o.row \in 1 .. o.rows + 1
             /\ chains[c] \in Seq(Links) /\ heads[c] \in Seq(Forms) /\ o.rows <= Len(chains[c])
<1> DEFINE o == opener[p]
<1>1. /\ o.build \in SchemaVersions /\ engine = "sqlite" /\ o.signals # {} /\ DOMAIN o = OpenerFields
      /\ o.chain \in 1 .. 2 /\ o.rows \in Nat /\ o.row \in 1 .. o.rows + 1 /\ o.rows <= Len(chains[ChainNames[o.chain]])
  BY DEF HashInv, SchemaInv, OpenersInv, RestInv, Booted
<1>2. ChainNames[o.chain] = IF o.chain = 1 THEN "inc_0" ELSE "life"
  BY <1>1 DEF ChainNames
<1>3. FormOf(o.build) \in Forms
  BY <1>1, FormFacts
<1>4. ChainNames[o.chain] \in Lives
  BY <1>2 DEF Lives
<1>5. chains \in [Lives -> Seq(Links)] /\ heads \in [Lives -> Seq(Forms)]
  BY DEF HashInv, RestInv, ChainsType
<1> QED BY <1>1, <1>2, <1>3, <1>4, <1>5 DEF Signalled

LEMMA RowRechained ==
  ASSUME HashInv, SchemaInv', NEW p \in Openers, RechainRow(p)
  PROVE  HashInv'
<1> DEFINE o == opener[p]
           c == ChainNames[o.chain]
           form == FormOf(o.build)
           w == [o EXCEPT !.row = @ + 1]
           list == [chains[c] EXCEPT ![o.row] = LinkOf(form, o.row)]
<1>1. /\ o.pc = "rechain" /\ o.row <= o.rows /\ UNCHANGED <<engine, shape, ledger, heads, spoilt>>
      /\ chains' = [chains EXCEPT ![c] = list]
      /\ opener' = [opener EXCEPT ![p] = w]
  BY DEF RechainRow, LinkOf
<1>2. /\ engine = "sqlite" /\ Signalled(p) /\ DOMAIN o = OpenerFields
      /\ o.build \in SchemaVersions /\ form \in Forms
      /\ o.chain \in 1 .. 2 /\ c \in Lives /\ c = (IF o.chain = 1 THEN "inc_0" ELSE "life")
      /\ o.rows \in Nat /\ o.row \in 1 .. o.rows + 1
      /\ chains[c] \in Seq(Links) /\ heads[c] \in Seq(Forms) /\ o.rows <= Len(chains[c])
  BY <1>1, RechainAt
<1>3. opener'[p] = w /\ \A q \in Openers \ {p} : opener'[q] = opener[q]
  BY <1>1, OthersStay
<1>4. /\ w.pc = o.pc /\ w.build = o.build /\ w.signals = o.signals /\ w.chain = o.chain /\ w.rows = o.rows
      /\ w.row = o.row + 1
  BY <1>2 DEF OpenerFields
<1> HIDE DEF w
<1>5. o.row \in Nat \ {0} /\ o.row \in 1 .. Len(chains[c]) /\ o.row + 1 \in 1 .. o.rows + 1 /\ Len(chains[c]) \in Nat
  <2>1. Len(chains[c]) \in Nat
    BY <1>2
  <2> QED BY <1>1, <1>2, <2>1
<1>6. LinkOf(form, o.row) \in Links
  BY <1>2, <1>5, LinkFacts
<1>7. /\ list \in Seq(Links) /\ Len(list) = Len(chains[c]) /\ list[o.row] = LinkOf(form, o.row)
      /\ \A i \in 1 .. Len(list) : i # o.row => list[i] = chains[c][i]
  <2>1. \A l \in Seq(Links) : \A k \in 1 .. Len(l), x \in Links :
          LET m == [l EXCEPT ![k] = x]
          IN  m \in Seq(Links) /\ Len(m) = Len(l) /\ m[k] = x /\ \A i \in 1 .. Len(m) : i # k => m[i] = l[i]
    OBVIOUS
  <2> QED BY <1>2, <1>5, <1>6, <2>1
<1> HIDE DEF list
<1>8. chains \in [Lives -> Seq(Links)] /\ heads \in [Lives -> Seq(Forms)]
  BY DEF HashInv, RestInv, ChainsType
<1>9. /\ chains' \in [Lives -> Seq(Links)] /\ chains'[c] = list
      /\ \A d \in Lives : d # c => chains'[d] = chains[d]
  <2>1. \A f \in [Lives -> Seq(Links)], d \in Lives, x \in Seq(Links) :
          LET g == [f EXCEPT ![d] = x]
          IN  g \in [Lives -> Seq(Links)] /\ g[d] = x /\ \A e \in Lives : e # d => g[e] = f[e]
    BY Zenon
  <2>2. chains' = [chains EXCEPT ![c] = list]
    BY <1>1 DEF list
  <2> HIDE DEF c
  <2> QED BY <1>2, <1>7, <1>8, <2>1, <2>2
<1>10. \A d \in Lives : Len(chains'[d]) = Len(chains[d]) /\ (chains'[d] = <<>> <=> chains[d] = <<>>)
  <2>1. \A l \in Seq(Links), m \in Seq(Links) : Len(l) = Len(m) => (l = <<>> <=> m = <<>>)
    OBVIOUS
  <2> QED BY <1>2, <1>7, <1>9, <2>1
<1> DEFINE Names(k) == ChainNames[k]
<1>11. Names(1) = "inc_0" /\ Names(2) = "life" /\ Lives = {"inc_0", "life"}
  BY DEF ChainNames, Lives
<1>12. ChainsType' /\ ShapeInv'
  <2>1. /\ Top = 0 => chains'["inc_0"] = <<>>
        /\ Top < LifeVersion => chains'["life"] = <<>>
        /\ \A d \in Lives : chains'[d] = <<>> => heads[d] = <<>>
    BY <1>2, <1>10, <1>11 DEF HashInv, RestInv, ShapeInv
  <2> QED BY <1>1, <1>2, <1>8, <1>9, <2>1 DEF ChainsType, HashInv, RestInv, ShapeInv, Top, Shown
<1>13. ASSUME NEW q \in Openers PROVE Booted(opener[q])'
  <2>1. CASE q = p
    <3>1. o.signals # {} /\ ledger # {}
      BY <1>2 DEF Signalled, HashInv, RestInv, Booted
    <3>2. w.rows <= Len(chains'[ChainNames[w.chain]])
      BY <1>2, <1>4, <1>10
    <3> QED BY <1>1, <1>2, <1>3, <1>4, <1>5, <2>1, <3>1, <3>2 DEF Booted
  <2>2. CASE q # p
    <3>1. Booted(opener[q]) /\ opener'[q] = opener[q]
      BY <1>3, <2>2 DEF HashInv, RestInv
    <3>2. ASSUME opener[q].pc = "rechain" PROVE Len(chains'[ChainNames[opener[q].chain]]) = Len(chains[ChainNames[opener[q].chain]])
      BY <1>10, <3>2, RechainAt
    <3> QED BY <1>1, <3>1, <3>2 DEF Booted
  <2> QED BY <2>1, <2>2
<1>14. ChainsInv'
  <2> SUFFICES ASSUME ~spoilt'
               PROVE  /\ \A q, r \in Openers : Signalled(q)' /\ Signalled(r)' => q = r
                      /\ (\A q \in Openers : ~Signalled(q)') => \A d \in Lives : Settled(d)'
                      /\ \A q \in Openers : Signalled(q)' => Underway(opener[q])'
    BY DEF ChainsInv
  <2>1. /\ \A q, r \in Openers : Signalled(q) /\ Signalled(r) => q = r
        /\ Underway(o)
    BY <1>1, <1>2 DEF HashInv, RestInv, ChainsInv
  <2>2. \A q \in Openers : Signalled(q)' <=> Signalled(q)
    BY <1>3, <1>4 DEF Signalled
  <2>3. \A i \in 1 .. o.row : chains'[c][i] = LinkOf(form, i)
    <3>1. \A i \in 1 .. o.row - 1 : chains[c][i] = LinkOf(form, i)
      BY <1>1, <2>1 DEF Underway
    <3>2. ASSUME NEW i \in 1 .. o.row PROVE list[i] = LinkOf(form, i)
      <4>1. i \in 1 .. Len(list) /\ (i = o.row \/ i \in 1 .. o.row - 1)
        BY <1>5, <1>7
      <4> QED BY <1>7, <3>1, <4>1
    <3> QED BY <1>9, <3>2
  <2>4. o.rows = Len(chains'[c])
    BY <1>1, <1>2, <1>10, <2>1 DEF Underway
  <2>5. ASSUME o.chain = 2
        PROVE  (\A i \in 1 .. Len(chains'["inc_0"]) : chains'["inc_0"][i] = LinkOf(form, i)) /\ heads["inc_0"] = HeadOf(chains'["inc_0"])
    <3>1. chains'["inc_0"] = chains["inc_0"]
      BY <1>2, <1>9, <1>11, <2>5
    <3>2. UniformChain("inc_0", form) /\ heads["inc_0"] = HeadOf(chains["inc_0"])
      BY <1>1, <2>1, <2>5 DEF Underway
    <3> QED BY <3>1, <3>2 DEF UniformChain
  <2>6. o.build < LifeVersion /\ LifeVersion <= Top => chains'["life"] = <<>>
    BY <1>10, <1>11, <2>1 DEF Underway
  <2>7. (\A v \in Signalling : v <= Top => v <= o.build) /\ Top' = Top
    BY <1>1, <2>1 DEF Underway, Top, Shown
  <2>8. w.row - 1 = o.row
    BY <1>4, <1>5
  <2>9. Underway(opener[p])'
    BY <1>1, <1>3, <1>4, <2>3, <2>4, <2>5, <2>6, <2>7, <2>8 DEF Underway, UniformChain
  <2> QED BY <1>2, <2>1, <2>2, <2>9
<1> QED BY <1>12, <1>13, <1>14 DEF HashInv, RestInv

(* The form of a re-chain that is through is the latest that counts.       *)
LEMMA RechainForm ==
  ASSUME HashInv, NEW p \in Openers, opener[p].pc = "rechain", Underway(opener[p])
  PROVE  /\ FormOf(opener[p].build) \in FormsOf(Top)
         /\ (chains["life"] # <<>> \/ Top < LifeVersion) => FormOf(opener[p].build) = FormOf(Top)
<1> DEFINE b == opener[p].build
<1>1. engine = "sqlite"
  BY RechainAt
<1>2. b \in SchemaVersions /\ b \in 1 .. Top /\ Top \in SchemaVersions
  BY <1>1, BuildIsShown
<1>3. b \in Nat \ {0} /\ Top \in Nat \ {0} /\ b <= Top
  BY <1>2, FormFacts
<1>4. FormOf(b) \in FormsOf(Top)
  BY <1>2, FormFacts
<1>5. /\ \A v \in Signalling : v <= Top => v <= b
      /\ b < LifeVersion /\ LifeVersion <= Top => chains["life"] = <<>>
  BY DEF Underway
<1>6. Signalling \subseteq Nat /\ LifeVersion \in Nat
  <2>1. LastVersion \in Nat /\ LifeVersion \in 1 .. LastVersion /\ Signalling \subseteq 1 .. LastVersion
    BY MigrationsAssumption
  <2> QED BY <2>1
<1>7. ASSUME chains["life"] # <<>> \/ Top < LifeVersion
      PROVE  FormOf(b) = FormOf(Top)
  <2> HIDE DEF b
  <2>1. LifeVersion <= b <=> LifeVersion <= Top
    BY <1>3, <1>5, <1>6, <1>7
  <2>2. \A f \in {1, LifeVersion} \cup Signalling : f <= b <=> f <= Top
    BY <1>3, <1>5, <1>6, <2>1
  <2>3. \A x, y \in Nat : x = b /\ y = Top => FormOf(x) = FormOf(y)
    BY <2>2, FormSame
  <2> QED BY <1>3, <2>3
<1> QED BY <1>4, <1>7

LEMMA HeadRechained ==
  ASSUME HashInv, SchemaInv', NEW p \in Openers, RechainHead(p)
  PROVE  HashInv'
<1> DEFINE o == opener[p]
           c == ChainNames[o.chain]
           form == FormOf(o.build)
           w == IF o.chain < Len(ChainNames)
                THEN [o EXCEPT !.chain = @ + 1, !.row = 1, !.rows = Len(chains[ChainNames[o.chain + 1]])]
                ELSE [Down EXCEPT !.pc = "open", !.build = o.build]
<1>1. /\ o.pc = "rechain" /\ o.row > o.rows /\ UNCHANGED <<engine, shape, ledger, chains, spoilt>>
      /\ heads' = IF o.rows = 0 THEN heads ELSE [heads EXCEPT ![c] = Uniform(form, o.rows)]
      /\ opener' = [opener EXCEPT ![p] = w]
  BY DEF RechainHead
<1>2. /\ engine = "sqlite" /\ Signalled(p) /\ DOMAIN o = OpenerFields
      /\ o.build \in SchemaVersions /\ form \in Forms
      /\ o.chain \in 1 .. 2 /\ c \in Lives /\ c = (IF o.chain = 1 THEN "inc_0" ELSE "life")
      /\ o.rows \in Nat /\ o.row \in 1 .. o.rows + 1
      /\ chains[c] \in Seq(Links) /\ heads[c] \in Seq(Forms) /\ o.rows <= Len(chains[c])
  BY <1>1, RechainAt
<1>3. opener'[p] = w /\ \A q \in Openers \ {p} : opener'[q] = opener[q]
  BY <1>1, OthersStay
<1>4. Len(ChainNames) = 2 /\ ChainNames[1] = "inc_0" /\ ChainNames[2] = "life" /\ Lives = {"inc_0", "life"}
  BY DEF ChainNames, Lives
<1>5. ASSUME o.chain = 1
      PROVE  /\ w.pc = "rechain" /\ w.build = o.build /\ w.signals = o.signals /\ w.chain = 2 /\ w.row = 1
             /\ w.rows = Len(chains["life"])
  BY <1>1, <1>2, <1>4, <1>5 DEF OpenerFields
<1>6. ASSUME o.chain = 2 PROVE w.pc = "open" /\ w.build = o.build /\ w.signals = {}
  BY <1>4, <1>6 DEF Down
<1> HIDE DEF w
<1>7. chains \in [Lives -> Seq(Links)] /\ heads \in [Lives -> Seq(Forms)]
  BY DEF HashInv, RestInv, ChainsType
<1>8. /\ heads' \in [Lives -> Seq(Forms)]
      /\ heads'[c] = IF o.rows = 0 THEN heads[c] ELSE Uniform(form, o.rows)
      /\ \A d \in Lives : d # c => heads'[d] = heads[d]
  <2>1. \A f \in [Lives -> Seq(Forms)], d \in Lives, x \in Seq(Forms) :
          LET g == [f EXCEPT ![d] = x]
          IN  g \in [Lives -> Seq(Forms)] /\ g[d] = x /\ \A e \in Lives : e # d => g[e] = f[e]
    BY Zenon
  <2>2. Uniform(form, o.rows) \in Seq(Forms)
    BY <1>2, UniformFacts
  <2> HIDE DEF c, form
  <2> QED BY <1>1, <1>2, <1>7, <2>1, <2>2
<1>9. \A d \in Lives : chains[d] = <<>> => heads[d] = <<>>
  BY DEF HashInv, RestInv, ShapeInv
<1>10. ASSUME NEW d \in Lives, chains[d] = <<>> PROVE heads'[d] = <<>>
  <2>1. CASE d = c
    <3>1. Len(chains[d]) = 0
      BY <1>10
    <3>2. o.rows = 0
      BY <1>2, <2>1, <3>1
    <3> QED BY <1>8, <1>9, <1>10, <2>1, <3>2
  <2>2. CASE d # c
    BY <1>8, <1>9, <1>10, <2>2
  <2> QED BY <2>1, <2>2
<1>11. ChainsType' /\ ShapeInv'
  BY <1>1, <1>7, <1>8, <1>10 DEF ChainsType, HashInv, RestInv, ShapeInv, Top, Shown
<1>12. ASSUME NEW q \in Openers PROVE Booted(opener[q])'
  <2>1. CASE q = p
    <3>1. o.signals # {} /\ ledger # {}
      BY <1>2 DEF Signalled, HashInv, RestInv, Booted
    <3>2. Len(chains["life"]) \in Nat
      BY <1>4, <1>7
    <3>3. CASE o.chain = 1
      BY <1>1, <1>2, <1>3, <1>4, <1>5, <2>1, <3>1, <3>2, <3>3 DEF Booted
    <3>4. CASE o.chain = 2
      BY <1>1, <1>2, <1>3, <1>6, <2>1, <3>4 DEF Booted
    <3> QED BY <1>2, <3>3, <3>4
  <2>2. CASE q # p
    BY <1>1, <1>3, <2>2 DEF HashInv, RestInv, Booted
  <2> QED BY <2>1, <2>2
<1>13. ChainsInv'
  <2> SUFFICES ASSUME ~spoilt'
               PROVE  /\ \A q, r \in Openers : Signalled(q)' /\ Signalled(r)' => q = r
                      /\ (\A q \in Openers : ~Signalled(q)') => \A d \in Lives : Settled(d)'
                      /\ \A q \in Openers : Signalled(q)' => Underway(opener[q])'
    BY DEF ChainsInv
  <2>1. /\ \A q, r \in Openers : Signalled(q) /\ Signalled(r) => q = r
        /\ Underway(o)
    BY <1>1, <1>2 DEF HashInv, RestInv, ChainsInv
  <2>2. \A q \in Openers \ {p} : ~Signalled(q)'
    BY <1>2, <1>3, <2>1 DEF Signalled
  <2>3. /\ o.rows = Len(chains[c]) /\ \A i \in 1 .. Len(chains[c]) : chains[c][i] = LinkOf(form, i)
        /\ o.chain = 2 => UniformChain("inc_0", form) /\ heads["inc_0"] = HeadOf(chains["inc_0"])
        /\ \A v \in Signalling : v <= Top => v <= o.build
        /\ o.build < LifeVersion /\ LifeVersion <= Top => chains["life"] = <<>>
    <3>1. o.row - 1 = o.rows
      <4>1. \A a \in Nat : \A b \in 1 .. a + 1 : b > a => b - 1 = a
        OBVIOUS
      <4>2. o.rows \in Nat /\ o.row \in 1 .. o.rows + 1 /\ o.row > o.rows
        BY <1>1, <1>2
      <4> HIDE DEF o
      <4> QED BY <4>1, <4>2
    <3> QED BY <1>1, <2>1, <3>1 DEF Underway
  <2>4. heads'[c] = HeadOf(chains[c])
    <3>1. CASE o.rows = 0
      <4>1. chains[c] = <<>>
        <5>1. chains[c] \in Seq(Links) /\ Len(chains[c]) = 0
          BY <1>2, <2>3, <3>1
        <5>2. \A l \in Seq(Links) : Len(l) = 0 => l = <<>>
          OBVIOUS
        <5> QED BY <5>1, <5>2
      <4> QED BY <1>2, <1>8, <1>9, <3>1, <4>1 DEF HeadOf
    <3>2. CASE o.rows # 0
      <4>1. chains[c] # <<>> /\ chains[c][Len(chains[c])] = LinkOf(form, Len(chains[c]))
        BY <1>2, <2>3, <3>2
      <4>2. HeadOf(chains[c]) = Uniform(form, Len(chains[c]))
        BY <1>2, <4>1, HeadFacts
      <4> QED BY <1>8, <2>3, <3>2, <4>2
    <3> QED BY <3>1, <3>2
  <2>5. Top' = Top
    BY <1>1 DEF Top, Shown
  <2>6. CASE o.chain = 1
    <3>1. Signalled(p)'
      BY <1>2, <1>3, <1>5, <2>6 DEF Signalled
    <3>2. (\A i \in 1 .. Len(chains["inc_0"]) : chains["inc_0"][i] = LinkOf(form, i)) /\ heads'["inc_0"] = HeadOf(chains["inc_0"])
      BY <1>2, <2>3, <2>4, <2>6
    <3>3. w.row - 1 = 0 /\ 1 .. 0 = {}
      BY <1>5, <2>6
    <3>4. Underway(opener[p])'
      BY <1>1, <1>3, <1>4, <1>5, <2>3, <2>5, <2>6, <3>2, <3>3 DEF Underway, UniformChain
    <3> QED BY <2>2, <3>1, <3>4
  <2>7. CASE o.chain = 2
    <3>1. ~Signalled(p)'
      BY <1>3, <1>6, <2>7 DEF Signalled
    <3>2. /\ form \in FormsOf(Top)
          /\ chains["life"] # <<>> \/ Top < LifeVersion => form = FormOf(Top)
      BY <1>1, <2>1, RechainForm
    <3>3. ASSUME NEW d \in Lives
          PROVE  heads'[d] = HeadOf(chains[d]) /\ \A i \in 1 .. Len(chains[d]) : chains[d][i] = LinkOf(form, i)
      <4>1. CASE d = "life"
        BY <1>2, <2>3, <2>4, <2>7, <4>1
      <4>2. CASE d = "inc_0"
        BY <1>2, <1>8, <2>3, <2>7, <3>3, <4>2 DEF UniformChain
      <4> QED BY <1>4, <4>1, <4>2
    <3>4. PICK f : f = form
      OBVIOUS
    <3>5. ASSUME NEW d \in Lives PROVE Settled(d)'
      <4>1. heads'[d] = HeadOf(chains'[d]) /\ UniformChain(d, f)'
        BY <1>1, <3>3, <3>4 DEF UniformChain
      <4>2. f \in FormsOf(Top')
        BY <2>5, <3>2, <3>4
      <4>3. chains'[d] # <<>> => (d = "life" \/ Top' < LifeVersion => f = FormOf(Top'))
        BY <1>1, <2>5, <3>2, <3>4
      <4> QED BY <4>1, <4>2, <4>3 DEF Settled
    <3> QED BY <2>2, <3>1, <3>5
  <2> QED BY <1>2, <2>6, <2>7
<1> QED BY <1>11, <1>12, <1>13 DEF HashInv, RestInv

-----------------------------------------------------------------------------
(* The chains: rows written *)

(* A chain written anew, under the form of a build that is up to date.     *)
LEMMA WrittenOn ==
  ASSUME HashInv, SchemaInv', NEW p \in Openers, Writing(p), NEW c \in Lives, c = "life" => opener[p].build >= LifeVersion,
         NEW list \in Seq(Links), list # <<>>, Len(list) >= Len(chains[c]),
         chains' = [chains EXCEPT ![c] = list], heads' = [heads EXCEPT ![c] = HeadOf(list)],
         UNCHANGED <<engine, shape, ledger, opener>>,
         spoilt \/ Outdated(p) \/ Beside(p) => spoilt',
         ~spoilt' /\ Settled(c) /\ opener[p].build = Top => \A i \in 1 .. Len(list) : list[i] = LinkOf(FormOf(opener[p].build), i)
  PROVE  HashInv'
<1> DEFINE b == opener[p].build
<1>1. engine = "sqlite" /\ opener[p].pc = "open" /\ opener[p].signals = {}
  BY DEF Writing, HashInv, RestInv, Booted
<1>2. b \in SchemaVersions /\ b \in 1 .. Top /\ Top \in SchemaVersions
  BY <1>1, BuildIsShown
<1>3. b \in Nat \ {0} /\ Top \in Nat \ {0} /\ b <= Top /\ LifeVersion \in Nat
  <2>1. LastVersion \in Nat /\ LifeVersion \in 1 .. LastVersion
    BY MigrationsAssumption
  <2>2. LifeVersion \in Nat
    BY <2>1
  <2> QED BY <1>2, <2>2, FormFacts
<1> HIDE DEF b
<1>4. chains \in [Lives -> Seq(Links)] /\ heads \in [Lives -> Seq(Forms)]
  BY DEF HashInv, RestInv, ChainsType
<1>5. /\ chains' \in [Lives -> Seq(Links)] /\ chains'[c] = list
      /\ \A d \in Lives : d # c => chains'[d] = chains[d]
  <2>1. \A f \in [Lives -> Seq(Links)], d \in Lives, x \in Seq(Links) :
          LET g == [f EXCEPT ![d] = x]
          IN  g \in [Lives -> Seq(Links)] /\ g[d] = x /\ \A e \in Lives : e # d => g[e] = f[e]
    BY Zenon
  <2> QED BY <1>4, <2>1
<1>6. /\ heads' \in [Lives -> Seq(Forms)] /\ heads'[c] = HeadOf(list)
      /\ \A d \in Lives : d # c => heads'[d] = heads[d]
  <2>1. \A f \in [Lives -> Seq(Forms)], d \in Lives, x \in Seq(Forms) :
          LET g == [f EXCEPT ![d] = x]
          IN  g \in [Lives -> Seq(Forms)] /\ g[d] = x /\ \A e \in Lives : e # d => g[e] = f[e]
    BY Zenon
  <2>2. HeadOf(list) \in Seq(Forms)
    BY HeadFacts
  <2> QED BY <1>4, <2>1, <2>2
<1>7. Top' = Top /\ Shown' = Shown
  BY DEF Top, Shown
<1>8. ChainsType' /\ ShapeInv'
  <2>1. /\ Top < LifeVersion => chains["life"] = <<>>
        /\ Top \in 0 .. LastVersion /\ Shown = 1 .. Top
        /\ ledger = {} => shape = {}
        /\ \A d \in Lives : chains[d] = <<>> => heads[d] = <<>>
    BY <1>1 DEF HashInv, RestInv, ShapeInv
  <2>2. Top < LifeVersion => chains'["life"] = <<>>
    <3>1. SUFFICES ASSUME Top < LifeVersion PROVE chains'["life"] = <<>>
      OBVIOUS
    <3>2. ~(b >= LifeVersion)
      BY <1>3, <3>1
    <3>3. c # "life"
      BY <3>2 DEF b
    <3> QED BY <1>5, <2>1, <3>1, <3>3 DEF Lives
  <2>3. \A d \in Lives : chains'[d] = <<>> => heads'[d] = <<>>
    BY <1>5, <1>6, <2>1
  <2>4. Top' # 0
    BY <1>3, <1>7
  <2> QED BY <1>1, <1>5, <1>6, <1>7, <2>1, <2>2, <2>3, <2>4 DEF ChainsType, ShapeInv
<1>9. ASSUME NEW q \in Openers PROVE Booted(opener[q])'
  <2>1. Booted(opener[q])
    BY DEF HashInv, RestInv
  <2>2. ASSUME opener[q].pc = "rechain" PROVE opener[q].rows <= Len(chains'[ChainNames[opener[q].chain]])
    <3>1. /\ ChainNames[opener[q].chain] \in Lives /\ opener[q].rows \in Nat
          /\ opener[q].rows <= Len(chains[ChainNames[opener[q].chain]])
      BY <2>2, RechainAt
    <3>2. \A d \in Lives : Len(chains[d]) \in Nat /\ Len(chains'[d]) \in Nat /\ Len(chains[d]) <= Len(chains'[d])
      <4>1. \A d \in Lives : Len(chains[d]) \in Nat /\ Len(chains'[d]) \in Nat
        BY <1>4, <1>5
      <4> QED BY <1>5, <4>1
    <3> QED BY <3>1, <3>2
  <2> QED BY <2>1, <2>2 DEF Booted
<1>10. ChainsInv'
  <2> SUFFICES ASSUME ~spoilt'
               PROVE  /\ \A q, r \in Openers : Signalled(q)' /\ Signalled(r)' => q = r
                      /\ (\A q \in Openers : ~Signalled(q)') => \A d \in Lives : Settled(d)'
                      /\ \A q \in Openers : Signalled(q)' => Underway(opener[q])'
    BY DEF ChainsInv
  <2>1. \A q \in Openers : ~Signalled(q) /\ ~Signalled(q)'
    BY <1>1 DEF Beside, Signalled
  <2>2. \A d \in Lives : Settled(d)
    BY <2>1 DEF HashInv, RestInv, ChainsInv
  <2>3. b = Top
    <3>1. ~(b < Top)
      BY DEF Outdated, b, Top, Shown
    <3> QED BY <1>3, <3>1
  <2>4. \A i \in 1 .. Len(list) : list[i] = LinkOf(FormOf(Top), i)
    BY <2>2, <2>3 DEF b
  <2>5. FormOf(Top) \in FormsOf(Top)
    BY <1>2, <2>3, FormFacts
  <2>6. ASSUME NEW d \in Lives PROVE Settled(d)'
    <3>1. CASE d = c
      <4>1. UniformChain(d, FormOf(Top))'
        BY <1>5, <1>7, <2>4, <3>1 DEF UniformChain
      <4> QED BY <1>5, <1>6, <1>7, <2>5, <3>1, <4>1 DEF Settled
    <3>2. CASE d # c
      <4>1. chains'[d] = chains[d] /\ heads'[d] = heads[d] /\ Settled(d)
        BY <1>5, <1>6, <2>2, <3>2
      <4>2. \A form : UniformChain(d, form) => UniformChain(d, form)'
        BY <4>1 DEF UniformChain
      <4> QED BY <1>7, <4>1, <4>2 DEF Settled
    <3> QED BY <3>1, <3>2
  <2> QED BY <2>1, <2>6
<1> QED BY <1>8, <1>9, <1>10 DEF HashInv, RestInv

LEMMA Inserts ==
  ASSUME HashInv, SchemaInv', NEW p \in Openers, InsertUsageEvent(p)
  PROVE  HashInv'
<1> DEFINE b == opener[p].build
           c == ChainOf(b)
           blank == [prev |-> <<>>, hash |-> <<>>]
           longer == Append(chains[c], blank)
           n == Len(longer)
           list == RechainedFrom(longer, n, FormOf(b))
<1>1. /\ Writing(p) /\ UNCHANGED <<engine, shape, ledger, opener>>
      /\ chains' = [chains EXCEPT ![c] = list] /\ heads' = [heads EXCEPT ![c] = HeadOf(list)]
      /\ spoilt' = (spoilt \/ Outdated(p) \/ Beside(p))
  BY DEF InsertUsageEvent
<1>2. engine = "sqlite" /\ opener[p].pc = "open"
  BY <1>1 DEF Writing
<1>3. b \in SchemaVersions /\ b \in Nat /\ LifeVersion \in Nat /\ FormOf(b) \in Forms
  <2>1. LastVersion \in Nat /\ LifeVersion \in 1 .. LastVersion
    BY MigrationsAssumption
  <2>2. LifeVersion \in Nat
    BY <2>1
  <2> QED BY <1>2, <2>2, BuildIsShown, FormFacts
<1>4. c \in Lives /\ (c = "life" => b >= LifeVersion) /\ (c = "inc_0" => b < LifeVersion)
  BY <1>3 DEF ChainOf, Lives
<1>5. chains[c] \in Seq(Links)
  BY <1>4 DEF HashInv, RestInv, ChainsType
<1> HIDE DEF b, c
<1>6. blank \in Links
  BY DEF Links
<1> HIDE DEF blank
<1>7. /\ longer \in Seq(Links) /\ n = Len(chains[c]) + 1 /\ Len(chains[c]) \in Nat /\ n \in 1 .. n
      /\ \A i \in 1 .. Len(chains[c]) : longer[i] = chains[c][i]
  BY <1>5, <1>6
<1> HIDE DEF longer
<1>8. /\ list \in Seq(Links) /\ Len(list) = n /\ \A i \in 1 .. n - 1 : list[i] = longer[i]
      /\ n = 1 \/ longer[n - 1].hash = Uniform(FormOf(b), n - 1) => \A i \in n .. n : list[i] = LinkOf(FormOf(b), i)
  BY <1>3, <1>7, RechainedFacts
<1> HIDE DEF list
<1>9. list # <<>> /\ Len(list) >= Len(chains[c])
  BY <1>7, <1>8
<1>10. ASSUME Settled(c), b = Top PROVE \A i \in 1 .. Len(list) : list[i] = LinkOf(FormOf(b), i)
  <2>1. n - 1 = Len(chains[c])
    BY <1>7
  <2>2. CASE n = 1
    BY <1>8, <2>2
  <2>3. CASE n # 1
    <3>1. chains[c] # <<>> /\ n - 1 \in Nat \ {0} /\ n - 1 \in 1 .. Len(chains[c])
      BY <1>7, <2>3
    <3>2. \A i \in 1 .. Len(chains[c]) : chains[c][i] = LinkOf(FormOf(b), i)
      <4>1. PICK form \in FormsOf(Top) : UniformChain(c, form) /\ (c = "life" \/ Top < LifeVersion => form = FormOf(Top))
        BY <1>10, <3>1 DEF Settled
      <4>2. form = FormOf(b)
        BY <1>4, <1>10, <4>1 DEF Lives
      <4> QED BY <4>1, <4>2 DEF UniformChain
    <3>3. longer[n - 1].hash = Uniform(FormOf(b), n - 1)
      BY <1>3, <1>7, <3>1, <3>2, LinkFacts
    <3>4. \A i \in 1 .. n - 1 : list[i] = LinkOf(FormOf(b), i)
      BY <1>7, <1>8, <2>1, <3>2
    <3> QED BY <1>7, <1>8, <3>3, <3>4
  <2> QED BY <2>2, <2>3
<1>11. \A l : l = list => chains' = [chains EXCEPT ![c] = l] /\ heads' = [heads EXCEPT ![c] = HeadOf(l)]
  BY <1>1 DEF list, longer, c, b, blank
<1>12. list \in Seq(Links)
  BY <1>8
<1> QED BY <1>1, <1>4, <1>9, <1>10, <1>11, <1>12, WrittenOn DEF b

LEMMA Patches ==
  ASSUME HashInv, SchemaInv', NEW p \in Openers, NEW c \in Lives, NEW k, PatchUsageEvent(p, c, k)
  PROVE  HashInv'
<1> DEFINE b == opener[p].build
           list == RechainedFrom(chains[c], k, FormOf(b))
<1>1. /\ Writing(p) /\ UNCHANGED <<engine, shape, ledger, opener>> /\ k \in 1 .. Len(chains[c])
      /\ c = "life" => b >= LifeVersion
      /\ chains' = [chains EXCEPT ![c] = list] /\ heads' = [heads EXCEPT ![c] = HeadOf(chains'[c])]
      /\ spoilt' = (spoilt \/ Outdated(p) \/ Beside(p) \/ (k > 1 /\ chains[c][k].hash[k] # FormOf(b)))
  BY DEF PatchUsageEvent
<1>2. engine = "sqlite" /\ opener[p].pc = "open"
  BY <1>1 DEF Writing
<1>3. b \in SchemaVersions /\ FormOf(b) \in Forms
  BY <1>2, BuildIsShown, FormFacts
<1>4. chains \in [Lives -> Seq(Links)] /\ chains[c] \in Seq(Links)
  BY DEF HashInv, RestInv, ChainsType
<1> HIDE DEF b
<1>5. /\ list \in Seq(Links) /\ Len(list) = Len(chains[c]) /\ \A i \in 1 .. k - 1 : list[i] = chains[c][i]
      /\ k = 1 \/ chains[c][k - 1].hash = Uniform(FormOf(b), k - 1) => \A i \in k .. Len(chains[c]) : list[i] = LinkOf(FormOf(b), i)
  BY <1>1, <1>3, <1>4, RechainedFacts
<1>6. chains'[c] = list
  BY <1>1, <1>4
<1>7. Len(chains[c]) \in Nat /\ k \in Nat \ {0} /\ k <= Len(chains[c])
  BY <1>1, <1>4
<1> HIDE DEF list
<1>8. list # <<>> /\ Len(list) >= Len(chains[c])
  BY <1>5, <1>7
<1>9. ASSUME ~spoilt', Settled(c), b = Top PROVE \A i \in 1 .. Len(list) : list[i] = LinkOf(FormOf(b), i)
  <2>1. CASE k = 1
    BY <1>5, <2>1
  <2>2. CASE k # 1
    <3>1. k - 1 \in Nat \ {0} /\ k - 1 \in 1 .. Len(chains[c]) /\ chains[c] # <<>> /\ k > 1
      BY <1>4, <1>7, <2>2
    <3>2. PICK form \in FormsOf(Top) : UniformChain(c, form)
      BY <1>9, <3>1 DEF Settled
    <3>3. form \in Forms
      BY <1>3, <1>9, FormFacts
    <3>4. chains[c][k].hash[k] = form
      BY <1>1, <1>7, <3>2, <3>3, LinkFacts DEF UniformChain
    <3>5. form = FormOf(b)
      BY <1>1, <1>9, <3>1, <3>4
    <3>6. \A i \in 1 .. Len(chains[c]) : chains[c][i] = LinkOf(FormOf(b), i)
      BY <3>2, <3>5 DEF UniformChain
    <3>7. chains[c][k - 1].hash = Uniform(FormOf(b), k - 1)
      BY <1>3, <3>1, <3>6, LinkFacts
    <3>8. \A i \in 1 .. k - 1 : list[i] = LinkOf(FormOf(b), i)
      BY <1>5, <1>7, <3>6
    <3> QED BY <1>5, <1>7, <3>7, <3>8
  <2> QED BY <2>1, <2>2
<1>10. \A l : l = list => chains' = [chains EXCEPT ![c] = l] /\ heads' = [heads EXCEPT ![c] = HeadOf(l)]
  BY <1>1, <1>6
<1>11. list \in Seq(Links)
  BY <1>5
<1> QED BY <1>1, <1>8, <1>9, <1>10, <1>11, WrittenOn DEF b

-----------------------------------------------------------------------------
(* The chains: every step *)

LEMMA HashStep ==
  HashInv /\ [MigrationNext]_migrationVars => HashInv'
<1> SUFFICES ASSUME HashInv, [MigrationNext]_migrationVars PROVE HashInv'
  OBVIOUS
<1>1. SchemaInv
  BY DEF HashInv
<1>2. ASSUME NEW p \in Openers, Migrating(p) PROVE HashInv'
  <2>1. SchemaInv'
    BY <1>1, <1>2, OpenStep, CommitSteps, ExecStep DEF Migrating
  <2>2. ASSUME NEW to \in SchemaVersions, OpenDatabase(p, to) PROVE HashInv'
    BY <2>1, <2>2, Opens
  <2>3. CASE UpTogether(p)
    <3>1. CASE opener[p].next \in ledger
      BY <2>1, <2>3, <3>1, GivesUp DEF UpTogether, Lost
    <3>2. CASE opener[p].next \notin ledger
      BY <2>1, <2>3, <3>2, Commits
    <3> QED BY <3>1, <3>2
  <2>4. CASE Exec(p) \/ Record(p)
    BY <2>1, <2>4, CentralMigrates
  <2> QED BY <1>2, <2>2, <2>3, <2>4 DEF Migrating
<1>3. ASSUME NEW p \in Openers, Chaining(p) PROVE HashInv'
  <2>1. SchemaInv'
    BY <1>1, <1>3, ChainingSteps
  <2>2. ASSUME NEW c \in {"inc_0", "life"}, NEW k \in 1 .. MaxRows, PatchUsageEvent(p, c, k) PROVE HashInv'
    BY <2>1, <2>2, Patches DEF Lives
  <2> QED BY <1>3, <2>1, <2>2, RowRechained, HeadRechained, Inserts DEF Chaining
<1>4. ASSUME NEW p \in Openers, Exit(p) PROVE HashInv'
  <2>1. SchemaInv'
    BY <1>1, <1>4, GoesDown DEF Exit
  <2> QED BY <1>4, <2>1, GivesUp DEF Exit
<1>5. CASE UNCHANGED migrationVars
  <2>1. UNCHANGED <<engine, shape, ledger, opener, chains, heads, spoilt>> /\ Top' = Top /\ Shown' = Shown
    BY <1>5 DEF migrationVars, Top, Shown
  <2>2. SchemaInv'
    BY <2>1, <1>1 DEF SchemaInv, LedgerInv, OpenersInv, HasCome
  <2>3. ChainsType' /\ ShapeInv' /\ \A q \in Openers : Booted(opener[q])'
    BY <2>1 DEF HashInv, RestInv, ChainsType, ShapeInv, Booted
  <2>4. /\ \A q \in Openers : Signalled(q)' <=> Signalled(q)
        /\ \A c \in Lives : Settled(c) => Settled(c)'
        /\ \A q \in Openers : Underway(opener[q]) => Underway(opener[q])'
    BY <2>1 DEF Signalled, Settled, Underway, UniformChain
  <2>5. ChainsInv'
    BY <2>1, <2>4 DEF HashInv, RestInv, ChainsInv
  <2> QED BY <2>2, <2>3, <2>5 DEF HashInv, RestInv
<1> QED BY <1>2, <1>3, <1>4, <1>5 DEF MigrationNext

(* After every upgrade the build that made it, and any that follows, finds *)
(* the chains whole, whatever versions signal a re-chain and however many  *)
(* processes open the database: unless a process died or lost the race     *)
(* before it had hashed the chains anew, another wrote or hashed beside it *)
(* or under an older build, or a row of another form was corrected         *)
(* (server/store.js, rechainAllIncarnations, verifyUsageEventChain).       *)
THEOREM UpgradesVerify == MigrationSpec => []VerifiesAfterUpgrade
<1>1. HashInv => VerifiesAfterUpgrade
  <2> SUFFICES ASSUME HashInv, ~spoilt, NEW p \in Openers, opener[p].pc = "open", ~Outdated(p),
                      \A q \in Openers : opener[q].pc \in {"open", "down"}, NEW c \in Lives
               PROVE  Verifies(c, opener[p].build)
    BY DEF VerifiesAfterUpgrade, Lives
  <2> DEFINE b == opener[p].build
  <2>1. \A q \in Openers : ~Signalled(q)
    BY DEF HashInv, RestInv, Booted, Signalled
  <2>2. Settled(c)
    BY <2>1 DEF HashInv, RestInv, ChainsInv
  <2>3. b \in SchemaVersions /\ FormOf(b) \in FormsOf(b)
    <3>1. b \in SchemaVersions
      BY DEF HashInv, RestInv, Booted
    <3>2. b \in 1 .. b
      BY <3>1, FormFacts
    <3> QED BY <3>1, <3>2, FormFacts
  <2>4. CASE chains[c] = <<>>
    <3>1. Len(chains[c]) = 0 /\ 1 .. 0 = {}
      BY <2>4
    <3> QED BY <2>2, <2>3, <3>1 DEF Verifies, Settled
  <2>5. CASE chains[c] # <<>>
    <3>1. engine = "sqlite"
      BY <2>5 DEF HashInv, SchemaInv, OpenersInv, RestInv, ShapeInv
    <3>2. b \in 1 .. Top /\ Top \in SchemaVersions
      BY <3>1, BuildIsShown
    <3>3. b = Top
      <4>1. ~(b < Top)
        BY DEF Outdated, Top, Shown
      <4>2. b \in Nat /\ Top \in Nat /\ b <= Top
        BY <3>2, FormFacts
      <4> HIDE DEF b
      <4> QED BY <4>1, <4>2
    <3>4. PICK form \in FormsOf(b) : UniformChain(c, form)
      BY <2>2, <2>5, <3>3 DEF Settled
    <3> QED BY <2>2, <3>4 DEF Verifies, Settled, UniformChain, LinkOf
  <2> QED BY <2>4, <2>5
<1> QED BY <1>1, HashStart, HashStep, PTL DEF MigrationSpec

=============================================================================
