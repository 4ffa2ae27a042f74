-------------------------- MODULE UsageStreamProofs --------------------------
(***************************************************************************)
(* What UsageStream guarantees for every number of events, lifetimes,      *)
(* shipments and drainers, every batch size and cap: type correctness;     *)
(* that no event is lost between the node and central; that a hole in      *)
(* central's ledger is a trim; and that central counts an event once.      *)
(***************************************************************************)
EXTENDS UsageStream, OrderFacts, SequenceTheorems, TLAPS

(* Shipments are ordered by life and number: of a nonempty set of them one *)
(* is not before any other,                                                *)
LEMMA LatestExists ==
  ASSUME NEW S \in SUBSET Shipment, S # {}
  PROVE  \E s \in S : \A t \in S : ~Before(s, t)
<1> DEFINE L == {s.life : s \in S}
<1>1. L \in SUBSET Nat /\ IsFiniteSet(L) /\ L # {}
  <2>1. L \subseteq Lives /\ L # {}
    BY DEF Shipment
  <2> QED BY <2>1, StreamAssumption, FS_Subset
<1>2. PICK i \in L : \A j \in L : j <= i
  <2> HIDE DEF L
  <2> QED BY <1>1, GreatestOfFinite
<1> DEFINE N == {s.seq : s \in {t \in S : t.life = i}}
<1>3. N \in SUBSET Nat /\ N # {} /\ \A n \in N : n < MaxShipments + 1
  BY StreamAssumption DEF Shipment
<1>4. PICK n \in N : \A m \in N : m <= n
  <2> HIDE DEF N
  <2>1. MaxShipments + 1 \in Nat
    BY StreamAssumption
  <2> QED BY <1>3, <2>1, GreatestOfNats
<1>5. PICK s \in S : s.life = i /\ s.seq = n
  BY <1>4
<1>6. ASSUME NEW t \in S, Before(s, t) PROVE FALSE
  <2>1. t.life <= i /\ t.life \in Nat /\ i \in Nat
    BY <1>1, <1>2
  <2>2. t.life = i => t.seq <= n
    BY <1>4
  <2>3. t.seq \in Nat /\ n \in Nat
    BY <1>3, <1>4 DEF Shipment
  <2> HIDE DEF L, N
  <2> QED BY <1>5, <1>6, <2>1, <2>2, <2>3 DEF Before
<1> QED BY <1>5, <1>6

(* and one is not after any other.                                         *)
LEMMA EarliestExists ==
  ASSUME NEW S \in SUBSET Shipment, S # {}
  PROVE  \E s \in S : \A t \in S : ~Before(t, s)
<1> DEFINE L == {s.life : s \in S}
<1>1. L \in SUBSET Nat /\ L # {}
  BY StreamAssumption DEF Shipment
<1>2. PICK i \in L : \A j \in L : i <= j
  <2> HIDE DEF L
  <2> QED BY <1>1, LeastOfNats
<1> DEFINE N == {s.seq : s \in {t \in S : t.life = i}}
<1>3. N \in SUBSET Nat /\ N # {}
  BY DEF Shipment
<1>4. PICK n \in N : \A m \in N : n <= m
  <2> HIDE DEF N
  <2> QED BY <1>3, LeastOfNats
<1>5. PICK s \in S : s.life = i /\ s.seq = n
  BY <1>4
<1>6. ASSUME NEW t \in S, Before(t, s) PROVE FALSE
  <2>1. i <= t.life /\ t.life \in Nat /\ i \in Nat
    BY <1>1, <1>2
  <2>2. t.life = i => n <= t.seq
    BY <1>4
  <2>3. t.seq \in Nat /\ n \in Nat
    BY <1>3, <1>4 DEF Shipment
  <2> HIDE DEF L, N
  <2> QED BY <1>5, <1>6, <2>1, <2>2, <2>3 DEF Before
<1> QED BY <1>5, <1>6

-----------------------------------------------------------------------------
(* Type correctness *)

Batches == delayed \cup {sent[d] : d \in Drainers}
Finite == IsFiniteSet(outbox) /\ \A b \in Batches : IsFiniteSet(b)

(* The two parts of a batch's effect on central are of their types: the    *)
(* rows of an event,                                                       *)
LEMMA RowsType ==
  ASSUME TypeOK, NEW fresh \in SUBSET Shipment, NEW e \in Events
  PROVE  IngestedRows(fresh, e) \in Seq(Seq(Says))
<1> DEFINE Last(S)  == CHOOSE s \in S : \A t \in S : ~Before(s, t)
           inserts  == Inserts(fresh, e)
           first    == CHOOSE s \in inserts : \A t \in inserts : ~Before(t, s)
           updates  == {s \in fresh : s.event = e} \ inserts
           placed   == {s \in updates : inserts = {} \/ Before(first, s)}
           Old(n)   == IF updates = {} THEN central[e][n] ELSE Last(updates).covers
           old      == [n \in 1 .. Len(central[e]) |-> Old(n)]
           row      == IF placed = {} THEN first.covers ELSE Last(placed).covers
           new      == IF inserts = {} THEN <<>> ELSE <<row>>
<1>1. inserts \subseteq Shipment /\ updates \subseteq Shipment /\ placed \subseteq Shipment
  BY DEF Inserts
<1>2. central[e] \in Seq(Seq(Says))
  BY DEF TypeOK
<1>3. updates # {} => Last(updates).covers \in Seq(Says)
  <2> HIDE DEF updates
  <2> QED BY <1>1, LatestExists DEF Shipment
<1>4. placed # {} => Last(placed).covers \in Seq(Says)
  <2> HIDE DEF placed
  <2> QED BY <1>1, LatestExists DEF Shipment
<1>5. inserts # {} => first.covers \in Seq(Says)
  <2> HIDE DEF inserts
  <2> QED BY <1>1, EarliestExists DEF Shipment
<1>6. old \in Seq(Seq(Says))
  <2>1. \A n \in 1 .. Len(central[e]) : Old(n) \in Seq(Says)
    <3> HIDE DEF updates, Last
    <3> QED BY <1>2, <1>3
  <2>2. Len(central[e]) \in Nat
    BY <1>2
  <2> HIDE DEF Old
  <2> QED BY <2>1, <2>2
<1>7. new \in Seq(Seq(Says))
  <2>1. inserts # {} => row \in Seq(Says)
    <3> HIDE DEF inserts, placed, first, Last
    <3> QED BY <1>4, <1>5
  <2> HIDE DEF inserts, row
  <2> QED BY <2>1
<1>8. IngestedRows(fresh, e) = old \o new
  BY DEF IngestedRows
<1> HIDE DEF old, new
<1> QED BY <1>6, <1>7, <1>8, ConcatProperties

(* and the roster.                                                         *)
LEMMA RosterType ==
  ASSUME TypeOK, NEW fresh \in SUBSET Shipment, IsFiniteSet(fresh)
  PROVE  TrackNode(fresh) \in [events : Nat, life : Lives \cup {0}, lives : Nat]
<1> DEFINE touched == {s.event[1] : s \in fresh}
           newRows == {s \in fresh : s \in Inserts(fresh, s.event)}
<1>1. CASE fresh = {}
  BY <1>1 DEF TrackNode, TypeOK
<1>2. CASE fresh # {}
  <2>1. touched \subseteq Lives /\ touched # {}
    BY <1>2 DEF Shipment, Events
  <2>2. IsFiniteSet(touched) /\ Cardinality(touched) \in Nat \ {0}
    <3> HIDE DEF touched
    <3>1. IsFiniteSet(touched)
      BY <2>1, StreamAssumption, FS_Subset
    <3> QED BY <2>1, <3>1, FS_CardinalityType, FS_EmptySet
  <2>3. Greatest(touched) \in Lives
    <3> HIDE DEF touched
    <3>1. \E x \in touched : \A y \in touched : y <= x
      BY <2>1, <2>2, StreamAssumption, GreatestOfFinite
    <3> QED BY <2>1, <3>1 DEF Greatest
  <2>4. Cardinality(newRows) \in Nat
    BY FS_Subset, FS_CardinalityType
  <2>5. TrackNode(fresh) = [events |-> roster.events + Cardinality(newRows),
                            life   |-> Greatest(touched),
                            lives  |-> roster.lives + Cardinality(touched)
                                         - IF roster.life = Least(touched) THEN 1 ELSE 0]
    BY <1>2 DEF TrackNode
  <2>6. roster.events \in Nat /\ roster.lives \in Nat
    BY DEF TypeOK
  <2> HIDE DEF touched, newRows
  <2> QED BY <2>2, <2>3, <2>4, <2>5, <2>6
<1> QED BY <1>1, <1>2

LEMMA IngestType ==
  ASSUME TypeOK, NEW batch \in SUBSET Shipment, IsFiniteSet(batch), IngestBatch(batch)
  PROVE  /\ ledger' \subseteq Lives \X (1 .. MaxShipments) \X Kinds
         /\ central' \in [Events -> Seq(Seq(Says))]
         /\ roster' \in [events : Nat, life : Lives \cup {0}, lives : Nat]
<1> DEFINE fresh == {s \in batch : Key(s) \notin ledger}
<1>1. fresh \in SUBSET Shipment /\ IsFiniteSet(fresh)
  BY FS_Subset
<1>2. /\ ledger' = ledger \cup {Key(s) : s \in fresh}
      /\ central' = [e \in Events |-> IngestedRows(fresh, e)]
      /\ roster' = TrackNode(fresh)
  BY DEF IngestBatch
<1> HIDE DEF fresh
<1>3. \A e \in Events : IngestedRows(fresh, e) \in Seq(Seq(Says))
  BY <1>1, RowsType
<1>4. roster' \in [events : Nat, life : Lives \cup {0}, lives : Nat]
  BY <1>1, <1>2, RosterType
<1>5. \A s \in fresh : Key(s) \in Lives \X (1 .. MaxShipments) \X Kinds
  BY <1>1 DEF Key, Shipment
<1>6. ledger \subseteq Lives \X (1 .. MaxShipments) \X Kinds
  BY DEF TypeOK
<1> QED BY <1>2, <1>3, <1>4, <1>5, <1>6

(* There is room for a new event in the chain of this life: the ones       *)
(* recorded are at least as many as the places of the chain taken.         *)
LEMMA RoomInChain ==
  ASSUME TypeOK, Cardinality(Recorded) < MaxEvents
  PROVE  Len(chain[life]) + 1 \in 1 .. MaxEvents
<1>1. life \in Lives /\ chain[life] \in Seq(Says) /\ Len(chain[life]) \in Nat
  BY DEF TypeOK
<1>2. SUFFICES ASSUME MaxEvents <= Len(chain[life]) PROVE FALSE
  BY <1>1, StreamAssumption
<1>3. IsFiniteSet(Recorded) /\ Cardinality(Recorded) \in Nat
  <2>1. IsFiniteSet(Lives \X (1 .. MaxEvents))
    <3>1. IsFiniteSet(1 .. MaxEvents)
      BY StreamAssumption, FS_Interval
    <3> QED BY <3>1, StreamAssumption, FS_Product
  <2>2. Recorded \in SUBSET (Lives \X (1 .. MaxEvents))
    BY DEF Recorded, Events
  <2>3. IsFiniteSet(Recorded)
    BY <2>1, <2>2, FS_Subset
  <2> QED BY <2>3, FS_CardinalityType
<1>4. IsFiniteSet(1 .. MaxEvents) /\ Cardinality(1 .. MaxEvents) = MaxEvents
  BY <1>3, StreamAssumption, FS_Interval
<1> DEFINE taken == {life} \X (1 .. MaxEvents)
<1>5. taken \in SUBSET Recorded
  BY <1>1, <1>2, StreamAssumption DEF Recorded, Events
<1>6. Cardinality(taken) = MaxEvents
  <2>1. IsFiniteSet({life}) /\ Cardinality({life}) = 1
    BY FS_Singleton
  <2>2. Cardinality(taken) = Cardinality({life}) * Cardinality(1 .. MaxEvents)
    BY <1>4, <2>1, FS_Product
  <2> QED BY <1>4, <2>1, <2>2, StreamAssumption
<1> HIDE DEF taken
<1>7. Cardinality(taken) <= Cardinality(Recorded)
  BY <1>3, <1>5, FS_Subset
<1> QED BY <1>3, <1>6, <1>7, StreamAssumption

(* A shipment just queued, its payload read from the chain as it now is.   *)
Queued(kind, e) ==
  [life |-> life, seq |-> NextOutboxSeq, kind |-> kind, event |-> e,
   covers |-> SubSeq(chain'[e[1]], 1, e[2])]

LEMMA QueuedType ==
  ASSUME TypeOK, NEW kind \in Kinds, NEW e \in Events, NextOutboxSeq <= MaxShipments,
         chain' \in [Lives -> Seq(Says)], e[2] <= Len(chain'[e[1]])
  PROVE  /\ Queued(kind, e) \in Shipment
         /\ Queued(kind, e).covers[e[2]] = chain'[e[1]][e[2]] /\ Len(Queued(kind, e).covers) = e[2]
<1> DEFINE covers == SubSeq(chain'[e[1]], 1, e[2])
<1>1. e[1] \in Lives /\ e[2] \in 1 .. MaxEvents
  BY DEF Events
<1>2. chain'[e[1]] \in Seq(Says) /\ \A i \in 1 .. e[2] : chain'[e[1]][i] \in Says
  BY <1>1
<1>3. covers \in Seq(Says) /\ covers[e[2]] = chain'[e[1]][e[2]] /\ Len(covers) = e[2]
  <2>1. 1 \in Int /\ e[2] \in Int /\ e[2] \in 1 .. e[2] - 1 + 1 /\ 1 + e[2] - 1 = e[2]
    BY <1>1
  <2> QED BY <1>2, <2>1, SubSeqProperties
<1>4. life \in Lives /\ NextOutboxSeq \in 1 .. MaxShipments
  BY StreamAssumption DEF TypeOK, NextOutboxSeq
<1> HIDE DEF covers
<1>5. Queued(kind, e) = [life |-> life, seq |-> NextOutboxSeq, kind |-> kind, event |-> e,
                         covers |-> covers]
  BY DEF Queued, covers
<1> QED BY <1>3, <1>4, <1>5 DEF Shipment

TypeInv == TypeOK /\ Finite

LEMMA RecordType ==
  ASSUME TypeInv, Record
  PROVE  TypeInv'
<1>1. \E kind \in Kinds, e \in Events : EnqueueOutbox(kind, e) /\ e[2] <= Len(chain'[e[1]])
  <2>1. CASE InsertUsageEvent
    <3>1. Len(chain[life]) + 1 \in 1 .. MaxEvents
      BY <2>1, RoomInChain DEF InsertUsageEvent, TypeInv
    <3>2. <<life, Len(chain[life]) + 1>> \in Events /\ life \in Lives /\ chain \in [Lives -> Seq(Says)]
      BY <3>1 DEF Events, TypeInv, TypeOK
    <3>3. Len(chain'[life]) = Len(chain[life]) + 1
      BY <2>1, <3>2 DEF InsertUsageEvent
    <3> QED BY <2>1, <3>1, <3>2, <3>3 DEF InsertUsageEvent, Kinds
  <2>2. ASSUME NEW e \in Events, NEW says \in Says, PatchUsageEvent(e, says)
        PROVE  EnqueueOutbox("usage_event_correction", e) /\ e[2] <= Len(chain'[e[1]])
    <3>1. e[1] \in Lives /\ e[2] \in 1 .. MaxEvents /\ e[2] <= Len(chain[e[1]])
      BY <2>2 DEF PatchUsageEvent, Recorded, Events
    <3>2. chain[e[1]] \in Seq(Says) /\ chain'[e[1]] = [chain[e[1]] EXCEPT ![e[2]] = says]
      BY <2>2, <3>1 DEF PatchUsageEvent, TypeInv, TypeOK
    <3>3. Len(chain'[e[1]]) = Len(chain[e[1]])
      BY <3>1, <3>2, ExceptSeq
    <3> QED BY <2>2, <3>1, <3>3 DEF PatchUsageEvent
  <2> QED BY <2>1, <2>2 DEF Record, Kinds
<1>2. chain' \in [Lives -> Seq(Says)]
  <2>1. chain \in [Lives -> Seq(Says)] /\ life \in Lives
    BY DEF TypeInv, TypeOK
  <2>2. CASE InsertUsageEvent
    BY <2>1, <2>2 DEF InsertUsageEvent, Says
  <2>3. ASSUME NEW e \in Events, NEW says \in Says, PatchUsageEvent(e, says)
        PROVE  chain' \in [Lives -> Seq(Says)]
    <3>1. e[1] \in Lives /\ e[2] \in 1 .. Len(chain[e[1]]) /\ chain[e[1]] \in Seq(Says)
      BY <2>1, <2>3 DEF PatchUsageEvent, Recorded, Events
    <3>2. [chain[e[1]] EXCEPT ![e[2]] = says] \in Seq(Says)
      BY <3>1, ExceptSeq
    <3>3. chain' = [chain EXCEPT ![e[1]] = [chain[e[1]] EXCEPT ![e[2]] = says]]
      BY <2>3 DEF PatchUsageEvent
    <3> QED BY <2>1, <3>1, <3>2, <3>3
  <2> QED BY <2>2, <2>3 DEF Record
<1>3. PICK kind \in Kinds, e \in Events : EnqueueOutbox(kind, e) /\ e[2] <= Len(chain'[e[1]])
  BY <1>1
<1>4. outbox' = outbox \cup {Queued(kind, e)} /\ Queued(kind, e) \in Shipment
  BY <1>2, <1>3, QueuedType DEF EnqueueOutbox, Queued, TypeInv
<1>5. numbered' \in [Lives -> 0 .. MaxShipments]
  BY <1>3, StreamAssumption DEF EnqueueOutbox, NextOutboxSeq, TypeInv, TypeOK
<1>6. /\ UNCHANGED <<life, lived, trimmed, state, sent, delayed, ledger, central, roster>>
  BY DEF Record, InsertUsageEvent, PatchUsageEvent, shipVars, centralVars
<1>7. TypeOK'
  BY <1>2, <1>4, <1>5, <1>6 DEF TypeInv, TypeOK
<1>8. Finite'
  BY <1>4, <1>6, FS_AddElement DEF TypeInv, Finite, Batches
<1> QED BY <1>7, <1>8 DEF TypeInv

(* What is shipped was queued, and what is trimmed was queued.             *)
LEMMA BatchQueued ==
  ListOutboxBatch \subseteq outbox /\ \A n : Oldest(outbox, n) \subseteq outbox
BY DEF ListOutboxBatch, Oldest

LEMMA ShipperType ==
  ASSUME TypeInv, NEW d \in Drainers,
         StartDrain(d) \/ ShipOnce(d) \/ StopDrain(d) \/ AckOutbox(d) \/ ShipFailed(d) \/ TrimUsageOutbox(d)
  PROVE  TypeInv'
<1> USE DEF TypeInv, TypeOK, Finite, Batches, nodeVars, centralVars
<1>1. CASE StartDrain(d)
  BY <1>1 DEF StartDrain
<1>2. CASE ShipOnce(d)
  <2>1. ListOutboxBatch \in SUBSET Shipment /\ IsFiniteSet(ListOutboxBatch)
    BY BatchQueued, FS_Subset
  <2> QED BY <1>2, <2>1 DEF ShipOnce
<1>3. CASE StopDrain(d)
  BY <1>3 DEF StopDrain
<1>4. CASE AckOutbox(d)
  <2>1. outbox' = outbox \ sent[d] /\ IsFiniteSet(outbox \ sent[d])
    BY <1>4, FS_Difference DEF AckOutbox
  <2>2. sent' = [sent EXCEPT ![d] = {}] /\ delayed' = delayed
    BY <1>4 DEF AckOutbox
  <2>3. state' = [state EXCEPT ![d] = "ending"] \/ state' = [state EXCEPT ![d] = "ready"]
    BY <1>4 DEF AckOutbox
  <2>4. UNCHANGED <<life, lived, chain, numbered, trimmed, ledger, central, roster>>
    BY <1>4 DEF AckOutbox
  <2>5. TypeOK'
    BY <2>1, <2>2, <2>3, <2>4
  <2> QED BY <2>1, <2>2, <2>5, FS_EmptySet
<1>5. CASE ShipFailed(d)
  <2>1. sent' = [sent EXCEPT ![d] = {}] /\ (delayed' = delayed \cup {sent[d]} \/ delayed' = delayed)
    BY <1>5 DEF ShipFailed
  <2>2. state' = [state EXCEPT ![d] = IF d \in Timers THEN "ending" ELSE "idle"]
    BY <1>5 DEF ShipFailed
  <2>3. UNCHANGED <<life, lived, chain, numbered, outbox, trimmed, ledger, central, roster>>
    BY <1>5 DEF ShipFailed
  <2>4. TypeOK'
    BY <2>1, <2>2, <2>3
  <2> QED BY <2>1, <2>3, <2>4, FS_EmptySet
<1>6. CASE TrimUsageOutbox(d)
  <2>1. PICK n : outbox' = outbox \ Oldest(outbox, n) /\ trimmed' = trimmed \cup Oldest(outbox, n)
    BY <1>6 DEF TrimUsageOutbox
  <2>2. IsFiniteSet(outbox')
    BY <2>1, FS_Difference
  <2>3. state' = [state EXCEPT ![d] = "idle"]
    BY <1>6 DEF TrimUsageOutbox
  <2>4. UNCHANGED <<life, lived, chain, numbered, sent, delayed, ledger, central, roster>>
    BY <1>6 DEF TrimUsageOutbox
  <2>5. TypeOK'
    BY <2>1, <2>3, <2>4, BatchQueued
  <2> QED BY <2>2, <2>4, <2>5
<1> QED BY <1>1, <1>2, <1>3, <1>4, <1>5, <1>6

LEMMA TypeStep ==
  ASSUME TypeInv, [Next]_vars
  PROVE  TypeInv'
<1>1. CASE Record
  BY <1>1, RecordType
<1>2. ASSUME NEW d \in Drainers, Step(d) \/ ShipFailed(d)
      PROVE  TypeInv'
  <2>1. CASE Ingest(d)
    <3>1. IngestBatch(sent[d]) /\ sent[d] \in SUBSET Shipment /\ IsFiniteSet(sent[d])
      BY <2>1 DEF Ingest, TypeInv, TypeOK, Finite, Batches
    <3>2. TypeOK
      BY DEF TypeInv
    <3>3. /\ ledger' \subseteq Lives \X (1 .. MaxShipments) \X Kinds
          /\ central' \in [Events -> Seq(Seq(Says))]
          /\ roster' \in [events : Nat, life : Lives \cup {0}, lives : Nat]
      BY <3>1, <3>2, IngestType
    <3>4. UNCHANGED <<life, lived, chain, numbered, outbox, trimmed, sent, delayed>>
          /\ state' = [state EXCEPT ![d] = "stored"]
      BY <2>1 DEF Ingest, nodeVars
    <3> QED BY <3>3, <3>4 DEF TypeInv, TypeOK, Finite, Batches
  <2> QED BY <1>2, <2>1, ShipperType DEF Step
<1>3. ASSUME NEW b \in delayed, IngestDelayed(b)
      PROVE  TypeInv'
  <2>1. IngestBatch(b) /\ b \in SUBSET Shipment /\ IsFiniteSet(b)
    BY <1>3 DEF IngestDelayed, TypeInv, TypeOK, Finite, Batches
  <2>2. TypeOK
    BY DEF TypeInv
  <2>3. /\ ledger' \subseteq Lives \X (1 .. MaxShipments) \X Kinds
        /\ central' \in [Events -> Seq(Seq(Says))]
        /\ roster' \in [events : Nat, life : Lives \cup {0}, lives : Nat]
    BY <2>1, <2>2, IngestType
  <2>4. UNCHANGED <<life, lived, chain, numbered, outbox, trimmed, state, sent>>
        /\ delayed' = delayed \ {b}
    BY <1>3 DEF IngestDelayed, nodeVars
  <2> QED BY <2>3, <2>4 DEF TypeInv, TypeOK, Finite, Batches
<1>4. ASSUME NEW i \in Lives, Restart(i)
      PROVE  TypeInv'
  <2>1. life' = i /\ lived' = lived \cup {i}
        /\ UNCHANGED <<chain, numbered, outbox, trimmed, ledger, central, roster>>
    BY <1>4 DEF Restart, centralVars
  <2>2. state' \in [Drainers -> {"idle", "ready", "sent", "stored", "ending"}]
    BY <1>4 DEF Restart, TypeInv, TypeOK
  <2>3. \A b \in Batches' : b \in Batches \/ b = {}
    BY <1>4 DEF Restart, Batches, Drainers
  <2>4. sent' = [d \in Drainers |-> IF d \in Timers THEN {} ELSE sent[d]]
    BY <1>4 DEF Restart
  <2>5. sent' \in [Drainers -> SUBSET Shipment]
    BY <2>4 DEF TypeInv, TypeOK
  <2>6. \A b \in Batches : b \subseteq Shipment /\ IsFiniteSet(b)
    BY DEF TypeInv, TypeOK, Finite, Batches
  <2>7. \A b \in Batches' : b \subseteq Shipment /\ IsFiniteSet(b)
    BY <2>3, <2>6, FS_EmptySet
  <2>8. \A b \in delayed' : b \subseteq Shipment
    BY <2>7 DEF Batches
  <2> QED BY <2>1, <2>2, <2>5, <2>7, <2>8 DEF TypeInv, TypeOK, Finite
<1>5. CASE UNCHANGED vars
  BY <1>5 DEF vars, TypeInv, TypeOK, Finite, Batches
<1> QED BY <1>1, <1>2, <1>3, <1>4, <1>5 DEF Next, Faults

LEMMA TypeInit ==
  ASSUME Init
  PROVE  TypeInv
<1>1. Batches = {{}} \/ Batches = {}
  BY DEF Init, Batches
<1>2. Finite
  BY <1>1, FS_EmptySet DEF Init, Finite
<1>3. TypeOK
  BY StreamAssumption DEF Init, TypeOK, Says
<1> QED BY <1>2, <1>3 DEF TypeInv

(* Every variable keeps its type, whatever the network does and however    *)
(* often the server restarts; in particular the roster's counts never go   *)
(* below zero.                                                             *)
THEOREM StreamTypeCorrect == Safety => []TypeOK
<1>1. TypeInv => TypeOK
  BY DEF TypeInv
<1> QED BY <1>1, TypeInit, TypeStep, PTL DEF Safety

-----------------------------------------------------------------------------
(* Nothing is lost *)

InFlight == UNION Batches
Known == outbox \cup trimmed \cup InFlight
Content(s) == s.covers[s.event[2]]
Settled(s) == Key(s) \in ledger \/ s \in trimmed

(* Shipments are numbered in the order of their lives, each number once.   *)
NewestLife == \A i \in lived : i <= life
Numbered ==
  /\ \A s \in Known : s.life \in lived /\ s.seq <= numbered[s.life]
  /\ \A k \in ledger : k[2] <= numbered[k[1]]
OneNumberEach == \A s, t \in Known : s.life = t.life /\ s.seq = t.seq => s = t

(* They are stored oldest first: what precedes a shipment in flight is in  *)
(* the same batch, or central has it, or it was trimmed.                   *)
FlightSettled == \A s \in InFlight : s \in outbox \/ Settled(s)
OldestFirst ==
  \A b \in Batches : \A s \in Known, t \in b : Before(s, t) => s \in b \/ Settled(s)
StoredInLedger == \A d \in Drainers : state[d] = "stored" => \A s \in sent[d] : Key(s) \in ledger

(* What shipments say is or was so, and "first" is said before "final".    *)
ContentKnown ==
  /\ \A s \in Known : s.event \in Recorded /\ Content(s) \in Says
  /\ \A s \in Known : Content(s) = "final" =>
       Stands(s.event) = "final" /\ s.kind = "usage_event_correction"
  /\ \A s, t \in Known : s.event = t.event /\ Content(s) = "first" /\ Content(t) = "final"
       => Before(s, t)

(* So with central's rows; and nothing outdated is still to be stored when *)
(* central has the final word on an event.                                 *)
RowKnown ==
  \A e \in Events : central[e] # <<>> =>
    /\ e \in Recorded /\ central[e][1][e[2]] \in Says
    /\ central[e][1][e[2]] = "final" => Stands(e) = "final"
FinalRow ==
  \A e \in Events : central[e] # <<>> /\ central[e][1][e[2]] = "final" =>
    \A s \in Known : s.event = e /\ Content(s) = "first" => Settled(s)

QueueInv == Numbered /\ OneNumberEach /\ FlightSettled /\ OldestFirst /\ ContentKnown
StreamInv == TypeInv /\ NewestLife /\ QueueInv /\ StoredInLedger /\ RowKnown /\ FinalRow /\ NothingLost

LEMMA ShipmentNumbers ==
  \A s \in Shipment : s.life \in Nat /\ s.seq \in Nat
<1> TAKE s \in Shipment
<1>1. s.life \in Lives /\ s.seq \in 1 .. MaxShipments
  BY DEF Shipment
<1>2. Lives \subseteq Nat /\ MaxShipments \in Nat
  BY StreamAssumption
<1>3. s.life \in Nat
  BY <1>1, <1>2
<1>4. s.seq \in Nat
  BY <1>1, <1>2
<1> QED BY <1>3, <1>4

(* What precedes a queued shipment of the oldest is of the oldest itself.  *)
LEMMA OldestClosed ==
  ASSUME TypeInv, NEW s \in outbox, NEW t \in ListOutboxBatch, Before(s, t)
  PROVE  s \in ListOutboxBatch
<1> DEFINE older(u) == {v \in outbox : Before(v, u)}
<1>1. ASSUME NEW u \in Shipment, NEW v \in Shipment, NEW w \in Shipment, Before(u, v), Before(v, w)
      PROVE  Before(u, w)
  <2>1. \A x \in Shipment : x.life \in Nat /\ x.seq \in Nat
    BY ShipmentNumbers
  <2>2. /\ u.life \in Nat /\ v.life \in Nat /\ w.life \in Nat
        /\ u.seq \in Nat /\ v.seq \in Nat /\ w.seq \in Nat
    BY <2>1
  <2> QED BY <1>1, <2>2 DEF Before
<1>2. outbox \subseteq Shipment /\ IsFiniteSet(outbox)
  BY DEF TypeInv, TypeOK, Finite
<1>3. t \in outbox /\ Cardinality(older(t)) < BatchMax
  BY DEF ListOutboxBatch, Oldest
<1>4. older(s) \in SUBSET older(t) /\ older(t) \in SUBSET outbox
  BY <1>1, <1>2, <1>3
<1>5. Cardinality(older(s)) <= Cardinality(older(t)) /\ IsFiniteSet(older(t)) /\ IsFiniteSet(older(s))
  <2> HIDE DEF older
  <2>1. IsFiniteSet(older(t))
    BY <1>2, <1>4, FS_Subset
  <2> QED BY <1>4, <2>1, FS_Subset
<1>6. Cardinality(older(s)) \in Nat /\ Cardinality(older(t)) \in Nat
  <2> HIDE DEF older
  <2> QED BY <1>5, FS_CardinalityType
<1>7. Cardinality(older(s)) < BatchMax
  <2> HIDE DEF older
  <2> QED BY <1>3, <1>5, <1>6, StreamAssumption
<1> QED BY <1>7 DEF ListOutboxBatch, Oldest

(* What no step but Record can disturb: shipments leave the queue when     *)
(* they are settled, and a batch that is sent is the oldest of the queue.  *)
LEMMA QueueStep ==
  ASSUME TypeInv, QueueInv,
         \A b \in Batches' : b \in Batches \/ b = {} \/ b = ListOutboxBatch,
         outbox' \subseteq outbox, trimmed \subseteq trimmed', trimmed' \subseteq outbox \cup trimmed,
         ledger \subseteq ledger', \A k \in ledger' : k \in ledger \/ \E s \in Known : k = Key(s),
         \A s \in outbox \ outbox' : Key(s) \in ledger' \/ s \in trimmed',
         lived \subseteq lived', UNCHANGED <<chain, numbered>>
  PROVE  QueueInv' /\ Known' \subseteq Known /\ \A s : Settled(s) => Settled(s)'
<1>1. Known' \subseteq Known
  BY BatchQueued DEF Known, InFlight
<1>2. \A s : Settled(s) => Settled(s)'
  BY DEF Settled, Key
<1>3. Numbered'
  BY <1>1 DEF QueueInv, Numbered, Key
<1>4. OneNumberEach'
  BY <1>1 DEF QueueInv, OneNumberEach
<1>5. FlightSettled'
  <2> SUFFICES ASSUME NEW b \in Batches', NEW s \in b PROVE s \in outbox' \/ Settled(s)'
    BY DEF FlightSettled, InFlight
  <2>1. s \in outbox \/ Settled(s)
    BY BatchQueued DEF QueueInv, FlightSettled, InFlight
  <2> QED BY <1>2, <2>1 DEF Settled, Key
<1>6. OldestFirst'
  <2> SUFFICES ASSUME NEW b \in Batches', NEW s \in Known', NEW t \in b, Before(s, t)
               PROVE  s \in b \/ Settled(s)'
    BY DEF OldestFirst, Before
  <2>1. CASE b \in Batches
    BY <1>1, <1>2, <2>1 DEF QueueInv, OldestFirst
  <2>2. CASE b = ListOutboxBatch
    <3>1. s \in outbox \/ Settled(s)
      BY <1>1 DEF Known, QueueInv, FlightSettled, Settled
    <3> QED BY <1>2, <2>2, <3>1, OldestClosed
  <2> QED BY <2>1, <2>2
<1>7. ContentKnown'
  BY <1>1 DEF QueueInv, ContentKnown, Content, Recorded, Stands, Before
<1> QED BY <1>1, <1>2, <1>3, <1>4, <1>5, <1>6, <1>7 DEF QueueInv

(* What Record does to the rest: it queues one shipment under a new        *)
(* number, which says of its event what now stands, and no event that was  *)
(* corrected is touched.                                                   *)
RecordsOf(q) ==
  /\ outbox' = outbox \cup {q} /\ q \in Shipment
  /\ q.life = life /\ q.seq = numbered[life] + 1
  /\ numbered' = [numbered EXCEPT ![life] = numbered[life] + 1]
  /\ q.event \in Recorded' /\ Content(q) = Stands(q.event)' /\ Content(q) \in Says
  /\ Len(q.covers) = q.event[2]
  /\ Content(q) = "final" => q.kind = "usage_event_correction"
  /\ IF q.event \in Recorded THEN Stands(q.event) = "first" ELSE Content(q) = "first"
  /\ q.kind = "usage_event" => q.event \notin Recorded
  /\ \A e \in Recorded : e \in Recorded' /\ (Stands(e) = "final" => Stands(e)' = "final")
  /\ \A e \in Recorded' : e # q.event => e \in Recorded /\ Stands(e)' = Stands(e)
  /\ UNCHANGED <<life, lived, trimmed, state, sent, delayed, ledger, central, roster>>

LEMMA InsertRecords ==
  ASSUME TypeInv, InsertUsageEvent
  PROVE  \E q : RecordsOf(q)
<1>a. PICK e : e = <<life, Len(chain[life]) + 1>>
  OBVIOUS
<1>b. PICK q : q = Queued("usage_event", e)
  OBVIOUS
<1>1. Len(chain[life]) + 1 \in 1 .. MaxEvents
  BY RoomInChain DEF InsertUsageEvent, TypeInv
<1>2. life \in Lives /\ chain \in [Lives -> Seq(Says)] /\ "first" \in Says
  BY DEF TypeInv, TypeOK, Says
<1>3. e \in Events /\ e[1] = life /\ e[2] = Len(chain[life]) + 1
  BY <1>a, <1>1, <1>2 DEF Events
<1>4. chain' = [chain EXCEPT ![life] = Append(chain[life], "first")]
  BY DEF InsertUsageEvent
<1>5. chain' \in [Lives -> Seq(Says)] /\ chain'[life] = Append(chain[life], "first")
  BY <1>2, <1>4
<1>6. Len(chain'[life]) = Len(chain[life]) + 1 /\ chain'[life][e[2]] = "first"
  BY <1>2, <1>3, <1>5
<1>7. NextOutboxSeq <= MaxShipments /\ "usage_event" \in Kinds
  BY DEF InsertUsageEvent, EnqueueOutbox, Kinds
<1>8. q \in Shipment /\ q.covers[e[2]] = chain'[e[1]][e[2]] /\ Len(q.covers) = e[2]
  <2>1. /\ Queued("usage_event", e) \in Shipment
        /\ Queued("usage_event", e).covers[e[2]] = chain'[e[1]][e[2]]
        /\ Len(Queued("usage_event", e).covers) = e[2]
    BY <1>3, <1>5, <1>6, <1>7, QueuedType DEF TypeInv
  <2> QED BY <1>b, <2>1
<1>9. q.event = e /\ q.life = life /\ q.seq = numbered[life] + 1
  BY <1>b DEF Queued, NextOutboxSeq
<1>10. outbox' = outbox \cup {q} /\ numbered' = [numbered EXCEPT ![life] = numbered[life] + 1]
  BY <1>a, <1>b DEF InsertUsageEvent, EnqueueOutbox, Queued, NextOutboxSeq
<1>11. \A f \in Events : f \in Recorded' <=> f \in Recorded \/ f = e
  <2>1. SUFFICES ASSUME NEW f \in Events
                 PROVE  f[2] <= Len(chain'[f[1]]) <=> f[2] <= Len(chain[f[1]]) \/ f = e
    BY DEF Recorded
  <2>2. f[1] \in Lives /\ f[2] \in Nat /\ f = <<f[1], f[2]>>
    BY StreamAssumption DEF Events
  <2>3. Len(chain[f[1]]) \in Nat
    BY <1>2, <2>2
  <2>4. CASE f[1] = life
    <3>1. Len(chain'[f[1]]) = Len(chain[f[1]]) + 1
      BY <1>6, <2>4
    <3>2. f = e <=> f[2] = Len(chain[f[1]]) + 1
      BY <1>a, <2>2, <2>4
    <3> QED BY <2>2, <2>3, <3>1, <3>2
  <2>5. CASE f[1] # life
    BY <1>2, <1>3, <1>4, <2>2, <2>5
  <2> QED BY <2>4, <2>5
<1>12. \A f \in Recorded : Stands(f)' = Stands(f)
  <2> SUFFICES ASSUME NEW f \in Events, f[2] <= Len(chain[f[1]])
               PROVE  chain'[f[1]][f[2]] = chain[f[1]][f[2]]
    BY DEF Recorded, Stands
  <2>1. f[1] \in Lives /\ f[2] \in 1 .. MaxEvents
    BY DEF Events
  <2>2. chain[f[1]] \in Seq(Says) /\ f[2] \in 1 .. Len(chain[f[1]])
    <3>1. chain[f[1]] \in Seq(Says)
      BY <1>2, <2>1
    <3> QED BY <2>1, <3>1, StreamAssumption
  <2> QED BY <1>2, <1>4, <2>1, <2>2
<1>13. e \notin Recorded
  BY <1>1, <1>2, <1>3 DEF Recorded
<1>14. UNCHANGED <<life, lived, trimmed, state, sent, delayed, ledger, central, roster>>
  BY DEF InsertUsageEvent, shipVars, centralVars
<1>15. Content(q) = "first" /\ Stands(e)' = "first"
  BY <1>3, <1>6, <1>8, <1>9 DEF Content, Stands
<1>16. Recorded \subseteq Events /\ Recorded' \subseteq Events
  BY DEF Recorded, Events
<1> QED BY <1>2, <1>3, <1>8, <1>9, <1>10, <1>11, <1>12, <1>13, <1>14, <1>15, <1>16 DEF RecordsOf

LEMMA PatchRecords ==
  ASSUME TypeInv, NEW e \in Events, NEW says \in Says, PatchUsageEvent(e, says)
  PROVE  \E q : RecordsOf(q)
<1>q. PICK q : q = Queued("usage_event_correction", e)
  OBVIOUS
<1>1. e[1] \in Lives /\ e[2] \in 1 .. MaxEvents /\ e[2] <= Len(chain[e[1]]) /\ e \in Recorded
  BY DEF PatchUsageEvent, Recorded, Events
<1>2. chain \in [Lives -> Seq(Says)] /\ chain[e[1]] \in Seq(Says) /\ e[2] \in 1 .. Len(chain[e[1]])
  <2>1. chain \in [Lives -> Seq(Says)]
    BY DEF TypeInv, TypeOK
  <2>2. chain[e[1]] \in Seq(Says)
    BY <1>1, <2>1
  <2> QED BY <1>1, <2>1, <2>2, StreamAssumption
<1>3. chain' = [chain EXCEPT ![e[1]] = [chain[e[1]] EXCEPT ![e[2]] = says]]
  BY DEF PatchUsageEvent
<1>4. chain'[e[1]] = [chain[e[1]] EXCEPT ![e[2]] = says]
  BY <1>1, <1>2, <1>3
<1>5. /\ chain'[e[1]] \in Seq(Says) /\ Len(chain'[e[1]]) = Len(chain[e[1]])
      /\ \A n \in 1 .. Len(chain[e[1]]) : chain'[e[1]][n] = IF n = e[2] THEN says ELSE chain[e[1]][n]
  BY <1>2, <1>4, ExceptSeq
<1>6. chain' \in [Lives -> Seq(Says)]
  BY <1>1, <1>2, <1>3, <1>4, <1>5
<1>7. q \in Shipment /\ q.covers[e[2]] = chain'[e[1]][e[2]] /\ Len(q.covers) = e[2]
  <2>1. NextOutboxSeq <= MaxShipments /\ "usage_event_correction" \in Kinds
    BY DEF PatchUsageEvent, EnqueueOutbox, Kinds
  <2>2. /\ Queued("usage_event_correction", e) \in Shipment
        /\ Queued("usage_event_correction", e).covers[e[2]] = chain'[e[1]][e[2]]
        /\ Len(Queued("usage_event_correction", e).covers) = e[2]
    BY <1>1, <1>5, <1>6, <2>1, QueuedType DEF TypeInv
  <2> QED BY <1>q, <2>2
<1>8. /\ q.event = e /\ q.life = life /\ q.seq = numbered[life] + 1
      /\ q.kind = "usage_event_correction"
  BY <1>q DEF Queued, NextOutboxSeq
<1>9. outbox' = outbox \cup {q} /\ numbered' = [numbered EXCEPT ![life] = numbered[life] + 1]
  BY <1>q DEF PatchUsageEvent, EnqueueOutbox, Queued, NextOutboxSeq
<1>10. Recorded' = Recorded
  <2>1. \A i \in Lives : Len(chain'[i]) = Len(chain[i])
    BY <1>1, <1>2, <1>3, <1>5
  <2> QED BY <2>1 DEF Recorded, Events
<1>11. \A f \in Recorded : f # e => Stands(f)' = Stands(f)
  <2> SUFFICES ASSUME NEW f \in Events, f[2] <= Len(chain[f[1]]), f # e
               PROVE  chain'[f[1]][f[2]] = chain[f[1]][f[2]]
    BY DEF Recorded, Stands
  <2>1. f[1] \in Lives /\ f[2] \in 1 .. MaxEvents /\ f = <<f[1], f[2]>> /\ e = <<e[1], e[2]>>
    BY DEF Events
  <2>2. CASE f[1] = e[1]
    <3>1. f[2] \in 1 .. Len(chain[e[1]]) /\ f[2] # e[2]
      BY <1>2, <2>1, <2>2, StreamAssumption
    <3> QED BY <1>5, <2>2, <3>1
  <2>3. CASE f[1] # e[1]
    BY <1>2, <1>3, <2>1, <2>3
  <2> QED BY <2>2, <2>3
<1>12. UNCHANGED <<life, lived, trimmed, state, sent, delayed, ledger, central, roster>>
  BY DEF PatchUsageEvent, shipVars, centralVars
<1>13. Content(q) = says /\ Stands(e)' = says
  BY <1>2, <1>5, <1>7, <1>8 DEF Content, Stands
<1>14. Stands(e) = "first"
  BY DEF PatchUsageEvent, Stands
<1>15. \A f \in Recorded : f \in Recorded' /\ (Stands(f) = "final" => Stands(f)' = "final")
  BY <1>10, <1>11, <1>14
<1> QED BY <1>1, <1>7, <1>8, <1>9, <1>10, <1>11, <1>12, <1>13, <1>14, <1>15 DEF RecordsOf

LEMMA RecordFacts ==
  ASSUME TypeInv, Record
  PROVE  \E q : RecordsOf(q)
BY InsertRecords, PatchRecords DEF Record

LEMMA NumbersType ==
  ASSUME TypeInv
  PROVE  numbered \in [Lives -> Nat] /\ \A i \in Lives : numbered[i] \in Nat
<1>1. MaxShipments \in Nat
  BY StreamAssumption
<1>2. 0 .. MaxShipments \subseteq Nat
  BY <1>1
<1>3. numbered \in [Lives -> 0 .. MaxShipments]
  BY DEF TypeInv, TypeOK
<1> QED BY <1>2, <1>3

(* Its number is greater than any before it.                               *)
LEMMA NewestNumber ==
  ASSUME StreamInv, NEW q, RecordsOf(q), NEW s \in Known
  PROVE  /\ s.life \in lived /\ Before(s, q) /\ ~Before(q, s)
         /\ ~(s.life = q.life /\ s.seq = q.seq)
         /\ s.seq <= numbered'[s.life]
<1>1. s.life \in lived /\ s.seq <= numbered[s.life] /\ s.life <= life
  BY DEF StreamInv, QueueInv, Numbered, NewestLife
<1>2. numbered \in [Lives -> 0 .. MaxShipments] /\ life \in Lives /\ lived \subseteq Lives
  BY DEF StreamInv, TypeInv, TypeOK
<1>3. s \in Shipment
  BY DEF StreamInv, TypeInv, TypeOK, Known, InFlight, Batches
<1>4. s.life \in Nat /\ s.seq \in Nat /\ life \in Nat
  <2>1. Lives \subseteq Nat
    BY StreamAssumption
  <2> QED BY <1>2, <1>3, <2>1, ShipmentNumbers
<1>5. numbered[s.life] \in Nat /\ numbered[life] \in Nat
  BY <1>1, <1>2, NumbersType DEF StreamInv
<1>6. q.life = life /\ q.seq = numbered[life] + 1
      /\ numbered' = [numbered EXCEPT ![life] = numbered[life] + 1]
  BY DEF RecordsOf
<1>7. s.seq <= numbered'[s.life]
  BY <1>1, <1>2, <1>4, <1>5, <1>6
<1> QED BY <1>1, <1>4, <1>5, <1>6, <1>7 DEF Before

LEMMA RecordStep ==
  ASSUME StreamInv, NEW q, RecordsOf(q)
  PROVE  /\ QueueInv' /\ NewestLife' /\ StoredInLedger'
         /\ RowKnown' /\ FinalRow' /\ NothingLost'
<1>1. /\ Known' = Known \cup {q} /\ Batches' = Batches /\ InFlight' = InFlight
      /\ InFlight \subseteq Known
  BY DEF RecordsOf, Known, InFlight, Batches
<1>2. \A s : Settled(s)' <=> Settled(s)
  BY DEF RecordsOf, Settled, Key
<1>3. q.life \in lived /\ q.seq <= numbered'[q.life] /\ numbered' \in [Lives -> Nat]
      /\ \A i \in Lives : numbered[i] <= numbered'[i]
  <2>1. numbered \in [Lives -> 0 .. MaxShipments] /\ life \in lived /\ life \in Lives
    BY DEF StreamInv, TypeInv, TypeOK
  <2>2. \A i \in Lives : numbered[i] \in Nat
    BY <2>1, StreamAssumption
  <2> QED BY <2>1, <2>2 DEF RecordsOf
<1>4. Key(q) \notin ledger
  <2>1. \A k \in ledger : k[2] <= numbered[k[1]]
    BY DEF StreamInv, QueueInv, Numbered
  <2>2. numbered[life] \in Nat
    BY StreamAssumption DEF StreamInv, TypeInv, TypeOK
  <2>3. Key(q)[1] = life /\ Key(q)[2] = numbered[life] + 1
    BY DEF RecordsOf, Key
  <2> QED BY <2>1, <2>2, <2>3
<1>5. /\ \A s \in Known : s.event \in Recorded /\ Content(s) \in Says
      /\ \A s \in Known : Content(s) = "final" =>
           Stands(s.event) = "final" /\ s.kind = "usage_event_correction"
      /\ \A s, t \in Known : s.event = t.event /\ Content(s) = "first" /\ Content(t) = "final"
           => Before(s, t)
  BY DEF StreamInv, QueueInv, ContentKnown
<1>6. \A s \in Known : s.event = q.event => Content(s) # "final"
  BY <1>5 DEF RecordsOf, Says
<1>7. Numbered'
  <2>1. \A s \in Known' : s.life \in lived' /\ s.seq <= numbered'[s.life]
    BY <1>1, <1>3, NewestNumber DEF RecordsOf
  <2>2. \A k \in ledger' : k[2] <= numbered'[k[1]]
    <3> SUFFICES ASSUME NEW k \in ledger PROVE k[2] <= numbered'[k[1]]
      BY DEF RecordsOf
    <3>1. k[1] \in Lives /\ k[2] \in 1 .. MaxShipments /\ MaxShipments \in Nat
      BY StreamAssumption DEF StreamInv, TypeInv, TypeOK
    <3>2. k[2] <= numbered[k[1]]
      BY DEF StreamInv, QueueInv, Numbered
    <3>3. k[2] \in Int /\ numbered[k[1]] \in Int /\ numbered'[k[1]] \in Int
          /\ numbered[k[1]] <= numbered'[k[1]]
      BY <1>3, <3>1, NumbersType DEF StreamInv
    <3> QED BY <3>2, <3>3
  <2> QED BY <2>1, <2>2 DEF Numbered
<1>8. OneNumberEach'
  BY <1>1, NewestNumber DEF StreamInv, QueueInv, OneNumberEach
<1>9. FlightSettled'
  BY <1>1, <1>2 DEF StreamInv, QueueInv, FlightSettled, RecordsOf
<1>10. OldestFirst'
  <2> SUFFICES ASSUME NEW b \in Batches, NEW s \in Known', NEW t \in b, Before(s, t)
               PROVE  s \in b \/ Settled(s)'
    BY <1>1 DEF OldestFirst, Before
  <2>1. t \in Known
    BY <1>1 DEF InFlight
  <2>2. s # q
    BY <2>1, NewestNumber
  <2> QED BY <1>1, <1>2, <2>2 DEF StreamInv, QueueInv, OldestFirst
<1>11. ContentKnown'
  <2>1. \A s \in Known' : s.event \in Recorded' /\ Content(s)' \in Says
    BY <1>1, <1>5 DEF RecordsOf, Content
  <2>2. \A s \in Known' : Content(s)' = "final" =>
          Stands(s.event)' = "final" /\ s.kind = "usage_event_correction"
    <3> SUFFICES ASSUME NEW s \in Known', Content(s) = "final"
                 PROVE  Stands(s.event)' = "final" /\ s.kind = "usage_event_correction"
      BY DEF Content
    <3>1. CASE s = q
      BY <3>1 DEF RecordsOf
    <3>2. CASE s \in Known
      BY <1>5, <3>2 DEF RecordsOf
    <3> QED BY <1>1, <3>1, <3>2
  <2>3. ASSUME NEW s \in Known', NEW t \in Known', s.event = t.event,
               Content(s) = "first", Content(t) = "final"
        PROVE  Before(s, t)
    BY <1>1, <1>5, <1>6, <2>3, NewestNumber
  <2> QED BY <2>1, <2>2, <2>3 DEF ContentKnown, Content, Before
<1>12. NewestLife'
  BY DEF StreamInv, NewestLife, RecordsOf
<1>13. StoredInLedger'
  BY DEF StreamInv, StoredInLedger, RecordsOf, Key
<1>14. RowKnown' /\ FinalRow'
  <2> SUFFICES ASSUME NEW e \in Events, central[e] # <<>>
               PROVE  /\ e \in Recorded' /\ central[e][1][e[2]] \in Says
                      /\ central[e][1][e[2]] = "final" =>
                           /\ Stands(e)' = "final"
                           /\ \A s \in Known' : s.event = e /\ Content(s) = "first" => Settled(s)'
    BY DEF RowKnown, FinalRow, RecordsOf, Content
  <2>1. /\ e \in Recorded /\ central[e][1][e[2]] \in Says
        /\ central[e][1][e[2]] = "final" => Stands(e) = "final"
    BY DEF StreamInv, RowKnown
  <2>2. e \in Recorded'
    BY <2>1 DEF RecordsOf
  <2>3. ASSUME central[e][1][e[2]] = "final"
        PROVE  /\ Stands(e)' = "final"
               /\ \A s \in Known' : s.event = e /\ Content(s) = "first" => Settled(s)'
    <3>1. Stands(e)' = "final"
      BY <2>1, <2>3 DEF RecordsOf
    <3>2. q.event # e
      BY <2>1, <2>3 DEF RecordsOf
    <3>3. \A s \in Known : s.event = e /\ Content(s) = "first" => Settled(s)
      BY <2>3 DEF StreamInv, FinalRow
    <3> QED BY <1>1, <1>2, <3>1, <3>2, <3>3
  <2> QED BY <2>1, <2>2, <2>3
<1>15. NothingLost'
  <2> SUFFICES ASSUME NEW e \in Recorded'
               PROVE  Trimmed(e)' \/ Holds(e)' \/ Owed(e)'
    BY DEF NothingLost
  <2>1. CASE e = q.event
    <3>1. q \in outbox' /\ Content(q) = Stands(e)' /\ Key(q) \notin ledger'
      BY <1>4, <2>1 DEF RecordsOf
    <3> QED BY <2>1, <3>1 DEF Owed, Content, Key
  <2>2. CASE e # q.event
    <3>1. e \in Recorded /\ Stands(e)' = Stands(e)
      BY <2>2 DEF RecordsOf
    <3>2. Trimmed(e) \/ Holds(e) \/ Owed(e)
      BY <3>1 DEF StreamInv, NothingLost
    <3>3. Trimmed(e) => Trimmed(e)'
      BY DEF Trimmed, RecordsOf
    <3>4. Holds(e) => Holds(e)'
      BY <3>1 DEF Holds, RecordsOf
    <3>5. Owed(e) => Owed(e)'
      BY <3>1 DEF Owed, RecordsOf, Key
    <3> QED BY <3>2, <3>3, <3>4, <3>5
  <2> QED BY <2>1, <2>2
<1> QED BY <1>7, <1>8, <1>9, <1>10, <1>11, <1>12, <1>13, <1>14, <1>15 DEF QueueInv

(* A step that leaves central alone keeps the rest too, when what it takes *)
(* out of the queue is settled.                                            *)
LEMMA QuietStep ==
  ASSUME StreamInv, QueueInv', Known' \subseteq Known, \A s : Settled(s) => Settled(s)',
         trimmed \subseteq trimmed', \A s \in outbox \ outbox' : Settled(s)',
         UNCHANGED <<chain, ledger, central>>
  PROVE  RowKnown' /\ FinalRow' /\ NothingLost'
<1>1. RowKnown'
  BY DEF StreamInv, RowKnown, Recorded, Stands
<1>2. FinalRow'
  <2> SUFFICES ASSUME NEW e \in Events, central[e] # <<>>, central[e][1][e[2]] = "final",
                      NEW s \in Known', s.event = e, Content(s) = "first"
               PROVE  Settled(s)'
    BY DEF FinalRow, Content
  <2> QED BY DEF StreamInv, FinalRow
<1>3. NothingLost'
  <2> SUFFICES ASSUME NEW e \in Recorded PROVE Trimmed(e)' \/ Holds(e)' \/ Owed(e)'
    BY DEF NothingLost, Recorded
  <2>1. CASE Trimmed(e)
    BY <2>1 DEF Trimmed
  <2>2. CASE Holds(e)
    BY <2>2 DEF Holds, Stands
  <2>3. CASE Owed(e)
    <3>1. PICK s \in outbox : s.event = e /\ s.covers[e[2]] = Stands(e) /\ Key(s) \notin ledger
      BY <2>3 DEF Owed
    <3>2. CASE s \in outbox'
      BY <3>1, <3>2 DEF Owed, Stands, Key
    <3>3. CASE s \notin outbox'
      BY <3>1, <3>3 DEF Settled, Trimmed, Key
    <3> QED BY <3>2, <3>3
  <2> QED BY <2>1, <2>2, <2>3 DEF StreamInv, NothingLost
<1> QED BY <1>1, <1>2, <1>3

(* All that QueueStep and QuietStep ask of a step.                         *)
Unfed ==
  /\ \A b \in Batches' : b \in Batches \/ b = {} \/ b = ListOutboxBatch
  /\ outbox' \subseteq outbox /\ trimmed \subseteq trimmed' /\ trimmed' \subseteq outbox \cup trimmed
  /\ \A s \in outbox \ outbox' : Key(s) \in ledger \/ s \in trimmed'
  /\ lived \subseteq lived'
  /\ UNCHANGED <<chain, numbered, ledger, central>>

LEMMA QuietKeeps ==
  ASSUME StreamInv, Unfed
  PROVE  QueueInv' /\ RowKnown' /\ FinalRow' /\ NothingLost'
<1>1. QueueInv' /\ Known' \subseteq Known /\ \A s : Settled(s) => Settled(s)'
  <2>1. TypeInv /\ QueueInv
    BY DEF StreamInv
  <2>2. \A b \in Batches' : b \in Batches \/ b = {} \/ b = ListOutboxBatch
    BY DEF Unfed
  <2>3. /\ outbox' \subseteq outbox /\ trimmed \subseteq trimmed' /\ trimmed' \subseteq outbox \cup trimmed
        /\ ledger \subseteq ledger' /\ \A k \in ledger' : k \in ledger \/ \E s \in Known : k = Key(s)
        /\ \A s \in outbox \ outbox' : Key(s) \in ledger' \/ s \in trimmed'
        /\ lived \subseteq lived' /\ UNCHANGED <<chain, numbered>>
    BY DEF Unfed
  <2> QED BY <2>1, <2>2, <2>3, QueueStep
<1>2. \A s \in outbox \ outbox' : Settled(s)'
  BY DEF Unfed, Settled, Key
<1>3. trimmed \subseteq trimmed' /\ UNCHANGED <<chain, ledger, central>>
  BY DEF Unfed
<1>4. RowKnown' /\ FinalRow' /\ NothingLost'
  BY <1>1, <1>2, <1>3, QuietStep
<1> QED BY <1>1, <1>4

LEMMA ShipperStep ==
  ASSUME StreamInv, NEW d \in Drainers,
         StartDrain(d) \/ ShipOnce(d) \/ StopDrain(d) \/ AckOutbox(d) \/ ShipFailed(d) \/ TrimUsageOutbox(d)
  PROVE  Unfed /\ NewestLife' /\ StoredInLedger'
<1>1. UNCHANGED <<life, lived, chain, numbered, ledger, central>>
  BY DEF StartDrain, ShipOnce, StopDrain, AckOutbox, ShipFailed, TrimUsageOutbox, nodeVars, centralVars
<1>2. NewestLife'
  BY <1>1 DEF StreamInv, NewestLife
<1>3. sent \in [Drainers -> SUBSET Shipment]
      /\ state \in [Drainers -> {"idle", "ready", "sent", "stored", "ending"}]
  BY DEF StreamInv, TypeInv, TypeOK
<1>4. \A b \in Batches' : b \in Batches \/ b = {} \/ b = ListOutboxBatch
  BY <1>3 DEF Batches, StartDrain, ShipOnce, StopDrain, AckOutbox, ShipFailed, TrimUsageOutbox
<1>5. StoredInLedger'
  <2>1. \A c \in Drainers : state'[c] = "stored" => state[c] = "stored" /\ sent'[c] = sent[c]
    BY <1>3 DEF StartDrain, ShipOnce, StopDrain, AckOutbox, ShipFailed, TrimUsageOutbox
  <2> QED BY <1>1, <2>1 DEF StreamInv, StoredInLedger, Key
<1>6. /\ outbox' \subseteq outbox /\ trimmed \subseteq trimmed' /\ trimmed' \subseteq outbox \cup trimmed
      /\ \A s \in outbox \ outbox' : Key(s) \in ledger \/ s \in trimmed'
  <2>1. CASE StartDrain(d) \/ ShipOnce(d) \/ StopDrain(d) \/ ShipFailed(d)
    BY <2>1 DEF StartDrain, ShipOnce, StopDrain, ShipFailed
  <2>2. CASE AckOutbox(d)
    BY <2>2 DEF AckOutbox, StreamInv, StoredInLedger
  <2>3. CASE TrimUsageOutbox(d)
    <3>1. PICK n : outbox' = outbox \ Oldest(outbox, n) /\ trimmed' = trimmed \cup Oldest(outbox, n)
      BY <2>3 DEF TrimUsageOutbox
    <3> QED BY <3>1, BatchQueued
  <2> QED BY <2>1, <2>2, <2>3
<1> QED BY <1>1, <1>2, <1>4, <1>5, <1>6 DEF Unfed

LEMMA RestartStep ==
  ASSUME StreamInv, LivesInOrder, NEW i \in Lives, Restart(i)
  PROVE  Unfed /\ NewestLife' /\ StoredInLedger'
<1>1. \A b \in Batches' : b \in Batches \/ b = {}
  BY DEF Restart, Batches, Drainers
<1>2. NewestLife'
  <2>1. lived \subseteq Lives /\ life \in Lives /\ i > life /\ life' = i /\ lived' = lived \cup {i}
    BY DEF Restart, StreamInv, TypeInv, TypeOK
  <2>2. Lives \subseteq Nat
    BY StreamAssumption
  <2> QED BY <2>1, <2>2 DEF StreamInv, NewestLife
<1>3. StoredInLedger'
  <2>1. \A c \in Drainers : state'[c] = "stored" => state[c] = "stored" /\ sent'[c] = sent[c]
    BY DEF Restart
  <2> QED BY <2>1 DEF StreamInv, StoredInLedger, Key, Restart, centralVars
<1> QED BY <1>1, <1>2, <1>3 DEF Unfed, Restart, centralVars

(* What a batch makes of central's rows of an event: nothing when it has   *)
(* no new shipment about it; otherwise the first row is the old one, or    *)
(* what one of the shipments says, and which is that of the last update.   *)
About(fresh, e) == {s \in fresh : s.event = e}
Updates(fresh, e) == About(fresh, e) \ Inserts(fresh, e)

LEMMA RowShape ==
  ASSUME TypeOK, NEW fresh \in SUBSET Shipment, NEW e \in Events,
         NEW rows, rows = IngestedRows(fresh, e)
  PROVE  /\ Inserts(fresh, e) = {} => Len(rows) = Len(central[e])
         /\ Inserts(fresh, e) # {} => Len(rows) = Len(central[e]) + 1
         /\ central[e] = <<>> => Len(rows) <= 1
         /\ About(fresh, e) = {} => rows = central[e]
         /\ About(fresh, e) # {} /\ central[e] # <<>> =>
              /\ rows # <<>>
              /\ IF Updates(fresh, e) = {} THEN rows[1] = central[e][1]
                 ELSE \E u \in Updates(fresh, e) :
                        rows[1] = u.covers /\ \A t \in Updates(fresh, e) : ~Before(u, t)
         /\ About(fresh, e) # {} /\ central[e] = <<>> =>
              /\ rows # <<>>
              /\ \E f \in Inserts(fresh, e) :
                   /\ \A t \in Inserts(fresh, e) : ~Before(t, f)
                   /\ LET placed == {s \in Updates(fresh, e) : Before(f, s)}
                      IN  IF placed = {} THEN rows[1] = f.covers
                          ELSE \E u \in placed :
                                 rows[1] = u.covers /\ \A t \in placed : ~Before(u, t)
<1> DEFINE Last(S)  == CHOOSE s \in S : \A t \in S : ~Before(s, t)
           inserts  == Inserts(fresh, e)
           first    == CHOOSE s \in inserts : \A t \in inserts : ~Before(t, s)
           updates  == Updates(fresh, e)
           placed   == {s \in updates : inserts = {} \/ Before(first, s)}
           Old(n)   == IF updates = {} THEN central[e][n] ELSE Last(updates).covers
           old      == [n \in 1 .. Len(central[e]) |-> Old(n)]
           row      == IF placed = {} THEN first.covers ELSE Last(placed).covers
           new      == IF inserts = {} THEN <<>> ELSE <<row>>
<1>1. inserts \subseteq Shipment /\ updates \subseteq Shipment /\ placed \subseteq Shipment
  BY DEF Inserts, Updates, About
<1>2. central[e] \in Seq(Seq(Says))
  BY DEF TypeOK
<1>3. ASSUME NEW S \in SUBSET Shipment, S # {}
      PROVE  Last(S) \in S /\ \A t \in S : ~Before(Last(S), t)
  BY <1>3, LatestExists
<1>4. inserts # {} => first \in inserts /\ \A t \in inserts : ~Before(t, first)
  <2> HIDE DEF inserts
  <2> QED BY <1>1, EarliestExists
<1>5. rows = old \o new
  BY DEF IngestedRows, Updates, About
<1>6. \A s \in Shipment : s.covers \in Seq(Says)
  BY DEF Shipment
<1>7. old \in Seq(Seq(Says)) /\ Len(old) = Len(central[e]) /\ \A n \in 1 .. Len(central[e]) : old[n] = Old(n)
  <2>1. updates # {} => Last(updates).covers \in Seq(Says)
    <3> HIDE DEF updates, Last
    <3> QED BY <1>1, <1>3, <1>6
  <2>2. \A n \in 1 .. Len(central[e]) : Old(n) \in Seq(Says)
    <3> HIDE DEF updates, Last
    <3> QED BY <1>2, <2>1
  <2>3. Len(central[e]) \in Nat
    BY <1>2
  <2> HIDE DEF Old
  <2> QED BY <2>2, <2>3
<1>8. new \in Seq(Seq(Says)) /\ (inserts = {} => new = <<>>) /\ (inserts # {} => Len(new) = 1 /\ new[1] = row)
  <2>1. inserts # {} => row \in Seq(Says)
    <3>1. placed # {} => Last(placed) \in placed
      <4> HIDE DEF placed, Last
      <4> QED BY <1>1, <1>3
    <3> HIDE DEF inserts, placed, first, Last
    <3> QED BY <1>1, <1>4, <1>6, <3>1
  <2> HIDE DEF inserts, row
  <2> QED BY <2>1
<1>9. /\ Len(rows) = Len(central[e]) + Len(new)
      /\ \A n \in 1 .. Len(rows) : rows[n] = IF n <= Len(central[e]) THEN old[n] ELSE new[n - Len(central[e])]
      /\ rows \in Seq(Seq(Says)) /\ Len(central[e]) \in Nat /\ Len(new) \in Nat
  <2>1. old \in Seq(Seq(Says)) /\ new \in Seq(Seq(Says)) /\ Len(old) = Len(central[e])
    BY <1>7, <1>8
  <2> HIDE DEF old, new
  <2>2. /\ rows \in Seq(Seq(Says)) /\ Len(rows) = Len(old) + Len(new)
        /\ \A n \in 1 .. Len(old) + Len(new) : rows[n] = IF n <= Len(old) THEN old[n] ELSE new[n - Len(old)]
    <3> DEFINE T == Seq(Says)
    <3>1. old \in Seq(T) /\ new \in Seq(T)
      BY <2>1
    <3> HIDE DEF T
    <3>2. /\ old \o new \in Seq(T) /\ Len(old \o new) = Len(old) + Len(new)
          /\ \A n \in 1 .. Len(old) + Len(new) :
               (old \o new)[n] = IF n <= Len(old) THEN old[n] ELSE new[n - Len(old)]
      BY <3>1, ConcatProperties
    <3> QED BY <1>5, <3>2 DEF T
  <2>3. Len(central[e]) \in Nat /\ Len(new) \in Nat
    BY <1>2, <2>1
  <2> QED BY <2>1, <2>2, <2>3
<1>10. ASSUME About(fresh, e) = {} PROVE rows = central[e]
  <2>1. inserts = {} /\ updates = {}
    BY <1>10 DEF Inserts, Updates, About
  <2>2. Len(rows) = Len(central[e]) /\ \A n \in 1 .. Len(rows) : rows[n] = central[e][n]
    <3> HIDE DEF old, new, inserts, updates
    <3>1. Len(new) = 0
      BY <1>8, <2>1
    <3> QED BY <1>7, <1>9, <2>1, <3>1
  <2> HIDE DEF old, new
  <2> QED BY <1>2, <1>9, <2>2, SeqEqual
<1>11. ASSUME central[e] # <<>>
       PROVE  /\ rows # <<>>
              /\ IF updates = {} THEN rows[1] = central[e][1]
                 ELSE \E u \in updates : rows[1] = u.covers /\ \A t \in updates : ~Before(u, t)
  <2>1. Len(central[e]) >= 1
    BY <1>2, <1>11
  <2>2. rows # <<>> /\ rows[1] = Old(1)
    <3> HIDE DEF old, new, Old
    <3>1. 1 \in 1 .. Len(rows) /\ 1 \in 1 .. Len(central[e])
      BY <1>9, <2>1
    <3>2. old[1] = Old(1)
      BY <1>7, <3>1
    <3>3. rows[1] = old[1] /\ Len(rows) # 0
      BY <1>9, <3>1
    <3> QED BY <3>2, <3>3
  <2> HIDE DEF updates, Last
  <2> QED BY <1>1, <1>3, <2>2
<1>12. ASSUME About(fresh, e) # {}, central[e] = <<>>
       PROVE  /\ rows # <<>> /\ inserts # {}
              /\ IF placed = {} THEN rows[1] = first.covers
                 ELSE \E u \in placed : rows[1] = u.covers /\ \A t \in placed : ~Before(u, t)
  <2>1. inserts # {}
    <3>1. About(fresh, e) \subseteq Shipment
      BY DEF About
    <3>2. PICK s \in About(fresh, e) : \A t \in About(fresh, e) : ~Before(t, s)
      BY <1>12, <3>1, EarliestExists
    <3> QED BY <1>12, <3>2 DEF Inserts, About
  <2>2. rows # <<>> /\ rows[1] = row
    <3> HIDE DEF old, new, row, inserts
    <3>1. Len(central[e]) = 0 /\ Len(new) = 1 /\ new[1] = row
      BY <1>8, <1>12, <2>1
    <3> QED BY <1>9, <3>1
  <2> HIDE DEF placed, Last, inserts, first
  <2> QED BY <1>1, <1>3, <2>1, <2>2
<1>13. ASSUME About(fresh, e) # {}, central[e] = <<>>
       PROVE  \E f \in inserts :
                   /\ \A t \in inserts : ~Before(t, f)
                   /\ LET plac == {s \in updates : Before(f, s)}
                      IN  IF plac = {} THEN rows[1] = f.covers
                          ELSE \E u \in plac : rows[1] = u.covers /\ \A t \in plac : ~Before(u, t)
  <2>1. placed = {s \in updates : Before(first, s)}
    BY <1>12, <1>13
  <2> HIDE DEF placed, inserts, first, updates
  <2> QED BY <1>4, <1>12, <1>13, <2>1
<1>14. /\ inserts = {} => Len(rows) = Len(central[e])
       /\ inserts # {} => Len(rows) = Len(central[e]) + 1
       /\ central[e] = <<>> => Len(rows) <= 1
  <2>1. Len(rows) = Len(central[e]) + Len(new) /\ Len(central[e]) \in Nat
    BY <1>9
  <2>2. inserts = {} => Len(new) = 0
    BY <1>8
  <2>3. Len(new) = 0 \/ Len(new) = 1
    BY <1>8
  <2>4. central[e] = <<>> => Len(central[e]) = 0
    OBVIOUS
  <2> HIDE DEF new, inserts
  <2>5. /\ inserts = {} => Len(rows) = Len(central[e])
        /\ inserts # {} => Len(rows) = Len(central[e]) + 1
    <3>1. inserts # {} => Len(new) = 1
      BY <1>8
    <3>2. ASSUME inserts = {} PROVE Len(rows) = Len(central[e])
      BY <2>1, <2>2, <3>2
    <3> QED BY <2>1, <3>1, <3>2
  <2>6. ASSUME central[e] = <<>> PROVE Len(rows) <= 1
    BY <2>1, <2>3, <2>4, <2>6
  <2> QED BY <2>5, <2>6
<1> HIDE DEF inserts, updates
<1> QED
  <2>1. inserts = Inserts(fresh, e) /\ updates = Updates(fresh, e)
    BY DEF inserts, updates
  <2> QED BY <1>10, <1>11, <1>12, <1>13, <1>14, <2>1

(* Given what is known of shipments, central's first row says "final" as   *)
(* soon as one of the new shipments about the event does.                  *)
LEMMA RowSays ==
  ASSUME TypeOK, NEW fresh \in SUBSET Shipment, NEW e \in Events, About(fresh, e) # {},
         NEW rows, rows = IngestedRows(fresh, e),
         \A a \in About(fresh, e) : Content(a) \in Says,
         \A a \in About(fresh, e) : Content(a) = "final" => a.kind = "usage_event_correction",
         \A a, b \in About(fresh, e) : Content(a) = "first" /\ Content(b) = "final" => Before(a, b)
  PROVE  /\ rows # <<>>
         /\ \/ central[e] # <<>> /\ rows[1] = central[e][1]
            \/ \E s \in About(fresh, e) : rows[1][e[2]] = Content(s)
         /\ \A s \in About(fresh, e) : Content(s) = "final" => rows[1][e[2]] = "final"
<1> DEFINE about == About(fresh, e)
<1>1. /\ Inserts(fresh, e) \subseteq about /\ Updates(fresh, e) \subseteq about
      /\ about = Inserts(fresh, e) \cup Updates(fresh, e)
      /\ \A s \in about : s.kind = "usage_event_correction" =>
           (s \in Inserts(fresh, e) <=> central[e] = <<>> /\ ~\E t \in about : Before(t, s))
  BY DEF Inserts, Updates, About
<1>2. \A s \in about : s.covers[e[2]] = Content(s)
  BY DEF About, Content
<1>3. \A s \in about : Content(s) = "first" \/ Content(s) = "final"
  BY DEF Says
<1>4. CASE central[e] # <<>>
  <2>1. /\ rows # <<>>
        /\ IF Updates(fresh, e) = {} THEN rows[1] = central[e][1]
           ELSE \E u \in Updates(fresh, e) :
                  rows[1] = u.covers /\ \A t \in Updates(fresh, e) : ~Before(u, t)
    BY <1>4, RowShape
  <2>2. ASSUME NEW s \in about, Content(s) = "final" PROVE rows[1][e[2]] = "final"
    <3>1. s \in Updates(fresh, e)
      BY <1>1, <1>4, <2>2
    <3>2. PICK u \in Updates(fresh, e) :
            rows[1] = u.covers /\ \A t \in Updates(fresh, e) : ~Before(u, t)
      BY <2>1, <3>1
    <3> QED BY <1>1, <1>2, <1>3, <2>2, <3>1, <3>2
  <2>3. \/ central[e] # <<>> /\ rows[1] = central[e][1]
        \/ \E s \in about : rows[1][e[2]] = Content(s)
    BY <1>1, <1>2, <1>4, <2>1
  <2> QED BY <2>1, <2>2, <2>3
<1>5. CASE central[e] = <<>>
  <2>1. /\ rows # <<>>
        /\ \E f \in Inserts(fresh, e) :
             /\ \A t \in Inserts(fresh, e) : ~Before(t, f)
             /\ LET placed == {s \in Updates(fresh, e) : Before(f, s)}
                IN  IF placed = {} THEN rows[1] = f.covers
                    ELSE \E u \in placed :
                           rows[1] = u.covers /\ \A t \in placed : ~Before(u, t)
    BY <1>5, RowShape
  <2>2. PICK f \in Inserts(fresh, e) :
             LET placed == {s \in Updates(fresh, e) : Before(f, s)}
             IN  IF placed = {} THEN rows[1] = f.covers
                 ELSE \E u \in placed : rows[1] = u.covers /\ \A t \in placed : ~Before(u, t)
    BY <2>1
  <2> DEFINE placed == {s \in Updates(fresh, e) : Before(f, s)}
  <2>3. \E s \in about : rows[1][e[2]] = Content(s)
    <3>1. CASE placed = {}
      BY <1>1, <1>2, <2>2, <3>1
    <3>2. CASE placed # {}
      <4>1. PICK u \in placed : rows[1] = u.covers
        BY <2>2, <3>2
      <4> QED BY <1>1, <1>2, <4>1
    <3> QED BY <3>1, <3>2
  <2>4. ASSUME NEW s \in about, Content(s) = "final" PROVE rows[1][e[2]] = "final"
    <3>1. CASE Content(f) = "final"
      <4>1. \A t \in about : ~Before(t, f)
        BY <1>1, <3>1
      <4>2. \A t \in about : Content(t) = "final"
        BY <1>1, <1>3, <3>1, <4>1
      <4> QED BY <2>3, <4>2
    <3>2. CASE Content(f) = "first"
      <4>1. Before(f, s)
        BY <1>1, <2>4, <3>2
      <4>2. s \in placed
        BY <1>1, <2>4, <4>1
      <4>3. PICK u \in placed : rows[1] = u.covers /\ \A t \in placed : ~Before(u, t)
        BY <2>2, <4>2
      <4>4. u \in about /\ ~Before(u, s)
        BY <1>1, <4>2, <4>3
      <4>5. Content(u) = "final"
        BY <1>3, <2>4, <4>4
      <4> QED BY <1>2, <4>3, <4>4, <4>5
    <3> QED BY <1>1, <1>3, <3>1, <3>2
  <2> QED BY <2>1, <2>3, <2>4
<1> QED BY <1>4, <1>5

LEMMA IngestStep ==
  ASSUME StreamInv, NEW batch \in Batches, IngestBatch(batch),
         \A b \in Batches' : b \in Batches,
         UNCHANGED <<lived, chain, numbered, outbox, trimmed>>
  PROVE  QueueInv' /\ RowKnown' /\ FinalRow' /\ NothingLost'
<1> DEFINE fresh == {s \in batch : Key(s) \notin ledger}
<1>1. /\ batch \subseteq Known /\ batch \subseteq InFlight /\ Known \subseteq Shipment
      /\ fresh \subseteq batch /\ \A s \in batch : s \in fresh \/ Key(s) \in ledger
  BY DEF Known, InFlight, StreamInv, TypeInv, TypeOK, Batches
<1>2. /\ ledger' = ledger \cup {Key(s) : s \in fresh}
      /\ central' = [e \in Events |-> IngestedRows(fresh, e)]
  BY DEF IngestBatch
<1>3. \A s \in fresh : Key(s) \notin ledger
  OBVIOUS
<1> HIDE DEF fresh
<1>4. QueueInv' /\ Known' \subseteq Known /\ \A s : Settled(s) => Settled(s)'
  <2>1. TypeInv /\ QueueInv
    BY DEF StreamInv
  <2>2. ledger \subseteq ledger' /\ \A k \in ledger' : k \in ledger \/ \E s \in Known : k = Key(s)
    BY <1>1, <1>2
  <2> QED BY <2>1, <2>2, QueueStep
<1>5. \A s \in batch : Settled(s)'
  BY <1>1, <1>2 DEF Settled, Key
<1>6. /\ \A s \in Known : s.event \in Recorded /\ Content(s) \in Says
      /\ \A s \in Known : Content(s) = "final" =>
           Stands(s.event) = "final" /\ s.kind = "usage_event_correction"
      /\ \A s, t \in Known : s.event = t.event /\ Content(s) = "first" /\ Content(t) = "final"
           => Before(s, t)
  BY DEF StreamInv, QueueInv, ContentKnown
<1>7. \A s \in Known : s \notin fresh /\ Key(s) \notin ledger => Key(s) \notin ledger'
  <2>1. \A s, t \in Known : Key(s) = Key(t) => s = t
    BY DEF StreamInv, QueueInv, OneNumberEach, Key
  <2> QED BY <1>1, <1>2, <2>1
<1>8. ASSUME NEW e \in Events, About(fresh, e) = {}
      PROVE  central'[e] = central[e]
  <2>1. fresh \in SUBSET Shipment /\ TypeOK
    BY <1>1 DEF StreamInv, TypeInv
  <2> QED BY <1>2, <1>8, <2>1, RowShape
<1>9. ASSUME NEW e \in Events, About(fresh, e) # {}
      PROVE  /\ central'[e] # <<>>
             /\ \/ central[e] # <<>> /\ central'[e][1] = central[e][1]
                \/ \E s \in About(fresh, e) : central'[e][1][e[2]] = Content(s)
             /\ \A s \in About(fresh, e) : Content(s) = "final" => central'[e][1][e[2]] = "final"
  <2>1. fresh \in SUBSET Shipment /\ TypeOK
    BY <1>1 DEF StreamInv, TypeInv
  <2>2. About(fresh, e) \subseteq Known /\ \A s \in About(fresh, e) : s.event = e
    BY <1>1 DEF About
  <2>3. PICK rows : rows = IngestedRows(fresh, e)
    OBVIOUS
  <2>4. central'[e] = rows
    BY <1>2, <2>3
  <2>5. /\ \A a \in About(fresh, e) : Content(a) \in Says
        /\ \A a \in About(fresh, e) : Content(a) = "final" => a.kind = "usage_event_correction"
        /\ \A a, b \in About(fresh, e) : Content(a) = "first" /\ Content(b) = "final" => Before(a, b)
    BY <1>6, <2>2
  <2> QED BY <1>9, <2>1, <2>3, <2>4, <2>5, RowSays
<1>10. \A e \in Events : \A s \in About(fresh, e) : s \in Known /\ s \in batch /\ s \in fresh /\ s.event = e
  BY <1>1 DEF About
<1>11. RowKnown'
  <2> SUFFICES ASSUME NEW e \in Events, central'[e] # <<>>
               PROVE  /\ e \in Recorded /\ central'[e][1][e[2]] \in Says
                      /\ central'[e][1][e[2]] = "final" => Stands(e) = "final"
    BY DEF RowKnown, Recorded, Stands
  <2>1. CASE central[e] # <<>> /\ central'[e][1] = central[e][1]
    BY <2>1 DEF StreamInv, RowKnown
  <2>2. CASE \E s \in About(fresh, e) : central'[e][1][e[2]] = Content(s)
    BY <1>6, <1>10, <2>2
  <2> QED BY <1>8, <1>9, <2>1, <2>2
<1>12. FinalRow'
  <2> SUFFICES ASSUME NEW e \in Events, central'[e] # <<>>, central'[e][1][e[2]] = "final",
                      NEW t \in Known, t.event = e, Content(t) = "first"
               PROVE  Settled(t)'
    BY <1>4 DEF FinalRow, Content
  <2>1. CASE central[e] # <<>> /\ central'[e][1] = central[e][1]
    <3>1. Settled(t)
      BY <2>1 DEF StreamInv, FinalRow
    <3> QED BY <1>4, <3>1
  <2>2. CASE \E s \in About(fresh, e) : central'[e][1][e[2]] = Content(s)
    <3>1. PICK s \in batch : s.event = e /\ Content(s) = "final"
      BY <1>10, <2>2
    <3>2. Before(t, s)
      BY <1>1, <1>6, <3>1
    <3>3. t \in batch \/ Settled(t)
      BY <3>1, <3>2 DEF StreamInv, QueueInv, OldestFirst
    <3> QED BY <1>4, <1>5, <3>3
  <2> QED BY <1>8, <1>9, <2>1, <2>2
<1>13. NothingLost'
  <2> SUFFICES ASSUME NEW e \in Recorded PROVE Trimmed(e)' \/ Holds(e)' \/ Owed(e)'
    BY DEF NothingLost, Recorded
  <2>1. e \in Events /\ Stands(e)' = Stands(e)
    BY DEF Recorded, Stands
  <2>2. Trimmed(e) \/ Holds(e) \/ Owed(e)
    BY DEF StreamInv, NothingLost
  <2>3. Trimmed(e) => Trimmed(e)'
    BY DEF Trimmed
  <2>4. ASSUME Owed(e) PROVE Holds(e)' \/ Owed(e)'
    <3>1. PICK s \in outbox : s.event = e /\ Content(s) = Stands(e) /\ Key(s) \notin ledger
      BY <2>4 DEF Owed, Content
    <3>2. s \in Known
      BY DEF Known
    <3>3. CASE s \notin fresh
      <4>1. Key(s) \notin ledger'
        BY <1>7, <3>1, <3>2, <3>3
      <4> QED BY <2>1, <3>1, <4>1 DEF Owed, Content, Key
    <3>4. CASE s \in fresh
      <4>1. s \in About(fresh, e)
        BY <3>1, <3>4 DEF About
      <4>2. central'[e][1][e[2]] = Stands(e) /\ central'[e] # <<>>
        <5>1. CASE Content(s) = "final"
          BY <1>9, <2>1, <3>1, <4>1, <5>1
        <5>2. CASE Content(s) # "final"
          <6>1. central'[e] # <<>> /\ central'[e][1][e[2]] \in Says
                /\ (central'[e][1][e[2]] = "final" => Stands(e) = "final")
            BY <1>9, <1>11, <2>1, <4>1 DEF RowKnown
          <6>2. Content(s) = "first"
            BY <1>6, <3>2, <5>2 DEF Says
          <6> QED BY <3>1, <6>1, <6>2 DEF Says
        <5> QED BY <5>1, <5>2
      <4> QED BY <2>1, <4>2 DEF Holds
    <3> QED BY <3>3, <3>4
  <2>5. ASSUME Holds(e) PROVE Trimmed(e)' \/ Holds(e)'
    <3>1. central[e] # <<>> /\ central[e][1][e[2]] = Stands(e)
      BY <2>5 DEF Holds
    <3>2. CASE central'[e] # <<>> /\ central'[e][1] = central[e][1]
      BY <2>1, <3>1, <3>2 DEF Holds
    <3>3. CASE central'[e] # <<>> /\ central'[e][1][e[2]] = Stands(e)
      BY <2>1, <3>3 DEF Holds
    <3>4. CASE /\ central'[e] # <<>> /\ central'[e][1][e[2]] # Stands(e)
               /\ \E s \in About(fresh, e) : central'[e][1][e[2]] = Content(s)
      <4>1. PICK s \in About(fresh, e) : central'[e][1][e[2]] = Content(s)
        BY <3>4
      <4>2. s \in Known /\ s \in fresh /\ s.event = e
        BY <1>10, <2>1, <4>1
      <4>3. Content(s) \in Says /\ (Content(s) = "final" => Stands(e) = "final") /\ Stands(e) \in Says
        <5>1. Stands(e) \in Says
          BY <2>1, <3>1 DEF StreamInv, RowKnown
        <5> QED BY <1>6, <4>2, <5>1
      <4>4. Content(s) = "first" /\ Stands(e) = "final"
        BY <3>4, <4>1, <4>3 DEF Says
      <4>5. Settled(s)
        BY <2>1, <3>1, <4>2, <4>4 DEF StreamInv, FinalRow
      <4>6. s \in trimmed
        BY <1>3, <4>2, <4>5 DEF Settled
      <4> QED BY <4>2, <4>6 DEF Trimmed
    <3> QED BY <1>8, <1>9, <2>1, <3>1, <3>2, <3>3, <3>4
  <2> QED BY <2>2, <2>3, <2>4, <2>5
<1> QED BY <1>4, <1>11, <1>12, <1>13

LEMMA StreamInit ==
  ASSUME Init
  PROVE  StreamInv
<1>1. TypeInv
  BY TypeInit
<1>2. Known = {} /\ InFlight = {} /\ \A b \in Batches : b = {}
  BY DEF Init, Known, InFlight, Batches
<1>3. QueueInv /\ StoredInLedger
  BY <1>2 DEF Init, QueueInv, Numbered, OneNumberEach, FlightSettled, OldestFirst, ContentKnown,
              StoredInLedger
<1>4. RowKnown /\ FinalRow
  BY DEF Init, RowKnown, FinalRow
<1>5. NewestLife
  <2>1. life \in Nat
    <3>1. Lives \subseteq Nat
      BY StreamAssumption
    <3> QED BY <3>1 DEF Init
  <2> QED BY <2>1 DEF Init, NewestLife
<1>6. NothingLost
  <2>1. Recorded = {}
    BY StreamAssumption DEF Init, Recorded, Events
  <2> QED BY <2>1 DEF NothingLost
<1> QED BY <1>1, <1>3, <1>4, <1>5, <1>6 DEF StreamInv

LEMMA StreamStep ==
  ASSUME LivesInOrder, StreamInv, [Next]_vars
  PROVE  StreamInv'
<1> DEFINE Rest == QueueInv' /\ NewestLife' /\ StoredInLedger' /\ RowKnown' /\ FinalRow' /\ NothingLost'
<1>1. TypeInv'
  BY TypeStep DEF StreamInv
<1>2. SUFFICES Rest
  BY <1>1 DEF StreamInv
<1>3. CASE Record
  BY <1>3, RecordFacts, RecordStep DEF StreamInv
<1>4. ASSUME NEW d \in Drainers, Step(d) \/ ShipFailed(d)
      PROVE  Rest
  <2>1. CASE Ingest(d)
    <3>1. /\ IngestBatch(sent[d]) /\ sent[d] \in Batches /\ Batches' = Batches
          /\ UNCHANGED <<life, lived, chain, numbered, outbox, trimmed, sent>>
          /\ state' = [state EXCEPT ![d] = "stored"]
      BY <2>1 DEF Ingest, nodeVars, Batches
    <3>2. QueueInv' /\ RowKnown' /\ FinalRow' /\ NothingLost'
      BY <3>1, IngestStep
    <3>3. NewestLife'
      BY <3>1 DEF StreamInv, NewestLife
    <3>4. StoredInLedger'
      <4>1. ledger \subseteq ledger' /\ \A s \in sent[d] : Key(s) \in ledger'
        BY <3>1 DEF IngestBatch
      <4>2. \A c \in Drainers : c # d => state'[c] = state[c]
        BY <3>1 DEF StreamInv, TypeInv, TypeOK
      <4> QED BY <3>1, <4>1, <4>2 DEF StreamInv, StoredInLedger, Key
    <3> QED BY <3>2, <3>3, <3>4
  <2>2. CASE StartDrain(d) \/ ShipOnce(d) \/ StopDrain(d) \/ AckOutbox(d) \/ ShipFailed(d) \/ TrimUsageOutbox(d)
    BY <2>2, ShipperStep, QuietKeeps
  <2> QED BY <1>4, <2>1, <2>2 DEF Step
<1>5. ASSUME NEW b \in delayed, IngestDelayed(b)
      PROVE  Rest
  <2>1. /\ IngestBatch(b) /\ b \in Batches /\ Batches' \subseteq Batches
        /\ UNCHANGED <<life, lived, chain, numbered, outbox, trimmed, state, sent>>
    BY <1>5 DEF IngestDelayed, nodeVars, Batches
  <2>2. QueueInv' /\ RowKnown' /\ FinalRow' /\ NothingLost'
    BY <2>1, IngestStep
  <2>3. NewestLife'
    BY <2>1 DEF StreamInv, NewestLife
  <2>4. StoredInLedger'
    <3>1. ledger \subseteq ledger'
      BY <2>1 DEF IngestBatch
    <3> QED BY <2>1, <3>1 DEF StreamInv, StoredInLedger, Key
  <2> QED BY <2>2, <2>3, <2>4
<1>6. ASSUME NEW i \in Lives, Restart(i)
      PROVE  Rest
  BY <1>6, RestartStep, QuietKeeps
<1>7. CASE UNCHANGED vars
  <2>1. Unfed
    BY <1>7 DEF vars, Unfed, Batches
  <2>2. NewestLife' /\ StoredInLedger'
    BY <1>7 DEF vars, StreamInv, NewestLife, StoredInLedger, Key
  <2> QED BY <2>1, <2>2, QuietKeeps
<1> QED BY <1>3, <1>4, <1>5, <1>6, <1>7 DEF Next, Faults

(* Whatever is lost, repeated, late or stored after it was given up, and   *)
(* however often the server restarts, an event is at central as it stands, *)
(* or a shipment that says how it stands is queued and will be stored, or  *)
(* trimUsageOutbox dropped one about it; as long as a later life's id      *)
(* sorts later.                                                            *)
THEOREM NothingIsLost ==
  ASSUME LivesInOrder
  PROVE  Safety => []NothingLost
<1>1. StreamInv => NothingLost
  BY DEF StreamInv
<1>2. Init => StreamInv
  BY StreamInit
<1>3. StreamInv /\ [Next]_vars => StreamInv'
  BY StreamStep
<1> QED BY <1>1, <1>2, <1>3, PTL DEF Safety

-----------------------------------------------------------------------------
(* A hole in the ledger is a trim *)

(* Every number given out is of a shipment queued, trimmed or stored, and  *)
(* what precedes a stored shipment of its life is settled.                 *)
NumbersUsed ==
  \A i \in Lives, n \in Nat : 0 < n /\ n <= numbered[i] =>
    \/ \E s \in outbox \cup trimmed : s.life = i /\ s.seq = n
    \/ \E k \in ledger : k[1] = i /\ k[2] = n
LedgerFirst ==
  \A k \in ledger : \A s \in Known : s.life = k[1] /\ s.seq < k[2] => Settled(s)
GapInv == StreamInv /\ NumbersUsed /\ LedgerFirst

LEMMA GapHolds ==
  ASSUME GapInv
  PROVE  GapMeansTrimmed
<1> SUFFICES ASSUME NEW i \in Lives, NEW n \in 1 .. MaxShipments,
                    NEW k \in ledger, k[1] = i, k[2] > n,
                    \A l \in ledger : l[1] = i => l[2] # n
             PROVE  \E s \in trimmed : s.life = i /\ s.seq = n
  BY DEF GapMeansTrimmed
<1>1. k[2] <= numbered[i]
  BY DEF GapInv, StreamInv, QueueInv, Numbered
<1>2. n \in Nat /\ 0 < n /\ n <= numbered[i]
  <2>1. numbered[i] \in Nat
    BY NumbersType DEF GapInv, StreamInv
  <2>2. k[2] \in 1 .. MaxShipments /\ MaxShipments \in Nat
    BY StreamAssumption DEF GapInv, StreamInv, TypeInv, TypeOK
  <2>3. k[2] \in Nat /\ n \in Nat /\ 0 < n
    BY <2>2
  <2> QED BY <1>1, <2>1, <2>3
<1>3. PICK s \in outbox \cup trimmed : s.life = i /\ s.seq = n
  BY <1>2 DEF GapInv, NumbersUsed
<1>4. Settled(s)
  BY <1>2, <1>3 DEF GapInv, LedgerFirst, Known
<1> QED BY <1>3, <1>4 DEF Settled, Key

LEMMA GapQuiet ==
  ASSUME GapInv, Unfed
  PROVE  NumbersUsed' /\ LedgerFirst'
<1>1. NumbersUsed'
  <2> SUFFICES ASSUME NEW i \in Lives, NEW n \in Nat, 0 < n, n <= numbered[i]
               PROVE  \/ \E s \in outbox' \cup trimmed' : s.life = i /\ s.seq = n
                      \/ \E k \in ledger : k[1] = i /\ k[2] = n
    BY DEF NumbersUsed, Unfed
  <2>1. CASE \E k \in ledger : k[1] = i /\ k[2] = n
    BY <2>1
  <2>2. ASSUME NEW s \in outbox \cup trimmed, s.life = i, s.seq = n
        PROVE  s \in outbox' \cup trimmed' \/ \E k \in ledger : k[1] = i /\ k[2] = n
    <3>1. Key(s)[1] = i /\ Key(s)[2] = n
      BY <2>2 DEF Key
    <3> QED BY <3>1 DEF Unfed
  <2> QED BY <2>1, <2>2 DEF GapInv, NumbersUsed
<1>2. LedgerFirst'
  <2>1. Known' \subseteq Known /\ \A s : Settled(s) => Settled(s)'
    BY BatchQueued DEF Unfed, Known, InFlight, Settled, Key
  <2> QED BY <2>1 DEF GapInv, LedgerFirst, Unfed
<1> QED BY <1>1, <1>2

LEMMA GapRecord ==
  ASSUME GapInv, NEW q, RecordsOf(q)
  PROVE  NumbersUsed' /\ LedgerFirst'
<1>1. numbered \in [Lives -> Nat] /\ life \in Lives /\ numbered[life] \in Nat
  BY NumbersType DEF GapInv, StreamInv, TypeInv, TypeOK
<1>2. NumbersUsed'
  <2> SUFFICES ASSUME NEW i \in Lives, NEW n \in Nat, 0 < n, n <= numbered'[i]
               PROVE  \/ \E s \in outbox' \cup trimmed' : s.life = i /\ s.seq = n
                      \/ \E k \in ledger' : k[1] = i /\ k[2] = n
    BY DEF NumbersUsed
  <2>1. n <= numbered[i] \/ (i = life /\ n = numbered[life] + 1)
    BY <1>1 DEF RecordsOf
  <2> QED BY <2>1 DEF GapInv, NumbersUsed, RecordsOf
<1>3. LedgerFirst'
  <2> SUFFICES ASSUME NEW k \in ledger, NEW s \in Known', s.life = k[1], s.seq < k[2]
               PROVE  Settled(s)'
    BY DEF LedgerFirst, RecordsOf
  <2>1. Known' = Known \cup {q}
    BY DEF RecordsOf, Known, InFlight, Batches
  <2>2. CASE s \in Known
    BY <2>2 DEF GapInv, LedgerFirst, Settled, Key, RecordsOf
  <2>3. CASE s = q
    <3>1. k[1] = life /\ numbered[life] + 1 < k[2] /\ k[2] <= numbered[life]
      BY <2>3 DEF RecordsOf, GapInv, StreamInv, QueueInv, Numbered
    <3>2. k[2] \in Nat
      BY StreamAssumption DEF GapInv, StreamInv, TypeInv, TypeOK
    <3> QED BY <1>1, <3>1, <3>2
  <2> QED BY <2>1, <2>2, <2>3
<1> QED BY <1>2, <1>3

LEMMA GapIngest ==
  ASSUME GapInv, NEW batch \in Batches, IngestBatch(batch), Batches' \subseteq Batches,
         UNCHANGED <<numbered, outbox, trimmed>>
  PROVE  NumbersUsed' /\ LedgerFirst'
<1>1. /\ ledger' = ledger \cup {Key(s) : s \in batch}
      /\ \A k \in ledger' : k \in ledger \/ \E t \in batch : k = Key(t)
  BY DEF IngestBatch
<1>2. NumbersUsed'
  BY <1>1 DEF GapInv, NumbersUsed
<1>3. LedgerFirst'
  <2> SUFFICES ASSUME NEW k \in ledger', NEW s \in Known', s.life = k[1], s.seq < k[2]
               PROVE  Settled(s)'
    BY DEF LedgerFirst
  <2>1. s \in Known /\ (Settled(s) => Settled(s)')
    BY <1>1 DEF Known, InFlight, Settled, Key
  <2>2. CASE k \in ledger
    BY <2>1, <2>2 DEF GapInv, LedgerFirst
  <2>3. ASSUME NEW t \in batch, k = Key(t) PROVE Settled(s)'
    <3>1. Before(s, t)
      BY <2>3 DEF Before, Key
    <3>2. s \in batch \/ Settled(s)
      BY <2>1, <3>1 DEF GapInv, StreamInv, QueueInv, OldestFirst
    <3>3. s \in batch => Settled(s)'
      BY <1>1 DEF Settled, Key
    <3> QED BY <2>1, <3>2, <3>3
  <2> QED BY <1>1, <2>2, <2>3
<1> QED BY <1>2, <1>3

LEMMA GapStep ==
  ASSUME LivesInOrder, GapInv, [Next]_vars
  PROVE  GapInv'
<1>1. StreamInv'
  BY StreamStep DEF GapInv
<1>2. SUFFICES NumbersUsed' /\ LedgerFirst'
  BY <1>1 DEF GapInv
<1>3. CASE Record
  BY <1>3, RecordFacts, GapRecord DEF GapInv, StreamInv
<1>4. ASSUME NEW d \in Drainers, Step(d) \/ ShipFailed(d)
      PROVE  NumbersUsed' /\ LedgerFirst'
  <2>1. CASE Ingest(d)
    <3>1. /\ IngestBatch(sent[d]) /\ sent[d] \in Batches /\ Batches' \subseteq Batches
          /\ UNCHANGED <<numbered, outbox, trimmed>>
      BY <2>1 DEF Ingest, nodeVars, Batches
    <3> QED BY <3>1, GapIngest
  <2>2. CASE StartDrain(d) \/ ShipOnce(d) \/ StopDrain(d) \/ AckOutbox(d) \/ ShipFailed(d) \/ TrimUsageOutbox(d)
    BY <2>2, ShipperStep, GapQuiet DEF GapInv
  <2> QED BY <1>4, <2>1, <2>2 DEF Step
<1>5. ASSUME NEW b \in delayed, IngestDelayed(b)
      PROVE  NumbersUsed' /\ LedgerFirst'
  <2>1. /\ IngestBatch(b) /\ b \in Batches /\ Batches' \subseteq Batches
        /\ UNCHANGED <<numbered, outbox, trimmed>>
    BY <1>5 DEF IngestDelayed, nodeVars, Batches
  <2> QED BY <2>1, GapIngest
<1>6. ASSUME NEW i \in Lives, Restart(i)
      PROVE  NumbersUsed' /\ LedgerFirst'
  BY <1>6, RestartStep, GapQuiet DEF GapInv
<1>7. CASE UNCHANGED vars
  <2>1. Unfed
    BY <1>7 DEF vars, Unfed, Batches
  <2> QED BY <2>1, GapQuiet
<1> QED BY <1>3, <1>4, <1>5, <1>6, <1>7 DEF Next, Faults

LEMMA GapInit ==
  ASSUME Init
  PROVE  GapInv
<1>1. NumbersUsed /\ LedgerFirst
  BY DEF Init, NumbersUsed, LedgerFirst
<1> QED BY <1>1, StreamInit DEF GapInv

(* What nodeStream reports as a gap, a number missing below one that is    *)
(* there, is a shipment that trimUsageOutbox dropped: neither loss, delay, *)
(* restarts nor two drainers at once can make one.                         *)
THEOREM GapsAreTrims ==
  ASSUME LivesInOrder
  PROVE  Safety => []GapMeansTrimmed
<1>1. Init => GapInv
  BY GapInit
<1>2. GapInv /\ [Next]_vars => GapInv'
  BY GapStep
<1>3. GapInv => GapMeansTrimmed
  BY GapHolds
<1> QED BY <1>1, <1>2, <1>3, PTL DEF Safety

-----------------------------------------------------------------------------
(* Central counts an event once *)

(* An event is queued once as such, before its corrections; and when       *)
(* central has a row of it, that shipment is settled.                      *)
EventsFirst ==
  \A s, t \in Known : s.event = t.event /\ s.kind = "usage_event" => s = t \/ Before(s, t)
EventSettled ==
  \A e \in Events : central[e] # <<>> =>
    \A s \in Known : s.event = e /\ s.kind = "usage_event" => Settled(s)
RowInv == StreamInv /\ EventsFirst /\ EventSettled /\ OneRowPerEvent

LEMMA RowQuiet ==
  ASSUME RowInv, Unfed
  PROVE  EventsFirst' /\ EventSettled' /\ OneRowPerEvent'
<1>1. Known' \subseteq Known /\ \A s : Settled(s) => Settled(s)'
  BY BatchQueued DEF Unfed, Known, InFlight, Settled, Key
<1>2. EventsFirst'
  BY <1>1 DEF RowInv, EventsFirst, Before
<1>3. EventSettled'
  BY <1>1 DEF RowInv, EventSettled, Unfed
<1>4. OneRowPerEvent'
  BY DEF RowInv, OneRowPerEvent, Trimmed, Unfed
<1> QED BY <1>2, <1>3, <1>4

LEMMA RowRecord ==
  ASSUME RowInv, NEW q, RecordsOf(q)
  PROVE  EventsFirst' /\ EventSettled' /\ OneRowPerEvent'
<1>1. Known' = Known \cup {q} /\ StreamInv
  BY DEF RecordsOf, Known, InFlight, Batches, RowInv
<1>2. \A s \in Known : s.event \in Recorded /\ Before(s, q)
  BY <1>1, NewestNumber DEF StreamInv, QueueInv, ContentKnown
<1>3. q.kind = "usage_event" => q.event \notin Recorded
  BY DEF RecordsOf
<1>4. EventsFirst'
  <2> SUFFICES ASSUME NEW s \in Known', NEW t \in Known', s.event = t.event, s.kind = "usage_event"
               PROVE  s = t \/ Before(s, t)
    BY DEF EventsFirst, Before
  <2> QED BY <1>1, <1>2, <1>3 DEF RowInv, EventsFirst
<1>5. EventSettled'
  <2> SUFFICES ASSUME NEW e \in Events, central[e] # <<>>, NEW s \in Known',
                      s.event = e, s.kind = "usage_event"
               PROVE  Settled(s)'
    BY DEF EventSettled, RecordsOf
  <2>1. e \in Recorded
    BY <1>1 DEF StreamInv, RowKnown
  <2>2. s \in Known
    BY <1>1, <1>3, <2>1
  <2> QED BY <2>2 DEF RowInv, EventSettled, Settled, Key, RecordsOf
<1>6. OneRowPerEvent'
  BY DEF RowInv, OneRowPerEvent, Trimmed, RecordsOf
<1> QED BY <1>4, <1>5, <1>6

LEMMA RowIngest ==
  ASSUME RowInv, NEW batch \in Batches, IngestBatch(batch), Batches' \subseteq Batches,
         UNCHANGED <<outbox, trimmed>>
  PROVE  EventsFirst' /\ EventSettled' /\ OneRowPerEvent'
<1> DEFINE fresh == {s \in batch : Key(s) \notin ledger}
<1>1. /\ ledger' = ledger \cup {Key(s) : s \in fresh}
      /\ central' = [e \in Events |-> IngestedRows(fresh, e)]
  BY DEF IngestBatch
<1>2. /\ fresh \in SUBSET Shipment /\ fresh \subseteq batch /\ batch \subseteq Known /\ TypeOK
      /\ \A s \in batch : s \in fresh \/ Key(s) \in ledger
      /\ \A s \in fresh : Key(s) \notin ledger
  BY DEF RowInv, StreamInv, TypeInv, TypeOK, Batches, Known, InFlight
<1> HIDE DEF fresh
<1>3. Known' \subseteq Known /\ \A s : Settled(s) => Settled(s)'
  BY <1>1 DEF Known, InFlight, Settled, Key
<1>4. \A s \in batch : Settled(s)'
  BY <1>1, <1>2 DEF Settled, Key
<1>5. EventsFirst'
  BY <1>3 DEF RowInv, EventsFirst, Before
<1>6. EventSettled'
  <2> SUFFICES ASSUME NEW e \in Events, central'[e] # <<>>, NEW s \in Known,
                      s.event = e, s.kind = "usage_event"
               PROVE  Settled(s)'
    BY <1>3 DEF EventSettled
  <2>1. CASE central[e] # <<>>
    BY <1>3, <2>1 DEF RowInv, EventSettled
  <2>2. CASE central[e] = <<>>
    <3>1. About(fresh, e) # {}
      BY <1>1, <1>2, <2>2, RowShape
    <3>2. PICK t \in batch : t.event = e
      BY <1>2, <3>1 DEF About
    <3>3. s = t \/ Before(s, t)
      BY <1>2, <3>2 DEF RowInv, EventsFirst
    <3>4. s \in batch \/ Settled(s)
      BY <3>2, <3>3 DEF RowInv, StreamInv, QueueInv, OldestFirst
    <3> QED BY <1>3, <1>4, <3>4
  <2> QED BY <2>1, <2>2
<1>7. OneRowPerEvent'
  <2> SUFFICES ASSUME NEW e \in Events, ~Trimmed(e) PROVE Len(central'[e]) <= 1
    BY DEF OneRowPerEvent, Trimmed
  <2>1. Len(central[e]) <= 1 /\ central[e] \in Seq(Seq(Says))
    BY <1>2 DEF RowInv, OneRowPerEvent, TypeOK
  <2>2. PICK rows : rows = IngestedRows(fresh, e)
    OBVIOUS
  <2>3. central'[e] = rows
    BY <1>1, <2>2
  <2>4. /\ Inserts(fresh, e) = {} => Len(rows) = Len(central[e])
        /\ central[e] = <<>> => Len(rows) <= 1
    BY <1>2, <2>1, <2>2, RowShape
  <2>5. CASE central[e] = <<>>
    BY <2>3, <2>4, <2>5
  <2>6. CASE central[e] # <<>>
    <3>1. Inserts(fresh, e) = {}
      <4> SUFFICES ASSUME NEW s \in Inserts(fresh, e) PROVE FALSE
        OBVIOUS
      <4>1. s \in fresh /\ s.event = e /\ s.kind # "usage_event_correction"
        BY <2>6 DEF Inserts
      <4>2. s.kind = "usage_event" /\ s \in Known
        BY <1>2, <4>1 DEF Shipment, Kinds
      <4>3. Settled(s)
        BY <2>6, <4>1, <4>2 DEF RowInv, EventSettled
      <4> QED BY <1>2, <4>1, <4>3 DEF Settled, Trimmed
    <3> QED BY <2>1, <2>3, <2>4, <3>1
  <2> QED BY <2>5, <2>6
<1> QED BY <1>5, <1>6, <1>7

LEMMA RowStep ==
  ASSUME LivesInOrder, RowInv, [Next]_vars
  PROVE  RowInv'
<1> DEFINE Rest == EventsFirst' /\ EventSettled' /\ OneRowPerEvent'
<1>1. StreamInv'
  BY StreamStep DEF RowInv
<1>2. SUFFICES Rest
  BY <1>1 DEF RowInv
<1>3. CASE Record
  BY <1>3, RecordFacts, RowRecord DEF RowInv, StreamInv
<1>4. ASSUME NEW d \in Drainers, Step(d) \/ ShipFailed(d)
      PROVE  Rest
  <2>1. CASE Ingest(d)
    <3>1. /\ IngestBatch(sent[d]) /\ sent[d] \in Batches /\ Batches' \subseteq Batches
          /\ UNCHANGED <<outbox, trimmed>>
      BY <2>1 DEF Ingest, nodeVars, Batches
    <3> QED BY <3>1, RowIngest
  <2>2. CASE StartDrain(d) \/ ShipOnce(d) \/ StopDrain(d) \/ AckOutbox(d) \/ ShipFailed(d) \/ TrimUsageOutbox(d)
    BY <2>2, ShipperStep, RowQuiet DEF RowInv
  <2> QED BY <1>4, <2>1, <2>2 DEF Step
<1>5. ASSUME NEW b \in delayed, IngestDelayed(b)
      PROVE  Rest
  <2>1. /\ IngestBatch(b) /\ b \in Batches /\ Batches' \subseteq Batches
        /\ UNCHANGED <<outbox, trimmed>>
    BY <1>5 DEF IngestDelayed, nodeVars, Batches
  <2> QED BY <2>1, RowIngest
<1>6. ASSUME NEW i \in Lives, Restart(i)
      PROVE  Rest
  BY <1>6, RestartStep, RowQuiet DEF RowInv
<1>7. CASE UNCHANGED vars
  <2>1. Unfed
    BY <1>7 DEF vars, Unfed, Batches
  <2> QED BY <2>1, RowQuiet
<1> QED BY <1>3, <1>4, <1>5, <1>6, <1>7 DEF Next, Faults

LEMMA RowInit ==
  ASSUME Init
  PROVE  RowInv
<1>1. Known = {}
  BY DEF Init, Known, InFlight, Batches
<1>2. EventsFirst /\ EventSettled /\ OneRowPerEvent
  BY <1>1 DEF Init, EventsFirst, EventSettled, OneRowPerEvent
<1> QED BY <1>2, StreamInit DEF RowInv

(* Central has one row of an event, however often its shipments are sent,  *)
(* given up or stored late and in whatever batches, unless a shipment      *)
(* about it was trimmed.                                                   *)
THEOREM EventsCountedOnce ==
  ASSUME LivesInOrder
  PROVE  Safety => []OneRowPerEvent
<1>1. Init => RowInv
  BY RowInit
<1>2. RowInv /\ [Next]_vars => RowInv'
  BY RowStep
<1>3. RowInv => OneRowPerEvent
  BY DEF RowInv
<1> QED BY <1>1, <1>2, <1>3, PTL DEF Safety
=============================================================================
