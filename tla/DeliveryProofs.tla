---------------------------- MODULE DeliveryProofs ----------------------------
(***************************************************************************)
(* What central's copy of the audit trail is worth, for every number of    *)
(* events, lifetimes, shipments and drainers: it is a delivery as          *)
(* AuditDelivery promises it, while nothing is dropped; its roster counts  *)
(* right; and what the comparison of the two copies calls a gap, or a      *)
(* match, is one, whatever happened while it read.                         *)
(***************************************************************************)
EXTENDS Reconciliation, UsageStreamProofs

(* Of a step of the pipeline only three things matter to central's copy:   *)
(* that the node recorded, that central stored a batch, or neither.        *)
Stores(batch) ==
  /\ IngestBatch(batch) /\ Batches' \subseteq Batches
  /\ UNCHANGED <<life, lived, chain, numbered, outbox, trimmed>>

LEMMA StepKinds ==
  ASSUME LivesInOrder, StreamInv, [Next]_vars
  PROVE  \/ \E q : RecordsOf(q)
         \/ \E batch \in Batches : Stores(batch)
         \/ Unfed /\ UNCHANGED roster
<1>1. CASE Record
  BY <1>1, RecordFacts DEF StreamInv
<1>2. ASSUME NEW d \in Drainers, Ingest(d)
      PROVE  \E batch \in Batches : Stores(batch)
  <2>1. sent[d] \in Batches /\ Stores(sent[d])
    BY <1>2 DEF Ingest, nodeVars, Batches, Stores
  <2> QED BY <2>1
<1>3. ASSUME NEW d \in Drainers,
             StartDrain(d) \/ ShipOnce(d) \/ StopDrain(d) \/ AckOutbox(d) \/ ShipFailed(d) \/ TrimUsageOutbox(d)
      PROVE  Unfed /\ UNCHANGED roster
  <2>1. UNCHANGED roster
    BY <1>3 DEF StartDrain, ShipOnce, StopDrain, AckOutbox, ShipFailed, TrimUsageOutbox, centralVars
  <2> QED BY <1>3, <2>1, ShipperStep
<1>4. ASSUME NEW b \in delayed, IngestDelayed(b)
      PROVE  \E batch \in Batches : Stores(batch)
  <2>1. b \in Batches /\ Stores(b)
    BY <1>4 DEF IngestDelayed, nodeVars, Batches, Stores
  <2> QED BY <2>1
<1>5. ASSUME NEW i \in Lives, Restart(i)
      PROVE  Unfed /\ UNCHANGED roster
  <2>1. UNCHANGED roster
    BY <1>5 DEF Restart, centralVars
  <2> QED BY <1>5, <2>1, RestartStep
<1>6. CASE UNCHANGED vars
  BY <1>6 DEF vars, Unfed, Batches
<1>7. Record \/ (\E d \in Drainers : ShipFailed(d) \/ Step(d)) \/ (\E i \in Lives : Restart(i))
      \/ (\E b \in delayed : IngestDelayed(b)) \/ UNCHANGED vars
  BY DEF Next, Faults
<1> QED BY <1>1, <1>2, <1>3, <1>4, <1>5, <1>6, <1>7 DEF Step

-----------------------------------------------------------------------------
(* Central's copy is a delivery *)

LEMMA NewShipments ==
  ASSUME StreamInv, NEW batch \in Batches, Stores(batch), NEW fresh,
         fresh = {s \in batch : Key(s) \notin ledger}
  PROVE  /\ fresh \in SUBSET Shipment /\ fresh \subseteq Known /\ fresh \subseteq batch
         /\ IsFiniteSet(fresh) /\ TypeOK
         /\ \A s \in fresh : Key(s) \notin ledger /\ Key(s) \in ledger'
         /\ central' = [e \in Events |-> IngestedRows(fresh, e)]
         /\ roster' = TrackNode(fresh)
<1>1. batch \subseteq Known /\ Known \subseteq Shipment /\ IsFiniteSet(batch) /\ TypeOK
  BY DEF Known, InFlight, StreamInv, TypeInv, TypeOK, Finite, Batches
<1>2. IsFiniteSet(fresh)
  BY <1>1, FS_Subset
<1>3. /\ ledger' = ledger \cup {Key(s) : s \in fresh}
      /\ central' = [e \in Events |-> IngestedRows(fresh, e)]
      /\ roster' = TrackNode(fresh)
  BY DEF Stores, IngestBatch
<1> QED BY <1>1, <1>2, <1>3

LEMMA TimesGrow ==
  ASSUME StreamInv, StreamInv', trimmed = {}, NEW batch \in Batches, Stores(batch), NEW e \in Events
  PROVE  TimesHeld(e)' \in 0 .. 2 /\ TimesHeld(e) <= TimesHeld(e)' /\ TimesHeld(e)' <= Times(e)'
<1> DEFINE fresh == {s \in batch : Key(s) \notin ledger}
<1>1. /\ fresh \in SUBSET Shipment /\ fresh \subseteq Known /\ fresh \subseteq batch
      /\ IsFiniteSet(fresh) /\ TypeOK
      /\ \A s \in fresh : Key(s) \notin ledger /\ Key(s) \in ledger'
      /\ central' = [f \in Events |-> IngestedRows(fresh, f)]
  BY NewShipments
<1> HIDE DEF fresh
<1>2. central[e] # <<>> => e \in Recorded /\ central[e][1][e[2]] \in Says
  BY DEF StreamInv, RowKnown
<1>3. central'[e] # <<>> =>
        /\ e \in Recorded' /\ central'[e][1][e[2]] \in Says
        /\ central'[e][1][e[2]] = "final" => Stands(e)' = "final"
  BY DEF StreamInv, RowKnown
<1>4. TimesHeld(e)' \in 0 .. 2 /\ TimesHeld(e)' <= Times(e)'
  BY <1>3 DEF TimesHeld, Times, Says
<1>5. CASE About(fresh, e) = {}
  <2>1. central'[e] = central[e]
    BY <1>1, <1>5, RowShape
  <2> QED BY <1>4, <2>1 DEF TimesHeld
<1>6. CASE About(fresh, e) # {}
  <2>1. \A s \in About(fresh, e) : s \in Known /\ s.event = e /\ Key(s) \notin ledger
    BY <1>1 DEF About
  <2>2. /\ \A a \in About(fresh, e) : Content(a) \in Says
        /\ \A a \in About(fresh, e) : Content(a) = "final" => a.kind = "usage_event_correction"
        /\ \A a, b \in About(fresh, e) : Content(a) = "first" /\ Content(b) = "final" => Before(a, b)
    BY <2>1 DEF StreamInv, QueueInv, ContentKnown
  <2>3. PICK rows : rows = IngestedRows(fresh, e)
    OBVIOUS
  <2>4. central'[e] = rows
    BY <1>1, <2>3
  <2>5. /\ rows # <<>>
        /\ \/ central[e] # <<>> /\ rows[1] = central[e][1]
           \/ \E s \in About(fresh, e) : rows[1][e[2]] = Content(s)
    BY <1>1, <1>6, <2>2, <2>3, RowSays
  <2>6. central[e] # <<>> /\ central[e][1][e[2]] = "final" =>
          \A s \in About(fresh, e) : Content(s) # "first"
    BY <2>1 DEF StreamInv, FinalRow, Settled
  <2>7. central[e] # <<>> /\ central[e][1][e[2]] = "final" => central'[e][1][e[2]] = "final"
    BY <2>2, <2>4, <2>5, <2>6 DEF Says
  <2>8. central'[e] # <<>>
    BY <2>4, <2>5
  <2> QED BY <1>2, <1>3, <1>4, <2>7, <2>8 DEF TimesHeld, Says
<1> QED BY <1>5, <1>6

LEMMA PromiseStep ==
  ASSUME LivesInOrder, StreamInv, StreamInv', trimmed = {}, [Next]_vars
  PROVE  [Promise!ANext]_(Promise!vars)
<1> DEFINE written == [e \in Events |-> Times(e)]
           held == [e \in Events |-> TimesHeld(e)]
<1>1. SUFFICES Promise!ANext \/ (written' = written /\ held' = held)
  BY DEF Promise!vars
<1>2. ASSUME NEW q, RecordsOf(q)
      PROVE  Promise!ANext \/ (written' = written /\ held' = held)
  <2>1. UNCHANGED central
    BY <1>2 DEF RecordsOf
  <2>2. held' = held
    BY <2>1 DEF TimesHeld
  <2>3. Recorded \subseteq Events /\ Recorded' \subseteq Events
    BY DEF Recorded, Events
  <2>4. /\ q.event \in Recorded' /\ Content(q) = Stands(q.event)' /\ Content(q) \in Says
        /\ IF q.event \in Recorded THEN Stands(q.event) = "first" ELSE Content(q) = "first"
        /\ \A e \in Recorded : e \in Recorded'
        /\ \A e \in Recorded' : e # q.event => e \in Recorded /\ Stands(e)' = Stands(e)
    BY <1>2 DEF RecordsOf
  <2>5. \A e \in Events : e # q.event => Times(e)' = Times(e)
    BY <2>4 DEF Times
  <2>6. q.event \in Events
    BY <2>3, <2>4
  <2>7. CASE Times(q.event)' = Times(q.event)
    <3>1. written' = written
      BY <2>5, <2>7
    <3> QED BY <2>2, <3>1
  <2>8. CASE Times(q.event)' # Times(q.event)
    <3>1. Times(q.event) < 2 /\ Times(q.event)' = Times(q.event) + 1
      BY <2>4, <2>8 DEF Times, Says
    <3>2. written' = [written EXCEPT ![q.event] = written[q.event] + 1] /\ written[q.event] < 2
      BY <2>5, <2>6, <3>1
    <3>3. Promise!WriteEvent(q.event)
      BY <2>2, <3>2 DEF Promise!WriteEvent
    <3> QED BY <2>6, <3>3 DEF Promise!ANext
  <2> QED BY <2>7, <2>8
<1>3. ASSUME NEW batch \in Batches, Stores(batch)
      PROVE  Promise!ANext
  <2>1. written' = written
    BY <1>3 DEF Stores, Times, Recorded, Stands
  <2>2. \A e \in Events : TimesHeld(e)' \in 0 .. 2 /\ TimesHeld(e) <= TimesHeld(e)' /\ TimesHeld(e)' <= Times(e)'
    BY <1>3, TimesGrow
  <2>3. /\ held' \in [Events -> 0 .. 2]
        /\ \A e \in Events : held[e] <= held'[e] /\ held'[e] <= written[e]
    BY <2>1, <2>2
  <2>4. Promise!Receive
    <3> HIDE DEF held, written
    <3>1. \E h \in [Events -> 0 .. 2] :
            (\A e \in Events : held[e] <= h[e] /\ h[e] <= written[e]) /\ held' = h
      BY <2>3
    <3> QED BY <2>1, <3>1 DEF Promise!Receive, held, written
  <2> QED BY <2>4 DEF Promise!ANext
<1>4. ASSUME Unfed PROVE written' = written /\ held' = held
  BY <1>4 DEF Unfed, Times, TimesHeld, Recorded, Stands
<1> QED BY <1>2, <1>3, <1>4, StepKinds

(* While nothing is dropped, what central holds of the node's events is a  *)
(* delivery (AuditDelivery): it was true of the event, it is never taken   *)
(* back for something older, and it comes from the node alone.  Whatever   *)
(* is lost, repeated, given up and stored late, or sent by two at once;    *)
(* as long as a later life's id sorts later.                               *)
THEOREM PipelineDelivers ==
  ASSUME LivesInOrder
  PROVE  Safety /\ [](trimmed = {}) => ImplementsDelivery
<1>1. Init => Promise!AInit
  <2>1. ASSUME Init PROVE Recorded = {}
    BY <2>1, StreamAssumption DEF Init, Recorded, Events
  <2> QED BY <2>1 DEF Init, Promise!AInit, Times, TimesHeld
<1>2. Init => StreamInv
  BY StreamInit
<1>3. StreamInv /\ [Next]_vars => StreamInv'
  BY StreamStep
<1>4. StreamInv /\ StreamInv' /\ trimmed = {} /\ [Next]_vars => [Promise!ANext]_(Promise!vars)
  BY PromiseStep
<1> QED BY <1>1, <1>2, <1>3, <1>4, PTL DEF Safety, ImplementsDelivery, Promise!ASafety
-----------------------------------------------------------------------------
(* The roster counts *)

(* A batch makes one new row at most of an event: there is one shipment of *)
(* the event itself, and it precedes its corrections.                      *)
LEMMA OneInsert ==
  ASSUME RowInv, NEW batch \in Batches, Stores(batch), NEW fresh,
         fresh = {s \in batch : Key(s) \notin ledger}, NEW e \in Events,
         NEW s \in Inserts(fresh, e), NEW t \in Inserts(fresh, e)
  PROVE  s = t
<1>1. fresh \in SUBSET Shipment /\ fresh \subseteq Known
  BY NewShipments DEF RowInv
<1>2. /\ s \in fresh /\ t \in fresh /\ s.event = e /\ t.event = e
      /\ s.kind = "usage_event_correction" => ~Before(t, s)
      /\ t.kind = "usage_event_correction" => ~Before(s, t)
  BY DEF Inserts
<1>3. /\ s \in Shipment /\ t \in Shipment /\ s \in Known /\ t \in Known
      /\ s.life \in Nat /\ s.seq \in Nat /\ t.life \in Nat /\ t.seq \in Nat
  BY <1>1, <1>2, ShipmentNumbers
<1>4. Before(s, t) \/ Before(t, s) \/ s = t
  <2>1. s.life = t.life /\ s.seq = t.seq => s = t
    BY <1>3 DEF RowInv, StreamInv, QueueInv, OneNumberEach
  <2> QED BY <1>3, <2>1 DEF Before
<1>5. ~(Before(s, t) /\ Before(t, s))
  BY <1>3 DEF Before
<1>6. /\ s.kind = "usage_event" => s = t \/ Before(s, t)
      /\ t.kind = "usage_event" => s = t \/ Before(t, s)
  BY <1>2, <1>3 DEF RowInv, EventsFirst
<1>7. s.kind \in {"usage_event", "usage_event_correction"} /\ t.kind \in {"usage_event", "usage_event_correction"}
  BY <1>3 DEF Shipment, Kinds
<1> QED BY <1>2, <1>4, <1>5, <1>6, <1>7

(* So the rows of central's copy grow by one for each event inserted, and  *)
(* the lives by those that the batch is about.                             *)
Inserted(fresh) == {s \in fresh : s \in Inserts(fresh, s.event)}
Row(s) == <<s.event, Len(central[s.event]) + 1>>
NewRows(fresh) == {Row(s) : s \in Inserted(fresh)}
Touched(fresh) == {s.event[1] : s \in fresh}

LEMMA RowCount ==
  ASSUME TypeOK, NEW fresh \in SUBSET Shipment, NEW e \in Events
  PROVE  /\ Inserts(fresh, e) = {} => Len(IngestedRows(fresh, e)) = Len(central[e])
         /\ Inserts(fresh, e) # {} => Len(IngestedRows(fresh, e)) = Len(central[e]) + 1
<1>1. PICK rows : rows = IngestedRows(fresh, e)
  OBVIOUS
<1>2. ASSUME Inserts(fresh, e) = {} PROVE Len(rows) = Len(central[e])
  BY <1>1, <1>2, RowShape
<1>3. ASSUME Inserts(fresh, e) # {} PROVE Len(rows) = Len(central[e]) + 1
  BY <1>1, <1>3, RowShape, ZenonT(60)
<1> QED BY <1>1, <1>2, <1>3

LEMMA RowsGrow ==
  ASSUME RowInv, NEW batch \in Batches, Stores(batch), NEW fresh,
         fresh = {s \in batch : Key(s) \notin ledger}
  PROVE  /\ RowsHeld' = RowsHeld \cup NewRows(fresh)
         /\ RowsHeld \cap NewRows(fresh) = {}
<1>1. /\ fresh \in SUBSET Shipment /\ TypeOK
      /\ central' = [e \in Events |-> IngestedRows(fresh, e)]
  BY NewShipments DEF RowInv
<1>2. ASSUME NEW e \in Events
      PROVE  /\ Len(central[e]) \in Nat
             /\ Inserts(fresh, e) = {} => Len(central'[e]) = Len(central[e])
             /\ Inserts(fresh, e) # {} => Len(central'[e]) = Len(central[e]) + 1
  <2>1. central[e] \in Seq(Seq(Says))
    BY <1>1 DEF TypeOK
  <2>2. /\ Inserts(fresh, e) = {} => Len(IngestedRows(fresh, e)) = Len(central[e])
        /\ Inserts(fresh, e) # {} => Len(IngestedRows(fresh, e)) = Len(central[e]) + 1
    BY <1>1, RowCount
  <2>3. central'[e] = IngestedRows(fresh, e) /\ Len(central[e]) \in Nat
    BY <1>1, <2>1
  <2> QED BY <2>2, <2>3
<1>3. \A r : r \in RowsHeld <=> \E e \in Events : \E n \in 1 .. Len(central[e]) : r = <<e, n>>
  BY DEF RowsHeld
<1>4. \A r : r \in RowsHeld' <=> \E e \in Events : \E n \in 1 .. Len(central'[e]) : r = <<e, n>>
  BY DEF RowsHeld
<1>5. \A r : r \in NewRows(fresh) <=>
         \E e \in Events : Inserts(fresh, e) # {} /\ r = <<e, Len(central[e]) + 1>>
  <2>1. \A s \in fresh : s.event \in Events
    BY <1>1 DEF Shipment
  <2>2. \A e : \A s \in Inserts(fresh, e) : s \in fresh /\ s.event = e
    BY DEF Inserts
  <2> QED BY <2>1, <2>2 DEF NewRows, Inserted, Row
<1>6. ASSUME NEW e \in Events, NEW n
      PROVE  n \in 1 .. Len(central'[e]) <=>
               n \in 1 .. Len(central[e]) \/ (Inserts(fresh, e) # {} /\ n = Len(central[e]) + 1)
  <2>1. Len(central[e]) \in Nat
    BY <1>2
  <2>2. CASE Inserts(fresh, e) = {}
    BY <1>2, <2>2
  <2>3. CASE Inserts(fresh, e) # {}
    <3>1. Len(central'[e]) = Len(central[e]) + 1
      BY <1>2, <2>3
    <3>2. 1 .. Len(central[e]) + 1 = (1 .. Len(central[e])) \cup {Len(central[e]) + 1}
      BY <2>1
    <3> QED BY <2>3, <3>1, <3>2
  <2> QED BY <2>2, <2>3
<1>7. \A r : r \in RowsHeld' <=> r \in RowsHeld \/ r \in NewRows(fresh)
  BY <1>3, <1>4, <1>5, <1>6
<1>8. \A r : ~(r \in RowsHeld /\ r \in NewRows(fresh))
  <2> SUFFICES ASSUME NEW e \in Events, Len(central[e]) + 1 \in 1 .. Len(central[e]) PROVE FALSE
    BY <1>3, <1>5
  <2> QED BY <1>2
<1> QED BY <1>7, <1>8

LEMMA NewRowsCounted ==
  ASSUME RowInv, NEW batch \in Batches, Stores(batch), NEW fresh,
         fresh = {s \in batch : Key(s) \notin ledger}
  PROVE  IsFiniteSet(NewRows(fresh)) /\ Cardinality(NewRows(fresh)) = Cardinality(Inserted(fresh))
<1> DEFINE f == [s \in Inserted(fresh) |-> Row(s)]
<1>1. IsFiniteSet(fresh) /\ fresh \in SUBSET Shipment
  BY NewShipments DEF RowInv
<1>2. IsFiniteSet(Inserted(fresh))
  BY <1>1, FS_Subset DEF Inserted
<1>3. f \in Surjection(Inserted(fresh), NewRows(fresh))
  BY DEF Surjection, NewRows
<1>4. \A s, t \in Inserted(fresh) : f[s] = f[t] => s = t
  <2> SUFFICES ASSUME NEW s \in Inserted(fresh), NEW t \in Inserted(fresh), Row(s) = Row(t) PROVE s = t
    OBVIOUS
  <2>1. s.event = t.event
    BY DEF Row
  <2>2. s.event \in Events /\ s \in Inserts(fresh, s.event) /\ t \in Inserts(fresh, s.event)
    BY <1>1, <2>1 DEF Inserted, Shipment
  <2> QED BY <2>2, OneInsert
<1>5. f \in Injection(Inserted(fresh), NewRows(fresh))
  BY <1>3, <1>4 DEF Injection, IsInjective, Surjection
<1> HIDE DEF f
<1> QED BY <1>2, <1>3, <1>5, FS_Surjection

LEMMA LivesGrow ==
  ASSUME RowInv, NEW batch \in Batches, Stores(batch), NEW fresh,
         fresh = {s \in batch : Key(s) \notin ledger}
  PROVE  LivesHeld' = LivesHeld \cup Touched(fresh)
<1>1. /\ fresh \in SUBSET Shipment /\ TypeOK
      /\ central' = [e \in Events |-> IngestedRows(fresh, e)]
  BY NewShipments DEF RowInv
<1>2. ASSUME NEW e \in Events
      PROVE  central'[e] # <<>> <=> central[e] # <<>> \/ About(fresh, e) # {}
  <2>1. PICK rows : rows = IngestedRows(fresh, e)
    OBVIOUS
  <2>2. /\ About(fresh, e) = {} => rows = central[e]
        /\ About(fresh, e) # {} /\ central[e] # <<>> => rows # <<>>
        /\ About(fresh, e) # {} /\ central[e] = <<>> => rows # <<>>
    BY <1>1, <2>1, RowShape
  <2> QED BY <1>1, <2>1, <2>2
<1>3. \A i : i \in Touched(fresh) <=> \E e \in Events : About(fresh, e) # {} /\ i = e[1]
  BY <1>1 DEF Touched, About, Shipment
<1>4. /\ \A i : i \in LivesHeld <=> \E e \in Events : central[e] # <<>> /\ i = e[1]
      /\ \A i : i \in LivesHeld' <=> \E e \in Events : central'[e] # <<>> /\ i = e[1]
  BY DEF LivesHeld
<1>5. \A i : i \in LivesHeld' <=> i \in LivesHeld \/ i \in Touched(fresh)
  BY <1>2, <1>3, <1>4
<1> QED BY <1>5

(* The life seen last is one that central has an event of.                 *)
LastLifeHeld == roster.life # 0 => roster.life \in LivesHeld
RosterInv == RowInv /\ IsFiniteSet(RowsHeld) /\ RosterCounts /\ LastLifeHeld

LEMMA RosterIngest ==
  ASSUME RosterInv, NEW batch \in Batches, Stores(batch)
  PROVE  IsFiniteSet(RowsHeld') /\ RosterCounts' /\ LastLifeHeld'
<1>f. PICK fresh : fresh = {s \in batch : Key(s) \notin ledger}
  OBVIOUS
<1>r. RowInv
  BY DEF RosterInv
<1>1. /\ fresh \in SUBSET Shipment /\ IsFiniteSet(fresh) /\ TypeOK
      /\ roster' = TrackNode(fresh)
  BY <1>f, <1>r, NewShipments DEF RowInv
<1>2. /\ RowsHeld' = RowsHeld \cup NewRows(fresh) /\ RowsHeld \cap NewRows(fresh) = {}
      /\ IsFiniteSet(NewRows(fresh)) /\ Cardinality(NewRows(fresh)) = Cardinality(Inserted(fresh))
  BY <1>f, <1>r, RowsGrow, NewRowsCounted
<1>3. LivesHeld' = LivesHeld \cup Touched(fresh)
  BY <1>f, <1>r, LivesGrow
<1>4. IsFiniteSet(RowsHeld') /\ Cardinality(RowsHeld') = Cardinality(RowsHeld) + Cardinality(Inserted(fresh))
  <2>1. Cardinality(RowsHeld) \in Nat /\ Cardinality(NewRows(fresh)) \in Nat /\ IsFiniteSet(RowsHeld)
    BY <1>2, FS_CardinalityType DEF RosterInv
  <2>2. /\ IsFiniteSet(RowsHeld \cup NewRows(fresh))
        /\ Cardinality(RowsHeld \cup NewRows(fresh)) =
             Cardinality(RowsHeld) + Cardinality(NewRows(fresh)) - Cardinality(RowsHeld \cap NewRows(fresh))
    BY <1>2, <2>1, FS_Union
  <2>3. Cardinality(RowsHeld \cap NewRows(fresh)) = 0
    BY <1>2, FS_EmptySet
  <2> QED BY <1>2, <2>1, <2>2, <2>3
<1>5. /\ roster.events \in Nat /\ roster.lives \in Nat /\ roster.life \in Lives \cup {0}
      /\ roster.events = Cardinality(RowsHeld) /\ Cardinality(LivesHeld) <= roster.lives
  BY <1>1 DEF TypeOK, RosterInv, RosterCounts
<1>6. CASE fresh = {}
  <2>1. roster' = roster /\ Touched(fresh) = {} /\ Inserted(fresh) = {}
    BY <1>1, <1>6 DEF TrackNode, Touched, Inserted
  <2>2. Cardinality(RowsHeld') = Cardinality(RowsHeld) /\ LivesHeld' = LivesHeld
    BY <1>3, <1>4, <1>5, <2>1, FS_EmptySet
  <2> QED BY <1>4, <1>5, <2>1, <2>2 DEF RosterInv, RosterCounts, LastLifeHeld
<1>7. CASE fresh # {}
  <2>1. roster' = [events |-> roster.events + Cardinality(Inserted(fresh)),
                   life   |-> Greatest(Touched(fresh)),
                   lives  |-> roster.lives + Cardinality(Touched(fresh))
                                - IF roster.life = Least(Touched(fresh)) THEN 1 ELSE 0]
    BY <1>1, <1>7 DEF TrackNode, Touched, Inserted
  <2>2. Touched(fresh) \subseteq Lives /\ Touched(fresh) # {} /\ LivesHeld \subseteq Lives
    BY <1>1, <1>7 DEF Touched, Shipment, Events, LivesHeld
  <2>3. IsFiniteSet(Touched(fresh)) /\ IsFiniteSet(LivesHeld) /\ Lives \subseteq Nat \ {0}
    BY <2>2, StreamAssumption, FS_Subset
  <2>4. Greatest(Touched(fresh)) \in Touched(fresh) /\ Least(Touched(fresh)) \in Touched(fresh)
    <3>1. \E x \in Touched(fresh) : \A y \in Touched(fresh) : y <= x
      BY <2>2, <2>3, GreatestOfFinite
    <3>2. \E x \in Touched(fresh) : \A y \in Touched(fresh) : x <= y
      BY <2>2, <2>3, LeastOfNats
    <3> QED BY <3>1, <3>2 DEF Greatest, Least
  <2>5. LastLifeHeld'
    <3>1. roster'.life = Greatest(Touched(fresh))
      BY <2>1
    <3> QED BY <1>3, <2>4, <3>1 DEF LastLifeHeld
  <2>6. roster'.events = Cardinality(RowsHeld')
    <3>1. roster'.events = roster.events + Cardinality(Inserted(fresh))
      BY <2>1
    <3> QED BY <1>4, <1>5, <3>1
  <2>7. Cardinality(LivesHeld') <= roster'.lives
    <3> DEFINE both == LivesHeld \cap Touched(fresh)
    <3>1. Cardinality(LivesHeld') = Cardinality(LivesHeld) + Cardinality(Touched(fresh)) - Cardinality(both)
      BY <1>3, <2>3, FS_Union
    <3>2. /\ Cardinality(LivesHeld) \in Nat /\ Cardinality(Touched(fresh)) \in Nat
          /\ IsFiniteSet(both) /\ Cardinality(both) \in Nat
      BY <2>3, FS_Intersection, FS_CardinalityType
    <3>3. roster.life = Least(Touched(fresh)) => Cardinality(both) >= 1
      <4> SUFFICES ASSUME roster.life = Least(Touched(fresh)) PROVE Cardinality(both) # 0
        BY <3>2
      <4>1. roster.life \in both
        BY <2>2, <2>3, <2>4 DEF RosterInv, LastLifeHeld
      <4> QED BY <3>2, <4>1, FS_EmptySet
    <3>4. roster'.lives = roster.lives + Cardinality(Touched(fresh))
                            - IF roster.life = Least(Touched(fresh)) THEN 1 ELSE 0
      BY <2>1
    <3> HIDE DEF both
    <3> QED BY <1>5, <3>1, <3>2, <3>3, <3>4
  <2> QED BY <1>4, <2>5, <2>6, <2>7 DEF RosterCounts
<1> QED BY <1>6, <1>7

LEMMA RosterStep ==
  ASSUME LivesInOrder, RosterInv, [Next]_vars
  PROVE  RosterInv'
<1>1. RowInv' /\ StreamInv
  BY RowStep DEF RosterInv, RowInv
<1>2. ASSUME UNCHANGED <<central, roster>>
      PROVE  IsFiniteSet(RowsHeld') /\ RosterCounts' /\ LastLifeHeld'
  BY <1>2 DEF RosterInv, RosterCounts, LastLifeHeld, RowsHeld, LivesHeld
<1>3. ASSUME NEW q, RecordsOf(q) PROVE UNCHANGED <<central, roster>>
  BY <1>3 DEF RecordsOf
<1>4. ASSUME Unfed, UNCHANGED roster PROVE UNCHANGED <<central, roster>>
  BY <1>4 DEF Unfed
<1> QED BY <1>1, <1>2, <1>3, <1>4, StepKinds, RosterIngest DEF RosterInv

(* The roster counts each of central's rows of a node once, and no fewer   *)
(* lives than central has events of, whatever was sent twice, corrected or *)
(* dropped, and however many lives a batch is about (trackNode).           *)
THEOREM RosterTrue ==
  ASSUME LivesInOrder
  PROVE  Safety => []RosterCounts
<1>1. Init => RosterInv
  <2>1. Init => RowInv
    BY RowInit
  <2>2. ASSUME Init PROVE RowsHeld = {} /\ LivesHeld = {} /\ roster = [events |-> 0, life |-> 0, lives |-> 0]
    <3>1. \A e \in Events : central[e] = <<>> /\ 1 .. Len(central[e]) = {}
      BY <2>2 DEF Init
    <3> QED BY <2>2, <3>1 DEF Init, RowsHeld, LivesHeld
  <2> QED BY <2>1, <2>2, FS_EmptySet DEF RosterInv, RosterCounts, LastLifeHeld
<1>2. RosterInv /\ [Next]_vars => RosterInv'
  BY RosterStep
<1>3. RosterInv => RosterCounts
  BY DEF RosterInv
<1> QED BY <1>1, <1>2, <1>3, PTL DEF Safety

-----------------------------------------------------------------------------
(* A verdict of a gap *)

(* What the comparison has read of the ledger's holes, and what it said.   *)
StreamRead == stream = [events |-> stream.events, gaps |-> stream.gaps]
HolesTrue == StreamRead /\ (stream.gaps # {} => trimmed # {})
VerdictInv == GapInv /\ HolesTrue /\ GapIsTrim

LEMMA HolesAreTrims ==
  ASSUME GapInv, Gaps # {}
  PROVE  trimmed # {}
<1>1. PICK i \in Lives, n \in 1 .. MaxShipments :
        n \notin Numbers(i) /\ \E o \in Numbers(i) : n < o
  BY DEF Gaps
<1>2. GapMeansTrimmed
  BY GapHolds
<1>3. (\E k \in ledger : k[1] = i /\ k[2] > n) /\ (\A k \in ledger : k[1] = i => k[2] # n)
  BY <1>1 DEF Numbers
<1> QED BY <1>2, <1>3 DEF GapMeansTrimmed

LEMMA VerdictStep ==
  ASSUME LivesInOrder, VerdictInv, [RNext]_<<vars, compareVars>>
  PROVE  VerdictInv'
<1>1. [Next]_vars
  BY DEF RNext, Compare, ReadHead, ReadQueue, ReadCount, ReadEvents, ReadGaps, Reconcile
<1>2. GapInv'
  BY <1>1, GapStep DEF VerdictInv
<1>3. trimmed # {} => trimmed' # {}
  <2>1. StreamInv
    BY DEF VerdictInv, GapInv
  <2> QED BY <1>1, <2>1, StepKinds DEF RecordsOf, Stores, Unfed
<1>4. HolesTrue'
  <2>1. \/ stream' = stream \/ stream' = NoStream
        \/ stream' = [stream EXCEPT !.events = Cardinality(RowsHeld)]
        \/ stream' = [stream EXCEPT !.gaps = Gaps]
    BY DEF RNext, Compare, ReadHead, ReadQueue, ReadCount, ReadEvents, ReadGaps, Reconcile, compareVars
  <2>2. StreamRead
    BY DEF VerdictInv, HolesTrue
  <2>3. StreamRead' /\ (stream'.gaps = stream.gaps \/ stream'.gaps = {} \/ stream'.gaps = Gaps)
    BY <2>1, <2>2 DEF StreamRead, NoStream
  <2> QED BY <1>3, <2>3, HolesAreTrims DEF VerdictInv, HolesTrue
<1>5. GapIsTrim'
  <2>1. verdict' = verdict \/ verdict' = "none" \/ verdict' = Verdict
    BY DEF RNext, Compare, ReadHead, ReadQueue, ReadCount, ReadEvents, ReadGaps, Reconcile, compareVars
  <2>2. Verdict = "gap" => stream.gaps # {}
    BY DEF Verdict
  <2> QED BY <1>3, <2>1, <2>2 DEF VerdictInv, HolesTrue, GapIsTrim
<1> QED BY <1>2, <1>4, <1>5 DEF VerdictInv

(* A verdict of "gap" is true: the node did drop shipments.  However long  *)
(* the comparison takes, whatever the pipeline does between its reads.     *)
THEOREM GapVerdictTrue ==
  ASSUME LivesInOrder
  PROVE  RSafety => []GapIsTrim
<1>1. RInit => VerdictInv
  <2>1. Init => GapInv
    BY GapInit
  <2> QED BY <2>1 DEF RInit, VerdictInv, HolesTrue, StreamRead, GapIsTrim, NoStream
<1>2. VerdictInv /\ [RNext]_<<vars, compareVars>> => VerdictInv'
  BY VerdictStep
<1>3. VerdictInv => GapIsTrim
  BY DEF VerdictInv
<1> QED BY <1>1, <1>2, <1>3, PTL DEF RSafety

-----------------------------------------------------------------------------
(* A verdict of a match *)

(* A chain is within the events there may be, and of a life there was; a   *)
(* hash covers the event it is of and all before it.                       *)
ChainsFit == \A j \in Lives : Len(chain[j]) <= MaxEvents /\ (chain[j] # <<>> => j \in lived)
CoversFit ==
  /\ \A s \in Known : Len(s.covers) = s.event[2]
  /\ \A e \in Events : central[e] # <<>> => Len(central[e][1]) = e[2]

(* What has been read is still so: the reported head is of the oldest      *)
(* chain, which only grows; what was counted after it is no less than it,  *)
(* and what central counted is no more than what it has.                   *)
HeadRead ==
  asking # "nothing" /\ report.head # NoHead =>
    /\ report.head[1] \in lived /\ report.head[2] \in Seq(Says) /\ report.head[2] # <<>>
    /\ Len(report.head[2]) <= Len(chain[report.head[1]])
    /\ \A j \in Lives : chain[j] # <<>> => report.head[1] <= j
CountsRead ==
  /\ report.events \in Nat /\ stream.events \in Nat
  /\ asking \in {"count", "events", "gaps"} /\ report.head # NoHead => Len(report.head[2]) <= report.events
  /\ asking \in {"events", "gaps"} => stream.events <= Cardinality(RowsHeld)
ReportRead ==
  /\ report = [head |-> report.head, pending |-> report.pending, events |-> report.events]
  /\ StreamRead

PipeInv == RosterInv /\ ChainsFit /\ CoversFit
MatchInv == PipeInv /\ ReportRead /\ HeadRead /\ CountsRead

(* What a step of the pipeline does to the chains: only this life's may    *)
(* begin, and none loses an event.                                         *)
ChainLonger(j) ==
  /\ Len(chain[j]) \in Nat /\ Len(chain[j]) <= Len(chain'[j])
  /\ chain'[j] # <<>> => chain[j] # <<>> \/ j = life
  /\ Len(chain'[j]) = Len(chain[j]) \/ Len(chain'[j]) <= MaxEvents

LEMMA ChainsGrow ==
  ASSUME TypeInv, [Next]_vars
  PROVE  (\A j \in Lives : ChainLonger(j)) /\ lived \subseteq lived'
<1>1. chain \in [Lives -> Seq(Says)] /\ life \in Lives /\ MaxEvents \in Nat
  BY StreamAssumption DEF TypeInv, TypeOK
<1>2. CASE InsertUsageEvent
  <2>1. chain' = [chain EXCEPT ![life] = Append(chain[life], "first")] /\ "first" \in Says
    BY <1>2 DEF InsertUsageEvent, Says
  <2>2. Len(chain[life]) + 1 \in 1 .. MaxEvents /\ UNCHANGED lived
    BY <1>2, RoomInChain DEF InsertUsageEvent, TypeInv
  <2>3. Len(chain'[life]) = Len(chain[life]) + 1 /\ Len(chain[life]) \in Nat
    BY <1>1, <2>1
  <2>4. \A j \in Lives : j # life => chain'[j] = chain[j] /\ Len(chain[j]) \in Nat
    BY <1>1, <2>1
  <2> QED BY <1>1, <2>2, <2>3, <2>4 DEF ChainLonger
<1>3. ASSUME NEW e \in Events, NEW says \in Says, PatchUsageEvent(e, says)
      PROVE  (\A j \in Lives : Len(chain[j]) \in Nat /\ Len(chain'[j]) = Len(chain[j])) /\ UNCHANGED lived
  <2>1. e[1] \in Lives /\ e[2] \in 1 .. Len(chain[e[1]]) /\ chain[e[1]] \in Seq(Says)
    BY <1>1, <1>3 DEF PatchUsageEvent, Recorded, Events
  <2>2. Len([chain[e[1]] EXCEPT ![e[2]] = says]) = Len(chain[e[1]])
    BY <2>1, ExceptSeq
  <2>3. chain' = [chain EXCEPT ![e[1]] = [chain[e[1]] EXCEPT ![e[2]] = says]] /\ UNCHANGED lived
    BY <1>3 DEF PatchUsageEvent
  <2> QED BY <1>1, <2>1, <2>2, <2>3
<1>4. CASE ~Record
  <2>1. chain' = chain /\ lived \subseteq lived'
    BY <1>4 DEF Next, Faults, Step, StartDrain, ShipOnce, StopDrain, AckOutbox, TrimUsageOutbox, Ingest,
                ShipFailed, Restart, IngestDelayed, nodeVars, vars
  <2>2. \A j \in Lives : Len(chain[j]) \in Nat
    BY <1>1
  <2> QED BY <2>1, <2>2 DEF ChainLonger
<1>5. ASSUME \A j \in Lives : Len(chain[j]) \in Nat /\ Len(chain'[j]) = Len(chain[j]), UNCHANGED lived, chain' \in [Lives -> Seq(Says)]
      PROVE  \A j \in Lives : chain'[j] # <<>> => chain[j] # <<>>
  BY <1>1, <1>5
<1>6. chain' \in [Lives -> Seq(Says)]
  BY TypeStep DEF TypeInv, TypeOK
<1>7. ASSUME NEW e \in Events, NEW says \in Says, PatchUsageEvent(e, says)
      PROVE  (\A j \in Lives : ChainLonger(j)) /\ lived \subseteq lived'
  <2>1. (\A j \in Lives : Len(chain[j]) \in Nat /\ Len(chain'[j]) = Len(chain[j])) /\ UNCHANGED lived
    BY <1>3, <1>7
  <2>2. \A j \in Lives : chain'[j] # <<>> => chain[j] # <<>>
    BY <1>5, <1>6, <2>1
  <2> QED BY <2>1, <2>2 DEF ChainLonger
<1> QED BY <1>2, <1>4, <1>7 DEF Record

LEMMA CoversStep ==
  ASSUME LivesInOrder, RosterInv, CoversFit, [Next]_vars
  PROVE  CoversFit'
<1>r. RowInv /\ StreamInv
  BY DEF RosterInv, RowInv
<1>1. ASSUME NEW q, RecordsOf(q) PROVE CoversFit'
  <2>1. Known' = Known \cup {q} /\ UNCHANGED central /\ Len(q.covers) = q.event[2]
    BY <1>1 DEF RecordsOf, Known, InFlight, Batches
  <2> QED BY <2>1 DEF CoversFit
<1>2. ASSUME NEW batch \in Batches, Stores(batch) PROVE CoversFit'
  <2>f. PICK fresh : fresh = {s \in batch : Key(s) \notin ledger}
    OBVIOUS
  <2>1. /\ fresh \in SUBSET Shipment /\ fresh \subseteq Known /\ TypeOK
        /\ central' = [e \in Events |-> IngestedRows(fresh, e)]
    BY <1>r, <1>2, <2>f, NewShipments
  <2>2. Known' \subseteq Known
    BY <1>2 DEF Stores, Known, InFlight
  <2>3. ASSUME NEW e \in Events, central'[e] # <<>> PROVE Len(central'[e][1]) = e[2]
    <3>1. PICK rows : rows = IngestedRows(fresh, e)
      OBVIOUS
    <3>2. central'[e] = rows
      BY <2>1, <3>1
    <3>3. \A s \in About(fresh, e) : Len(s.covers) = e[2]
      BY <2>1 DEF About, CoversFit
    <3>4. Updates(fresh, e) \subseteq About(fresh, e) /\ Inserts(fresh, e) \subseteq About(fresh, e)
      BY DEF Updates, Inserts, About
    <3>5. CASE About(fresh, e) = {}
      <4>1. rows = central[e]
        BY <2>1, <3>1, <3>5, RowShape
      <4> QED BY <2>3, <3>2, <4>1 DEF CoversFit
    <3>6. CASE About(fresh, e) # {} /\ central[e] # <<>>
      <4>1. IF Updates(fresh, e) = {} THEN rows[1] = central[e][1]
            ELSE \E u \in Updates(fresh, e) :
                   rows[1] = u.covers /\ \A v \in Updates(fresh, e) : ~Before(u, v)
        <5>1. fresh \in SUBSET Shipment /\ TypeOK
          BY <2>1
        <5> QED BY <3>1, <3>6, <5>1, RowShape
      <4> QED BY <3>2, <3>3, <3>4, <3>6, <4>1 DEF CoversFit
    <3>7. CASE About(fresh, e) # {} /\ central[e] = <<>>
      <4>1. \E f \in Inserts(fresh, e) :
              /\ \A v \in Inserts(fresh, e) : ~Before(v, f)
              /\ LET placed == {s \in Updates(fresh, e) : Before(f, s)}
                 IN  IF placed = {} THEN rows[1] = f.covers
                     ELSE \E u \in placed : rows[1] = u.covers /\ \A v \in placed : ~Before(u, v)
        <5>1. fresh \in SUBSET Shipment /\ TypeOK
          BY <2>1
        <5> QED BY <3>1, <3>7, <5>1, RowShape
      <4>2. \E s \in About(fresh, e) : rows[1] = s.covers
        BY <3>4, <4>1
      <4> QED BY <3>2, <3>3, <4>2
    <3> QED BY <3>5, <3>6, <3>7
  <2> QED BY <2>2, <2>3 DEF CoversFit
<1>3. ASSUME Unfed PROVE CoversFit'
  <2>1. Known' \subseteq Known /\ UNCHANGED central
    BY <1>3, BatchQueued DEF Unfed, Known, InFlight
  <2> QED BY <2>1 DEF CoversFit
<1> QED BY <1>r, <1>1, <1>2, <1>3, StepKinds

LEMMA PipeStep ==
  ASSUME LivesInOrder, PipeInv, [Next]_vars
  PROVE  PipeInv' /\ RowsHeld \subseteq RowsHeld'
<1>1. RosterInv /\ RosterInv' /\ RowInv /\ StreamInv /\ TypeInv
  BY RosterStep DEF PipeInv, RosterInv, RowInv, StreamInv
<1>2. CoversFit'
  BY <1>1, CoversStep DEF PipeInv
<1>3. ChainsFit'
  <2> SUFFICES ASSUME NEW j \in Lives
               PROVE  Len(chain'[j]) <= MaxEvents /\ (chain'[j] # <<>> => j \in lived')
    BY DEF ChainsFit
  <2>1. life \in lived
    BY <1>1 DEF TypeInv, TypeOK
  <2>2. Len(chain[j]) <= MaxEvents /\ (chain[j] # <<>> => j \in lived)
    BY DEF PipeInv, ChainsFit
  <2>a. ChainLonger(j) /\ lived \subseteq lived'
    BY <1>1, ChainsGrow
  <2>3. /\ chain'[j] # <<>> => chain[j] # <<>> \/ j = life
        /\ Len(chain'[j]) = Len(chain[j]) \/ Len(chain'[j]) <= MaxEvents
    BY <2>a DEF ChainLonger
  <2>4. Len(chain'[j]) <= MaxEvents
    BY <2>2, <2>3
  <2> QED BY <2>1, <2>2, <2>a, <2>3, <2>4
<1>4. RowsHeld \subseteq RowsHeld'
  <2>1. ASSUME NEW batch \in Batches, Stores(batch) PROVE RowsHeld \subseteq RowsHeld'
    <3>1. PICK fresh : fresh = {s \in batch : Key(s) \notin ledger}
      OBVIOUS
    <3> QED BY <1>1, <2>1, <3>1, RowsGrow
  <2>2. ASSUME UNCHANGED central PROVE RowsHeld \subseteq RowsHeld'
    BY <2>2 DEF RowsHeld
  <2> QED BY <1>1, <2>1, <2>2, StepKinds DEF RecordsOf, Unfed
<1> QED BY <1>1, <1>2, <1>3, <1>4 DEF PipeInv

LEMMA ChainCounted ==
  ASSUME PipeInv, NEW i \in Lives
  PROVE  Cardinality(Recorded) \in Nat /\ Len(chain[i]) <= Cardinality(Recorded)
<1>1. chain[i] \in Seq(Says) /\ Len(chain[i]) \in Nat /\ Len(chain[i]) <= MaxEvents /\ MaxEvents \in Nat
  BY StreamAssumption DEF PipeInv, RosterInv, RowInv, StreamInv, TypeInv, TypeOK, ChainsFit
<1>2. IsFiniteSet(Recorded) /\ Cardinality(Recorded) \in Nat
  <2>1. IsFiniteSet(Lives \X (1 .. MaxEvents))
    <3>1. IsFiniteSet(1 .. MaxEvents)
      BY <1>1, FS_Interval
    <3> QED BY <3>1, StreamAssumption, FS_Product
  <2>2. Recorded \in SUBSET (Lives \X (1 .. MaxEvents))
    BY DEF Recorded, Events
  <2>3. IsFiniteSet(Recorded)
    BY <2>1, <2>2, FS_Subset
  <2> QED BY <2>3, FS_CardinalityType
<1> DEFINE taken == {i} \X (1 .. Len(chain[i]))
<1>3. taken \in SUBSET Recorded
  BY <1>1 DEF Recorded, Events
<1>4. Cardinality(taken) = Len(chain[i])
  <2>1. IsFiniteSet({i}) /\ Cardinality({i}) = 1
    BY FS_Singleton
  <2>2. IsFiniteSet(1 .. Len(chain[i])) /\ Cardinality(1 .. Len(chain[i])) = Len(chain[i])
    <3>1. PICK n \in Nat : n = Len(chain[i])
      BY <1>1
    <3>2. IsFiniteSet(1 .. n) /\ Cardinality(1 .. n) = n
      BY FS_Interval
    <3> QED BY <3>1, <3>2
  <2>3. Cardinality(taken) = Cardinality({i}) * Cardinality(1 .. Len(chain[i]))
    BY <2>1, <2>2, FS_Product
  <2> QED BY <1>1, <2>1, <2>2, <2>3
<1> HIDE DEF taken
<1> QED BY <1>2, <1>3, <1>4, FS_Subset

LEMMA HeadStep ==
  ASSUME LivesInOrder, MatchInv, [RNext]_<<vars, compareVars>>
  PROVE  ReportRead' /\ HeadRead'
<1>1. PipeInv /\ RosterInv /\ RowInv /\ StreamInv /\ TypeInv
  BY DEF MatchInv, PipeInv, RosterInv, RowInv, StreamInv
<1>2. chain \in [Lives -> Seq(Says)] /\ Lives \subseteq Nat /\ lived \subseteq Lives
  BY <1>1, StreamAssumption DEF TypeInv, TypeOK
<1>3. CASE ReadHead
  <2>1. /\ report' = [head |-> ChainHead, pending |-> 0, events |-> 0]
        /\ stream' = [events |-> 0, gaps |-> {}] /\ UNCHANGED <<chain, lived>>
    BY <1>3 DEF ReadHead, NoReport, NoStream, vars
  <2>2. report'.head = ChainHead /\ ReportRead'
    BY <2>1 DEF ReportRead, StreamRead
  <2>3. CASE Started = {}
    BY <2>2, <2>3 DEF ChainHead, HeadRead
  <2>4. CASE Started # {}
    <3>1. Started \subseteq Nat /\ Started \subseteq Lives
      BY <1>2 DEF Started
    <3>2. \E x \in Started : \A y \in Started : x <= y
      BY <2>4, <3>1, LeastOfNats
    <3>3. PICK i \in Started : i = Least(Started) /\ \A j \in Started : i <= j
      BY <3>2 DEF Least
    <3>4. report'.head = <<i, chain[i]>>
      BY <2>2, <2>4, <3>3 DEF ChainHead
    <3>5. report'.head[1] = i /\ report'.head[2] = chain[i]
      BY <3>4
    <3>6. i \in lived /\ chain[i] \in Seq(Says) /\ chain[i] # <<>> /\ Len(chain[i]) <= Len(chain[i])
      BY <1>1, <1>2, <3>1 DEF Started, PipeInv, ChainsFit
    <3>7. \A j \in Lives : chain[j] # <<>> => i <= j
      BY <3>3 DEF Started
    <3> QED BY <2>1, <2>2, <3>5, <3>6, <3>7 DEF HeadRead
  <2> QED BY <2>2, <2>3, <2>4
<1>4. CASE ReadQueue \/ ReadCount \/ ReadEvents \/ ReadGaps \/ Reconcile
  <2>1. ReportRead
    BY DEF MatchInv
  <2>2. /\ \/ report' = report \/ report' = [report EXCEPT !.pending = Cardinality(outbox)]
           \/ report' = [report EXCEPT !.events = Cardinality(Recorded)]
        /\ \/ stream' = stream \/ stream' = [stream EXCEPT !.events = Cardinality(RowsHeld)]
           \/ stream' = [stream EXCEPT !.gaps = Gaps]
    BY <1>4 DEF ReadQueue, ReadCount, ReadEvents, ReadGaps, Reconcile
  <2>3. ReportRead' /\ report'.head = report.head
    BY <2>1, <2>2 DEF ReportRead, StreamRead
  <2>4. (asking' # "nothing" => asking # "nothing") /\ UNCHANGED <<chain, lived>>
    BY <1>4 DEF ReadQueue, ReadCount, ReadEvents, ReadGaps, Reconcile, vars
  <2> QED BY <2>3, <2>4 DEF MatchInv, HeadRead
<1>5. CASE [Next]_vars /\ UNCHANGED compareVars
  <2>1. UNCHANGED <<asking, report, stream>>
    BY <1>5 DEF compareVars
  <2>2. ASSUME asking # "nothing", report.head # NoHead
        PROVE  /\ report.head[1] \in lived'
               /\ Len(report.head[2]) <= Len(chain'[report.head[1]])
               /\ \A j \in Lives : chain'[j] # <<>> => report.head[1] <= j
    <3>1. /\ report.head[1] \in lived /\ report.head[2] \in Seq(Says)
          /\ Len(report.head[2]) <= Len(chain[report.head[1]])
          /\ \A j \in Lives : chain[j] # <<>> => report.head[1] <= j
      BY <2>2 DEF MatchInv, HeadRead
    <3>2. PICK i \in Lives : i = report.head[1]
      BY <1>2, <3>1
    <3>3. PICK n \in Nat : n = Len(report.head[2])
      BY <3>1
    <3>4. i <= life /\ i \in lived /\ n <= Len(chain[i])
      BY <1>1, <3>1, <3>2, <3>3 DEF StreamInv, NewestLife
    <3>5. chain' \in [Lives -> Seq(Says)]
      BY <1>1, <1>5, TypeStep DEF TypeInv, TypeOK
    <3>6. Len(chain'[i]) \in Nat
      BY <3>5
    <3>a. (\A j \in Lives : ChainLonger(j)) /\ lived \subseteq lived'
      BY <1>1, <1>5, ChainsGrow
    <3>7. Len(chain[i]) \in Nat /\ Len(chain[i]) <= Len(chain'[i])
      BY <3>a DEF ChainLonger
    <3>8. \A j \in Lives : chain'[j] # <<>> => chain[j] # <<>> \/ j = life
      BY <3>a DEF ChainLonger
    <3>9. n <= Len(chain'[i])
      BY <3>4, <3>6, <3>7
    <3> QED BY <3>1, <3>2, <3>3, <3>4, <3>a, <3>8, <3>9
  <2> QED BY <2>1, <2>2 DEF MatchInv, ReportRead, StreamRead, HeadRead
<1>6. (UNCHANGED <<vars, compareVars>>) => [Next]_vars /\ UNCHANGED compareVars
  OBVIOUS
<1> QED BY <1>3, <1>4, <1>5, <1>6 DEF RNext, Compare

LEMMA CountsStep ==
  ASSUME LivesInOrder, MatchInv, [RNext]_<<vars, compareVars>>, ReportRead'
  PROVE  PipeInv' /\ CountsRead'
<1>1. PipeInv /\ ReportRead /\ IsFiniteSet(RowsHeld) /\ Cardinality(RowsHeld) \in Nat
  BY FS_CardinalityType DEF MatchInv, PipeInv, RosterInv
<1>2. /\ report.events \in Nat /\ stream.events \in Nat
      /\ asking \in {"count", "events", "gaps"} /\ report.head # NoHead => Len(report.head[2]) <= report.events
      /\ asking \in {"events", "gaps"} => stream.events <= Cardinality(RowsHeld)
  BY DEF MatchInv, CountsRead
<1>3. CASE Compare
  <2>1. UNCHANGED vars
    BY <1>3 DEF Compare, ReadHead, ReadQueue, ReadCount, ReadEvents, ReadGaps, Reconcile
  <2>2. PipeInv'
    <3>1. StreamInv'
      <4>1. LivesInOrder /\ StreamInv /\ [Next]_vars
        BY <1>1, <2>1 DEF PipeInv, RosterInv, RowInv
      <4> QED BY <4>1, StreamStep
    <3>2. LivesInOrder /\ PipeInv /\ [Next]_vars
      BY <1>1, <2>1
    <3> QED BY <3>2, PipeStep
  <2>3. RowsHeld' = RowsHeld
    BY <2>1 DEF vars, RowsHeld
  <2>4. CASE ReadHead
    <3>1. /\ report' = [head |-> ChainHead, pending |-> 0, events |-> 0]
          /\ stream' = [events |-> 0, gaps |-> {}] /\ asking' = "head"
      BY <2>4 DEF ReadHead, NoReport, NoStream
    <3>2. report'.events = 0 /\ stream'.events = 0
      BY <3>1
    <3> QED BY <2>2, <3>1, <3>2 DEF CountsRead
  <2>5. CASE ReadQueue
    <3>1. report' = [report EXCEPT !.pending = Cardinality(outbox)] /\ stream' = stream /\ asking' = "queue"
      BY <2>5 DEF ReadQueue
    <3>2. report'.events = report.events /\ stream'.events = stream.events
      BY <1>1, <3>1 DEF ReportRead
    <3> QED BY <1>2, <2>2, <3>1, <3>2 DEF CountsRead
  <2>6. CASE ReadCount
    <3>1. /\ report' = [report EXCEPT !.events = Cardinality(Recorded)] /\ stream' = stream
          /\ asking = "queue" /\ asking' = "count"
      BY <2>6 DEF ReadCount
    <3>2. /\ report'.events = Cardinality(Recorded) /\ report'.head = report.head
          /\ stream'.events = stream.events
      BY <1>1, <3>1 DEF ReportRead
    <3>3. ASSUME report.head # NoHead PROVE Len(report.head[2]) <= Cardinality(Recorded)
      <4>1. /\ report.head[1] \in lived /\ report.head[2] \in Seq(Says)
            /\ Len(report.head[2]) <= Len(chain[report.head[1]])
        BY <3>1, <3>3 DEF MatchInv, HeadRead
      <4>2. chain \in [Lives -> Seq(Says)] /\ lived \subseteq Lives
        BY <1>1 DEF PipeInv, RosterInv, RowInv, StreamInv, TypeInv, TypeOK
      <4>3. PICK i \in Lives : i = report.head[1]
        BY <4>1, <4>2
      <4>4. PICK n \in Nat : n = Len(report.head[2])
        BY <4>1
      <4>5. Len(chain[i]) \in Nat /\ n <= Len(chain[i])
        BY <4>1, <4>2, <4>3, <4>4
      <4>6. Cardinality(Recorded) \in Nat /\ Len(chain[i]) <= Cardinality(Recorded)
        BY <1>1, ChainCounted
      <4>7. n <= Cardinality(Recorded)
        BY <4>5, <4>6
      <4> QED BY <4>4, <4>7
    <3>4. Cardinality(Recorded) \in Nat
      BY <1>1, StreamAssumption, ChainCounted
    <3> QED BY <1>2, <2>2, <3>1, <3>2, <3>3, <3>4 DEF CountsRead
  <2>7. CASE ReadEvents
    <3>1. /\ stream' = [stream EXCEPT !.events = Cardinality(RowsHeld)] /\ report' = report
          /\ asking = "count" /\ asking' = "events"
      BY <2>7 DEF ReadEvents
    <3>2. stream'.events = Cardinality(RowsHeld)
      BY <1>1, <3>1 DEF ReportRead, StreamRead
    <3> QED BY <1>1, <1>2, <2>2, <2>3, <3>1, <3>2 DEF CountsRead
  <2>8. CASE ReadGaps
    <3>1. /\ stream' = [stream EXCEPT !.gaps = Gaps] /\ report' = report
          /\ asking = "events" /\ asking' = "gaps"
      BY <2>8 DEF ReadGaps
    <3>2. stream'.events = stream.events
      BY <1>1, <3>1 DEF ReportRead, StreamRead
    <3> QED BY <1>2, <2>2, <2>3, <3>1, <3>2 DEF CountsRead
  <2>9. CASE Reconcile
    BY <1>2, <2>2, <2>9 DEF Reconcile, CountsRead
  <2> QED BY <1>3, <2>4, <2>5, <2>6, <2>7, <2>8, <2>9 DEF Compare
<1>4. CASE [Next]_vars /\ UNCHANGED compareVars
  <2>1. PipeInv' /\ RowsHeld \subseteq RowsHeld' /\ UNCHANGED <<asking, report, stream>>
    BY <1>1, <1>4, PipeStep DEF compareVars
  <2>2. IsFiniteSet(RowsHeld') /\ Cardinality(RowsHeld') \in Nat /\ Cardinality(RowsHeld) <= Cardinality(RowsHeld')
    <3>1. IsFiniteSet(RowsHeld')
      BY <2>1 DEF PipeInv, RosterInv
    <3> QED BY <2>1, <3>1, FS_Subset, FS_CardinalityType
  <2>3. stream.events <= Cardinality(RowsHeld) => stream.events <= Cardinality(RowsHeld')
    BY <1>1, <1>2, <2>2
  <2> QED BY <1>2, <2>1, <2>3 DEF CountsRead
<1> QED BY <1>3, <1>4 DEF RNext

LEMMA MatchStep ==
  ASSUME LivesInOrder, MatchInv, [RNext]_<<vars, compareVars>>
  PROVE  MatchInv'
<1>1. ReportRead' /\ HeadRead'
  BY HeadStep
<1>2. PipeInv' /\ CountsRead'
  BY <1>1, CountsStep
<1> QED BY <1>1, <1>2 DEF MatchInv

(* A set of rows of one life, one each, of events up to n, is of all of    *)
(* them if it has n.                                                       *)
LEMMA AllHeld ==
  ASSUME NEW i, NEW n \in Nat, NEW R, IsFiniteSet(R), n <= Cardinality(R),
         \A r \in R : \E m \in 1 .. n : r = <<<<i, m>>, 1>>
  PROVE  \A m \in 1 .. n : <<<<i, m>>, 1>> \in R
<1> SUFFICES ASSUME NEW k \in 1 .. n, <<<<i, k>>, 1>> \notin R PROVE FALSE
  OBVIOUS
<1> DEFINE H == (1 .. n) \ {k}
           T == {<<<<i, m>>, 1>> : m \in H}
           f == [m \in H |-> <<<<i, m>>, 1>>]
<1>1. IsFiniteSet(H) /\ Cardinality(H) = n - 1
  <2>1. IsFiniteSet(1 .. n) /\ Cardinality(1 .. n) = n
    BY FS_Interval
  <2> QED BY <2>1, FS_RemoveElement
<1>2. R \in SUBSET T
  OBVIOUS
<1>3. f \in Surjection(H, T)
  BY DEF Surjection
<1>4. IsFiniteSet(T) /\ Cardinality(T) <= Cardinality(H)
  <2> HIDE DEF f, T, H
  <2> QED BY <1>1, <1>3, FS_Surjection
<1>5. Cardinality(R) <= Cardinality(T) /\ Cardinality(R) \in Nat /\ Cardinality(T) \in Nat
  <2> HIDE DEF T
  <2> QED BY <1>2, <1>4, FS_Subset, FS_CardinalityType
<1> HIDE DEF H, T
<1> QED BY <1>1, <1>4, <1>5

(* What a verdict of a match says of what was read and of central.         *)
LEMMA MatchSays ==
  ASSUME MatchInv, Reconcile, verdict' = "match"
  PROVE  MissingLinks = {} /\ Unlinked = {} /\ report.events = stream.events /\ ~HeadsDiffer
<1>1. Verdict = "match"
  BY DEF Reconcile
<1>2. MissingLinks \cup Unlinked = {} /\ report.events - stream.events = 0 /\ ~HeadsDiffer
  BY <1>1 DEF Verdict, Behind
<1>3. report.events \in Nat /\ stream.events \in Nat
  BY DEF MatchInv, CountsRead
<1> QED BY <1>2, <1>3

LEMMA OneRowEach ==
  ASSUME TypeOK, MissingLinks = {}
  PROVE  \A e \in Events : central[e] # <<>> => central[e] \in Seq(Seq(Says)) /\ Len(central[e]) = 1
<1>1. \A e \in Events : central[e] \in Seq(Seq(Says))
  BY DEF TypeOK
<1>2. \A e \in Events : ~(Len(central[e]) > 1)
  BY DEF MissingLinks
<1> SUFFICES ASSUME NEW e \in Events, central[e] # <<>>
             PROVE  central[e] \in Seq(Seq(Says)) /\ Len(central[e]) = 1
  OBVIOUS
<1>3. Len(central[e]) \in Nat /\ Len(central[e]) # 0
  BY <1>1
<1>4. \A k \in Nat : k = 0 \/ k > 1 \/ k = 1
  OBVIOUS
<1>5. Len(central[e]) = 1
  BY <1>2, <1>3, <1>4, Zenon
<1> QED BY <1>1, <1>5

(* If one life alone has rows, central's head is the last of them.         *)
RowsUpTo(i, n) == \A e \in Events : central[e] # <<>> => e[1] = i /\ e[2] <= n
HeadSays(i, n, covers) ==
  /\ <<i, n>> \in Events /\ Has(<<i, n>>) /\ central[<<i, n>>][1] = covers /\ Len(covers) = n
  /\ RowsUpTo(i, n)

LEMMA CentralHeadSays ==
  ASSUME PipeInv, MissingLinks = {}, RowsHeld # {}, NEW i, NEW covers,
         CentralHead = <<i, covers>>,
         \A j \in Lives : chain[j] # <<>> => i <= j
  PROVE  \E n \in Nat : HeadSays(i, n, covers)
<1> DEFINE L == {e[1] : e \in {f \in Events : Has(f)}}
           S(j) == {e[2] : e \in {f \in Events : f[1] = j /\ Has(f)}}
<1>1. /\ TypeOK /\ NewestLife /\ RowKnown /\ CoversFit
  BY DEF PipeInv, RosterInv, RowInv, StreamInv, TypeInv
<1>2. Lives \subseteq Nat /\ MaxEvents \in Nat /\ life \in Lives
  BY <1>1, StreamAssumption DEF TypeOK
<1>3. \A e \in Events : Has(e) => /\ central[e] = <<central[e][1]>> /\ Len(central[e]) = 1
                                  /\ Len(central[e][1]) = e[2]
  <2> SUFFICES ASSUME NEW e \in Events, Has(e)
               PROVE  /\ central[e] = <<central[e][1]>> /\ Len(central[e]) = 1
                      /\ Len(central[e][1]) = e[2]
    OBVIOUS
  <2>1. central[e] # <<>>
    BY DEF Has
  <2>2. central[e] \in Seq(Seq(Says)) /\ Len(central[e]) = 1
    BY <1>1, <2>1, OneRowEach
  <2>3. Len(central[e][1]) = e[2]
    BY <1>1, <2>1 DEF CoversFit
  <2> QED BY <2>2, <2>3
<1>4. \A e \in Events : Has(e) => e \in Recorded /\ chain[e[1]] # <<>>
  <2> SUFFICES ASSUME NEW e \in Events, Has(e) PROVE e \in Recorded /\ chain[e[1]] # <<>>
    OBVIOUS
  <2>1. e \in Recorded
    BY <1>1 DEF RowKnown, Has
  <2>2. e[2] <= Len(chain[e[1]]) /\ e[2] >= 1 /\ e[2] \in Nat
    BY <1>2, <2>1 DEF Recorded, Events
  <2> QED BY <2>1, <2>2
<1>5. PICK e0 \in Events : Has(e0)
  <2>1. PICK e \in Events : \E m \in 1 .. Len(central[e]) : TRUE
    BY DEF RowsHeld
  <2>2. central[e] # <<>>
    BY <2>1
  <2> QED BY <2>2 DEF Has
<1>6. PICK g \in L : g = Greatest(L) /\ \A j \in L : j <= g
  <2>1. L \subseteq Lives /\ L # {}
    BY <1>5 DEF Events
  <2>2. IsFiniteSet(L) /\ L \in SUBSET Nat
    BY <1>2, <2>1, StreamAssumption, FS_Subset
  <2> HIDE DEF L
  <2>3. \E x \in L : \A y \in L : y <= x
    BY <2>1, <2>2, GreatestOfFinite
  <2> QED BY <2>3 DEF Greatest
<1>7. PICK n \in S(g) : n = Greatest(S(g)) /\ \A m \in S(g) : m <= n
  <2>1. S(g) \subseteq 1 .. MaxEvents /\ S(g) # {}
    BY <1>6 DEF Events
  <2>2. IsFiniteSet(S(g)) /\ S(g) \in SUBSET Nat
    <3>1. IsFiniteSet(1 .. MaxEvents)
      BY <1>2, FS_Interval
    <3> QED BY <1>2, <2>1, <3>1, FS_Subset
  <2> HIDE DEF S
  <2>3. \E x \in S(g) : \A y \in S(g) : y <= x
    BY <2>1, <2>2, GreatestOfFinite
  <2> QED BY <2>3 DEF Greatest
<1>8. <<g, n>> \in Events /\ Has(<<g, n>>) /\ n \in Nat
  BY <1>2, <1>7 DEF Events
<1>9. CentralHead = <<g, central[<<g, n>>][Len(central[<<g, n>>])]>>
  <2> HIDE DEF L
  <2>1. CentralHead = <<Greatest(L), central[<<Greatest(L), Greatest(S(Greatest(L)))>>]
                                       [Len(central[<<Greatest(L), Greatest(S(Greatest(L)))>>])]>>
    BY DEF CentralHead, L
  <2> HIDE DEF S
  <2> QED BY <1>6, <1>7, <2>1
<1>10. i = g /\ covers = central[<<i, n>>][1] /\ Len(covers) = n
  <2>1. i = g /\ covers = central[<<g, n>>][Len(central[<<g, n>>])]
    BY <1>9
  <2>2. Len(central[<<g, n>>]) = 1 /\ Len(central[<<g, n>>][1]) = n
    BY <1>3, <1>8
  <2> QED BY <2>1, <2>2
<1>11. ASSUME NEW e \in Events, central[e] # <<>> PROVE e[1] = i /\ e[2] <= n
  <2>1. Has(e) /\ e[1] \in Lives /\ e[1] \in L /\ e[2] \in Nat
    BY <1>2, <1>11 DEF Has, Events
  <2>2. i <= e[1] /\ e[1] <= g
    BY <1>4, <1>6, <2>1
  <2>3. e[1] = i
    <3>1. g \in Nat /\ e[1] \in Nat
      BY <1>2, <1>8, <2>1 DEF Events
    <3> HIDE DEF L
    <3> QED BY <1>10, <2>2, <3>1
  <2>4. e[2] \in S(g)
    BY <1>10, <2>1, <2>3
  <2> QED BY <1>7, <2>3, <2>4
<1> QED BY <1>8, <1>10, <1>11 DEF HeadSays, RowsUpTo

(* Rows that are all there, and linked, say what the last of them covers.  *)
LEMMA LinkedRows ==
  ASSUME PipeInv, MissingLinks = {}, Unlinked = {},
         NEW i \in Lives, NEW n \in 1 .. MaxEvents, NEW covers \in Seq(Says), Len(covers) = n,
         \A m \in 1 .. n : Has(<<i, m>>),
         central[<<i, n>>][1] = covers
  PROVE  \A m \in 1 .. n : central[<<i, m>>][1] = SubSeq(covers, 1, m)
<1> DEFINE B == {m \in 1 .. n : central[<<i, m>>][1] # SubSeq(covers, 1, m)}
<1>1. MaxEvents \in Nat /\ n \in Nat /\ central \in [Events -> Seq(Seq(Says))]
  BY StreamAssumption DEF PipeInv, RosterInv, RowInv, StreamInv, TypeInv, TypeOK
<1> SUFFICES ASSUME B # {} PROVE FALSE
  OBVIOUS
<1>2. PICK b \in B : \A m \in B : m <= b
  <2>1. IsFiniteSet(B) /\ B \in SUBSET Nat
    <3>1. IsFiniteSet(1 .. n) /\ 1 .. n \subseteq Nat
      BY <1>1, FS_Interval
    <3>2. B \in SUBSET (1 .. n)
      OBVIOUS
    <3> HIDE DEF B
    <3> QED BY <3>1, <3>2, FS_Subset
  <2> HIDE DEF B
  <2> QED BY <2>1, GreatestOfFinite
<1>3. b # n
  <2>1. SubSeq(covers, 1, n) = covers
    OBVIOUS
  <2> QED BY <1>2, <2>1
<1>4. b + 1 \in 1 .. n /\ b \in 1 .. n /\ b + 1 \notin B
  BY <1>1, <1>2, <1>3
<1>5. <<i, b>> \in Events /\ <<i, b + 1>> \in Events /\ Has(<<i, b>>) /\ Has(<<i, b + 1>>)
  BY <1>1, <1>4 DEF Events
<1>6. central[<<i, b + 1>>][1] = SubSeq(covers, 1, b + 1)
  BY <1>4
<1>7. Len(central[<<i, b>>]) = 1
  <2>1. TypeOK
    BY DEF PipeInv, RosterInv, RowInv, StreamInv, TypeInv
  <2> HIDE DEF B
  <2> QED BY <1>5, <2>1, OneRowEach DEF Has
<1>8. central[<<i, b>>][1] = SubSeq(central[<<i, b + 1>>][1], 1, b)
  <2> DEFINE e == <<i, b + 1>>
  <2>1. e \in Events /\ Has(e) /\ e[1] = i /\ e[2] = b + 1 /\ e[2] > 1 /\ e[2] - 1 = b
    <3> HIDE DEF B
    <3>1. b \in Nat /\ b >= 1
      BY <1>1, <1>4
    <3> QED BY <1>5, <3>1
  <2> HIDE DEF e
  <2>2. e \notin Unlinked
    OBVIOUS
  <2>3. central[<<i, b>>][Len(central[<<i, b>>])] = SubSeq(central[e][1], 1, b)
    BY <1>5, <2>1, <2>2 DEF Unlinked
  <2> QED BY <1>7, <2>3 DEF e
<1>9. SubSeq(SubSeq(covers, 1, b + 1), 1, b) = SubSeq(covers, 1, b)
  BY <1>1, <1>4
<1> QED BY <1>2, <1>6, <1>8, <1>9

(* So much central has when it calls the two copies a match.               *)
LEMMA MatchHeld ==
  ASSUME MatchInv, Reconcile, verdict' = "match", report.head # NoHead
  PROVE  \A n \in 1 .. Len(report.head[2]) :
           LET e == <<report.head[1], n>>
           IN  Has(e) /\ central[e][1][n] = report.head[2][n]
<1>1. MissingLinks = {} /\ Unlinked = {} /\ report.events = stream.events /\ ~HeadsDiffer
  BY MatchSays
<1>2. /\ PipeInv /\ IsFiniteSet(RowsHeld) /\ TypeOK
      /\ MaxEvents \in Nat /\ Lives \subseteq Nat
  BY StreamAssumption DEF MatchInv, PipeInv, RosterInv, RowInv, StreamInv, TypeInv
<1>3. asking = "gaps"
  BY DEF Reconcile
<1>4. PICK i \in Lives, covers \in Seq(Says) :
        /\ report.head[1] = i /\ report.head[2] = covers /\ covers # <<>>
        /\ \A j \in Lives : chain[j] # <<>> => i <= j
  <2>1. /\ report.head[1] \in lived /\ report.head[2] \in Seq(Says) /\ report.head[2] # <<>>
        /\ \A j \in Lives : chain[j] # <<>> => report.head[1] <= j
    BY <1>3 DEF MatchInv, HeadRead
  <2>2. lived \subseteq Lives
    BY <1>2 DEF TypeOK
  <2> QED BY <2>1, <2>2
<1>5. PICK l \in Nat : l = Len(covers) /\ l # 0
  BY <1>4
<1>6. Cardinality(RowsHeld) \in Nat /\ l <= Cardinality(RowsHeld)
  <2>1. Cardinality(RowsHeld) \in Nat
    BY <1>2, FS_CardinalityType
  <2>2. l <= report.events /\ stream.events <= Cardinality(RowsHeld) /\ report.events \in Nat
    BY <1>3, <1>4, <1>5 DEF MatchInv, CountsRead
  <2> QED BY <1>1, <2>1, <2>2
<1>7. RowsHeld # {}
  <2>1. Cardinality(RowsHeld) # 0
    BY <1>5, <1>6
  <2> QED BY <2>1, FS_EmptySet
<1>8. report.head = CentralHead
  BY <1>1, <1>7 DEF HeadsDiffer
<1>9. CentralHead = <<i, covers>>
  <2>1. PICK a, b : CentralHead = <<a, b>>
    BY DEF CentralHead
  <2> QED BY <1>4, <1>8, <2>1
<1>10. PICK n \in Nat : HeadSays(i, n, covers)
  BY <1>1, <1>2, <1>4, <1>7, <1>9, CentralHeadSays
<1>11. n = l /\ n \in 1 .. MaxEvents
  BY <1>2, <1>5, <1>10 DEF HeadSays, Events
<1>12. \A r \in RowsHeld : \E m \in 1 .. n : r = <<<<i, m>>, 1>>
  <2> SUFFICES ASSUME NEW r \in RowsHeld PROVE \E m \in 1 .. n : r = <<<<i, m>>, 1>>
    OBVIOUS
  <2>1. PICK e \in Events : \E k \in 1 .. Len(central[e]) : r = <<e, k>>
    BY DEF RowsHeld
  <2>2. PICK k \in 1 .. Len(central[e]) : r = <<e, k>>
    BY <2>1
  <2>4. central[e] # <<>>
    BY <2>2
  <2>3. Len(central[e]) = 1
    BY <1>1, <1>2, <2>4, OneRowEach
  <2>5. k = 1
    BY <2>2, <2>3
  <2>6. e[1] = i /\ e[2] <= n
    BY <1>10, <2>4 DEF HeadSays, RowsUpTo
  <2>7. e = <<i, e[2]>> /\ e[2] \in 1 .. n
    BY <1>2, <2>6 DEF Events
  <2> QED BY <2>2, <2>5, <2>7
<1>13. \A m \in 1 .. n : <<<<i, m>>, 1>> \in RowsHeld
  BY <1>2, <1>6, <1>11, <1>12, AllHeld
<1>14. \A m \in 1 .. n : <<i, m>> \in Events /\ Has(<<i, m>>)
  <2> SUFFICES ASSUME NEW m \in 1 .. n PROVE <<i, m>> \in Events /\ Has(<<i, m>>)
    OBVIOUS
  <2>1. PICK e \in Events : \E k \in 1 .. Len(central[e]) : <<<<i, m>>, 1>> = <<e, k>>
    <3>1. <<<<i, m>>, 1>> \in UNION {{e} \X (1 .. Len(central[e])) : e \in Events}
      BY <1>13 DEF RowsHeld
    <3>2. PICK e \in Events : <<<<i, m>>, 1>> \in {e} \X (1 .. Len(central[e]))
      BY <3>1
    <3> QED BY <3>2
  <2>2. e = <<i, m>> /\ 1 \in 1 .. Len(central[e])
    BY <2>1
  <2>3. central[e] # <<>>
    BY <2>2
  <2> QED BY <2>2, <2>3 DEF Has
<1>15. \A m \in 1 .. n : central[<<i, m>>][1] = SubSeq(covers, 1, m)
  BY <1>1, <1>2, <1>5, <1>10, <1>11, <1>14, LinkedRows DEF HeadSays
<1>16. \A m \in 1 .. n : SubSeq(covers, 1, m)[m] = covers[m]
  BY <1>5, <1>11
<1> QED BY <1>4, <1>5, <1>11, <1>14, <1>15, <1>16

(* A match is worth what the go/no-go of phase 4 takes it for, whatever    *)
(* was sent, lost, dropped, corrected or restarted between the script's    *)
(* six reads and central's: central has every event of the reported chain, *)
(* saying what the node said of it (reconcile).                            *)
THEOREM MatchVerdictTrue ==
  ASSUME LivesInOrder
  PROVE  RSafety => MatchMeansSame
<1>1. RInit => MatchInv
  <2> SUFFICES ASSUME RInit PROVE MatchInv
    OBVIOUS
  <2>1. RowInv /\ Init
    BY RowInit DEF RInit
  <2>2. RosterInv
    <3>1. RowsHeld = {} /\ LivesHeld = {} /\ roster = [events |-> 0, life |-> 0, lives |-> 0]
      <4>1. \A e \in Events : central[e] = <<>> /\ 1 .. Len(central[e]) = {}
        BY <2>1 DEF Init
      <4> QED BY <2>1, <4>1 DEF Init, RowsHeld, LivesHeld
    <3> QED BY <2>1, <3>1, FS_EmptySet DEF RosterInv, RosterCounts, LastLifeHeld
  <2>3. ChainsFit
    BY <2>1, StreamAssumption DEF Init, ChainsFit
  <2>4. CoversFit
    BY <2>1 DEF Init, CoversFit, Known, InFlight, Batches
  <2>5. ReportRead /\ HeadRead /\ CountsRead
    BY DEF RInit, NoReport, NoStream, ReportRead, StreamRead, HeadRead, CountsRead
  <2> QED BY <2>2, <2>3, <2>4, <2>5 DEF MatchInv, PipeInv
<1>2. MatchInv /\ [RNext]_<<vars, compareVars>> => MatchInv'
  BY MatchStep
<1>3. MatchInv /\ [RNext]_<<vars, compareVars>> =>
        [Judged /\ verdict' = "match" /\ report.head # NoHead =>
           \A n \in 1 .. Len(report.head[2]) :
             LET e == <<report.head[1], n>>
             IN  Has(e) /\ central[e][1][n] \in {report.head[2][n], "final"}]_compareVars
  <2> SUFFICES ASSUME MatchInv, RNext, Judged, verdict' = "match", report.head # NoHead
               PROVE  \A n \in 1 .. Len(report.head[2]) :
                        LET e == <<report.head[1], n>>
                        IN  Has(e) /\ central[e][1][n] \in {report.head[2][n], "final"}
    BY DEF compareVars
  <2>1. Reconcile
    BY DEF RNext, Compare, Judged, ReadHead, ReadQueue, ReadCount, ReadEvents, ReadGaps, compareVars
  <2> QED BY <2>1, MatchHeld
<1> QED BY <1>1, <1>2, <1>3, PTL DEF RSafety, MatchMeansSame
=============================================================================
