----------------------------- MODULE UsageStream -----------------------------
(***************************************************************************)
(* How a node's audit trail gets to central: the hash chain and the outbox *)
(* in the node's SQLite (server/store.js), the shipper that drains the     *)
(* outbox (server/usageShipper.js), and central's ingest with its ledger   *)
(* of shipments (server/central/store.js).                                 *)
(*                                                                         *)
(* A request may be lost, may be answered too late, and may be stored by   *)
(* central long after the node gave it up; the server restarts under a new *)
(* incarnation ("life"), with the queue of the earlier ones; and           *)
(* scripts/retire.js drains the same queue from a process of its own.      *)
(* What an event says is reduced to whether it was corrected, and a hash   *)
(* to what it covers: the event and all events before it in its chain.     *)
(***************************************************************************)
EXTENDS Integers, Sequences, FiniteSets

CONSTANTS
  Lives,          \* incarnations, as the numbers their ids sort by
  Timers,         \* processes that run drain()
  Retirers,       \* processes that run drainUntilEmpty()
  BatchMax,       \* BATCH_MAX
  MaxOutbox,      \* MAX_OUTBOX_ROWS
  LivesInOrder,   \* does a later incarnation's id always sort later?
  MaxEvents,      \* bound: events recorded
  MaxShipments    \* bound: shipments numbered per life

Drainers == Timers \cup Retirers

ASSUME StreamAssumption ==
  /\ Lives \subseteq Nat \ {0} /\ IsFiniteSet(Lives) /\ Lives # {}
  /\ Timers \cap Retirers = {}
  /\ BatchMax \in Nat \ {0} /\ MaxOutbox \in Nat \ {0}
  /\ LivesInOrder \in BOOLEAN
  /\ MaxEvents \in Nat /\ MaxShipments \in Nat

VARIABLES
  life, lived,    \* node: this process's incarnation, and the ones before it
  chain,          \* node: usage_events, what each event of a life says
  numbered,       \* node: kv outbox_seq, the last shipment number of a life
  outbox,         \* node: usage_outbox
  trimmed,        \* history: the shipments dropped by trimUsageOutbox
  state, sent,    \* each drainer: where it is, and the batch it has sent
  delayed,        \* given-up requests central may still come to process
  ledger, central,\* central: usage_shipments, and its rows of each event
  roster          \* central: what the nodes table says of this node

nodeVars    == <<life, lived, chain, numbered>>
shipVars    == <<state, sent, delayed>>
centralVars == <<ledger, central, roster>>
vars == <<life, lived, chain, numbered, outbox, trimmed, state, sent, delayed,
          ledger, central, roster>>

Says == {"first", "final"}          \* as recorded, and as corrected
Events == Lives \X (1 .. MaxEvents) \* <<life, seq>> of the chain
Kinds == {"usage_event", "usage_event_correction"}

(* A shipment's payload is frozen when it is queued: `covers` is what its  *)
(* event's hash covers, so its last element is what the event itself says. *)
Shipment == [life : Lives, seq : 1 .. MaxShipments, kind : Kinds,
             event : Events, covers : Seq(Says)]

Recorded == {e \in Events : e[2] <= Len(chain[e[1]])}

-----------------------------------------------------------------------------
(* The node *)

(* Mutants: the last number again, and numbers from what is in the queue.  *)
LastOutboxSeq == numbered[life]
NumberedFromQueue ==
  LET mine == {s.seq : s \in {t \in outbox : t.life = life}}
  IN  IF mine = {} THEN 1 ELSE 1 + CHOOSE n \in mine : \A m \in mine : m <= n

NextOutboxSeq == numbered[life] + 1

(* The shipment is numbered by the process that sends it; its event may be *)
(* of an earlier life.                                                     *)
EnqueueOutbox(kind, e) ==
  /\ NextOutboxSeq <= MaxShipments
  /\ numbered' = [numbered EXCEPT ![life] = NextOutboxSeq]
  /\ outbox' = outbox \cup {[life |-> life, seq |-> NextOutboxSeq, kind |-> kind, event |-> e,
                             covers |-> SubSeq(chain'[e[1]], 1, e[2])]}

InsertUsageEvent ==
  /\ Cardinality(Recorded) < MaxEvents
  /\ chain' = [chain EXCEPT ![life] = Append(@, "first")]
  /\ EnqueueOutbox("usage_event", <<life, Len(chain[life]) + 1>>)
  /\ UNCHANGED <<life, lived, trimmed, shipVars, centralVars>>

(* One correction per event; a PATCH that changes nothing does not spend   *)
(* it but is shipped.  The hashes of all later events of the chain move    *)
(* too, and are not shipped again.                                         *)
PatchUsageEvent(e, says) ==
  /\ e \in Recorded /\ chain[e[1]][e[2]] = "first"
  /\ chain' = [chain EXCEPT ![e[1]][e[2]] = says]
  /\ EnqueueOutbox("usage_event_correction", e)
  /\ UNCHANGED <<life, lived, trimmed, shipVars, centralVars>>

Before(s, t) == s.life < t.life \/ (s.life = t.life /\ s.seq < t.seq)
Oldest(S, n) == {s \in S : Cardinality({t \in S : Before(t, s)}) < n}

(* Mutant: the queue of this life only.                                    *)
ListOwnLife == Oldest({s \in outbox : s.life = life}, BatchMax)
ListOutboxBatch == Oldest(outbox, BatchMax)

-----------------------------------------------------------------------------
(* The shipper: drain() and drainUntilEmpty() *)

(* drain() runs one cycle at a time, when the timer or an urgent row says  *)
(* so; drainUntilEmpty() when an operator retires the node.                *)
StartDrain(d) ==
  /\ state[d] = "idle"
  /\ state' = [state EXCEPT ![d] = "ready"]
  /\ UNCHANGED <<nodeVars, outbox, trimmed, sent, delayed, centralVars>>

ShipOnce(d) ==
  /\ state[d] = "ready" /\ ListOutboxBatch # {}
  /\ state' = [state EXCEPT ![d] = "sent"]
  /\ sent' = [sent EXCEPT ![d] = ListOutboxBatch]
  /\ UNCHANGED <<nodeVars, outbox, trimmed, delayed, centralVars>>

(* Nothing to ship, or (drainUntilEmpty) the deadline has passed.          *)
StopDrain(d) ==
  /\ state[d] = "ready"
  /\ d \in Timers => ListOutboxBatch = {}
  /\ state' = [state EXCEPT ![d] = IF d \in Timers THEN "ending" ELSE "idle"]
  /\ UNCHANGED <<nodeVars, outbox, trimmed, sent, delayed, centralVars>>

(* Mutant: everything queued by now counts as confirmed.                   *)
AckQueue(d) ==
  /\ state[d] = "stored"
  /\ outbox' = {}
  /\ state' = [state EXCEPT ![d] = IF d \in Timers THEN "ending" ELSE "ready"]
  /\ sent' = [sent EXCEPT ![d] = {}]
  /\ UNCHANGED <<nodeVars, trimmed, delayed, centralVars>>

(* The answer arrives: its rows, and no others, leave the queue.  A cycle  *)
(* of drain() goes on after a full batch, up to a ceiling.                 *)
AckOutbox(d) ==
  /\ state[d] = "stored"
  /\ outbox' = outbox \ sent[d]
  /\ \/ d \in Timers /\ state' = [state EXCEPT ![d] = "ending"]
     \/ /\ d \in Timers => Cardinality(sent[d]) = BatchMax
        /\ state' = [state EXCEPT ![d] = "ready"]
  /\ sent' = [sent EXCEPT ![d] = {}]
  /\ UNCHANGED <<nodeVars, trimmed, delayed, centralVars>>

(* No answer within the timeout, or an error: the rows stay.  Central may  *)
(* have stored the batch, may never see it, or may store it later.         *)
ShipFailed(d) ==
  /\ state[d] \in {"sent", "stored"}
  /\ \/ state[d] = "sent" /\ delayed' = delayed \cup {sent[d]}
     \/ UNCHANGED delayed
  /\ state' = [state EXCEPT ![d] = IF d \in Timers THEN "ending" ELSE "idle"]
  /\ sent' = [sent EXCEPT ![d] = {}]
  /\ UNCHANGED <<nodeVars, outbox, trimmed, centralVars>>

(* A cycle of drain() ends by dropping the oldest rows over the cap.       *)
TrimUsageOutbox(d) ==
  /\ state[d] = "ending"
  /\ LET over == Oldest(outbox, Cardinality(outbox) - MaxOutbox)
     IN  outbox' = outbox \ over /\ trimmed' = trimmed \cup over
  /\ state' = [state EXCEPT ![d] = "idle"]
  /\ UNCHANGED <<nodeVars, sent, delayed, centralVars>>

(* The server's process dies and another starts on the same database.      *)
Restart(i) ==
  /\ i \notin lived
  /\ LivesInOrder => i > life
  /\ life' = i /\ lived' = lived \cup {i}
  /\ delayed' = delayed \cup {sent[d] : d \in {t \in Timers : state[t] = "sent"}}
  /\ state' = [d \in Drainers |-> IF d \in Timers THEN "idle" ELSE state[d]]
  /\ sent' = [d \in Drainers |-> IF d \in Timers THEN {} ELSE sent[d]]
  /\ UNCHANGED <<chain, numbered, outbox, trimmed, centralVars>>

-----------------------------------------------------------------------------
(* Central's ingestBatch, one transaction *)

Key(s) == <<s.life, s.seq, s.kind>>

(* A correction updates the rows of its event that are there and is        *)
(* inserted when there is none; an event is inserted.                      *)
Inserts(fresh, e) ==
  LET mine == {s \in fresh : s.event = e}
  IN  {s \in mine : s.kind = "usage_event_correction" =>
                      central[e] = <<>> /\ ~\E t \in mine : Before(t, s)}

(* The rows of event e after the shipments of a batch about it, in queue   *)
(* order; within one batch all inserts have one arrival time, so only the  *)
(* first of them makes a row.                                              *)
IngestedRows(fresh, e) ==
  LET Last(S)  == CHOOSE s \in S : \A t \in S : ~Before(s, t)
      inserts  == Inserts(fresh, e)
      first    == CHOOSE s \in inserts : \A t \in inserts : ~Before(t, s)
      updates  == {s \in fresh : s.event = e} \ inserts
      placed   == {s \in updates : inserts = {} \/ Before(first, s)}
  IN  [n \in 1 .. Len(central[e]) |-> IF updates = {} THEN central[e][n] ELSE Last(updates).covers]
      \o IF inserts = {} THEN <<>>
         ELSE <<IF placed = {} THEN first.covers ELSE Last(placed).covers>>

(* trackNode and the upsert of the roster: the lives the batch's events    *)
(* are of, in order, each counted when it is not the one seen last.        *)
Least(S)    == CHOOSE i \in S : \A j \in S : i <= j
Greatest(S) == CHOOSE i \in S : \A j \in S : j <= i

(* Mutant: every shipment that is not a redelivery counted.                *)
TrackShipments(fresh) ==
  IF fresh = {} THEN roster
  ELSE [roster EXCEPT !.events = @ + Cardinality(fresh)]

TrackNode(fresh) ==
  LET touched == {s.event[1] : s \in fresh}
      newRows == {s \in fresh : s \in Inserts(fresh, s.event)}
  IN  IF fresh = {} THEN roster
      ELSE [events |-> roster.events + Cardinality(newRows),
            life   |-> Greatest(touched),
            lives  |-> roster.lives + Cardinality(touched)
                         - IF roster.life = Least(touched) THEN 1 ELSE 0]

(* Mutant: an upsert by event.                                             *)
StoreUpsert(batch) ==
  /\ ledger' = ledger \cup {Key(s) : s \in batch}
  /\ central' = [e \in Events |->
       LET mine == {s \in batch : s.event = e}
       IN  IF mine = {} THEN central[e]
           ELSE <<(CHOOSE s \in mine : \A t \in mine : ~Before(s, t)).covers>>]
  /\ UNCHANGED roster

IngestBatch(batch) ==
  LET fresh == {s \in batch : Key(s) \notin ledger}
  IN  /\ ledger' = ledger \cup {Key(s) : s \in fresh}
      /\ central' = [e \in Events |-> IngestedRows(fresh, e)]
      /\ roster' = TrackNode(fresh)

Ingest(d) ==
  /\ state[d] = "sent"
  /\ IngestBatch(sent[d])
  /\ state' = [state EXCEPT ![d] = "stored"]
  /\ UNCHANGED <<nodeVars, outbox, trimmed, sent, delayed>>

IngestDelayed(batch) ==
  /\ batch \in delayed
  /\ IngestBatch(batch)
  /\ delayed' = delayed \ {batch}
  /\ UNCHANGED <<nodeVars, outbox, trimmed, state, sent>>

-----------------------------------------------------------------------------
Init ==
  /\ life \in Lives
  /\ lived = {life}
  /\ chain = [i \in Lives |-> <<>>] /\ numbered = [i \in Lives |-> 0]
  /\ outbox = {} /\ trimmed = {}
  /\ state = [d \in Drainers |-> "idle"] /\ sent = [d \in Drainers |-> {}]
  /\ delayed = {}
  /\ ledger = {} /\ central = [e \in Events |-> <<>>]
  /\ roster = [events |-> 0, life |-> 0, lives |-> 0]

Record == InsertUsageEvent \/ \E e \in Events, says \in Says : PatchUsageEvent(e, says)
Step(d) == \/ StartDrain(d) \/ ShipOnce(d) \/ StopDrain(d) \/ AckOutbox(d)
           \/ TrimUsageOutbox(d) \/ Ingest(d)
Faults == \/ \E d \in Drainers : ShipFailed(d)
          \/ \E i \in Lives : Restart(i)
Next == Record \/ Faults \/ (\E d \in Drainers : Step(d)) \/ (\E b \in delayed : IngestDelayed(b))

(* The timer keeps firing and central keeps answering.  Requests stop      *)
(* failing and the server stops restarting at some time nobody knows.      *)
Fairness ==
  /\ \A d \in Timers : WF_vars(Step(d))
  /\ <>[][~Faults]_vars

Safety == Init /\ [][Next]_vars
Spec == Safety /\ Fairness

-----------------------------------------------------------------------------
(* Properties *)

TypeOK ==
  /\ life \in lived /\ lived \subseteq Lives
  /\ chain \in [Lives -> Seq(Says)]
  /\ numbered \in [Lives -> 0 .. MaxShipments]
  /\ outbox \subseteq Shipment /\ trimmed \subseteq Shipment
  /\ state \in [Drainers -> {"idle", "ready", "sent", "stored", "ending"}]
  /\ sent \in [Drainers -> SUBSET Shipment]
  /\ \A b \in delayed : b \subseteq Shipment
  /\ ledger \subseteq Lives \X (1 .. MaxShipments) \X Kinds
  /\ central \in [Events -> Seq(Seq(Says))]
  /\ roster \in [events : Nat, life : Lives \cup {0}, lives : Nat]

Stands(e) == chain[e[1]][e[2]]
Holds(e) == central[e] # <<>> /\ central[e][1][e[2]] = Stands(e)
Trimmed(e) == \E s \in trimmed : s.event = e

(* Whatever is lost, repeated or late, an event is never lost between the  *)
(* two machines: central holds it as it stands, or a shipment that says so *)
(* is queued and still to be stored, or one about it was dropped by        *)
(* trimUsageOutbox.  So an empty queue means what scripts/retire.js says.  *)
Owed(e) == \E s \in outbox : s.event = e /\ s.covers[e[2]] = Stands(e) /\ Key(s) \notin ledger
NothingLost == \A e \in Recorded : Trimmed(e) \/ Holds(e) \/ Owed(e)

(* Central counts an event once, through every redelivery (ingestBatch).   *)
OneRowPerEvent == \A e \in Events : Trimmed(e) \/ Len(central[e]) <= 1

(* The roster counts a node's rows once each, whatever was sent twice,     *)
(* corrected, or known only by its correction, and every life central has  *)
(* an event of, however many of them came in one batch (trackNode,         *)
(* "under-count by exactly the rebuilds that happened while a queue was    *)
(* backed up").                                                            *)
RowsHeld == UNION {{e} \X (1 .. Len(central[e])) : e \in Events}
LivesHeld == {e[1] : e \in {f \in Events : central[f] # <<>>}}
RosterCounts == roster.events = Cardinality(RowsHeld) /\ Cardinality(LivesHeld) <= roster.lives

(* Central has a shipment only if it has all earlier ones of its life that *)
(* were not dropped: a hole in the ledger is a trim and nothing else       *)
(* (nodeStream).                                                           *)
GapMeansTrimmed ==
  \A i \in Lives, n \in 1 .. MaxShipments :
    (\E k \in ledger : k[1] = i /\ k[2] > n) /\ (\A k \in ledger : k[1] = i => k[2] # n)
      => \E s \in trimmed : s.life = i /\ s.seq = n

(* Refuted (README, section 5).                                            *)
(* Two rows that are neighbours in central's copy of a chain agree about   *)
(* what came before (verifyNodeChain, "which no amount of lost shipments   *)
(* can produce").                                                          *)
ChainLinked ==
  \A i \in Lives, n \in 1 .. MaxEvents - 1 :
    LET row == central[<<i, n>>]  next == central[<<i, n + 1>>]
    IN  Len(row) = 1 /\ Len(next) = 1 => SubSeq(next[1], 1, n) = row[1]

(* The pipeline implements the promise about the audit trail.              *)
Times(e) == IF e \notin Recorded THEN 0 ELSE IF Stands(e) = "first" THEN 1 ELSE 2
TimesHeld(e) == IF central[e] = <<>> THEN 0 ELSE IF central[e][1][e[2]] = "first" THEN 1 ELSE 2
Promise == INSTANCE AuditDelivery WITH recorded <- [e \in Events |-> Times(e)],
                                       held <- [e \in Events |-> TimesHeld(e)]
ImplementsDelivery == Promise!ASafety
EventuallyDelivered == Promise!Delivered
=============================================================================
