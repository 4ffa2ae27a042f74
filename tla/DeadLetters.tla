----------------------------- MODULE DeadLetters -----------------------------
(***************************************************************************)
(* The packets that central cannot store: they are answered with 200, so   *)
(* that they leave the node's queue, and are kept as dead letters, which   *)
(* an administrator replays when central has been mended, or discards.     *)
(* server/central/store.js (ingestBatch, replayDeadLetters,                *)
(* discardDeadLetters) and its caller server/usageShipper.js.  Shipments   *)
(* are of one event: the first is the event, the later ones correct it.    *)
(***************************************************************************)
EXTENDS Integers, Sequences, FiniteSets

CONSTANTS
  Shipments,   \* a row of the node's outbox each, by number
  Admins,
  BatchSize,
  MaxBuild,    \* bound: builds of central
  MaxLost,     \* bound: requests that are given up
  MaxReplays   \* bound

ASSUME DeadLettersAssumption ==
  /\ Shipments \subseteq Nat \ {0} /\ IsFiniteSet(Shipments)
  /\ {BatchSize, MaxBuild} \subseteq Nat \ {0} /\ {MaxLost, MaxReplays} \subseteq Nat

VARIABLES
  needs,    \* the build of central from which each can be stored
  build,    \* central's
  recorded, \* so far
  queue,    \* the node's outbox
  batch,    \* in flight, for which the node waits
  stored,   \* central has answered it
  late,     \* given up, but central may still get them
  claimed,  \* the ledger of shipments
  copies,   \* central's rows of the event: the shipment whose content each has
  letters,  \* dead letters: [some shipments -> status]
  replays,  \* what each administrator has under way
  lost, replayed

deadVars ==
  <<needs, build, recorded, queue, batch, stored, late, claimed, copies, letters, replays, lost, replayed>>

First == CHOOSE s \in Shipments : \A t \in Shipments : s <= t
NoReplay == [letter |-> 0, step |-> "none"]
Statuses == {"quarantined", "replayed", "discarded"}

DeadInit ==
  /\ needs \in [Shipments -> 1 .. MaxBuild + 1] /\ build = 1
  /\ recorded = {} /\ queue = {} /\ batch = {} /\ stored = FALSE /\ late = {}
  /\ claimed = {} /\ copies = <<>> /\ letters = <<>>
  /\ replays = [a \in Admins |-> NoReplay]
  /\ lost = 0 /\ replayed = 0

-----------------------------------------------------------------------------
(* Central: a batch is one transaction                                     *)

Storable(s) == needs[s] <= build

Fresh(packets) == {s \in packets : Storable(s) /\ s \notin claimed}

(* The event is inserted; a correction updates the rows that are there, or *)
(* is inserted when there is none.                                         *)
StoredCopies(packets) ==
  LET fresh == Fresh(packets)
      newest == CHOOSE s \in fresh : \A t \in fresh : t <= s
      later == fresh \ {First}
      before == IF First \in fresh \/ copies = <<>> THEN Append(copies, First) ELSE copies
  IN  IF fresh = {} THEN copies ELSE IF later = {} THEN before ELSE [i \in DOMAIN before |-> newest]

(* Mutant: what cannot be stored is counted, and that is all.              *)
QuarantineNothing(packets) == letters

(* A letter that is there already stays as it is, whatever its status.     *)
Quarantine(packets) ==
  [s \in DOMAIN letters \cup {t \in packets : ~Storable(t)} |->
     IF s \in DOMAIN letters THEN letters[s] ELSE "quarantined"]

IngestPackets(packets) ==
  /\ copies' = StoredCopies(packets)
  /\ claimed' = claimed \cup Fresh(packets)
  /\ letters' = Quarantine(packets)

(* A release in which something is mended.                                 *)
UpgradeCentral ==
  /\ build < MaxBuild
  /\ build' = build + 1
  /\ UNCHANGED <<needs, recorded, queue, batch, stored, late, claimed, copies, letters, replays, lost, replayed>>

-----------------------------------------------------------------------------
(* The node                                                                *)

(* The event is recorded, or corrected.                                    *)
RecordNext ==
  /\ \E s \in Shipments \ recorded :
       /\ \A t \in Shipments : t < s => t \in recorded
       /\ recorded' = recorded \cup {s} /\ queue' = queue \cup {s}
  /\ UNCHANGED <<needs, build, batch, stored, late, claimed, copies, letters, replays, lost, replayed>>

OldestQueued == {s \in queue : Cardinality({t \in queue : t < s}) < BatchSize}

ShipOldest ==
  /\ batch = {} /\ queue # {}
  /\ batch' = OldestQueued /\ stored' = FALSE
  /\ UNCHANGED <<needs, build, recorded, queue, late, claimed, copies, letters, replays, lost, replayed>>

IngestSent ==
  /\ batch # {} /\ ~stored
  /\ IngestPackets(batch)
  /\ stored' = TRUE
  /\ UNCHANGED <<needs, build, recorded, queue, batch, late, replays, lost, replayed>>

(* Every row of the batch is deleted, the unstorable ones among them.      *)
AckAll ==
  /\ stored
  /\ queue' = queue \ batch
  /\ batch' = {} /\ stored' = FALSE
  /\ UNCHANGED <<needs, build, recorded, late, claimed, copies, letters, replays, lost, replayed>>

GiveUp ==
  /\ batch # {} /\ lost < MaxLost
  /\ lost' = lost + 1
  /\ late' = IF stored THEN late ELSE late \cup {batch}
  /\ batch' = {} /\ stored' = FALSE
  /\ UNCHANGED <<needs, build, recorded, queue, claimed, copies, letters, replays, replayed>>

IngestLate(packets) ==
  /\ packets \in late
  /\ late' = late \ {packets}
  /\ IngestPackets(packets)
  /\ UNCHANGED <<needs, build, recorded, queue, batch, stored, replays, lost, replayed>>

-----------------------------------------------------------------------------
(* Administrators: read the row, ingest it, write the outcome, each by     *)
(* itself                                                                  *)

FindLetter(a, s) ==
  /\ replays[a] = NoReplay /\ s \in DOMAIN letters /\ replayed < MaxReplays
  /\ replays' = [replays EXCEPT ![a] = [letter |-> s, step |-> "found"]]
  /\ replayed' = replayed + 1
  /\ UNCHANGED <<needs, build, recorded, queue, batch, stored, late, claimed, copies, letters, lost>>

ReplayLetter(a) ==
  /\ replays[a].step = "found"
  /\ IngestPackets({replays[a].letter})
  /\ replays' = [replays EXCEPT ![a].step = IF Storable(replays[a].letter) THEN "stored" ELSE "refused"]
  /\ UNCHANGED <<needs, build, recorded, queue, batch, stored, late, lost, replayed>>

MarkReplayed(a) ==
  /\ replays[a].step \in {"stored", "refused"}
  /\ letters' = IF replays[a].step = "stored" THEN [letters EXCEPT ![replays[a].letter] = "replayed"] ELSE letters
  /\ replays' = [replays EXCEPT ![a] = NoReplay]
  /\ UNCHANGED <<needs, build, recorded, queue, batch, stored, late, claimed, copies, lost, replayed>>

(* Central dies; the request is over wherever it was.                      *)
LoseReplay(a) ==
  /\ replays[a] # NoReplay
  /\ replays' = [replays EXCEPT ![a] = NoReplay]
  /\ UNCHANGED <<needs, build, recorded, queue, batch, stored, late, claimed, copies, letters, lost, replayed>>

DiscardLetter(s) ==
  /\ s \in DOMAIN letters /\ letters[s] # "discarded"
  /\ letters' = [letters EXCEPT ![s] = "discarded"]
  /\ UNCHANGED <<needs, build, recorded, queue, batch, stored, late, claimed, copies, replays, lost, replayed>>

Ship == ShipOldest \/ IngestSent \/ AckAll

Administer(a) ==
  ReplayLetter(a) \/ MarkReplayed(a) \/ LoseReplay(a) \/ \E s \in Shipments : FindLetter(a, s)

DeadNext ==
  \/ RecordNext \/ Ship \/ GiveUp \/ UpgradeCentral
  \/ \E packets \in late : IngestLate(packets)
  \/ \E a \in Admins : Administer(a)
  \/ \E s \in Shipments : DiscardLetter(s)

DeadSpec == DeadInit /\ [][DeadNext]_deadVars

-----------------------------------------------------------------------------
(* Properties *)

DeadTypeOK ==
  /\ needs \in [Shipments -> 1 .. MaxBuild + 1] /\ build \in 1 .. MaxBuild
  /\ batch \subseteq queue /\ queue \subseteq recorded /\ recorded \subseteq Shipments /\ stored \in BOOLEAN
  /\ late \subseteq SUBSET Shipments
  /\ claimed \subseteq Shipments /\ \A i \in DOMAIN copies : copies[i] \in claimed
  /\ DOMAIN letters \subseteq Shipments /\ \A s \in DOMAIN letters : letters[s] \in Statuses
  /\ \A a \in Admins : replays[a] = NoReplay \/ replays[a].letter \in DOMAIN letters

(* "a batch that commits loses nothing" (central/store.js): what has left  *)
(* the node's queue is in the ledger or among the dead letters, whatever   *)
(* was refused, sent twice, discarded or replayed beside it.              *)
AckedIsKept == \A s \in recorded \ queue : s \in claimed \cup DOMAIN letters

(* A letter is called replayed only when its packet is stored, however     *)
(* replays, discards and redeliveries of it overlap.                       *)
ReplayedIsStored == \A s \in DOMAIN letters : letters[s] = "replayed" => s \in claimed

(* The event has a second row only when it was a dead letter itself, and   *)
(* was stored after one of its corrections; never a third.                 *)
SecondRowWasLetter == Len(copies) > 1 => First \in DOMAIN letters /\ Len(copies) = 2

(* Refuted (README, section 5).                                            *)
(* What central says of the event is never replaced by what is older.      *)
ContentForward == [][\A i \in DOMAIN copies : copies'[i] >= copies[i]]_deadVars
=============================================================================
