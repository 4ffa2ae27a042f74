------------------------------ MODULE RecordedProofs ----------------------------
(***************************************************************************)
(* What becomes of the calls that were recorded, whoever stops, dies or    *)
(* loses an answer.  Nothing leaves the node's queue unless central has it;*)
(* an alert is made of every burst, and is at central when the node takes  *)
(* it as delivered; central has the evidence that a node's mark has passed;*)
(* and nobody's hooks are rewired against his word.                        *)
(***************************************************************************)
EXTENDS UsageStreamMC, UsageStreamProofs

(* Dead letters *)

Kept == claimed \cup DOMAIN letters

(* Where shipments are, and what a replay has found out.                   *)
PlacesInv ==
  /\ recorded \subseteq Shipments /\ queue \subseteq recorded /\ batch \subseteq queue
  /\ claimed \subseteq recorded /\ DOMAIN letters \subseteq recorded
  /\ \A packets \in late : packets \subseteq recorded
  /\ replays = [a \in Admins |-> replays[a]]
  /\ \A a \in Admins : replays[a].step \in {"found", "stored", "refused"} => replays[a].letter \in DOMAIN letters
  /\ \A a \in Admins : replays[a].step = "stored" => replays[a].letter \in claimed
  /\ ReplayedIsStored

KeptInv ==
  /\ AckedIsKept
  /\ stored => batch \subseteq Kept

(* The event comes before its corrections: shipments are recorded and sent *)
(* in their order, so that whatever central has got of them, it has got the*)
(* first.                                                                  *)
FirstInv ==
  /\ recorded # {} => First \in recorded
  /\ Kept # {} => First \in Kept
  /\ batch # {} => First \in batch \cup Kept
  /\ \A packets \in late : First \in packets \cup Kept

RowsInv ==
  /\ copies \in Seq(Shipments) /\ (copies # <<>> => claimed # {})
  /\ Len(copies) <= 1 \/ (Len(copies) = 2 /\ First \in claimed /\ First \in DOMAIN letters)

DeadInv == PlacesInv /\ KeptInv /\ FirstInv /\ RowsInv

(* The event itself has the least number.                                  *)
LEMMA FirstIs == ASSUME Shipments # {} PROVE First \in Shipments /\ \A t \in Shipments : First <= t
<1>1. Shipments \in SUBSET Nat
  BY DeadLettersAssumption
<1>2. \E s \in Shipments : \A t \in Shipments : s <= t
  BY <1>1, LeastOfNats
<1> QED BY <1>2 DEF First

(* At the start.                                                           *)
LEMMA DeadInitInv == DeadInit => DeadInv
<1> SUFFICES ASSUME DeadInit PROVE DeadInv
  OBVIOUS
<1>1. /\ claimed = {} /\ DOMAIN letters = {} /\ recorded = {} /\ queue = {} /\ batch = {} /\ late = {}
      /\ ~stored /\ copies = <<>> /\ replays = [a \in Admins |-> NoReplay]
  BY DEF DeadInit
<1>2. PlacesInv
  BY <1>1 DEF PlacesInv, ReplayedIsStored, NoReplay
<1>3. KeptInv /\ FirstInv
  BY <1>1 DEF KeptInv, FirstInv, AckedIsKept, Kept
<1>4. RowsInv
  BY <1>1 DEF RowsInv
<1> QED BY <1>2, <1>3, <1>4 DEF DeadInv

-----------------------------------------------------------------------------
(* Central                                                                 *)

(* What a transaction does to ledger and letters: every packet is in one   *)
(* or the other, and a letter that was there stays as it was.              *)
LEMMA IngestKeeps ==
  ASSUME NEW packets, IngestPackets(packets)
  PROVE  /\ Kept' = Kept \cup packets
         /\ claimed' = claimed \cup Fresh(packets) /\ Fresh(packets) \subseteq packets \ claimed
         /\ DOMAIN letters \subseteq DOMAIN letters' /\ DOMAIN letters' \subseteq DOMAIN letters \cup packets
         /\ \A s \in DOMAIN letters' : letters'[s] = "quarantined" \/ (s \in DOMAIN letters /\ letters'[s] = letters[s])
         /\ \A s \in packets : Storable(s) => s \in claimed'
  BY DEF IngestPackets, Quarantine, Fresh, Kept

(* The rows it leaves.                                                     *)
LEMMA IngestRows ==
  ASSUME PlacesInv, FirstInv, RowsInv, NEW packets \in SUBSET recorded, IngestPackets(packets),
         packets # {} => First \in packets \cup Kept
  PROVE  RowsInv'
<1> DEFINE fresh == Fresh(packets)
           newest == CHOOSE s \in fresh : \A t \in fresh : t <= s
           before == IF First \in fresh \/ copies = <<>> THEN Append(copies, First) ELSE copies
<1>1. claimed' = claimed \cup fresh /\ fresh \subseteq packets \ claimed /\ DOMAIN letters \subseteq DOMAIN letters'
  BY IngestKeeps
<1>2. CASE fresh = {}
  <2>1. copies' = copies
    BY <1>2 DEF IngestPackets, StoredCopies
  <2> QED BY <1>1, <2>1 DEF RowsInv
<1>3. CASE fresh # {}
  <2>1. fresh \in SUBSET Nat /\ IsFiniteSet(fresh) /\ fresh \subseteq Shipments
    BY <1>1, DeadLettersAssumption, FS_Subset DEF PlacesInv
  <2>2. newest \in Shipments
    <3>1. \E s \in fresh : \A t \in fresh : t <= s
      <4> HIDE DEF fresh
      <4> QED BY <1>3, <2>1, GreatestOfFinite
    <3> QED BY <2>1, <3>1
  <2>3. First \in Shipments
    BY <1>3, <2>1, FirstIs
  <2>4. copies' = before \/ copies' = [i \in DOMAIN before |-> newest]
    BY <1>3 DEF IngestPackets, StoredCopies
  <2> HIDE DEF fresh, newest
  <2>5. before \in Seq(Shipments)
    BY <2>3 DEF RowsInv
  <2>6. copies' \in Seq(Shipments) /\ Len(copies') = Len(before)
    <3>1. CASE copies' = before
      BY <2>5, <3>1
    <3>2. CASE copies' = [i \in DOMAIN before |-> newest]
      <4> HIDE DEF before
      <4>1. DOMAIN before = 1 .. Len(before) /\ Len(before) \in Nat
        BY <2>5
      <4> QED BY <2>2, <3>2, <4>1
    <3> QED BY <2>4, <3>1, <3>2
  <2>7. \/ Len(before) <= 1
        \/ Len(before) = 2 /\ First \in claimed' /\ First \in DOMAIN letters'
    <3>1. CASE First \in fresh
      <4>1. First \notin claimed /\ First \in claimed' /\ Len(copies) <= 1
        BY <1>1, <3>1 DEF RowsInv
      <4>2. Len(before) = Len(copies) + 1 /\ Len(copies) \in Nat
        <5>1. before = Append(copies, First)
          BY <3>1
        <5>2. copies \in Seq(Shipments)
          BY DEF RowsInv
        <5> HIDE DEF before
        <5> QED BY <2>3, <5>1, <5>2
      <4>3. CASE copies = <<>>
        <5>1. Len(copies) = 0
          BY <4>3
        <5> HIDE DEF before
        <5> QED BY <4>2, <5>1
      <4>4. CASE copies # <<>>
        <5>1. First \in DOMAIN letters
          BY <4>1, <4>4 DEF RowsInv, FirstInv, Kept
        <5> QED BY <1>1, <4>1, <4>2, <5>1
      <4> QED BY <4>3, <4>4
    <3>2. CASE First \notin fresh /\ copies = <<>>
      <4>1. Len(before) = 1
        BY <2>3, <3>2
      <4> HIDE DEF before
      <4> QED BY <4>1
    <3>3. CASE First \notin fresh /\ copies # <<>>
      <4>1. before = copies
        BY <3>3
      <4> QED BY <1>1, <4>1 DEF RowsInv
    <3> QED BY <3>1, <3>2, <3>3
  <2>8. claimed' # {}
    BY <1>1, <1>3
  <2> HIDE DEF before
  <2> QED BY <2>6, <2>7, <2>8 DEF RowsInv
<1> QED BY <1>2, <1>3

(* A transaction of some of what was recorded, the rest of the state being *)
(* as it was.                                                              *)
LEMMA PacketStep ==
  ASSUME DeadInv, NEW packets \in SUBSET recorded, IngestPackets(packets),
         packets # {} => First \in packets \cup Kept,
         UNCHANGED <<recorded, queue, batch>>, replays' = [a \in Admins |-> replays'[a]], late' \subseteq late,
         stored' = stored \/ batch \subseteq packets,
         \A a \in Admins : \/ replays'[a] = replays[a]
                           \/ replays'[a].step = "stored" /\ replays[a].step = "found" /\ replays'[a].letter = replays[a].letter
                                /\ replays[a].letter \in packets /\ Storable(replays[a].letter)
                           \/ replays'[a].step = "refused" /\ replays[a].step = "found" /\ replays'[a].letter = replays[a].letter
  PROVE  DeadInv'
<1>1. /\ Kept' = Kept \cup packets
      /\ claimed' = claimed \cup Fresh(packets) /\ Fresh(packets) \subseteq packets \ claimed
      /\ DOMAIN letters \subseteq DOMAIN letters' /\ DOMAIN letters' \subseteq DOMAIN letters \cup packets
      /\ \A s \in DOMAIN letters' : letters'[s] = "quarantined" \/ (s \in DOMAIN letters /\ letters'[s] = letters[s])
      /\ \A s \in packets : Storable(s) => s \in claimed'
  BY IngestKeeps
<1>2. PlacesInv'
  <2>1. ReplayedIsStored'
    BY <1>1 DEF DeadInv, PlacesInv, ReplayedIsStored
  <2>2. /\ recorded' \subseteq Shipments /\ queue' \subseteq recorded' /\ batch' \subseteq queue'
        /\ claimed' \subseteq recorded' /\ DOMAIN letters' \subseteq recorded'
        /\ \A p \in late' : p \subseteq recorded'
        /\ replays' = [a \in Admins |-> replays'[a]]
    BY <1>1 DEF DeadInv, PlacesInv
  <2>3. ASSUME NEW a \in Admins
        PROVE  /\ replays'[a].step \in {"found", "stored", "refused"} => replays'[a].letter \in DOMAIN letters'
               /\ replays'[a].step = "stored" => replays'[a].letter \in claimed'
    BY <1>1 DEF DeadInv, PlacesInv
  <2> QED BY <2>1, <2>2, <2>3 DEF PlacesInv
<1>3. KeptInv'
  <2>1. AckedIsKept'
    BY <1>1 DEF DeadInv, KeptInv, AckedIsKept, Kept
  <2>2. stored' => batch' \subseteq Kept'
    BY <1>1 DEF DeadInv, KeptInv
  <2> QED BY <2>1, <2>2 DEF KeptInv
<1>4. FirstInv'
  BY <1>1 DEF DeadInv, FirstInv
<1>5. RowsInv'
  BY IngestRows DEF DeadInv
<1> QED BY <1>2, <1>3, <1>4, <1>5 DEF DeadInv

-----------------------------------------------------------------------------
(* The node                                                                *)

(* Recorded in order: the first is there when any is.                      *)
LEMMA QueuesStep == ASSUME DeadInv, RecordNext PROVE DeadInv'
<1>1. PICK s \in Shipments \ recorded :
        /\ \A t \in Shipments : t < s => t \in recorded
        /\ recorded' = recorded \cup {s} /\ queue' = queue \cup {s}
  BY DEF RecordNext
<1>2. UNCHANGED <<batch, stored, late, claimed, copies, letters, replays>>
  BY DEF RecordNext
<1>3. First \in recorded'
  <2>1. First \in Shipments /\ First <= s
    BY <1>1, FirstIs
  <2>2. First \in Nat /\ s \in Nat
    BY <1>1, <2>1, DeadLettersAssumption
  <2> QED BY <1>1, <2>1, <2>2
<1>4. PlacesInv'
  BY <1>1, <1>2 DEF DeadInv, PlacesInv, ReplayedIsStored
<1>5. KeptInv' /\ FirstInv'
  BY <1>1, <1>2, <1>3 DEF DeadInv, KeptInv, FirstInv, AckedIsKept, Kept
<1>6. RowsInv'
  BY <1>2 DEF DeadInv, RowsInv
<1> QED BY <1>4, <1>5, <1>6 DEF DeadInv

(* A batch is of the oldest: what is first is in it, or has been taken.    *)
LEMMA ShipStep == ASSUME DeadInv, ShipOldest PROVE DeadInv'
<1>1. /\ queue # {} /\ batch' = OldestQueued /\ ~stored'
      /\ UNCHANGED <<recorded, queue, late, claimed, copies, letters, replays>>
  BY DEF ShipOldest
<1>2. OldestQueued \subseteq queue
  BY DEF OldestQueued
<1>3. First \in OldestQueued \cup Kept
  <2>1. First \in recorded
    BY <1>1 DEF DeadInv, PlacesInv, FirstInv
  <2>2. CASE First \in queue
    <3>1. ASSUME NEW t \in queue, t < First PROVE FALSE
      <4>1. t \in Shipments
        BY DEF DeadInv, PlacesInv
      <4>2. First <= t /\ First \in Nat /\ t \in Nat
        BY <4>1, FirstIs, DeadLettersAssumption
      <4> QED BY <3>1, <4>2
    <3>2. {t \in queue : t < First} = {}
      BY <3>1
    <3>3. Cardinality({t \in queue : t < First}) = 0
      BY <3>2, FS_EmptySet
    <3> QED BY <2>2, <3>3, DeadLettersAssumption DEF OldestQueued
  <2>3. CASE First \notin queue
    BY <2>1, <2>3 DEF DeadInv, KeptInv, AckedIsKept, Kept
  <2> QED BY <2>2, <2>3
<1> HIDE DEF OldestQueued
<1>4. PlacesInv'
  BY <1>1, <1>2 DEF DeadInv, PlacesInv, ReplayedIsStored
<1>5. KeptInv' /\ FirstInv'
  BY <1>1, <1>3 DEF DeadInv, KeptInv, FirstInv, AckedIsKept, Kept
<1>6. RowsInv'
  BY <1>1 DEF DeadInv, RowsInv
<1> QED BY <1>4, <1>5, <1>6 DEF DeadInv

(* Central takes the batch for which the node waits.                       *)
LEMMA SentStep == ASSUME DeadInv, IngestSent PROVE DeadInv'
<1>1. IngestPackets(batch) /\ UNCHANGED <<recorded, queue, batch, late, replays>>
  BY DEF IngestSent
<1>2. batch \in SUBSET recorded /\ (batch # {} => First \in batch \cup Kept)
  BY DEF DeadInv, PlacesInv, FirstInv
<1>3. replays' = [a \in Admins |-> replays'[a]]
  BY <1>1 DEF DeadInv, PlacesInv
<1> QED BY <1>1, <1>2, <1>3, PacketStep

(* What is deleted has been answered, and is kept.                         *)
LEMMA AckStep == ASSUME DeadInv, AckAll PROVE DeadInv'
<1>1. /\ stored /\ queue' = queue \ batch /\ batch' = {} /\ ~stored'
      /\ UNCHANGED <<recorded, late, claimed, copies, letters, replays>>
  BY DEF AckAll
<1>2. PlacesInv'
  BY <1>1 DEF DeadInv, PlacesInv, ReplayedIsStored
<1>3. KeptInv' /\ FirstInv'
  BY <1>1 DEF DeadInv, KeptInv, FirstInv, AckedIsKept, Kept
<1>4. RowsInv'
  BY <1>1 DEF DeadInv, RowsInv
<1> QED BY <1>2, <1>3, <1>4 DEF DeadInv

(* The node stops waiting; central may get the batch yet.                  *)
LEMMA GiveUpStep == ASSUME DeadInv, GiveUp PROVE DeadInv'
<1>1. /\ batch # {} /\ batch' = {} /\ ~stored' /\ late' \in SUBSET (late \cup {batch})
      /\ UNCHANGED <<recorded, queue, claimed, copies, letters, replays>>
  BY DEF GiveUp
<1>2. PlacesInv'
  BY <1>1 DEF DeadInv, PlacesInv, ReplayedIsStored
<1>3. KeptInv' /\ FirstInv'
  BY <1>1 DEF DeadInv, KeptInv, FirstInv, AckedIsKept, Kept
<1>4. RowsInv'
  BY <1>1 DEF DeadInv, RowsInv
<1> QED BY <1>2, <1>3, <1>4 DEF DeadInv

(* It gets it.                                                             *)
LEMMA LateStep == ASSUME DeadInv, NEW packets \in late, IngestLate(packets) PROVE DeadInv'
<1>1. /\ IngestPackets(packets) /\ late' \subseteq late /\ stored' = stored
      /\ UNCHANGED <<recorded, queue, batch, replays>>
  BY DEF IngestLate
<1>2. packets \in SUBSET recorded /\ First \in packets \cup Kept
  BY DEF DeadInv, PlacesInv, FirstInv
<1>3. replays' = [a \in Admins |-> replays'[a]]
  BY <1>1 DEF DeadInv, PlacesInv
<1> QED BY <1>1, <1>2, <1>3, PacketStep

-----------------------------------------------------------------------------
(* Administrators                                                          *)

(* Only letters' statuses and replays change: what is left to see of the   *)
(* invariant.                                                              *)
LEMMA LettersStay ==
  ASSUME DeadInv, UNCHANGED <<recorded, queue, batch, stored, late, claimed, copies>>,
         DOMAIN letters' = DOMAIN letters, replays' = [a \in Admins |-> replays'[a]],
         \A a \in Admins : \/ replays'[a] = replays[a] \/ replays'[a] = NoReplay
                           \/ replays'[a].step = "found" /\ replays'[a].letter \in DOMAIN letters,
         \A s \in DOMAIN letters : letters'[s] \in {letters[s], "discarded"} \/ s \in claimed
  PROVE  DeadInv'
<1>1. ReplayedIsStored'
  BY DEF DeadInv, PlacesInv, ReplayedIsStored
<1>2. ASSUME NEW a \in Admins
      PROVE  /\ replays'[a].step \in {"found", "stored", "refused"} => replays'[a].letter \in DOMAIN letters'
             /\ replays'[a].step = "stored" => replays'[a].letter \in claimed'
  BY DEF DeadInv, PlacesInv, NoReplay
<1>3. PlacesInv'
  BY <1>1, <1>2 DEF DeadInv, PlacesInv
<1>4. KeptInv' /\ FirstInv'
  BY DEF DeadInv, KeptInv, FirstInv, AckedIsKept, Kept
<1>5. RowsInv'
  BY DEF DeadInv, RowsInv
<1> QED BY <1>3, <1>4, <1>5 DEF DeadInv

(* A replay is an ingest of one packet; the letter is there, so central    *)
(* has the first.                                                          *)
LEMMA ReplayStep == ASSUME DeadInv, NEW a \in Admins, ReplayLetter(a) PROVE DeadInv'
<1> DEFINE letter == replays[a].letter
<1>1. /\ replays[a].step = "found" /\ IngestPackets({letter})
      /\ replays' = [replays EXCEPT ![a].step = IF Storable(letter) THEN "stored" ELSE "refused"]
      /\ UNCHANGED <<recorded, queue, batch, stored, late>>
  BY DEF ReplayLetter
<1>2. letter \in DOMAIN letters
  BY <1>1 DEF DeadInv, PlacesInv
<1>3. {letter} \in SUBSET recorded /\ First \in Kept
  BY <1>2 DEF DeadInv, PlacesInv, FirstInv, Kept
<1>4. replays = [b \in Admins |-> replays[b]]
  BY DEF DeadInv, PlacesInv
<1>5. replays' = [b \in Admins |-> replays'[b]] /\ \A b \in Admins \ {a} : replays'[b] = replays[b]
  BY <1>1, <1>4
<1>6. \/ replays'[a] = replays[a]
      \/ replays'[a].step = "stored" /\ replays'[a].letter = letter /\ Storable(letter)
      \/ replays'[a].step = "refused" /\ replays'[a].letter = letter
  <2>1. replays'[a] = [replays[a] EXCEPT !.step = IF Storable(letter) THEN "stored" ELSE "refused"]
    BY <1>1, <1>4
  <2> QED BY <2>1
<1>7. ASSUME NEW b \in Admins
      PROVE  \/ replays'[b] = replays[b]
             \/ replays'[b].step = "stored" /\ replays[b].step = "found" /\ replays'[b].letter = replays[b].letter
                  /\ replays[b].letter \in {letter} /\ Storable(replays[b].letter)
             \/ replays'[b].step = "refused" /\ replays[b].step = "found" /\ replays'[b].letter = replays[b].letter
  BY <1>1, <1>5, <1>6
<1> HIDE DEF letter
<1> QED BY <1>1, <1>3, <1>5, <1>7, PacketStep

(* Whatever an administrator does with a letter under replay.              *)
LEMMA AdministerStep == ASSUME DeadInv, NEW a \in Admins, Administer(a) PROVE DeadInv'
<1>1. replays = [b \in Admins |-> replays[b]]
  BY DEF DeadInv, PlacesInv
<1>2. CASE ReplayLetter(a)
  BY <1>2, ReplayStep
<1>3. CASE MarkReplayed(a)
  <2>1. /\ replays[a].step \in {"stored", "refused"} /\ replays' = [replays EXCEPT ![a] = NoReplay]
        /\ letters' = IF replays[a].step = "stored" THEN [letters EXCEPT ![replays[a].letter] = "replayed"] ELSE letters
        /\ UNCHANGED <<recorded, queue, batch, stored, late, claimed, copies>>
    BY <1>3 DEF MarkReplayed
  <2>2. replays' = [b \in Admins |-> replays'[b]] /\ \A b \in Admins : replays'[b] \in {replays[b], NoReplay}
    BY <1>1, <2>1
  <2>3. replays[a].step = "stored" => replays[a].letter \in claimed
    BY DEF DeadInv, PlacesInv
  <2>4. /\ DOMAIN letters' = DOMAIN letters
        /\ \A s \in DOMAIN letters : letters'[s] \in {letters[s], "discarded"} \/ s \in claimed
    BY <2>1, <2>3
  <2> QED BY <2>1, <2>2, <2>4, LettersStay
<1>4. CASE LoseReplay(a)
  <2>1. /\ replays' = [replays EXCEPT ![a] = NoReplay]
        /\ UNCHANGED <<recorded, queue, batch, stored, late, claimed, copies, letters>>
    BY <1>4 DEF LoseReplay
  <2>2. replays' = [b \in Admins |-> replays'[b]] /\ \A b \in Admins : replays'[b] \in {replays[b], NoReplay}
    BY <1>1, <2>1
  <2> QED BY <2>1, <2>2, LettersStay
<1>5. CASE \E s \in Shipments : FindLetter(a, s)
  <2>1. PICK s \in DOMAIN letters : replays' = [replays EXCEPT ![a] = [letter |-> s, step |-> "found"]]
    BY <1>5 DEF FindLetter
  <2>2. UNCHANGED <<recorded, queue, batch, stored, late, claimed, copies, letters>>
    BY <1>5 DEF FindLetter
  <2>3. replays' = [b \in Admins |-> replays'[b]]
    BY <1>1, <2>1
  <2>4. \A b \in Admins : replays'[b] = replays[b] \/ (replays'[b].step = "found" /\ replays'[b].letter \in DOMAIN letters)
    BY <1>1, <2>1
  <2> QED BY <2>2, <2>3, <2>4, LettersStay
<1> QED BY <1>2, <1>3, <1>4, <1>5 DEF Administer

(* A letter is discarded, which is no claim that it was stored.            *)
LEMMA DiscardStep == ASSUME DeadInv, NEW s \in Shipments, DiscardLetter(s) PROVE DeadInv'
<1>1. /\ letters' = [letters EXCEPT ![s] = "discarded"]
      /\ UNCHANGED <<recorded, queue, batch, stored, late, claimed, copies, replays>>
  BY DEF DiscardLetter
<1>2. replays' = [a \in Admins |-> replays'[a]]
  BY <1>1 DEF DeadInv, PlacesInv
<1>3. DOMAIN letters' = DOMAIN letters /\ \A t \in DOMAIN letters : letters'[t] \in {letters[t], "discarded"}
  BY <1>1
<1> QED BY <1>1, <1>2, <1>3, LettersStay

-----------------------------------------------------------------------------
(* Theorems                                                                *)

(* Every step keeps the invariant.                                         *)
LEMMA DeadStep == DeadInv /\ [DeadNext]_deadVars => DeadInv'
<1> SUFFICES ASSUME DeadInv, [DeadNext]_deadVars PROVE DeadInv'
  OBVIOUS
<1>1. CASE RecordNext
  BY <1>1, QueuesStep
<1>2. CASE Ship
  BY <1>2, ShipStep, SentStep, AckStep DEF Ship
<1>3. CASE GiveUp
  BY <1>3, GiveUpStep
<1>4. CASE UpgradeCentral \/ UNCHANGED deadVars
  <2>1. UNCHANGED <<recorded, queue, batch, stored, late, claimed, copies, letters, replays>>
    BY <1>4 DEF UpgradeCentral, deadVars
  <2>2. replays' = [a \in Admins |-> replays'[a]]
    BY <2>1 DEF DeadInv, PlacesInv
  <2> QED BY <2>1, <2>2, LettersStay
<1>5. CASE \E packets \in late : IngestLate(packets)
  BY <1>5, LateStep
<1>6. CASE \E a \in Admins : Administer(a)
  BY <1>6, AdministerStep
<1>7. CASE \E s \in Shipments : DiscardLetter(s)
  BY <1>7, DiscardStep
<1> QED BY <1>1, <1>2, <1>3, <1>4, <1>5, <1>6, <1>7 DEF DeadNext

(* The invariant holds throughout.                                         *)
LEMMA DeadAlways == DeadSpec => []DeadInv
<1>1. DeadInit => DeadInv
  BY DeadInitInv
<1>2. DeadInv /\ [DeadNext]_deadVars => DeadInv'
  BY DeadStep
<1> QED BY <1>1, <1>2, PTL DEF DeadSpec

(* What has left the node's queue is in central's ledger or among its dead *)
(* letters, for any batches, losses, late packets, builds and replays      *)
(* (central/store.js ingestBatch).                                         *)
THEOREM AckedNotLost == DeadSpec => []AckedIsKept
<1>1. DeadInv => AckedIsKept
  BY DEF DeadInv, KeptInv
<1> QED BY <1>1, DeadAlways, PTL

(* A letter marked replayed has been stored, though the mark is a write of *)
(* its own, after the ingest (central/store.js replayDeadLetters).         *)
THEOREM ReplaysAreStored == DeadSpec => []ReplayedIsStored
<1>1. DeadInv => ReplayedIsStored
  BY DEF DeadInv, PlacesInv
<1> QED BY <1>1, DeadAlways, PTL

(* An event has two rows at central only when it was a dead letter itself, *)
(* and never more.                                                         *)
THEOREM SecondRowsWereLetters == DeadSpec => []SecondRowWasLetter
<1>1. DeadInv => SecondRowWasLetter
  <2> SUFFICES ASSUME DeadInv, Len(copies) > 1 PROVE First \in DOMAIN letters /\ Len(copies) = 2
    BY DEF SecondRowWasLetter
  <2>1. Len(copies) \in Nat
    BY DEF DeadInv, RowsInv
  <2>2. ~(Len(copies) <= 1)
    BY <2>1
  <2> QED BY <2>2 DEF DeadInv, RowsInv
<1> QED BY <1>1, DeadAlways, PTL

-----------------------------------------------------------------------------
(* What the letters say, and what a row of the event is made of *)

Replay == [letter : Shipments, step : {"found", "stored", "refused"}]

LettersInv ==
  /\ needs \in [Shipments -> 1 .. MaxBuild + 1] /\ build \in 1 .. MaxBuild /\ stored \in BOOLEAN
  /\ \A i \in DOMAIN copies : copies[i] \in claimed
  /\ \A s \in DOMAIN letters : letters[s] \in Statuses
  /\ \A a \in Admins : replays[a] = NoReplay \/ replays[a] \in Replay

LEMMA LettersStart == DeadInit => LettersInv
<1> SUFFICES ASSUME DeadInit PROVE LettersInv
  OBVIOUS
<1>1. /\ needs \in [Shipments -> 1 .. MaxBuild + 1] /\ build = 1 /\ stored = FALSE
      /\ DOMAIN copies = {} /\ DOMAIN letters = {} /\ replays = [a \in Admins |-> NoReplay]
  BY DEF DeadInit
<1>2. build \in 1 .. MaxBuild
  BY <1>1, DeadLettersAssumption
<1> QED BY <1>1, <1>2 DEF LettersInv

(* A row is what it is made of a shipment that central has stored.         *)
LEMMA CopiesClaimed ==
  ASSUME DeadInv, LettersInv, NEW packets \in SUBSET recorded, IngestPackets(packets)
  PROVE  \A i \in DOMAIN copies' : copies'[i] \in claimed'
<1> DEFINE fresh == Fresh(packets)
           newest == CHOOSE s \in fresh : \A t \in fresh : t <= s
           before == IF First \in fresh \/ copies = <<>> THEN Append(copies, First) ELSE copies
<1>1. claimed' = claimed \cup fresh /\ fresh \subseteq packets
  BY IngestKeeps
<1>2. \A i \in DOMAIN copies : copies[i] \in claimed
  BY DEF LettersInv
<1>3. CASE fresh = {}
  BY <1>1, <1>2, <1>3 DEF IngestPackets, StoredCopies
<1>4. CASE fresh # {} /\ fresh \ {First} # {}
  <2>1. copies' = [i \in DOMAIN before |-> newest]
    BY <1>4 DEF IngestPackets, StoredCopies
  <2>2. newest \in fresh
    <3>1. fresh \in SUBSET Nat /\ IsFiniteSet(fresh)
      BY <1>1, DeadLettersAssumption, FS_Subset DEF DeadInv, PlacesInv
    <3>2. \E s \in fresh : \A t \in fresh : t <= s
      <4> HIDE DEF fresh
      <4> QED BY <1>4, <3>1, GreatestOfFinite
    <3> QED BY <3>2
  <2> HIDE DEF before, newest, fresh
  <2> QED BY <1>1, <2>1, <2>2
<1>5. CASE fresh # {} /\ fresh \ {First} = {}
  <2>1. copies' = Append(copies, First) /\ First \in fresh
    BY <1>5 DEF IngestPackets, StoredCopies
  <2>2. copies \in Seq(Shipments)
    BY DEF DeadInv, RowsInv
  <2>3. First \in Shipments
    BY <1>1, <2>1 DEF DeadInv, PlacesInv
  <2> HIDE DEF fresh
  <2>4. ASSUME NEW i \in DOMAIN copies' PROVE copies'[i] = First \/ (i \in DOMAIN copies /\ copies'[i] = copies[i])
    BY <2>1, <2>2, <2>3
  <2> QED BY <1>1, <1>2, <2>1, <2>4
<1> QED BY <1>3, <1>4, <1>5

LEMMA LettersIngest ==
  ASSUME DeadInv, LettersInv, NEW packets \in SUBSET recorded, IngestPackets(packets), UNCHANGED <<needs, build>>,
         stored' \in BOOLEAN,
         \A a \in Admins : replays'[a] = replays[a] \/ replays'[a] \in Replay
  PROVE  LettersInv'
<1>1. \A i \in DOMAIN copies' : copies'[i] \in claimed'
  BY CopiesClaimed
<1>2. \A s \in DOMAIN letters' : letters'[s] \in Statuses
  BY IngestKeeps DEF LettersInv, Statuses
<1> QED BY <1>1, <1>2 DEF LettersInv

LEMMA LettersStep == DeadInv /\ LettersInv /\ [DeadNext]_deadVars => LettersInv'
<1> SUFFICES ASSUME DeadInv, LettersInv, [DeadNext]_deadVars PROVE LettersInv'
  OBVIOUS
<1>1. ASSUME UNCHANGED <<needs, copies, claimed>>, build' \in 1 .. MaxBuild, stored' \in BOOLEAN,
             \A s \in DOMAIN letters' : letters'[s] \in Statuses,
             \A a \in Admins : \/ replays'[a] \in {replays[a], NoReplay}
                               \/ replays'[a] \in Replay
      PROVE  LettersInv'
  BY <1>1 DEF LettersInv
<1>2. build \in 1 .. MaxBuild /\ stored \in BOOLEAN /\ \A s \in DOMAIN letters : letters[s] \in Statuses
  BY DEF LettersInv
<1>3. CASE RecordNext \/ ShipOldest \/ AckAll \/ GiveUp \/ UNCHANGED deadVars
  BY <1>1, <1>2, <1>3 DEF RecordNext, ShipOldest, AckAll, GiveUp, deadVars
<1>4. CASE UpgradeCentral
  <2>1. build' \in 1 .. MaxBuild
    <3>1. build < MaxBuild /\ build' = build + 1
      BY <1>4 DEF UpgradeCentral
    <3> QED BY <1>2, <3>1, DeadLettersAssumption
  <2> QED BY <1>1, <1>2, <1>4, <2>1 DEF UpgradeCentral
<1>5. CASE IngestSent
  <2>1. batch \in SUBSET recorded
    BY DEF DeadInv, PlacesInv
  <2> QED BY <1>5, <2>1, LettersIngest DEF IngestSent
<1>6. ASSUME NEW packets \in late, IngestLate(packets) PROVE LettersInv'
  <2>1. packets \in SUBSET recorded
    BY DEF DeadInv, PlacesInv
  <2> QED BY <1>2, <1>6, <2>1, LettersIngest DEF IngestLate
<1>7. ASSUME NEW a \in Admins, Administer(a) PROVE LettersInv'
  <2>1. replays = [b \in Admins |-> replays[b]]
    BY DEF DeadInv, PlacesInv
  <2>2. CASE ReplayLetter(a)
    <3>1. /\ replays[a].step = "found" /\ IngestPackets({replays[a].letter})
          /\ \A b \in Admins \ {a} : replays'[b] = replays[b]
          /\ UNCHANGED <<needs, build, stored>>
      BY <2>1, <2>2 DEF ReplayLetter
    <3>2. {replays[a].letter} \in SUBSET recorded
      BY <3>1 DEF DeadInv, PlacesInv
    <3>3. replays'[a] \in Replay
      <4>1. replays' = [replays EXCEPT ![a] = [@ EXCEPT !.step = IF Storable(replays[a].letter) THEN "stored" ELSE "refused"]]
        BY <2>2 DEF ReplayLetter
      <4>2. replays'[a] = [replays[a] EXCEPT !.step = IF Storable(replays[a].letter) THEN "stored" ELSE "refused"]
        BY <2>1, <4>1
      <4>3. replays[a] \in Replay
        BY <3>1 DEF LettersInv, NoReplay
      <4> QED BY <4>2, <4>3 DEF Replay
    <3>4. \A b \in Admins : replays'[b] = replays[b] \/ replays'[b] \in Replay
      BY <3>1, <3>3
    <3> QED BY <1>2, <3>1, <3>2, <3>4, LettersIngest
  <2>3. CASE MarkReplayed(a)
    <3>1. \A b \in Admins : replays'[b] \in {replays[b], NoReplay}
      BY <2>1, <2>3 DEF MarkReplayed
    <3>2. letters' \in {letters, [letters EXCEPT ![replays[a].letter] = "replayed"]}
      BY <2>3 DEF MarkReplayed
    <3>3. \A s \in DOMAIN letters' : letters'[s] \in Statuses
      BY <1>2, <3>2 DEF Statuses
    <3> QED BY <1>1, <1>2, <2>3, <3>1, <3>3 DEF MarkReplayed
  <2>4. CASE LoseReplay(a)
    BY <1>1, <1>2, <2>1, <2>4 DEF LoseReplay
  <2>5. ASSUME NEW s \in Shipments, FindLetter(a, s) PROVE LettersInv'
    BY <1>1, <1>2, <2>1, <2>5 DEF FindLetter, Replay
  <2> QED BY <1>7, <2>2, <2>3, <2>4, <2>5 DEF Administer
<1>8. ASSUME NEW s \in Shipments, DiscardLetter(s) PROVE LettersInv'
  <2>1. letters' = [letters EXCEPT ![s] = "discarded"]
    BY <1>8 DEF DiscardLetter
  <2>2. \A t \in DOMAIN letters' : letters'[t] \in Statuses
    BY <1>2, <2>1 DEF Statuses
  <2> QED BY <1>1, <1>2, <1>8, <2>2 DEF DiscardLetter
<1> QED BY <1>3, <1>4, <1>5, <1>6, <1>7, <1>8 DEF DeadNext, Ship

LEMMA LettersTyped == DeadInv /\ LettersInv => DeadTypeOK
<1> SUFFICES ASSUME DeadInv, LettersInv PROVE DeadTypeOK
  OBVIOUS
<1>1. claimed \subseteq Shipments /\ DOMAIN letters \subseteq Shipments /\ late \subseteq SUBSET Shipments
  BY DEF DeadInv, PlacesInv
<1>2. \A a \in Admins : replays[a] = NoReplay \/ replays[a].letter \in DOMAIN letters
  BY DEF DeadInv, PlacesInv, LettersInv, Replay
<1> QED BY <1>1, <1>2 DEF DeadInv, PlacesInv, LettersInv, DeadTypeOK

-----------------------------------------------------------------------------
(* Alerts *)

(* The window of a moment closes within a stride after it.                 *)
LEMMA Buckets ==
  ASSUME NEW t \in Int
  PROVE  /\ windowFor(t) \in Int
         /\ windowFor(t) + Window - Stride <= t /\ t < windowFor(t) + Window
<1>1. Stride \in Nat \ {0} /\ Window \in Nat
  BY AlertsAssumption
<1> DEFINE q == t \div Stride
<1>2. q \in Int /\ t = Stride * q + (t % Stride) /\ t % Stride \in 0 .. Stride - 1
  BY <1>1
<1>3. windowFor(t) = (q + 1) * Stride - Window
  BY DEF windowFor
<1> HIDE DEF q
<1>4. (q + 1) * Stride = Stride * q + Stride
  BY <1>1, <1>2
<1>5. Stride * q \in Int
  BY <1>1, <1>2
<1> QED BY <1>1, <1>2, <1>3, <1>4, <1>5

OpenedAt(a) == a.window = windowFor(a.at)

AlertShapes ==
  /\ time \in Nat
  /\ seen \in [Nodes -> Seq(Int)] /\ came \in [Nodes -> Seq(Int)]
  /\ \A n \in Nodes : \A i \in 1 .. Len(seen[n]) : seen[n][i] <= time
  /\ nodeEngine = [n \in Nodes |-> nodeEngine[n]]
  /\ nodeAlerts \in [Nodes -> SUBSET [window : Int, at : Int, synced : BOOLEAN]]
  /\ \A n \in Nodes : \A a \in nodeAlerts[n] : OpenedAt(a)
  /\ post \in [Nodes -> [keys : SUBSET Int, left : SUBSET Int, step : {"none", "sent", "unheard"}]]
  /\ \A n \in Nodes : post[n].left \subseteq post[n].keys
  /\ \A n \in Nodes : \A w \in post[n].keys : \E a \in nodeAlerts[n] : a.window = w
  /\ rows \subseteq [scope : Scopes, window : Int, by : {"node", "central"}, at : Int, peer : BOOLEAN]
  /\ \A r \in rows : OpenedAt(r)
  /\ swept = Never \/ swept \in 0 .. time
  /\ sweep \in [at : Int, left : SUBSET Scopes, clear : SUBSET Scopes]
  /\ sweep.clear \subseteq sweep.left /\ (sweep = NoSweep \/ sweep.at = time)

(* What a post has dealt with is at central, or refused.                   *)
DealtWith ==
  \A n \in Nodes : \A w \in post[n].keys \ post[n].left : Keyed(n, w) # {} \/ <<n, w>> \in refused

(* A node that has nothing to evaluate has alerted of what reaches the     *)
(* threshold since any moment that a full window still covers.             *)
NodeInv ==
  Stride <= Cooldown => \A n \in Nodes : nodeEngine[n] = "idle" =>
    \A from \in Int : from >= time - (Window - Stride) /\ Cardinality({i \in 1 .. Len(seen[n]) : from <= seen[n][i]}) >= Threshold["node"] =>
      \E a \in nodeAlerts[n] : Recent(a.at, from)

Within(s, at) == {c \in RowsOf(came, s) : at - (Window - Stride) <= came[c[1]][c[2]] /\ came[c[1]][c[2]] < at}
CaughtBy(s, at) ==
  Stride <= Cooldown /\ Cardinality(Within(s, at)) >= ThresholdOf(s) => \E r \in rows : r.scope = s /\ Recent(r.at, at)

CentralInv ==
  \A s \in Scopes :
    /\ swept # Never => CaughtBy(s, swept)
    /\ sweep # NoSweep => s \in sweep.left \/ CaughtBy(s, sweep.at)

AlertsInv == AlertShapes /\ DealtWith /\ SyncedIsAtCentral /\ NodeInv /\ CentralInv

RowsGrow == \A r \in rows : \E q \in rows' : q.scope = r.scope /\ q.window = r.window /\ q.at = r.at
AlertsGrow == \A n \in Nodes : \A a \in nodeAlerts[n] : \E b \in nodeAlerts'[n] : b.window = a.window /\ b.at = a.at

(* Nothing is recorded yet.                                                *)
LEMMA AlertsStart ==
  AlertsInit => AlertsInv
<1> SUFFICES ASSUME AlertsInit PROVE AlertsInv
  OBVIOUS
<1>1. Never \in Int
  BY AlertsAssumption DEF Never
<1>2. AlertShapes
  BY <1>1 DEF AlertsInit, AlertShapes, NoPost, NoSweep
<1>3. DealtWith /\ SyncedIsAtCentral /\ NodeInv /\ CentralInv
  BY DEF AlertsInit, DealtWith, SyncedIsAtCentral, NodeInv, CentralInv, NoPost
<1> QED BY <1>2, <1>3 DEF AlertsInv

(* Counts of calls are over finite sets.                                   *)
LEMMA FiniteCalls ==
  ASSUME AlertShapes, NEW s \in Scopes
  PROVE  IsFiniteSet(RowsOf(came, s)) /\ \A n \in Nodes : IsFiniteSet(1 .. Len(seen[n]))
<1>1. IsFiniteSet(NodesOf(s)) /\ NodesOf(s) \subseteq Nodes
  <2>1. CASE s = Fleet
    BY <2>1, AlertsAssumption DEF NodesOf
  <2>2. CASE s # Fleet
    <3>1. IsFiniteSet({s})
      BY FS_Singleton
    <3> QED BY <2>2, <3>1 DEF NodesOf, Scopes
  <2> QED BY <2>1, <2>2
<1> DEFINE parts == {{n} \X DOMAIN came[n] : n \in NodesOf(s)}
<1>2. IsFiniteSet(parts)
  <2> DEFINE f == [n \in NodesOf(s) |-> {n} \X DOMAIN came[n]]
  <2>1. f \in Surjection(NodesOf(s), parts)
    BY DEF Surjection
  <2> QED BY <1>1, <2>1, FS_Surjection
<1>3. \A A \in parts : IsFiniteSet(A)
  <2>1. ASSUME NEW n \in NodesOf(s) PROVE IsFiniteSet({n} \X DOMAIN came[n])
    <3>1. Len(came[n]) \in Nat /\ DOMAIN came[n] = 1 .. Len(came[n])
      BY <1>1 DEF AlertShapes
    <3>2. IsFiniteSet(1 .. Len(came[n]))
      <4>1. 1 \in Int /\ Len(came[n]) \in Int
        BY <3>1
      <4> QED BY <4>1, FS_Interval
    <3>3. IsFiniteSet({n})
      BY FS_Singleton
    <3> QED BY <3>1, <3>2, <3>3, FS_Product
  <2> QED BY <2>1
<1>4. IsFiniteSet(UNION parts)
  <2> HIDE DEF parts
  <2> QED BY <1>2, <1>3, FS_UNION
<1>5. ASSUME NEW n \in Nodes PROVE IsFiniteSet(1 .. Len(seen[n]))
  <2>1. Len(seen[n]) \in Nat
    BY DEF AlertShapes
  <2> QED BY <2>1, FS_Interval
<1> QED BY <1>4, <1>5 DEF RowsOf

(* What central has caught stays caught while its rows do.                 *)
LEMMA CentralStays ==
  ASSUME AlertsInv, UNCHANGED <<came, sweep, swept>>, RowsGrow
  PROVE  CentralInv'
<1>1. ASSUME NEW s, NEW at, CaughtBy(s, at) PROVE CaughtBy(s, at)'
  BY <1>1 DEF CaughtBy, Within, RowsOf, RowsGrow, Recent
<1> QED BY <1>1 DEF AlertsInv, CentralInv, CaughtBy

(* And so on the nodes.                                                    *)
LEMMA NodesStay ==
  ASSUME AlertsInv, UNCHANGED <<time, seen>>, \A n \in Nodes : nodeEngine'[n] = "idle" => nodeEngine[n] = "idle", AlertsGrow
  PROVE  NodeInv'
<1>1. ASSUME NEW n \in Nodes, NEW from, \E a \in nodeAlerts[n] : Recent(a.at, from)
      PROVE  \E a \in nodeAlerts'[n] : Recent(a.at, from)
  <2>1. PICK a \in nodeAlerts[n] : Recent(a.at, from)
    BY <1>1
  <2>2. PICK b \in nodeAlerts'[n] : b.at = a.at
    BY DEF AlertsGrow
  <2> QED BY <2>1, <2>2
<1> QED BY <1>1 DEF AlertsInv, NodeInv

(* A step that keeps posts and alerts keeps what was dealt with.           *)
LEMMA DealtStays ==
  ASSUME AlertsInv, UNCHANGED <<post, nodeAlerts>>, RowsGrow, refused \subseteq refused'
  PROVE  DealtWith' /\ SyncedIsAtCentral'
<1>1. ASSUME NEW n \in Nodes, NEW w, Keyed(n, w) # {} PROVE Keyed(n, w)' # {}
  BY <1>1 DEF Keyed, RowsGrow
<1> QED BY <1>1 DEF AlertsInv, DealtWith, SyncedIsAtCentral

(* Whoever comes first with a key has the row, and both fell into one      *)
(* bucket of the stride.                                                   *)
LEMMA Upserts ==
  ASSUME AlertsInv, NEW scope \in Scopes, NEW w \in Int, NEW by \in {"node", "central"}, NEW at \in Int, w = windowFor(at),
         upsertAlert(scope, w, by, at)
  PROVE  /\ rows' \subseteq [scope : Scopes, window : Int, by : {"node", "central"}, at : Int, peer : BOOLEAN]
         /\ \A r \in rows' : OpenedAt(r)
         /\ RowsGrow
         /\ \E r \in rows' : r.scope = scope /\ r.window = w /\ at - r.at < Stride
<1> DEFINE Shape == [scope : Scopes, window : Int, by : {"node", "central"}, at : Int, peer : BOOLEAN]
           new == Row(scope, w, by, at)
<1>1. Stride \in Nat \ {0} /\ Window \in Nat
  BY AlertsAssumption
<1>2. rows \subseteq Shape /\ \A r \in rows : OpenedAt(r)
  BY DEF AlertsInv, AlertShapes
<1>3. new \in Shape /\ new.scope = scope /\ new.window = w /\ new.at = at /\ OpenedAt(new)
  BY DEF Row, OpenedAt
<1>4. CASE Keyed(scope, w) = {}
  <2>1. rows' = rows \cup {new}
    BY <1>4 DEF upsertAlert
  <2> HIDE DEF new
  <2>2. at - new.at < Stride
    BY <1>1, <1>3
  <2> QED BY <1>2, <1>3, <2>1, <2>2 DEF RowsGrow
<1>5. CASE Keyed(scope, w) # {}
  <2> DEFINE m(r) == IF r \in Keyed(scope, w) /\ r.by # by THEN [r EXCEPT !.peer = TRUE] ELSE r
  <2>1. rows' = {m(r) : r \in rows}
    BY <1>5 DEF upsertAlert
  <2>2. ASSUME NEW r \in rows
        PROVE  m(r) \in Shape /\ m(r).scope = r.scope /\ m(r).window = r.window /\ m(r).at = r.at /\ OpenedAt(m(r))
    BY <1>2, <2>2 DEF OpenedAt
  <2> HIDE DEF m
  <2>3. PICK r \in rows : r.scope = scope /\ r.window = w
    BY <1>5 DEF Keyed
  <2>4. at - r.at < Stride
    <3>1. r.at \in Int /\ r.window = windowFor(r.at)
      BY <1>2, <2>3 DEF OpenedAt
    <3>2. /\ windowFor(at) \in Int /\ at < windowFor(at) + Window
          /\ windowFor(r.at) + Window - Stride <= r.at
      BY <3>1, Buckets
    <3> QED BY <1>1, <2>3, <3>1, <3>2
  <2> QED BY <1>2, <2>1, <2>2, <2>3, <2>4 DEF RowsGrow
<1> QED BY <1>4, <1>5

(* A call that is recorded has an evaluation scheduled.                    *)
LEMMA Records ==
  ASSUME AlertsInv, NEW n \in Nodes, RecordCall(n)
  PROVE  AlertsInv'
<1>1. /\ seen' = [seen EXCEPT ![n] = Append(@, time)]
      /\ nodeEngine' = [nodeEngine EXCEPT ![n] = IF @ = "idle" THEN "scheduled" ELSE @]
      /\ UNCHANGED <<time, came, nodeAlerts, post, rows, refused, sweep, swept>>
  BY DEF RecordCall
<1>2. /\ time \in Nat /\ seen \in [Nodes -> Seq(Int)] /\ nodeEngine = [m \in Nodes |-> nodeEngine[m]]
      /\ \A m \in Nodes : \A i \in 1 .. Len(seen[m]) : seen[m][i] <= time
  BY DEF AlertsInv, AlertShapes
<1>3. seen' \in [Nodes -> Seq(Int)] /\ seen'[n] = Append(seen[n], time) /\ \A m \in Nodes \ {n} : seen'[m] = seen[m]
  BY <1>1, <1>2
<1>4. \A m \in Nodes : \A i \in 1 .. Len(seen'[m]) : seen'[m][i] <= time
  <2>1. seen[n] \in Seq(Int) /\ time \in Int /\ time <= time /\ \A i \in 1 .. Len(seen[n]) : seen[n][i] <= time
    BY <1>2
  <2>2. \A l \in Seq(Int), t \in Int : (\A i \in 1 .. Len(l) : l[i] <= t) => \A i \in 1 .. Len(Append(l, t)) : Append(l, t)[i] <= t
    OBVIOUS
  <2>3. \A i \in 1 .. Len(seen'[n]) : seen'[n][i] <= time
    BY <1>3, <2>1, <2>2
  <2> QED BY <1>2, <1>3, <2>3
<1>5. AlertShapes'
  BY <1>1, <1>2, <1>3, <1>4 DEF AlertsInv, AlertShapes, OpenedAt
<1>6. RowsGrow
  BY <1>1 DEF RowsGrow
<1>7. NodeInv'
  <2>1. ASSUME NEW m \in Nodes, nodeEngine'[m] = "idle" PROVE m # n /\ nodeEngine[m] = "idle" /\ seen'[m] = seen[m]
    BY <1>1, <1>2, <1>3, <2>1
  <2> QED BY <1>1, <2>1 DEF AlertsInv, NodeInv, Recent
<1> QED BY <1>1, <1>5, <1>6, <1>7, CentralStays, DealtStays DEF AlertsInv

(* A node that starts evaluates at once; its alerts are in its database.   *)
LEMMA StopsAndStarts ==
  ASSUME AlertsInv, NEW n \in Nodes, StopNode(n) \/ StartNode(n)
  PROVE  AlertsInv'
<1>1. /\ nodeEngine' = [nodeEngine EXCEPT ![n] = "down"] \/ nodeEngine' = [nodeEngine EXCEPT ![n] = "due"]
      /\ post' = [post EXCEPT ![n].step = IF @ = "sent" THEN "unheard" ELSE @] \/ post' = post
      /\ UNCHANGED <<time, seen, came, nodeAlerts, rows, refused, sweep, swept>>
  BY DEF StopNode, StartNode
<1>2. /\ nodeEngine = [m \in Nodes |-> nodeEngine[m]]
      /\ post \in [Nodes -> [keys : SUBSET Int, left : SUBSET Int, step : {"none", "sent", "unheard"}]]
  BY DEF AlertsInv, AlertShapes
<1>3. nodeEngine' = [m \in Nodes |-> nodeEngine'[m]] /\ \A m \in Nodes : nodeEngine'[m] = "idle" => nodeEngine[m] = "idle"
  BY <1>1, <1>2
<1>4. /\ post' \in [Nodes -> [keys : SUBSET Int, left : SUBSET Int, step : {"none", "sent", "unheard"}]]
      /\ \A m \in Nodes : post'[m].keys = post[m].keys /\ post'[m].left = post[m].left
  BY <1>1, <1>2
<1>5. AlertShapes'
  BY <1>1, <1>3, <1>4 DEF AlertsInv, AlertShapes, OpenedAt
<1>6. RowsGrow /\ AlertsGrow
  BY <1>1 DEF RowsGrow, AlertsGrow
<1>7. DealtWith' /\ SyncedIsAtCentral'
  BY <1>1, <1>4 DEF AlertsInv, DealtWith, SyncedIsAtCentral, Keyed
<1> QED BY <1>1, <1>3, <1>5, <1>6, <1>7, CentralStays, NodesStay DEF AlertsInv

(* Whatever counts since a moment that a full window covers is in the open *)
(* window, which is a breach then; and an alert of the same window was     *)
(* made a stride ago at most.                                              *)
LEMMA Evaluates ==
  ASSUME AlertsInv, NEW n \in Nodes, evaluateNow(n)
  PROVE  AlertsInv'
<1> DEFINE w == windowFor(time)
           new == [window |-> w, at |-> time, synced |-> FALSE]
           Shape == [window : Int, at : Int, synced : BOOLEAN]
<1>1. /\ nodeEngine' = [nodeEngine EXCEPT ![n] = "idle"]
      /\ IF Breach(n) /\ ~Cool(n) THEN recordAlert(n) ELSE UNCHANGED nodeAlerts
      /\ UNCHANGED <<time, seen, came, post, rows, refused, sweep, swept>>
  BY DEF evaluateNow
<1>2. /\ time \in Nat /\ seen \in [Nodes -> Seq(Int)] /\ nodeEngine = [m \in Nodes |-> nodeEngine[m]]
      /\ \A m \in Nodes : \A i \in 1 .. Len(seen[m]) : seen[m][i] <= time
      /\ nodeAlerts \in [Nodes -> SUBSET Shape] /\ \A m \in Nodes : \A a \in nodeAlerts[m] : OpenedAt(a)
  BY DEF AlertsInv, AlertShapes
<1>3. Stride \in Nat \ {0} /\ Window \in Nat /\ Cooldown \in Nat /\ Stride <= Window /\ Threshold["node"] \in Nat \ {0}
  BY AlertsAssumption
<1>4. w \in Int /\ w + Window - Stride <= time /\ time < w + Window
  BY <1>2, Buckets
<1>5. new \in Shape /\ new.window = w /\ new.at = time /\ OpenedAt(new) /\ new.synced = FALSE
  BY <1>2, <1>4 DEF OpenedAt
<1> HIDE DEF new
<1>6. nodeAlerts' = nodeAlerts \/ nodeAlerts' = [nodeAlerts EXCEPT ![n] = nodeAlerts[n] \cup {new}]
  BY <1>1, <1>2 DEF recordAlert, new
<1>7. /\ nodeAlerts' \in [Nodes -> SUBSET Shape]
      /\ \A m \in Nodes : nodeAlerts[m] \subseteq nodeAlerts'[m] /\ \A a \in nodeAlerts'[m] : a \in nodeAlerts[m] \/ a = new
  <2>1. CASE nodeAlerts' = nodeAlerts
    BY <1>2, <2>1
  <2>2. CASE nodeAlerts' = [nodeAlerts EXCEPT ![n] = nodeAlerts[n] \cup {new}]
    BY <1>2, <1>5, <2>2
  <2> QED BY <1>6, <2>1, <2>2
<1> HIDE DEF w
<1>8. AlertShapes'
  <2>1. nodeEngine' = [m \in Nodes |-> nodeEngine'[m]]
    BY <1>1, <1>2
  <2>2. \A m \in Nodes : \A a \in nodeAlerts'[m] : OpenedAt(a)
    BY <1>2, <1>5, <1>7
  <2>3. \A m \in Nodes : \A k \in post[m].keys : \E a \in nodeAlerts'[m] : a.window = k
    BY <1>7 DEF AlertsInv, AlertShapes
  <2> QED BY <1>1, <1>7, <2>1, <2>2, <2>3 DEF AlertsInv, AlertShapes, OpenedAt
<1>9. RowsGrow
  BY <1>1 DEF RowsGrow
<1>10. DealtWith' /\ SyncedIsAtCentral'
  BY <1>1, <1>5, <1>7 DEF AlertsInv, DealtWith, SyncedIsAtCentral, Keyed
<1>11. Stride <= Cooldown /\ Breach(n) => \E a \in nodeAlerts'[n] : a.at \in Int /\ time - a.at < Cooldown
  <2> SUFFICES ASSUME Stride <= Cooldown, Breach(n) PROVE \E a \in nodeAlerts'[n] : a.at \in Int /\ time - a.at < Cooldown
    OBVIOUS
  <2>1. CASE Cool(n)
    <3>1. PICK a \in nodeAlerts[n] : Recent(a.at, time)
      BY <2>1 DEF Cool
    <3> QED BY <1>2, <1>7, <3>1 DEF Recent
  <2>2. CASE ~Cool(n) /\ \E a \in nodeAlerts[n] : a.window = w
    <3>1. PICK a \in nodeAlerts[n] : a.window = w
      BY <2>2
    <3>2. a.at \in Int /\ a.window = windowFor(a.at)
      BY <1>2 DEF OpenedAt
    <3>3. windowFor(a.at) + Window - Stride <= a.at
      BY <3>2, Buckets
    <3> QED BY <1>2, <1>3, <1>4, <1>7, <3>1, <3>2, <3>3
  <2>3. CASE ~Cool(n) /\ ~ \E a \in nodeAlerts[n] : a.window = w
    <3>1. nodeAlerts' = [nodeAlerts EXCEPT ![n] = nodeAlerts[n] \cup {new}]
      BY <1>1, <1>2, <2>3 DEF recordAlert, new, w
    <3>2. new \in nodeAlerts'[n]
      BY <1>2, <3>1
    <3> QED BY <1>2, <1>3, <1>5, <3>2
  <2> QED BY <2>1, <2>2, <2>3
<1>12. NodeInv'
  <2>0. SUFFICES ASSUME Stride <= Cooldown
                 PROVE  \A m \in Nodes : nodeEngine'[m] = "idle" =>
                          \A from \in Int : from >= time' - (Window - Stride) /\ Cardinality({i \in 1 .. Len(seen'[m]) : from <= seen'[m][i]}) >= Threshold["node"] =>
                            \E a \in nodeAlerts'[m] : Recent(a.at, from)'
    BY DEF NodeInv
  <2>1. ASSUME NEW m \in Nodes, m # n, nodeEngine'[m] = "idle" PROVE nodeEngine[m] = "idle"
    BY <1>1, <1>2, <2>1
  <2>2. ASSUME NEW from \in Int, from >= time - (Window - Stride),
               Cardinality({i \in 1 .. Len(seen[n]) : from <= seen[n][i]}) >= Threshold["node"]
        PROVE  \E a \in nodeAlerts'[n] : Recent(a.at, from)
    <3> DEFINE D == {i \in 1 .. Len(seen[n]) : from <= seen[n][i]}
               E == {i \in 1 .. Len(seen[n]) : InWindow(seen[n][i], w)}
    <3>1. \A i \in 1 .. Len(seen[n]) : seen[n][i] \in Int /\ seen[n][i] <= time
      BY <1>2
    <3>2. D \subseteq E
      BY <1>2, <1>3, <1>4, <2>2, <3>1 DEF InWindow
    <3>3. IsFiniteSet(E)
      <4>1. IsFiniteSet(1 .. Len(seen[n]))
        BY FiniteCalls DEF AlertsInv, Scopes
      <4>2. E \subseteq 1 .. Len(seen[n])
        OBVIOUS
      <4> QED BY <4>1, <4>2, FS_Subset
    <3>4. Cardinality(D) <= Cardinality(E) /\ Cardinality(D) \in Nat /\ Cardinality(E) \in Nat
      BY <3>2, <3>3, FS_Subset, FS_CardinalityType
    <3>5. Breach(n)
      <4>1. Count(seen[n], windowFor(time)) = Cardinality(E)
        <5>1. DOMAIN seen[n] = 1 .. Len(seen[n])
          BY <1>2
        <5> QED BY <5>1, Zenon DEF Count, w
      <4>2. Cardinality(E) >= Threshold["node"]
        BY <1>3, <2>2, <3>4
      <4> QED BY <4>1, <4>2 DEF Breach
    <3>6. from <= time
      <4>1. D # {}
        <5>1. Cardinality(D) # 0
          BY <1>3, <2>2, <3>4
        <5> QED BY <5>1, FS_EmptySet
      <4> QED BY <1>2, <3>1, <4>1
    <3>7. PICK a \in nodeAlerts'[n] : a.at \in Int /\ time - a.at < Cooldown
      BY <1>11, <2>0, <3>5
    <3> QED BY <1>2, <1>3, <3>6, <3>7 DEF Recent
  <2>3. ASSUME NEW m \in Nodes, m # n, nodeEngine'[m] = "idle", NEW from \in Int, from >= time - (Window - Stride),
               Cardinality({i \in 1 .. Len(seen[m]) : from <= seen[m][i]}) >= Threshold["node"]
        PROVE  \E a \in nodeAlerts'[m] : Recent(a.at, from)
    BY <1>7, <2>0, <2>1, <2>3 DEF AlertsInv, NodeInv
  <2> QED BY <1>1, <2>2, <2>3 DEF NodeInv
<1> QED BY <1>1, <1>8, <1>9, <1>10, <1>12, CentralStays DEF AlertsInv

(* What central receives now is not before the last sweep.                 *)
LEMMA Arrives ==
  ASSUME AlertsInv, NEW n \in Nodes, ShipCall(n) \/ TrimCall(n)
  PROVE  AlertsInv'
<1>1. /\ came' = [came EXCEPT ![n] = Append(came[n], time)] \/ came' = [came EXCEPT ![n] = Append(came[n], Never)]
      /\ UNCHANGED <<time, seen, nodeEngine, nodeAlerts, post, rows, refused, sweep, swept>>
  BY DEF ShipCall, TrimCall
<1>2. /\ time \in Nat /\ came \in [Nodes -> Seq(Int)]
      /\ swept = Never \/ swept \in 0 .. time
      /\ sweep = NoSweep \/ sweep.at = time
  BY DEF AlertsInv, AlertShapes
<1>3. Window \in Nat /\ Stride \in Nat /\ Stride <= Window /\ Never = -(Window + 1) /\ Never \in Int
  BY AlertsAssumption DEF Never
<1>4. PICK x \in {time, Never} : came' = [came EXCEPT ![n] = Append(came[n], x)]
  BY <1>1
<1>5. /\ came' \in [Nodes -> Seq(Int)] /\ came'[n] = Append(came[n], x)
      /\ \A m \in Nodes \ {n} : came'[m] = came[m]
  BY <1>2, <1>3, <1>4
<1>6. AlertShapes'
  BY <1>1, <1>5 DEF AlertsInv, AlertShapes, OpenedAt
<1>7. RowsGrow /\ AlertsGrow
  BY <1>1 DEF RowsGrow, AlertsGrow
<1>8. ASSUME NEW s \in Scopes, NEW at \in 0 .. time, CaughtBy(s, at) PROVE CaughtBy(s, at)'
  <2>1. Within(s, at)' \subseteq Within(s, at)
    <3> SUFFICES ASSUME NEW c \in Within(s, at)' PROVE c \in Within(s, at)
      OBVIOUS
    <3>1. c \in RowsOf(came', s) /\ at - (Window - Stride) <= came'[c[1]][c[2]] /\ came'[c[1]][c[2]] < at
      BY <1>1 DEF Within
    <3>2. PICK m \in NodesOf(s) : c \in {m} \X DOMAIN came'[m]
      BY <3>1 DEF RowsOf
    <3>3. PICK i \in DOMAIN came'[m] : c = <<m, i>>
      BY <3>2
    <3>4. m \in Nodes
      BY DEF NodesOf, Scopes
    <3>5. c[1] = m /\ c[2] = i
      BY <3>3
    <3>6. at - (Window - Stride) <= came'[m][i] /\ came'[m][i] < at
      BY <3>1, <3>5
    <3>7. ~(at - (Window - Stride) <= x /\ x < at)
      BY <1>2, <1>3
    <3>8. i \in DOMAIN came[m] /\ came'[m][i] = came[m][i]
      <4>1. CASE m = n
        <5>1. came[n] \in Seq(Int) /\ x \in Int
          BY <1>2, <1>3
        <5>2. i \in 1 .. Len(came[n]) + 1 /\ (i = Len(came[n]) + 1 => came'[n][i] = x)
              /\ (i \in 1 .. Len(came[n]) => came'[n][i] = came[n][i])
          BY <1>5, <4>1, <5>1
        <5>3. Len(came[n]) \in Nat /\ i # Len(came[n]) + 1
          BY <3>6, <3>7, <4>1, <5>1, <5>2
        <5>4. i \in 1 .. Len(came[n])
          BY <5>2, <5>3
        <5>5. DOMAIN came[n] = 1 .. Len(came[n])
          BY <5>1
        <5> QED BY <4>1, <5>2, <5>4, <5>5
      <4>2. CASE m # n
        BY <1>5, <3>4, <4>2
      <4> QED BY <4>1, <4>2
    <3>9. c \in RowsOf(came, s)
      BY <3>3, <3>8 DEF RowsOf
    <3> QED BY <3>5, <3>6, <3>8, <3>9 DEF Within
  <2>2. IsFiniteSet(Within(s, at))
    <3>1. IsFiniteSet(RowsOf(came, s))
      BY FiniteCalls DEF AlertsInv
    <3>2. Within(s, at) \subseteq RowsOf(came, s)
      BY DEF Within
    <3> QED BY <3>1, <3>2, FS_Subset
  <2>3. /\ Cardinality(Within(s, at)') <= Cardinality(Within(s, at))
        /\ Cardinality(Within(s, at)') \in Nat /\ Cardinality(Within(s, at)) \in Nat
    BY <2>1, <2>2, FS_Subset, FS_CardinalityType
  <2>4. ThresholdOf(s) \in Nat
    BY AlertsAssumption DEF ThresholdOf
  <2>5. Cardinality(Within(s, at)') >= ThresholdOf(s) => Cardinality(Within(s, at)) >= ThresholdOf(s)
    BY <2>3, <2>4
  <2> QED BY <1>1, <1>8, <2>5 DEF CaughtBy, Recent
<1>9. CentralInv'
  <2>1. ASSUME sweep # NoSweep PROVE sweep.at \in 0 .. time
    BY <1>2, <2>1
  <2>2. ASSUME NEW s \in Scopes, swept' # Never PROVE CaughtBy(s, swept)'
    <3>1. swept \in 0 .. time /\ CaughtBy(s, swept) /\ swept' = swept
      BY <1>1, <1>2, <2>2 DEF AlertsInv, CentralInv
    <3>2. \A at : at = swept => CaughtBy(s, at)'
      BY <1>8, <3>1
    <3> QED BY <3>1, <3>2 DEF CaughtBy, Within
  <2>3. ASSUME NEW s \in Scopes, sweep' # NoSweep, s \notin sweep'.left PROVE CaughtBy(s, sweep.at)'
    <3>1. sweep.at \in 0 .. time /\ CaughtBy(s, sweep.at) /\ sweep' = sweep
      BY <1>1, <1>2, <2>3 DEF AlertsInv, CentralInv
    <3>2. \A at : at = sweep.at => CaughtBy(s, at)'
      BY <1>8, <3>1
    <3> QED BY <3>1, <3>2 DEF CaughtBy, Within
  <2> QED BY <2>2, <2>3 DEF CentralInv
<1> QED BY <1>1, <1>6, <1>7, <1>9, NodesStay, DealtStays DEF AlertsInv

(* Posts that are sent, given up and ended.                                *)
LEMMA Posts ==
  ASSUME AlertsInv, NEW n \in Nodes, shipAlertsNow(n) \/ LoseAnswer(n) \/ EndUnheard(n)
  PROVE  AlertsInv'
<1> DEFINE Shape == [keys : SUBSET Int, left : SUBSET Int, step : {"none", "sent", "unheard"}]
           pending == {a.window : a \in {b \in nodeAlerts[n] : ~b.synced}}
<1>1. /\ UNCHANGED <<time, seen, came, nodeEngine, nodeAlerts, rows, refused, sweep, swept>>
      /\ \/ post' = [post EXCEPT ![n] = [keys |-> pending, left |-> pending, step |-> "sent"]]
         \/ post' = [post EXCEPT ![n] = NoPost]
         \/ post' = [post EXCEPT ![n].step = "unheard"]
  BY DEF shipAlertsNow, LoseAnswer, EndUnheard
<1>2. /\ post \in [Nodes -> Shape]
      /\ nodeAlerts \in [Nodes -> SUBSET [window : Int, at : Int, synced : BOOLEAN]]
      /\ \A m \in Nodes : post[m].left \subseteq post[m].keys
      /\ \A m \in Nodes : \A w \in post[m].keys : \E a \in nodeAlerts[m] : a.window = w
  BY DEF AlertsInv, AlertShapes
<1>3. pending \in SUBSET Int /\ \A w \in pending : \E a \in nodeAlerts[n] : a.window = w
  BY <1>2
<1> HIDE DEF pending
<1>4. /\ post' \in [Nodes -> Shape] /\ \A m \in Nodes \ {n} : post'[m] = post[m]
      /\ \/ post'[n].keys = pending /\ post'[n].left = pending
         \/ post'[n].keys = {} /\ post'[n].left = {}
         \/ post'[n].keys = post[n].keys /\ post'[n].left = post[n].left
  <2>1. NoPost \in Shape /\ NoPost.keys = {} /\ NoPost.left = {}
    BY DEF NoPost
  <2>2. CASE post' = [post EXCEPT ![n] = [keys |-> pending, left |-> pending, step |-> "sent"]]
    BY <1>2, <1>3, <2>2
  <2>3. CASE post' = [post EXCEPT ![n] = NoPost]
    BY <1>2, <2>1, <2>3
  <2>4. CASE post' = [post EXCEPT ![n].step = "unheard"]
    BY <1>2, <2>4
  <2> QED BY <1>1, <2>2, <2>3, <2>4
<1>5. AlertShapes'
  <2>1. \A m \in Nodes : post'[m].left \subseteq post'[m].keys
    BY <1>2, <1>4
  <2>2. \A m \in Nodes : \A w \in post'[m].keys : \E a \in nodeAlerts[m] : a.window = w
    BY <1>2, <1>3, <1>4
  <2> QED BY <1>1, <1>4, <2>1, <2>2 DEF AlertsInv, AlertShapes, OpenedAt
<1>6. RowsGrow /\ AlertsGrow
  BY <1>1 DEF RowsGrow, AlertsGrow
<1>7. DealtWith' /\ SyncedIsAtCentral'
  <2>1. \A m \in Nodes : post'[m].keys \ post'[m].left \subseteq post[m].keys \ post[m].left
    BY <1>4
  <2> QED BY <1>1, <2>1 DEF AlertsInv, DealtWith, SyncedIsAtCentral, Keyed
<1> QED BY <1>1, <1>5, <1>6, <1>7, CentralStays, NodesStay DEF AlertsInv

(* Central has what it stores, or lists it.                                *)
LEMMA Ingests ==
  ASSUME AlertsInv, NEW n \in Nodes, NEW w \in post[n].left, ingestNodeAlerts(n, w) \/ RejectAlert(n, w)
  PROVE  AlertsInv'
<1> DEFINE Shape == [keys : SUBSET Int, left : SUBSET Int, step : {"none", "sent", "unheard"}]
<1>1. /\ UNCHANGED <<time, seen, came, nodeEngine, nodeAlerts, sweep, swept>>
      /\ post' = [post EXCEPT ![n].left = @ \ {w}]
      /\ \/ upsertAlert(n, w, "node", FiredAt(n, w)) /\ refused' = refused
         \/ refused' = refused \cup {<<n, w>>} /\ rows' = rows
  BY DEF ingestNodeAlerts, RejectAlert
<1>2. /\ post \in [Nodes -> Shape]
      /\ nodeAlerts \in [Nodes -> SUBSET [window : Int, at : Int, synced : BOOLEAN]]
      /\ \A m \in Nodes : \A a \in nodeAlerts[m] : OpenedAt(a)
      /\ \A m \in Nodes : post[m].left \subseteq post[m].keys
      /\ \A m \in Nodes : \A k \in post[m].keys : \E a \in nodeAlerts[m] : a.window = k
      /\ rows \subseteq [scope : Scopes, window : Int, by : {"node", "central"}, at : Int, peer : BOOLEAN]
      /\ \A r \in rows : OpenedAt(r)
  BY DEF AlertsInv, AlertShapes
<1>3. /\ post' \in [Nodes -> Shape] /\ \A m \in Nodes : post'[m].keys = post[m].keys
      /\ post'[n].left = post[n].left \ {w} /\ \A m \in Nodes \ {n} : post'[m].left = post[m].left
  BY <1>1, <1>2
<1>4. FiredAt(n, w) \in Int /\ w = windowFor(FiredAt(n, w)) /\ w \in Int /\ n \in Scopes
  <2>1. \E a \in nodeAlerts[n] : a.window = w
    BY <1>2
  <2>2. PICK a \in nodeAlerts[n] : a.window = w /\ a.at = FiredAt(n, w)
    BY <2>1 DEF FiredAt
  <2> QED BY <1>2, <2>2 DEF OpenedAt, Scopes
<1>5. /\ rows' \subseteq [scope : Scopes, window : Int, by : {"node", "central"}, at : Int, peer : BOOLEAN]
      /\ \A r \in rows' : OpenedAt(r)
      /\ RowsGrow
      /\ Keyed(n, w)' # {} \/ <<n, w>> \in refused'
  <2>1. CASE upsertAlert(n, w, "node", FiredAt(n, w))
    <3>1. /\ rows' \subseteq [scope : Scopes, window : Int, by : {"node", "central"}, at : Int, peer : BOOLEAN]
          /\ \A r \in rows' : OpenedAt(r)
          /\ RowsGrow
          /\ \E r \in rows' : r.scope = n /\ r.window = w
      BY <1>4, <2>1, Upserts
    <3> QED BY <3>1 DEF Keyed
  <2>2. CASE refused' = refused \cup {<<n, w>>} /\ rows' = rows
    BY <1>2, <2>2 DEF RowsGrow
  <2> QED BY <1>1, <2>1, <2>2
<1>6. AlertShapes'
  <2>1. \A m \in Nodes : post'[m].left \subseteq post'[m].keys
    BY <1>2, <1>3
  <2>2. \A m \in Nodes : \A k \in post'[m].keys : \E a \in nodeAlerts[m] : a.window = k
    BY <1>2, <1>3
  <2>3. /\ time \in Nat /\ seen \in [Nodes -> Seq(Int)] /\ came \in [Nodes -> Seq(Int)]
        /\ \A m \in Nodes : \A i \in 1 .. Len(seen[m]) : seen[m][i] <= time
        /\ nodeEngine = [m \in Nodes |-> nodeEngine[m]]
        /\ swept = Never \/ swept \in 0 .. time
        /\ sweep \in [at : Int, left : SUBSET Scopes, clear : SUBSET Scopes]
        /\ sweep.clear \subseteq sweep.left /\ (sweep = NoSweep \/ sweep.at = time)
    BY DEF AlertsInv, AlertShapes
  <2> HIDE DEF Shape
  <2> QED BY <1>1, <1>2, <1>3, <1>5, <2>1, <2>2, <2>3 DEF AlertShapes, OpenedAt, Shape
<1>7. DealtWith' /\ SyncedIsAtCentral'
  <2>1. refused \subseteq refused'
    BY <1>1
  <2>2. ASSUME NEW m, NEW k, Keyed(m, k) # {} PROVE Keyed(m, k)' # {}
    BY <1>5, <2>2 DEF Keyed, RowsGrow
  <2>3. SyncedIsAtCentral'
    BY <1>1, <2>1, <2>2 DEF AlertsInv, SyncedIsAtCentral
  <2>4. ASSUME NEW m \in Nodes, NEW k \in post'[m].keys \ post'[m].left PROVE Keyed(m, k)' # {} \/ <<m, k>> \in refused'
    <3>1. CASE k \in post[m].keys \ post[m].left
      BY <2>1, <2>2, <3>1 DEF AlertsInv, DealtWith
    <3>2. CASE m = n /\ k = w
      BY <1>5, <3>2
    <3> QED BY <1>3, <3>1, <3>2
  <2> QED BY <2>3, <2>4 DEF DealtWith
<1>8. AlertsGrow
  BY <1>1 DEF AlertsGrow
<1> QED BY <1>1, <1>5, <1>6, <1>7, <1>8, CentralStays, NodesStay DEF AlertsInv

(* What is marked was posted, and dealt with.                              *)
LEMMA Syncs ==
  ASSUME AlertsInv, NEW n \in Nodes, markAlertsSynced(n)
  PROVE  AlertsInv'
<1> DEFINE Shape == [window : Int, at : Int, synced : BOOLEAN]
           m(a) == [a EXCEPT !.synced = @ \/ a.window \in post[n].keys]
           marked == {m(a) : a \in nodeAlerts[n]}
<1>1. /\ UNCHANGED <<time, seen, came, nodeEngine, rows, refused, sweep, swept>>
      /\ post[n].left = {}
      /\ nodeAlerts' = [nodeAlerts EXCEPT ![n] = marked]
      /\ post' = [post EXCEPT ![n] = NoPost]
  BY DEF markAlertsSynced, Answered
<1>2. /\ nodeAlerts \in [Nodes -> SUBSET Shape]
      /\ \A k \in Nodes : \A a \in nodeAlerts[k] : OpenedAt(a)
      /\ post \in [Nodes -> [keys : SUBSET Int, left : SUBSET Int, step : {"none", "sent", "unheard"}]]
      /\ \A k \in Nodes : post[k].left \subseteq post[k].keys
      /\ \A k \in Nodes : \A w \in post[k].keys : \E a \in nodeAlerts[k] : a.window = w
  BY DEF AlertsInv, AlertShapes
<1>3. ASSUME NEW a \in nodeAlerts[n]
      PROVE  m(a) \in Shape /\ m(a).window = a.window /\ m(a).at = a.at /\ OpenedAt(m(a))
             /\ (m(a).synced => a.synced \/ a.window \in post[n].keys)
  <2>1. a \in Shape /\ OpenedAt(a)
    BY <1>2
  <2>2. m(a) = [window |-> a.window, at |-> a.at, synced |-> a.synced \/ a.window \in post[n].keys]
    BY <2>1
  <2>3. a.window \in Int /\ a.at \in Int /\ (a.synced \/ a.window \in post[n].keys) \in BOOLEAN
    BY <2>1
  <2>4. m(a) \in Shape /\ m(a).window = a.window /\ m(a).at = a.at
    BY <2>2, <2>3
  <2>5. m(a).synced => a.synced \/ a.window \in post[n].keys
    BY <2>2
  <2> HIDE DEF m
  <2> QED BY <2>1, <2>4, <2>5 DEF OpenedAt
<1> HIDE DEF m
<1>4. marked \in SUBSET Shape
  BY <1>3
<1>5. /\ nodeAlerts' \in [Nodes -> SUBSET Shape] /\ nodeAlerts'[n] = marked
      /\ \A k \in Nodes \ {n} : nodeAlerts'[k] = nodeAlerts[k]
  <2> HIDE DEF marked
  <2> QED BY <1>1, <1>2, <1>4
<1>6. NoPost.keys = {} /\ NoPost.left = {} /\ NoPost.step = "none"
      /\ NoPost \in [keys : SUBSET Int, left : SUBSET Int, step : {"none", "sent", "unheard"}]
  BY DEF NoPost
<1>7. /\ post' \in [Nodes -> [keys : SUBSET Int, left : SUBSET Int, step : {"none", "sent", "unheard"}]]
      /\ post'[n] = NoPost /\ \A k \in Nodes \ {n} : post'[k] = post[k]
  BY <1>1, <1>2, <1>6
<1>8. AlertShapes'
  <2>1. \A k \in Nodes : \A a \in nodeAlerts'[k] : OpenedAt(a)
    BY <1>2, <1>3, <1>5
  <2>2. \A k \in Nodes : post'[k].left \subseteq post'[k].keys
    BY <1>2, <1>6, <1>7
  <2>3. \A k \in Nodes : \A w \in post'[k].keys : \E a \in nodeAlerts'[k] : a.window = w
    BY <1>2, <1>5, <1>6, <1>7
  <2> QED BY <1>1, <1>5, <1>7, <2>1, <2>2, <2>3 DEF AlertsInv, AlertShapes, OpenedAt
<1>9. RowsGrow
  BY <1>1 DEF RowsGrow
<1>10. AlertsGrow
  <2>1. ASSUME NEW a \in nodeAlerts[n] PROVE \E b \in nodeAlerts'[n] : b.window = a.window /\ b.at = a.at
    BY <1>3, <1>5
  <2> QED BY <1>5, <2>1 DEF AlertsGrow
<1>11. DealtWith'
  BY <1>1, <1>6, <1>7 DEF AlertsInv, DealtWith, Keyed
<1>12. SyncedIsAtCentral'
  <2> SUFFICES ASSUME NEW k \in Nodes, NEW b \in nodeAlerts'[k], b.synced
               PROVE  Keyed(k, b.window) # {} \/ <<k, b.window>> \in refused
    BY <1>1 DEF SyncedIsAtCentral, Keyed
  <2>1. CASE k # n
    BY <1>5, <2>1 DEF AlertsInv, SyncedIsAtCentral
  <2>2. CASE k = n
    <3>1. PICK a \in nodeAlerts[n] : b = m(a)
      BY <1>5, <2>2
    <3>2. b.window = a.window /\ (a.synced \/ a.window \in post[n].keys)
      BY <1>3, <3>1
    <3>3. CASE a.synced
      BY <2>2, <3>2, <3>3 DEF AlertsInv, SyncedIsAtCentral
    <3>4. CASE a.window \in post[n].keys
      <4>1. a.window \in post[n].keys \ post[n].left
        BY <1>1, <3>4
      <4> QED BY <2>2, <3>2, <4>1 DEF AlertsInv, DealtWith
    <3> QED BY <3>2, <3>3, <3>4
  <2> QED BY <2>1, <2>2
<1> QED BY <1>1, <1>8, <1>9, <1>10, <1>11, <1>12, CentralStays, NodesStay DEF AlertsInv

(* A sweep looks at the window that holds what it is to catch.             *)
LEMMA Sweeps ==
  ASSUME AlertsInv, breachesFor
  PROVE  AlertsInv'
<1> DEFINE w == windowFor(time)
           found == {s \in Scopes : Arrived(s, w) >= ThresholdOf(s)}
<1>1. /\ UNCHANGED <<time, seen, came, nodeEngine, nodeAlerts, post, rows, refused>>
      /\ sweep = NoSweep
      /\ \/ found = {} /\ swept' = time /\ sweep' = sweep
         \/ found # {} /\ sweep' = [at |-> time, left |-> found, clear |-> {}] /\ swept' = swept
  BY DEF breachesFor
<1>2. time \in Nat /\ came \in [Nodes -> Seq(Int)] /\ (swept = Never \/ swept \in 0 .. time)
  BY DEF AlertsInv, AlertShapes
<1>3. Stride \in Nat \ {0} /\ Window \in Nat /\ Stride <= Window
  BY AlertsAssumption
<1>4. w \in Int /\ w + Window - Stride <= time /\ time < w + Window
  BY <1>2, Buckets
<1> HIDE DEF w
<1>5. ASSUME NEW s \in Scopes, s \notin found PROVE CaughtBy(s, time)
  <2> DEFINE E == {c \in RowsOf(came, s) : InWindow(came[c[1]][c[2]], w)}
  <2>1. Arrived(s, w) = Cardinality(E)
    BY DEF Arrived
  <2>2. ~(Cardinality(E) >= ThresholdOf(s))
    BY <1>5, <2>1
  <2>3. Within(s, time) \subseteq E
    <3> SUFFICES ASSUME NEW c \in Within(s, time) PROVE c \in E
      OBVIOUS
    <3>1. c \in RowsOf(came, s) /\ time - (Window - Stride) <= came[c[1]][c[2]] /\ came[c[1]][c[2]] < time
      BY DEF Within
    <3>2. came[c[1]][c[2]] \in Int
      <4>1. PICK m \in NodesOf(s) : c \in {m} \X DOMAIN came[m]
        BY <3>1 DEF RowsOf
      <4>2. m \in Nodes /\ c[1] = m /\ c[2] \in DOMAIN came[m]
        BY <4>1 DEF NodesOf, Scopes
      <4>3. \A l \in Seq(Int) : \A i \in DOMAIN l : l[i] \in Int
        OBVIOUS
      <4> QED BY <1>2, <4>2, <4>3
    <3>3. \A x \in Int : time - (Window - Stride) <= x /\ x < time => w <= x /\ x < w + Window
      BY <1>2, <1>3, <1>4
    <3> QED BY <3>1, <3>2, <3>3 DEF InWindow
  <2>4. IsFiniteSet(E)
    <3>1. IsFiniteSet(RowsOf(came, s))
      BY FiniteCalls DEF AlertsInv
    <3>2. E \subseteq RowsOf(came, s)
      OBVIOUS
    <3> QED BY <3>1, <3>2, FS_Subset
  <2> HIDE DEF E
  <2>5. Cardinality(Within(s, time)) <= Cardinality(E) /\ Cardinality(Within(s, time)) \in Nat /\ Cardinality(E) \in Nat
    BY <2>3, <2>4, FS_Subset, FS_CardinalityType
  <2>6. ThresholdOf(s) \in Nat
    BY AlertsAssumption DEF ThresholdOf
  <2>7. ~(Cardinality(Within(s, time)) >= ThresholdOf(s))
    BY <2>2, <2>5, <2>6
  <2> QED BY <2>7 DEF CaughtBy
<1>6. found \subseteq Scopes
  OBVIOUS
<1> HIDE DEF found
<1>7. AlertShapes'
  <2>1. swept' = Never \/ swept' \in 0 .. time
    BY <1>1, <1>2
  <2>2. /\ sweep' \in [at : Int, left : SUBSET Scopes, clear : SUBSET Scopes]
        /\ sweep'.clear \subseteq sweep'.left /\ (sweep' = NoSweep \/ sweep'.at = time)
    <3>1. CASE sweep' = sweep
      BY <1>1, <3>1 DEF AlertsInv, AlertShapes
    <3>2. CASE sweep' = [at |-> time, left |-> found, clear |-> {}]
      BY <1>2, <1>6, <3>2
    <3> QED BY <1>1, <3>1, <3>2
  <2> QED BY <1>1, <2>1, <2>2 DEF AlertsInv, AlertShapes, OpenedAt
<1>8. RowsGrow /\ AlertsGrow
  BY <1>1 DEF RowsGrow, AlertsGrow
<1>9. ASSUME NEW s, NEW at, CaughtBy(s, at) PROVE CaughtBy(s, at)'
  BY <1>1, <1>9 DEF CaughtBy, Within, RowsOf, Recent
<1>10. CentralInv'
  <2> SUFFICES ASSUME NEW s \in Scopes
               PROVE  /\ swept' # Never => CaughtBy(s, swept)'
                      /\ sweep' # NoSweep => s \in sweep'.left \/ CaughtBy(s, sweep.at)'
    BY DEF CentralInv
  <2>1. CASE found = {} /\ swept' = time /\ sweep' = sweep
    <3>1. \A at : at = time => CaughtBy(s, at)'
      BY <1>5, <1>9, <2>1
    <3> QED BY <1>1, <2>1, <3>1 DEF CaughtBy, Within
  <2>2. CASE sweep' = [at |-> time, left |-> found, clear |-> {}] /\ swept' = swept
    <3>1. swept # Never => CaughtBy(s, swept)
      BY DEF AlertsInv, CentralInv
    <3>2. \A at : at = swept /\ swept # Never => CaughtBy(s, at)'
      BY <1>9, <3>1
    <3>3. \A at : at = time /\ s \notin found => CaughtBy(s, at)'
      BY <1>5, <1>9
    <3>4. sweep'.at = time /\ sweep'.left = found
      BY <2>2
    <3> QED BY <1>1, <2>2, <3>2, <3>3, <3>4 DEF CaughtBy, Within
  <2> QED BY <1>1, <2>1, <2>2
<1> QED BY <1>1, <1>7, <1>8, <1>10, NodesStay, DealtStays DEF AlertsInv

(* A sweep is done with one of its breaches.                               *)
LEMMA SweptOne ==
  ASSUME AlertsInv, NEW s \in Scopes, s \in sweep.left, Done(s), UNCHANGED <<time, came>>, RowsGrow,
         \A at : at = sweep.at => CaughtBy(s, at)'
  PROVE  /\ swept' = Never \/ swept' \in 0 .. time
         /\ sweep' \in [at : Int, left : SUBSET Scopes, clear : SUBSET Scopes]
         /\ sweep'.clear \subseteq sweep'.left /\ (sweep' = NoSweep \/ sweep'.at = time)
         /\ CentralInv'
<1>1. /\ time \in Nat /\ (swept = Never \/ swept \in 0 .. time)
      /\ sweep \in [at : Int, left : SUBSET Scopes, clear : SUBSET Scopes]
      /\ sweep = NoSweep \/ sweep.at = time
  BY DEF AlertsInv, AlertShapes
<1>2. sweep # NoSweep /\ sweep.at = time
  BY <1>1 DEF NoSweep
<1>3. Never \in Int /\ NoSweep \in [at : Int, left : SUBSET Scopes, clear : SUBSET Scopes] /\ NoSweep.clear = {}
  BY AlertsAssumption DEF Never, NoSweep
<1>4. ASSUME NEW q, NEW at, CaughtBy(q, at) PROVE CaughtBy(q, at)'
  BY <1>4 DEF CaughtBy, Within, RowsOf, RowsGrow, Recent
<1>5. \A q \in Scopes : (swept # Never => CaughtBy(q, swept)) /\ (q \in sweep.left \/ CaughtBy(q, sweep.at))
  BY <1>2 DEF AlertsInv, CentralInv
<1>6. \A q \in Scopes : \A at : at = swept /\ swept # Never => CaughtBy(q, at)'
  BY <1>4, <1>5
<1>7. \A q \in Scopes : \A at : at = sweep.at => q = s \/ q \in sweep.left \/ CaughtBy(q, at)'
  BY <1>4, <1>5
<1>8. CASE sweep.left = {s}
  <2>1. sweep' = NoSweep /\ swept' = sweep.at
    BY <1>8 DEF Done
  <2>2. \A q \in Scopes : \A at : at = sweep.at => CaughtBy(q, at)'
    BY <1>7, <1>8
  <2>3. CentralInv'
    BY <2>1, <2>2 DEF CentralInv, CaughtBy, Within
  <2> QED BY <1>1, <1>2, <1>3, <2>1, <2>3
<1>9. CASE sweep.left # {s}
  <2> DEFINE next == [sweep EXCEPT !.left = @ \ {s}, !.clear = {}]
  <2>1. sweep' = next /\ swept' = swept
    BY <1>9 DEF Done
  <2>2. next.at = sweep.at /\ next.left = sweep.left \ {s} /\ next.clear = {} /\ next \in [at : Int, left : SUBSET Scopes, clear : SUBSET Scopes]
    BY <1>1
  <2> HIDE DEF next
  <2>3. \A q \in Scopes : \A at : at = sweep.at => q \in next.left \/ CaughtBy(q, at)'
    BY <1>7, <2>2
  <2>4. CentralInv'
    BY <1>6, <2>1, <2>2, <2>3 DEF CentralInv, CaughtBy, Within
  <2> QED BY <1>1, <1>2, <2>1, <2>2, <2>4
<1> QED BY <1>8, <1>9

(* Of a breach there is an alert that is recent, or of the same window.    *)
LEMMA Fires ==
  ASSUME AlertsInv, NEW s \in Scopes, lastFiredAt(s) \/ FireAtCentral(s)
  PROVE  AlertsInv'
<1>1. /\ UNCHANGED <<time, seen, came, nodeEngine, nodeAlerts, post, refused>>
      /\ time \in Nat
      /\ sweep \in [at : Int, left : SUBSET Scopes, clear : SUBSET Scopes]
      /\ rows \subseteq [scope : Scopes, window : Int, by : {"node", "central"}, at : Int, peer : BOOLEAN]
      /\ \A r \in rows : OpenedAt(r)
  BY DEF lastFiredAt, FireAtCentral, AlertsInv, AlertShapes
<1>2. AlertsGrow
  BY <1>1 DEF AlertsGrow
<1>3. Stride \in Nat \ {0} /\ Cooldown \in Nat
  BY AlertsAssumption
<1>4. ASSUME /\ rows' \subseteq [scope : Scopes, window : Int, by : {"node", "central"}, at : Int, peer : BOOLEAN]
             /\ \A r \in rows' : OpenedAt(r)
             /\ RowsGrow
             /\ swept' = Never \/ swept' \in 0 .. time
             /\ sweep' \in [at : Int, left : SUBSET Scopes, clear : SUBSET Scopes]
             /\ sweep'.clear \subseteq sweep'.left /\ (sweep' = NoSweep \/ sweep'.at = time)
             /\ CentralInv'
      PROVE  AlertsInv'
  <2>1. AlertShapes'
    BY <1>1, <1>4 DEF AlertsInv, AlertShapes, OpenedAt
  <2>2. NodeInv' /\ DealtWith' /\ SyncedIsAtCentral'
    BY <1>1, <1>2, <1>4, NodesStay, DealtStays
  <2> QED BY <1>4, <2>1, <2>2 DEF AlertsInv
<1>5. CASE lastFiredAt(s) /\ CoolAtCentral(s)
  <2>1. s \in sweep.left /\ Done(s) /\ UNCHANGED rows
    BY <1>5 DEF lastFiredAt
  <2>2. RowsGrow
    BY <2>1 DEF RowsGrow
  <2>3. \A at : at = sweep.at => CaughtBy(s, at)'
    BY <1>5, <2>1 DEF CaughtBy, CoolAtCentral, Recent
  <2> QED BY <1>1, <1>4, <2>1, <2>2, <2>3, SweptOne
<1>6. CASE lastFiredAt(s) /\ ~CoolAtCentral(s)
  <2> DEFINE next == [sweep EXCEPT !.clear = {s}]
  <2>1. s \in sweep.left /\ sweep' = next /\ UNCHANGED <<rows, swept>>
    BY <1>6 DEF lastFiredAt
  <2>2. next.at = sweep.at /\ next.left = sweep.left /\ next.clear = {s} /\ next \in [at : Int, left : SUBSET Scopes, clear : SUBSET Scopes]
    BY <1>1
  <2> HIDE DEF next
  <2>3. sweep # NoSweep /\ sweep.at = time /\ (swept = Never \/ swept \in 0 .. time)
    BY <2>1 DEF AlertsInv, AlertShapes, NoSweep
  <2>4. RowsGrow
    BY <2>1 DEF RowsGrow
  <2>5. CentralInv'
    <3>1. ASSUME NEW q, NEW at, CaughtBy(q, at) PROVE CaughtBy(q, at)'
      BY <1>1, <2>1, <3>1 DEF CaughtBy, Within, RowsOf, Recent
    <3>2. \A q \in Scopes : (swept # Never => CaughtBy(q, swept)) /\ (q \in sweep.left \/ CaughtBy(q, sweep.at))
      BY <2>3 DEF AlertsInv, CentralInv
    <3>3. \A q \in Scopes : \A at : at = swept /\ swept # Never => CaughtBy(q, at)'
      BY <3>1, <3>2
    <3>4. \A q \in Scopes : \A at : at = sweep.at => q \in sweep.left \/ CaughtBy(q, at)'
      BY <3>1, <3>2
    <3> QED BY <2>1, <2>2, <3>3, <3>4 DEF CentralInv, CaughtBy, Within
  <2> QED BY <1>1, <1>4, <2>1, <2>2, <2>3, <2>4, <2>5
<1>7. CASE FireAtCentral(s)
  <2>1. s \in sweep.clear /\ s \in sweep.left /\ upsertAlert(s, windowFor(sweep.at), "central", sweep.at) /\ Done(s)
    BY <1>7 DEF FireAtCentral, AlertsInv, AlertShapes
  <2>2. sweep.at \in Int /\ windowFor(sweep.at) \in Int
    BY <1>1, Buckets
  <2>3. /\ rows' \subseteq [scope : Scopes, window : Int, by : {"node", "central"}, at : Int, peer : BOOLEAN]
        /\ \A r \in rows' : OpenedAt(r)
        /\ RowsGrow
        /\ \E r \in rows' : r.scope = s /\ r.window = windowFor(sweep.at) /\ sweep.at - r.at < Stride
    BY <2>1, <2>2, Upserts
  <2>4. \A at : at = sweep.at => CaughtBy(s, at)'
    <3>1. PICK r \in rows' : r.scope = s /\ sweep.at - r.at < Stride
      BY <2>3
    <3>2. r.at \in Int
      BY <2>3
    <3>3. Stride <= Cooldown => Recent(r.at, sweep.at)
      BY <1>3, <2>2, <3>1, <3>2 DEF Recent
    <3> QED BY <3>1, <3>3 DEF CaughtBy, Recent
  <2> QED BY <1>1, <1>4, <2>1, <2>3, <2>4, SweptOne
<1> QED BY <1>5, <1>6, <1>7

(* Time goes on when all that is due is done.                              *)
LEMMA Ticks ==
  ASSUME AlertsInv, Tick
  PROVE  AlertsInv'
<1>1. /\ sweep = NoSweep /\ time' = time + 1
      /\ nodeEngine' = [n \in Nodes |-> IF nodeEngine[n] = "scheduled" THEN "due" ELSE nodeEngine[n]]
      /\ UNCHANGED <<seen, came, nodeAlerts, post, rows, refused, sweep, swept>>
  BY DEF Tick
<1>2. /\ time \in Nat /\ seen \in [Nodes -> Seq(Int)] /\ (swept = Never \/ swept \in 0 .. time)
      /\ \A m \in Nodes : \A i \in 1 .. Len(seen[m]) : seen[m][i] <= time
  BY DEF AlertsInv, AlertShapes
<1>3. AlertShapes'
  <2>1. \A m \in Nodes : \A i \in 1 .. Len(seen[m]) : seen[m][i] <= time + 1
    <3>1. \A m \in Nodes : \A i \in 1 .. Len(seen[m]) : seen[m][i] \in Int
      BY <1>2
    <3> QED BY <1>2, <3>1
  <2>2. time + 1 \in Nat /\ (swept = Never \/ swept \in 0 .. time + 1)
    BY <1>2
  <2> QED BY <1>1, <2>1, <2>2 DEF AlertsInv, AlertShapes, OpenedAt
<1>4. RowsGrow /\ AlertsGrow
  BY <1>1 DEF RowsGrow, AlertsGrow
<1>5. NodeInv'
  <2>1. Window \in Nat /\ Stride \in Nat
    BY AlertsAssumption
  <2>2. \A from \in Int : from >= time' - (Window - Stride) => from >= time - (Window - Stride)
    BY <1>1, <1>2, <2>1
  <2>3. \A n \in Nodes : nodeEngine'[n] = "idle" => nodeEngine[n] = "idle"
    BY <1>1
  <2> QED BY <1>1, <2>2, <2>3 DEF AlertsInv, NodeInv
<1> QED BY <1>1, <1>3, <1>4, <1>5, CentralStays, DealtStays DEF AlertsInv

(* Every step of the nodes and of central.                                 *)
LEMMA AlertsStep ==
  AlertsInv /\ [AlertsNext]_alertVars => AlertsInv'
<1> SUFFICES ASSUME AlertsInv, [AlertsNext]_alertVars PROVE AlertsInv'
  OBVIOUS
<1>1. ASSUME NEW n \in Nodes, NodeStep(n) PROVE AlertsInv'
  <2>1. CASE RecordCall(n) \/ evaluateNow(n) \/ ShipCall(n) \/ TrimCall(n)
    BY <2>1, Records, Evaluates, Arrives
  <2>2. CASE Deliver(n)
    <3>1. CASE shipAlertsNow(n) \/ EndUnheard(n)
      BY <3>1, Posts
    <3>2. CASE markAlertsSynced(n)
      BY <3>2, Syncs
    <3>3. ASSUME NEW w \in post[n].left, ingestNodeAlerts(n, w) PROVE AlertsInv'
      BY <3>3, Ingests
    <3> QED BY <2>2, <3>1, <3>2, <3>3 DEF Deliver
  <2>3. CASE LoseAnswer(n)
    BY <2>3, Posts
  <2>4. CASE StopNode(n) \/ StartNode(n)
    BY <2>4, StopsAndStarts
  <2>5. ASSUME NEW w \in post[n].left, RejectAlert(n, w) PROVE AlertsInv'
    BY <2>5, Ingests
  <2> QED BY <1>1, <2>1, <2>2, <2>3, <2>4, <2>5 DEF NodeStep
<1>2. CASE CentralStep
  BY <1>2, Sweeps, Fires DEF CentralStep
<1>3. CASE UNCHANGED alertVars
  <2>1. /\ UNCHANGED <<time, seen, came, nodeEngine, nodeAlerts, post, rows, refused, sweep, swept>>
        /\ RowsGrow /\ AlertsGrow
    BY <1>3 DEF alertVars, RowsGrow, AlertsGrow
  <2>2. AlertShapes'
    BY <2>1 DEF AlertsInv, AlertShapes, OpenedAt
  <2> QED BY <2>1, <2>2, CentralStays, NodesStay, DealtStays DEF AlertsInv
<1> QED BY <1>1, <1>2, <1>3, Ticks DEF AlertsNext

(* What a node takes as delivered is in central's table under its key, or  *)
(* was refused: for any nodes, posts, lost answers and restarts            *)
(* (server/alerts/nodeShipper.js, markAlertsSynced in server/store.js).    *)
THEOREM SyncedAlertsArrived == AlertsSpec => []SyncedIsAtCentral
<1>1. AlertsInit => AlertsInv
  BY AlertsStart
<1>2. AlertsInv /\ [AlertsNext]_alertVars => AlertsInv'
  BY AlertsStep
<1>3. AlertsInv => SyncedIsAtCentral
  BY DEF AlertsInv
<1> QED BY <1>1, <1>2, <1>3, PTL DEF AlertsSpec

(* No burst escapes, however it falls on the strides: whatever reaches the *)
(* threshold within a window less a stride has been alerted of, on its     *)
(* node once that has evaluated, and at central after the next sweep,      *)
(* whoever fired; for any windows and strides, with a cooldown of a stride *)
(* at least (server/alerts/rules.js, nodeEngine.js, central/alertEngine.js). *)
THEOREM BurstsAreCaught ==
  ASSUME Stride <= Cooldown
  PROVE  AlertsSpec => []BurstCaught
<1>1. AlertsInit => AlertsInv
  BY AlertsStart
<1>2. AlertsInv /\ [AlertsNext]_alertVars => AlertsInv'
  BY AlertsStep
<1>3. AlertsInv => BurstCaught
  <2> SUFFICES ASSUME AlertsInv PROVE NodeCatches /\ CentralCatches
    BY DEF BurstCaught
  <2>1. Stride \in Nat /\ Window \in Nat /\ time \in Nat /\ Stride <= Window /\ Threshold["node"] \in Nat /\ seen \in [Nodes -> Seq(Int)]
        /\ \A n \in Nodes : \A i \in 1 .. Len(seen[n]) : seen[n][i] <= time
    BY AlertsAssumption DEF AlertsInv, AlertShapes
  <2>2. ASSUME NEW n \in Nodes, nodeEngine[n] = "idle", Between(seen[n], time - (Window - Stride), time) >= Threshold["node"]
        PROVE  \E a \in nodeAlerts[n] : Recent(a.at, time - (Window - Stride))
    <3> DEFINE from == time - (Window - Stride)
    <3>1. from \in Int /\ from >= time - (Window - Stride)
      BY <2>1
    <3>2. DOMAIN seen[n] = 1 .. Len(seen[n])
      BY <2>1
    <3>3. {i \in DOMAIN seen[n] : from <= seen[n][i] /\ seen[n][i] <= time} = {i \in 1 .. Len(seen[n]) : from <= seen[n][i]}
      BY <2>1, <3>2
    <3>4. Cardinality({i \in 1 .. Len(seen[n]) : from <= seen[n][i]}) >= Threshold["node"]
      BY <2>2, <3>3 DEF Between
    <3> HIDE DEF from
    <3>5. \E a \in nodeAlerts[n] : Recent(a.at, from)
      BY <2>2, <3>1, <3>4 DEF AlertsInv, NodeInv
    <3> QED BY <3>5 DEF from
  <2>3. NodeCatches
    BY <2>2 DEF NodeCatches
  <2>4. CentralCatches
    BY DEF CentralCatches, AlertsInv, CentralInv, CaughtBy, Within
  <2> QED BY <2>3, <2>4
<1> QED BY <1>1, <1>2, <1>3, PTL DEF AlertsSpec

-----------------------------------------------------------------------------
(* When alerts were made, and of which windows *)

TimesInv ==
  /\ time <= MaxTime /\ faults \in 0 .. MaxFaults
  /\ \A n \in Nodes : Len(came[n]) <= Len(seen[n])
  /\ nodeEngine \in [Nodes -> {"down", "idle", "scheduled", "due"}]
  /\ \A n \in Nodes : \A a \in nodeAlerts[n] : a.at \in 0 .. MaxTime
  /\ \A r \in rows : r.at \in 0 .. MaxTime

LEMMA TimesStart == AlertsInit => TimesInv
<1> SUFFICES ASSUME AlertsInit PROVE TimesInv
  OBVIOUS
<1>1. 0 <= MaxTime /\ 0 \in 0 .. MaxFaults
  BY AlertsAssumption
<1> QED BY <1>1 DEF AlertsInit, TimesInv

(* An upsert brings a row of the time it is given, if any.                 *)
LEMMA UpsertTimes ==
  ASSUME AlertShapes, TimesInv, NEW scope, NEW w, NEW by, NEW at \in 0 .. MaxTime, upsertAlert(scope, w, by, at)
  PROVE  \A r \in rows' : r.at \in 0 .. MaxTime
<1>1. CASE Keyed(scope, w) = {}
  BY <1>1 DEF upsertAlert, Row, TimesInv
<1>2. CASE Keyed(scope, w) # {}
  <2>1. \A r \in rows' : \E q \in rows : r = q \/ r = [q EXCEPT !.peer = TRUE]
    BY <1>2 DEF upsertAlert
  <2>2. \A q \in rows : q \in [scope : Scopes, window : Int, by : {"node", "central"}, at : Int, peer : BOOLEAN]
    BY DEF AlertShapes
  <2>3. \A q \in rows : [q EXCEPT !.peer = TRUE].at = q.at
    BY <2>2
  <2> QED BY <2>1, <2>3 DEF TimesInv
<1> QED BY <1>1, <1>2

(* Of what a step of the alerts leaves alone.                              *)
LEMMA TimesStay ==
  ASSUME AlertShapes, TimesInv, time' <= MaxTime, faults' \in 0 .. MaxFaults, UNCHANGED <<seen, came>>,
         nodeEngine' \in [Nodes -> {"down", "idle", "scheduled", "due"}],
         \A n \in Nodes : \A a \in nodeAlerts'[n] : a.at \in 0 .. MaxTime,
         \A r \in rows' : r.at \in 0 .. MaxTime
  PROVE  TimesInv'
  BY DEF TimesInv

LEMMA TimesNode ==
  ASSUME AlertsInv, TimesInv, NEW n \in Nodes, NodeStep(n) PROVE TimesInv'
<1>1. /\ time \in 0 .. MaxTime /\ time <= MaxTime /\ faults \in 0 .. MaxFaults
      /\ nodeEngine \in [Nodes -> {"down", "idle", "scheduled", "due"}]
      /\ \A m \in Nodes : \A a \in nodeAlerts[m] : a.at \in 0 .. MaxTime
      /\ \A r \in rows : r.at \in 0 .. MaxTime
      /\ AlertShapes
  BY AlertsAssumption DEF AlertsInv, AlertShapes, TimesInv
<1>2. faults < MaxFaults => faults + 1 \in 0 .. MaxFaults
  BY <1>1, AlertsAssumption
<1>3. /\ seen \in [Nodes -> Seq(Int)] /\ came \in [Nodes -> Seq(Int)] /\ Never \in Int
      /\ \A m \in Nodes : Len(came[m]) <= Len(seen[m])
      /\ \A m \in Nodes : Len(came[m]) \in Nat /\ Len(seen[m]) \in Nat
  BY <1>1, AlertsAssumption DEF AlertShapes, TimesInv, Never
<1>4. CASE RecordCall(n)
  <2>1. \A m \in Nodes : Len(seen'[m]) >= Len(seen[m]) /\ Len(seen'[m]) \in Nat
    <3>1. seen' = [seen EXCEPT ![n] = Append(@, time)]
      BY <1>4 DEF RecordCall
    <3>2. Len(Append(seen[n], time)) = Len(seen[n]) + 1
      BY <1>1, <1>3
    <3> QED BY <1>3, <3>1, <3>2
  <2>2. /\ came' = came /\ nodeAlerts' = nodeAlerts /\ rows' = rows /\ time' = time /\ faults' = faults
        /\ nodeEngine' \in [Nodes -> {"down", "idle", "scheduled", "due"}]
    BY <1>1, <1>4 DEF RecordCall
  <2>3. \A m \in Nodes : Len(came'[m]) <= Len(seen'[m])
    BY <1>3, <2>1, <2>2
  <2> QED BY <1>1, <2>2, <2>3 DEF TimesInv
<1>5. CASE evaluateNow(n)
  <2>1. \A m \in Nodes : \A a \in nodeAlerts'[m] : a.at \in 0 .. MaxTime
    <3>1. CASE nodeAlerts' = nodeAlerts
      BY <1>1, <3>1
    <3>2. CASE recordAlert(n)
      <4>1. \A m \in Nodes \ {n} : nodeAlerts'[m] = nodeAlerts[m]
        BY <1>1, <3>2 DEF recordAlert, AlertShapes
      <4>2. nodeAlerts'[n] \subseteq nodeAlerts[n] \cup {[window |-> windowFor(time), at |-> time, synced |-> FALSE]}
        BY <1>1, <3>2 DEF recordAlert, AlertShapes
      <4> QED BY <1>1, <4>1, <4>2
    <3> QED BY <1>5, <3>1, <3>2 DEF evaluateNow
  <2>2. nodeEngine' \in [Nodes -> {"down", "idle", "scheduled", "due"}]
    BY <1>1, <1>5 DEF evaluateNow
  <2> QED BY <1>1, <1>5, <2>1, <2>2, TimesStay DEF evaluateNow
<1>6. ASSUME NEW t \in Int, Len(came[n]) < Len(seen[n]), came' = [came EXCEPT ![n] = Append(@, t)],
             UNCHANGED <<time, seen, nodeEngine, nodeAlerts, rows>>, faults' \in 0 .. MaxFaults
      PROVE  TimesInv'
  <2>1. Len(Append(came[n], t)) = Len(came[n]) + 1
    BY <1>3
  <2>2. \A m \in Nodes : Len(came'[m]) <= Len(seen'[m])
    BY <1>3, <1>6, <2>1
  <2> QED BY <1>1, <1>6, <2>2 DEF TimesInv
<1>7. CASE ShipCall(n) \/ TrimCall(n)
  <2>1. PICK t \in {time, Never} : came' = [came EXCEPT ![n] = Append(@, t)]
    BY <1>7 DEF ShipCall, TrimCall
  <2>2. /\ Len(came[n]) < Len(seen[n]) /\ UNCHANGED <<time, seen, nodeEngine, nodeAlerts, rows>>
        /\ faults' = faults \/ (faults < MaxFaults /\ faults' = faults + 1)
    BY <1>7 DEF ShipCall, TrimCall
  <2>3. t \in Int /\ faults' \in 0 .. MaxFaults
    BY <1>1, <1>2, <1>3, <2>2
  <2> QED BY <1>6, <2>1, <2>2, <2>3
<1>8. CASE shipAlertsNow(n) \/ EndUnheard(n)
  BY <1>1, <1>8, TimesStay DEF shipAlertsNow, EndUnheard
<1>9. CASE markAlertsSynced(n)
  <2>1. nodeAlerts' = [nodeAlerts EXCEPT ![n] = {[a EXCEPT !.synced = @ \/ a.window \in post[n].keys] : a \in @}]
    BY <1>9 DEF markAlertsSynced
  <2>2. \A m \in Nodes : nodeAlerts[m] \subseteq [window : Int, at : Int, synced : BOOLEAN]
    BY <1>1 DEF AlertShapes
  <2>3. \A m \in Nodes : \A b \in nodeAlerts'[m] : \E a \in nodeAlerts[m] : b.at = a.at
    <3>1. \A m \in Nodes \ {n} : nodeAlerts'[m] = nodeAlerts[m]
      BY <1>1, <2>1 DEF AlertShapes
    <3>2. nodeAlerts'[n] = {[a EXCEPT !.synced = a.synced \/ a.window \in post[n].keys] : a \in nodeAlerts[n]}
      BY <1>1, <2>1 DEF AlertShapes
    <3>3. ASSUME NEW b \in nodeAlerts'[n] PROVE \E a \in nodeAlerts[n] : b.at = a.at
      <4>1. PICK a \in nodeAlerts[n] : b = [a EXCEPT !.synced = a.synced \/ a.window \in post[n].keys]
        BY <3>2
      <4>2. b.at = a.at
        BY <2>2, <4>1
      <4> QED BY <4>2
    <3> QED BY <3>1, <3>3
  <2>4. \A m \in Nodes : \A b \in nodeAlerts'[m] : b.at \in 0 .. MaxTime
    BY <1>1, <2>3
  <2> QED BY <1>1, <1>9, <2>4, TimesStay DEF markAlertsSynced
<1>10. ASSUME NEW w \in post[n].left, ingestNodeAlerts(n, w) PROVE TimesInv'
  <2>1. \E a \in nodeAlerts[n] : a.window = w
    BY <1>1, <1>10 DEF AlertShapes
  <2>2. FiredAt(n, w) \in 0 .. MaxTime
    BY <1>1, <2>1 DEF FiredAt
  <2>3. \A r \in rows' : r.at \in 0 .. MaxTime
    BY <1>1, <1>10, <2>2, UpsertTimes DEF ingestNodeAlerts
  <2> QED BY <1>1, <1>10, <2>3, TimesStay DEF ingestNodeAlerts
<1>11. ASSUME NEW w \in post[n].left, RejectAlert(n, w) PROVE TimesInv'
  BY <1>1, <1>2, <1>11, TimesStay DEF RejectAlert
<1>12. CASE LoseAnswer(n)
  BY <1>1, <1>2, <1>12, TimesStay DEF LoseAnswer
<1>13. CASE StopNode(n)
  <2>1. nodeEngine' \in [Nodes -> {"down", "idle", "scheduled", "due"}]
    BY <1>1, <1>13 DEF StopNode
  <2> QED BY <1>1, <1>2, <1>13, <2>1, TimesStay DEF StopNode
<1>14. CASE StartNode(n)
  <2>1. nodeEngine' \in [Nodes -> {"down", "idle", "scheduled", "due"}]
    BY <1>1, <1>14 DEF StartNode
  <2> QED BY <1>1, <1>14, <2>1, TimesStay DEF StartNode
<1> QED BY <1>4, <1>5, <1>7, <1>8, <1>9, <1>10, <1>11, <1>12, <1>13, <1>14 DEF NodeStep, Deliver

LEMMA TimesStep == AlertsInv /\ TimesInv /\ [AlertsNext]_alertVars => TimesInv'
<1> SUFFICES ASSUME AlertsInv, TimesInv, [AlertsNext]_alertVars PROVE TimesInv'
  OBVIOUS
<1>1. /\ time \in 0 .. MaxTime /\ time <= MaxTime /\ faults \in 0 .. MaxFaults
      /\ nodeEngine \in [Nodes -> {"down", "idle", "scheduled", "due"}]
      /\ \A m \in Nodes : \A a \in nodeAlerts[m] : a.at \in 0 .. MaxTime
      /\ \A r \in rows : r.at \in 0 .. MaxTime
      /\ AlertShapes
  BY AlertsAssumption DEF AlertsInv, AlertShapes, TimesInv
<1>2. CASE UNCHANGED alertVars
  BY <1>1, <1>2, TimesStay DEF alertVars
<1>3. CASE Tick
  <2>1. time' <= MaxTime
    <3>1. time < MaxTime /\ time' = time + 1
      BY <1>3 DEF Tick
    <3> QED BY <1>1, <3>1, AlertsAssumption
  <2>2. nodeEngine' \in [Nodes -> {"down", "idle", "scheduled", "due"}]
    BY <1>1, <1>3 DEF Tick
  <2> QED BY <1>1, <1>3, <2>1, <2>2, TimesStay DEF Tick
<1>4. CASE breachesFor \/ \E s \in Scopes : lastFiredAt(s)
  BY <1>1, <1>4, TimesStay DEF breachesFor, lastFiredAt
<1>5. ASSUME NEW s \in Scopes, FireAtCentral(s) PROVE TimesInv'
  <2>1. sweep.at = time
    <3>1. s \in sweep.clear
      BY <1>5 DEF FireAtCentral
    <3> QED BY <1>1, <3>1 DEF AlertShapes, NoSweep
  <2>2. \A r \in rows' : r.at \in 0 .. MaxTime
    BY <1>1, <1>5, <2>1, UpsertTimes DEF FireAtCentral
  <2> QED BY <1>1, <1>5, <2>2, TimesStay DEF FireAtCentral
<1>6. ASSUME NEW n \in Nodes, NodeStep(n) PROVE TimesInv'
  BY <1>6, TimesNode
<1> QED BY <1>2, <1>3, <1>4, <1>5, <1>6 DEF AlertsNext, CentralStep

(* A window closes within a stride of its alert, so it is one of Windows.  *)
LEMMA TimesTyped == AlertsInv /\ TimesInv => AlertsTypeOK
<1> SUFFICES ASSUME AlertsInv, TimesInv PROVE AlertsTypeOK
  OBVIOUS
<1>1. ASSUME NEW t \in 0 .. MaxTime PROVE windowFor(t) \in Windows /\ t \in Stamps
  <2>1. MaxTime \in Nat /\ t \in Int /\ Window \in Nat /\ Stride \in Nat /\ Stride <= Window
    BY AlertsAssumption
  <2>2. windowFor(t) \in Int /\ windowFor(t) + Window - Stride <= t /\ t < windowFor(t) + Window
    BY <2>1, Buckets
  <2> QED BY <2>1, <2>2 DEF Windows, Stamps
<1>2. AlertShapes
  BY DEF AlertsInv
<1>3. time \in 0 .. MaxTime
  BY <1>2, AlertsAssumption DEF AlertShapes, TimesInv
<1>4. nodeAlerts \in [Nodes -> SUBSET [window : Windows, at : Stamps, synced : BOOLEAN]]
  <2>1. ASSUME NEW n \in Nodes, NEW a \in nodeAlerts[n] PROVE a \in [window : Windows, at : Stamps, synced : BOOLEAN]
    <3>1. a \in [window : Int, at : Int, synced : BOOLEAN] /\ a.window = windowFor(a.at) /\ a.at \in 0 .. MaxTime
      BY <1>2, <2>1 DEF AlertShapes, OpenedAt, TimesInv
    <3>2. a.window \in Windows /\ a.at \in Stamps
      BY <1>1, <3>1
    <3> QED BY <3>1, <3>2
  <2> QED BY <1>2, <2>1 DEF AlertShapes
<1>5. rows \subseteq [scope : Scopes, window : Windows, by : {"node", "central"}, at : Stamps, peer : BOOLEAN]
  <2>1. ASSUME NEW r \in rows
        PROVE  r \in [scope : Scopes, window : Windows, by : {"node", "central"}, at : Stamps, peer : BOOLEAN]
    <3>1. /\ r \in [scope : Scopes, window : Int, by : {"node", "central"}, at : Int, peer : BOOLEAN]
          /\ r.window = windowFor(r.at) /\ r.at \in 0 .. MaxTime
      BY <1>2 DEF AlertShapes, OpenedAt, TimesInv
    <3>2. r.window \in Windows /\ r.at \in Stamps
      BY <1>1, <3>1
    <3> QED BY <3>1, <3>2
  <2> QED BY <2>1
<1>6. swept \in Stamps
  BY <1>2, <1>3, AlertsAssumption DEF AlertShapes, Stamps
<1>7. sweep.left \subseteq Scopes /\ sweep.clear \subseteq sweep.left
  BY <1>2 DEF AlertShapes
<1> QED BY <1>2, <1>3, <1>4, <1>5, <1>6, <1>7 DEF AlertsTypeOK, AlertShapes, TimesInv

-----------------------------------------------------------------------------
(* A node's reports *)

ReportShape ==
  [lines : SUBSET Nat, through : Nat, wiring : Nat, file : Nat, left : SUBSET Nat, fresh : SUBSET Nat,
   stage : {"lines", "count", "done"}, waited : BOOLEAN]

HealthShapes ==
  /\ journal \in Seq(Nat) /\ lastLine \in Nat /\ wiring \in Nat /\ file \in Nat \ {0}
  /\ mark \in Nat /\ markFile \in 0 .. file
  /\ faultRows \in SUBSET Nat /\ IsFiniteSet(faultRows) /\ counted \in Nat
  /\ reports \subseteq ReportShape
  /\ \A r \in reports : r.file <= file /\ r.fresh \subseteq faultRows /\ (r.stage # "lines" => r.left = {})

(* What central has of the lines that a report will have the mark pass.    *)
SlicesInv ==
  \A r \in reports : r.file = file =>
    r.through <= Len(journal) /\ LinesOf(SubSeq(journal, 1, r.through)) \subseteq faultRows \cup r.left

MarkInv ==
  markFile = file => mark <= Len(journal) /\ LinesOf(SubSeq(journal, 1, mark)) \subseteq faultRows

(* A line is new in one report only, which has it counted once.            *)
Pending == {r \in reports : r.stage # "done"}
Counted == {line \in faultRows : \A r \in Pending : line \notin r.fresh}
CountInv ==
  /\ \A r, q \in Pending : r # q => r.fresh \cap q.fresh = {}
  /\ counted <= Cardinality(Counted)

HealthInv == HealthShapes /\ SlicesInv /\ MarkInv /\ CountInv

(* The lines of a part of the file.                                        *)
LEMMA LinesOfPart ==
  ASSUME NEW list \in Seq(Nat), NEW k \in 0 .. Len(list)
  PROVE  LinesOf(SubSeq(list, 1, k)) = {list[i] : i \in 1 .. k} \ {Torn}
<1>1. Len(SubSeq(list, 1, k)) = k /\ \A i \in 1 .. k : SubSeq(list, 1, k)[i] = list[i]
  OBVIOUS
<1> QED BY <1>1 DEF LinesOf

(* An append leaves what was there.                                        *)
LEMMA LinesBehind ==
  ASSUME NEW list \in Seq(Nat), NEW x \in Nat, NEW k \in 0 .. Len(list)
  PROVE  LinesOf(SubSeq(Append(list, x), 1, k)) = LinesOf(SubSeq(list, 1, k))
<1>1. /\ Append(list, x) \in Seq(Nat) /\ k \in 0 .. Len(Append(list, x))
      /\ \A i \in 1 .. k : Append(list, x)[i] = list[i]
  OBVIOUS
<1>2. LinesOf(SubSeq(Append(list, x), 1, k)) = {Append(list, x)[i] : i \in 1 .. k} \ {Torn}
  BY <1>1, LinesOfPart
<1>3. LinesOf(SubSeq(list, 1, k)) = {list[i] : i \in 1 .. k} \ {Torn}
  BY LinesOfPart
<1> QED BY <1>1, <1>2, <1>3

(* What a report carries, and what the mark had passed, is all up to the   *)
(* report's end.                                                           *)
LEMMA LinesJoin ==
  ASSUME NEW list \in Seq(Nat), NEW from \in Nat, NEW k \in 0 .. Len(list), from <= k
  PROVE  LinesOf(SubSeq(list, 1, k)) = LinesOf(SubSeq(list, 1, from)) \cup LinesOf(SubSeq(list, from + 1, k))
<1> DEFINE piece == SubSeq(list, from + 1, k)
<1>1. Len(piece) = k - from /\ \A i \in 1 .. k - from : piece[i] = list[from + i]
  <2>1. Len(piece) = k - from
    OBVIOUS
  <2>2. \A i \in 1 .. k - from : piece[i] = list[i + (from + 1) - 1]
    OBVIOUS
  <2>3. \A i \in 1 .. k - from : i + (from + 1) - 1 = from + i
    OBVIOUS
  <2> HIDE DEF piece
  <2> QED BY <2>1, <2>2, <2>3
<1>2. {piece[i] : i \in 1 .. Len(piece)} = {list[i] : i \in from + 1 .. k}
  <2> HIDE DEF piece
  <2>1. ASSUME NEW i \in from + 1 .. k PROVE \E j \in 1 .. Len(piece) : piece[j] = list[i]
    <3>1. i - from \in 1 .. k - from /\ from + (i - from) = i
      OBVIOUS
    <3> QED BY <1>1, <3>1
  <2>2. ASSUME NEW i \in 1 .. Len(piece) PROVE \E j \in from + 1 .. k : list[j] = piece[i]
    <3>1. from + i \in from + 1 .. k /\ piece[i] = list[from + i]
      BY <1>1
    <3> QED BY <3>1
  <2>3. {piece[i] : i \in 1 .. Len(piece)} \subseteq {list[i] : i \in from + 1 .. k}
    BY <2>2
  <2>4. {list[i] : i \in from + 1 .. k} \subseteq {piece[i] : i \in 1 .. Len(piece)}
    BY <2>1
  <2> QED BY <2>3, <2>4
<1>3. LinesOf(piece) = {list[i] : i \in from + 1 .. k} \ {Torn}
  BY <1>2 DEF LinesOf
<1>4. from \in 0 .. Len(list)
  OBVIOUS
<1>5. LinesOf(SubSeq(list, 1, from)) = {list[i] : i \in 1 .. from} \ {Torn}
  BY <1>4, LinesOfPart
<1>6. LinesOf(SubSeq(list, 1, k)) = {list[i] : i \in 1 .. k} \ {Torn}
  BY LinesOfPart
<1>7. {list[i] : i \in 1 .. k} = {list[i] : i \in 1 .. from} \cup {list[i] : i \in from + 1 .. k}
  OBVIOUS
<1> HIDE DEF piece
<1>8. LinesOf(SubSeq(list, 1, k)) = LinesOf(SubSeq(list, 1, from)) \cup LinesOf(piece)
  BY <1>3, <1>5, <1>6, <1>7
<1> QED BY <1>8 DEF piece

LEMMA HealthStart == HealthInit => HealthInv
<1> SUFFICES ASSUME HealthInit PROVE HealthInv
  OBVIOUS
<1> USE DEF HealthInit
<1>1. HealthShapes
  BY FS_EmptySet DEF HealthShapes
<1>2. SlicesInv /\ MarkInv
  <2>1. LinesOf(SubSeq(journal, 1, mark)) = {}
    <3>1. SubSeq(<<>>, 1, 0) = <<>>
      OBVIOUS
    <3>2. 1 .. 0 = {} /\ Len(<<>>) = 0
      OBVIOUS
    <3> QED BY <3>1, <3>2 DEF LinesOf
  <2> QED BY <2>1 DEF SlicesInv, MarkInv
<1>3. CountInv
  <2>1. Pending = {} /\ Counted = {}
    BY DEF Pending, Counted
  <2>2. Cardinality(Counted) = 0
    BY <2>1, FS_EmptySet
  <2> QED BY <2>1, <2>2 DEF CountInv
<1> QED BY <1>1, <1>2, <1>3 DEF HealthInv

(* What has been counted is finite.                                        *)
LEMMA CountedFinite ==
  ASSUME HealthShapes
  PROVE  IsFiniteSet(Counted) /\ Cardinality(Counted) \in Nat /\ Counted \subseteq faultRows
         /\ Cardinality(Counted) <= Cardinality(faultRows) /\ Cardinality(faultRows) \in Nat
<1>1. Counted \in SUBSET faultRows
  BY DEF Counted
<1>2. IsFiniteSet(faultRows)
  BY DEF HealthShapes
<1> QED BY <1>1, <1>2, FS_Subset, FS_CardinalityType

(* The machine's own steps.                                                *)
LEMMA MachineMoves ==
  ASSUME HealthInv, Change \/ JournalFault \/ TearLine \/ ReplaceJournal
  PROVE  HealthInv'
<1> USE DEF HealthInv
<1>0. MaxLines \in Nat
  BY NodeHealthAssumption
<1>1. CountInv'
  BY DEF CountInv, Counted, Pending, Change, JournalFault, TearLine, ReplaceJournal
<1>2. CASE Change \/ TearLine
  <2>1. HealthShapes'
    <3>1. lastLine' \in Nat /\ wiring' \in Nat
      BY <1>2 DEF Change, TearLine, HealthShapes
    <3> QED BY <1>2, <3>1 DEF Change, TearLine, HealthShapes
  <2>2. SlicesInv' /\ MarkInv'
    BY <1>2 DEF Change, TearLine, SlicesInv, MarkInv, LinesOf
  <2> QED BY <1>1, <2>1, <2>2
<1>3. CASE JournalFault
  <2> USE <1>3 DEF JournalFault
  <2> DEFINE x == IF half THEN Torn ELSE lastLine + 1
  <2>2. journal \in Seq(Nat) /\ x \in Nat /\ journal' = Append(journal, x) /\ Len(journal') = Len(journal) + 1
    BY DEF HealthShapes, Torn
  <2>1. HealthShapes'
    <3> HIDE DEF x
    <3>1. journal' \in Seq(Nat)
      BY <2>2
    <3> QED BY <3>1 DEF HealthShapes
  <2>3. \A k \in 0 .. Len(journal) : LinesOf(SubSeq(journal', 1, k)) = LinesOf(SubSeq(journal, 1, k))
    <3> HIDE DEF x
    <3> QED BY <2>2, LinesBehind
  <2>4. SlicesInv'
    BY <2>2, <2>3 DEF SlicesInv, HealthShapes, ReportShape
  <2>5. MarkInv'
    BY <2>2, <2>3 DEF MarkInv, HealthShapes
  <2> QED BY <1>1, <2>1, <2>4, <2>5
<1>4. CASE ReplaceJournal
  <2> USE <1>4 DEF ReplaceJournal
  <2>1. journal' \in Seq(Nat) /\ file' \in Nat \ {0} /\ markFile' \in 0 .. file'
    BY DEF HealthShapes
  <2>2. \A r \in reports : r.file < file' /\ r.file <= file'
    BY DEF HealthShapes, ReportShape
  <2>3. HealthShapes'
    BY <2>1, <2>2 DEF HealthShapes
  <2>4. SlicesInv' /\ MarkInv'
    BY <2>2 DEF HealthShapes, SlicesInv, MarkInv
  <2> QED BY <1>1, <2>3, <2>4
<1> QED BY <1>2, <1>3, <1>4

(* A step that leaves the rows, the file and the mark, and removes a       *)
(* report or moves it on before its lines are counted.                     *)
LEMMA ReportMoves ==
  ASSUME HealthInv, NEW r \in reports, NEW new \in SUBSET ReportShape, Replace(r, new),
         \A n \in new : /\ n.file = r.file /\ n.through = r.through
                        /\ n.left = r.left /\ n.fresh = r.fresh
                        /\ (n.stage # "lines" => n.left = {})
                        /\ (n.stage = "done" <=> r.stage = "done"),
         \A n, m \in new : n = m,
         mark' \in Nat, markFile' \in 0 .. file,
         UNCHANGED <<journal, lastLine, wiring, file, faultRows, counted>>
  PROVE  HealthShapes' /\ SlicesInv' /\ CountInv'
<1> USE DEF HealthInv
<1>1. \A q \in reports' : (q \in reports /\ q # r) \/ q \in new
  BY DEF Replace
<1>2. HealthShapes'
  <2>1. \A q \in reports' : q \in ReportShape /\ q.file <= file /\ q.fresh \subseteq faultRows /\ (q.stage # "lines" => q.left = {})
    BY <1>1 DEF HealthShapes
  <2> QED BY <2>1 DEF HealthShapes
<1>3. SlicesInv'
  <2>1. \A q \in reports' : q.file = file =>
          q.through <= Len(journal) /\ LinesOf(SubSeq(journal, 1, q.through)) \subseteq faultRows \cup q.left
    BY <1>1 DEF SlicesInv
  <2> QED BY <2>1 DEF SlicesInv, LinesOf
<1>4. CountInv'
  <2>1. \A q \in Pending' : (q \in Pending /\ q # r) \/ (q \in new /\ r \in Pending)
    BY <1>1 DEF Pending
  <2>2. \A p, q \in Pending' : p # q => p.fresh \cap q.fresh = {}
    BY <2>1 DEF CountInv
  <2>3. Counted \subseteq Counted'
    BY <2>1 DEF Counted
  <2>4. Cardinality(Counted) <= Cardinality(Counted') /\ Cardinality(Counted) \in Nat /\ Cardinality(Counted') \in Nat
    <3>1. IsFiniteSet(Counted)
      BY CountedFinite
    <3>2. IsFiniteSet(Counted')
      <4>1. Counted' \in SUBSET faultRows
        BY DEF Counted
      <4>2. IsFiniteSet(faultRows)
        BY DEF HealthShapes
      <4> QED BY <4>1, <4>2, FS_Subset
    <3> QED BY <2>3, <3>1, <3>2, FS_Subset, FS_CardinalityType
  <2>5. counted' \in Nat /\ counted' <= Cardinality(Counted')
    BY <2>4 DEF CountInv, HealthShapes
  <2> QED BY <2>2, <2>5 DEF CountInv
<1> QED BY <1>2, <1>3, <1>4

LEMMA ReportsGoOn ==
  ASSUME HealthInv, NEW r \in reports, Acknowledged(r) \/ GivenUp(r) \/ UpsertRoster(r)
  PROVE  HealthInv'
<1>0. r \in ReportShape
  BY DEF HealthInv, HealthShapes
<1>1. CASE Acknowledged(r)
  <2>1. mark' \in Nat /\ markFile' \in 0 .. file
    BY <1>0, <1>1 DEF Acknowledged, HealthInv, HealthShapes, ReportShape
  <2>2. HealthShapes' /\ SlicesInv' /\ CountInv'
    <3>1. {} \in SUBSET ReportShape
      OBVIOUS
    <3> QED BY <1>1, <2>1, <3>1, ReportMoves DEF Acknowledged
  <2>3. MarkInv'
    <3>1. r.left = {}
      BY <1>1 DEF Acknowledged, HealthInv, HealthShapes
    <3>2. r.file = file => r.through <= Len(journal) /\ LinesOf(SubSeq(journal, 1, r.through)) \subseteq faultRows
      BY <3>1 DEF HealthInv, SlicesInv
    <3> QED BY <1>1, <3>2 DEF Acknowledged, HealthInv, MarkInv, LinesOf
  <2> QED BY <2>2, <2>3 DEF HealthInv
<1>2. CASE GivenUp(r)
  <2> DEFINE next == [r EXCEPT !.waited = FALSE]
  <2>1. /\ next \in ReportShape /\ next.file = r.file /\ next.through = r.through
        /\ next.left = r.left /\ next.fresh = r.fresh /\ next.stage = r.stage
    BY <1>0 DEF ReportShape
  <2>2. Replace(r, {}) \/ Replace(r, {next})
    BY <1>2 DEF GivenUp
  <2> HIDE DEF next
  <2>3. r.stage # "lines" => r.left = {}
    BY DEF HealthInv, HealthShapes
  <2>4. HealthShapes' /\ SlicesInv' /\ CountInv'
    <3>1. mark' \in Nat /\ markFile' \in 0 .. file
      BY <1>2 DEF GivenUp, HealthInv, HealthShapes
    <3>2. {} \in SUBSET ReportShape /\ {next} \in SUBSET ReportShape /\ \A n \in {next} : n = next
      BY <2>1
    <3>3. CASE Replace(r, {})
      BY <1>2, <3>1, <3>2, <3>3, ReportMoves DEF GivenUp
    <3>4. CASE Replace(r, {next})
      BY <1>2, <2>1, <2>3, <3>1, <3>2, <3>4, ReportMoves DEF GivenUp
    <3> QED BY <2>2, <3>3, <3>4
  <2>5. MarkInv'
    BY <1>2 DEF GivenUp, HealthInv, MarkInv, LinesOf
  <2> QED BY <2>4, <2>5 DEF HealthInv
<1>3. CASE UpsertRoster(r)
  <2> DEFINE next == [r EXCEPT !.stage = "count"]
  <2>1. /\ next \in ReportShape /\ next.file = r.file /\ next.through = r.through
        /\ next.left = r.left /\ next.fresh = r.fresh /\ next.stage = "count"
    BY <1>0 DEF ReportShape
  <2>2. Replace(r, {next}) /\ r.left = {} /\ r.stage = "lines"
    BY <1>3 DEF UpsertRoster
  <2> HIDE DEF next
  <2>3. {next} \in SUBSET ReportShape /\ \A n \in {next} : n = next
    BY <2>1
  <2>4. HealthShapes' /\ SlicesInv' /\ CountInv'
    <3>1. mark' \in Nat /\ markFile' \in 0 .. file
      BY <1>3 DEF UpsertRoster, HealthInv, HealthShapes
    <3> QED BY <1>3, <2>1, <2>2, <2>3, <3>1, ReportMoves DEF UpsertRoster
  <2>5. MarkInv'
    BY <1>3 DEF UpsertRoster, HealthInv, MarkInv, LinesOf
  <2> QED BY <2>4, <2>5 DEF HealthInv
<1> QED BY <1>1, <1>2, <1>3

(* A new report: what the mark has passed and what it carries is all that  *)
(* it will have the mark pass.                                             *)
LEMMA ReportBegins ==
  ASSUME HealthInv, ReportNow
  PROVE  HealthInv'
<1> USE DEF HealthInv
<1>0. SliceLines \in Nat \ {0}
  BY NodeHealthAssumption
<1> DEFINE from == SliceFrom
<1> DEFINE through == SliceThrough
<1>1. /\ journal \in Seq(Nat) /\ mark \in Nat /\ Len(journal) \in Nat /\ from \in 0 .. Len(journal)
      /\ through \in 0 .. Len(journal) /\ from <= through
  BY <1>0 DEF HealthShapes, SliceFrom, SliceThrough, Shorter
<1>2. LinesOf(readJournalSlice) \in SUBSET Nat
  <2>1. readJournalSlice \in Seq(Nat)
    BY <1>1 DEF readJournalSlice
  <2> QED BY <2>1 DEF LinesOf
<1>3. /\ Slice \in ReportShape /\ Slice.left = LinesOf(readJournalSlice) /\ Slice.fresh = {}
      /\ Slice.through = through /\ Slice.stage = "lines"
      /\ Slice.file = (IF SliceFrom = 0 \/ markFile = file THEN file ELSE Skipped)
  <2>1. through \in Nat /\ wiring \in Nat /\ file \in Nat
    BY <1>1 DEF HealthShapes
  <2> HIDE DEF through
  <2>2. SliceThrough = through
    BY DEF through
  <2>3. (IF SliceFrom = 0 \/ markFile = file THEN file ELSE Skipped) \in Nat
    BY <2>1 DEF Skipped
  <2> QED BY <1>2, <2>1, <2>2, <2>3 DEF Slice, ReportShape
<1>4. Slice.file = file =>
        Slice.through <= Len(journal) /\ LinesOf(SubSeq(journal, 1, Slice.through)) \subseteq faultRows \cup Slice.left
  <2>1. SUFFICES ASSUME Slice.file = file
                 PROVE  LinesOf(SubSeq(journal, 1, through)) \subseteq faultRows \cup LinesOf(readJournalSlice)
    BY <1>1, <1>3
  <2>2. SliceFrom = 0 \/ markFile = file
    BY <1>3, <2>1 DEF Skipped, HealthShapes
  <2>3. LinesOf(SubSeq(journal, 1, from)) \subseteq faultRows
    <3>1. CASE SliceFrom = 0
      <4>1. LinesOf(SubSeq(journal, 1, 0)) = {journal[i] : i \in 1 .. 0} \ {Torn}
        <5>1. 0 \in 0 .. Len(journal)
          BY <1>1
        <5> QED BY <1>1, <5>1, LinesOfPart
      <4>2. 1 .. 0 = {}
        OBVIOUS
      <4> QED BY <3>1, <4>1, <4>2
    <3>2. CASE markFile = file /\ SliceFrom # 0
      <4>1. SliceFrom = mark
        BY <3>2 DEF SliceFrom
      <4> QED BY <3>2, <4>1 DEF MarkInv
    <3> QED BY <2>2, <3>1, <3>2
  <2>4. LinesOf(SubSeq(journal, 1, through)) =
          LinesOf(SubSeq(journal, 1, from)) \cup LinesOf(SubSeq(journal, from + 1, through))
    <3> HIDE DEF from, through
    <3> QED BY <1>1, LinesJoin
  <2> QED BY <2>3, <2>4 DEF readJournalSlice
<1> USE DEF ReportNow
<1>5. reports' = reports \cup {Slice}
  OBVIOUS
<1> HIDE DEF ReportNow
<1>6. HealthShapes'
  <2>1. \A q \in reports' : q \in ReportShape /\ q.file <= file /\ q.fresh \subseteq faultRows /\ (q.stage # "lines" => q.left = {})
    BY <1>3, <1>5 DEF HealthShapes, Skipped
  <2>2. UNCHANGED <<journal, lastLine, file, mark, markFile, wiring, faultRows, counted>>
    BY DEF ReportNow
  <2> QED BY <2>1, <2>2 DEF HealthShapes
<1>7. SlicesInv'
  <2>1. \A q \in reports' : q.file = file =>
          q.through <= Len(journal) /\ LinesOf(SubSeq(journal, 1, q.through)) \subseteq faultRows \cup q.left
    BY <1>4, <1>5 DEF SlicesInv
  <2> QED BY <2>1 DEF SlicesInv, LinesOf, ReportNow
<1>8. MarkInv'
  BY DEF MarkInv, LinesOf, ReportNow
<1>9. CountInv'
  <2>1. \A q \in Pending' : q \in Pending \/ q.fresh = {}
    BY <1>3, <1>5 DEF Pending
  <2>2. \A p, q \in Pending' : p # q => p.fresh \cap q.fresh = {}
    BY <2>1 DEF CountInv
  <2>3. Pending \subseteq Pending'
    BY <1>5 DEF Pending
  <2>4. Counted' = Counted
    <3>1. faultRows' = faultRows
      BY DEF ReportNow
    <3> QED BY <2>1, <2>3, <3>1 DEF Counted
  <2> QED BY <2>2, <2>4 DEF CountInv, ReportNow
<1> QED BY <1>6, <1>7, <1>8, <1>9

(* A line is stored, or refused.                                           *)
LEMMA LineStored ==
  ASSUME HealthInv, NEW r \in reports, IngestLine(r)
  PROVE  HealthInv'
<1> USE DEF HealthInv
<1>0. r \in ReportShape
  BY DEF HealthShapes
<1>1. PICK line \in r.left :
        IF line \in Unstorable
        THEN Replace(r, {}) /\ UNCHANGED faultRows
        ELSE /\ faultRows' = faultRows \cup {line}
             /\ Replace(r, {[r EXCEPT !.left = @ \ {line}, !.fresh = @ \cup ({line} \ faultRows)]})
  BY DEF IngestLine
<1>2. UNCHANGED <<journal, lastLine, half, file, mark, markFile, wiring, told, counted>> /\ r.stage = "lines"
  BY DEF IngestLine
<1>3. CASE line \in Unstorable
  <2>1. mark' \in Nat /\ markFile' \in 0 .. file /\ {} \in SUBSET ReportShape
    BY <1>2 DEF HealthShapes
  <2>2. Replace(r, {}) /\ UNCHANGED faultRows
    BY <1>1, <1>3
  <2>3. HealthShapes' /\ SlicesInv' /\ CountInv'
    BY <1>2, <2>1, <2>2, ReportMoves
  <2>4. MarkInv'
    BY <1>2, <2>2 DEF MarkInv, LinesOf
  <2> QED BY <2>3, <2>4
<1>4. CASE line \notin Unstorable
  <2> DEFINE next == [r EXCEPT !.left = @ \ {line}, !.fresh = @ \cup ({line} \ faultRows)]
  <2>1. /\ next \in ReportShape /\ next.file = r.file /\ next.through = r.through
        /\ next.left = r.left \ {line} /\ next.fresh = r.fresh \cup ({line} \ faultRows)
        /\ next.stage = "lines"
    BY <1>0, <1>2 DEF ReportShape
  <2>2. faultRows' = faultRows \cup {line} /\ reports' = (reports \ {r}) \cup {next}
    BY <1>1, <1>4 DEF Replace
  <2> HIDE DEF next
  <2>3. line \in Nat
    BY <1>0 DEF ReportShape
  <2>4. HealthShapes'
    <3>1. \A q \in reports' : q \in ReportShape /\ q.file <= file /\ q.fresh \subseteq faultRows' /\ (q.stage # "lines" => q.left = {})
      BY <2>1, <2>2 DEF HealthShapes
    <3>2. faultRows' \in SUBSET Nat /\ IsFiniteSet(faultRows')
      BY <2>2, <2>3, FS_AddElement DEF HealthShapes
    <3> QED BY <1>2, <3>1, <3>2 DEF HealthShapes
  <2>5. SlicesInv'
    <3>1. \A q \in reports' : q.file = file =>
            q.through <= Len(journal) /\ LinesOf(SubSeq(journal, 1, q.through)) \subseteq faultRows' \cup q.left
      BY <2>1, <2>2 DEF SlicesInv
    <3> QED BY <1>2, <3>1 DEF SlicesInv, LinesOf
  <2>6. MarkInv'
    BY <1>2, <2>2 DEF MarkInv, LinesOf
  <2>7. CountInv'
    <3>1. \A q \in Pending' : (q \in Pending /\ q # r) \/ q = next
      BY <2>2 DEF Pending
    <3>2. r \in Pending /\ \A q \in Pending : q.fresh \subseteq faultRows
      BY <1>2 DEF Pending, HealthShapes
    <3>3. \A p, q \in Pending' : p # q => p.fresh \cap q.fresh = {}
      BY <2>1, <3>1, <3>2 DEF CountInv
    <3>4. Counted \subseteq Counted'
      BY <2>1, <2>2, <3>1, <3>2 DEF Counted
    <3>5. IsFiniteSet(Counted')
      <4>1. Counted' \in SUBSET (faultRows')
        BY DEF Counted
      <4>2. IsFiniteSet(faultRows')
        BY <2>4 DEF HealthShapes
      <4> QED BY <4>1, <4>2, FS_Subset
    <3>6. Cardinality(Counted) <= Cardinality(Counted') /\ Cardinality(Counted) \in Nat /\ Cardinality(Counted') \in Nat
      BY <3>4, <3>5, FS_Subset, FS_CardinalityType, CountedFinite
    <3>7. counted' <= Cardinality(Counted')
      BY <1>2, <3>6 DEF CountInv, HealthShapes
    <3> QED BY <3>3, <3>7 DEF CountInv
  <2> QED BY <2>4, <2>5, <2>6, <2>7
<1> QED BY <1>3, <1>4

(* The lines that were new are counted.                                    *)
LEMMA LinesCounted ==
  ASSUME HealthInv, NEW r \in reports, CountLines(r)
  PROVE  HealthInv'
<1> USE DEF HealthInv
<1>0. r \in ReportShape
  BY DEF HealthShapes
<1> DEFINE next == [r EXCEPT !.stage = "done"]
<1>1. /\ next \in ReportShape /\ next.file = r.file /\ next.through = r.through
      /\ next.left = r.left /\ next.fresh = r.fresh /\ next.stage = "done"
  BY <1>0 DEF ReportShape
<1>2. /\ UNCHANGED <<journal, lastLine, half, file, mark, markFile, wiring, faultRows, told>> /\ r.stage = "count"
      /\ counted' = counted + Cardinality(r.fresh)
  BY DEF CountLines
<1>3. reports' = (reports \ {r}) \cup {next} \/ reports' = (reports \ {r}) \cup {}
  BY DEF CountLines, Replace
<1> HIDE DEF next
<1>4. \A q \in reports' : (q \in reports /\ q # r) \/ q = next
  BY <1>3
<1>5. r.left = {} /\ r.fresh \subseteq faultRows /\ IsFiniteSet(faultRows) /\ counted \in Nat
  BY <1>2 DEF HealthShapes
<1>6. IsFiniteSet(r.fresh) /\ Cardinality(r.fresh) \in Nat
  <2>1. r.fresh \in SUBSET faultRows
    BY <1>5
  <2> QED BY <1>5, <2>1, FS_Subset, FS_CardinalityType
<1>7. HealthShapes'
  <2>1. \A q \in reports' : q \in ReportShape /\ q.file <= file /\ q.fresh \subseteq faultRows /\ (q.stage # "lines" => q.left = {})
    BY <1>1, <1>4, <1>5 DEF HealthShapes
  <2>2. counted' \in Nat
    BY <1>2, <1>5, <1>6
  <2> QED BY <1>2, <2>1, <2>2 DEF HealthShapes
<1>8. SlicesInv'
  <2>1. \A q \in reports' : q.file = file =>
          q.through <= Len(journal) /\ LinesOf(SubSeq(journal, 1, q.through)) \subseteq faultRows \cup q.left
    BY <1>1, <1>4 DEF SlicesInv
  <2> QED BY <1>2, <2>1 DEF SlicesInv, LinesOf
<1>9. MarkInv'
  BY <1>2 DEF MarkInv, LinesOf
<1>10. CountInv'
  <2>1. \A q \in Pending' : q \in Pending /\ q # r
    BY <1>1, <1>4 DEF Pending
  <2>2. r \in Pending
    BY <1>2 DEF Pending
  <2>3. \A p, q \in Pending' : p # q => p.fresh \cap q.fresh = {}
    BY <2>1 DEF CountInv
  <2>4. Counted \cup r.fresh \subseteq Counted' /\ Counted \cap r.fresh = {}
    BY <1>2, <1>5, <2>1, <2>2 DEF CountInv, Counted
  <2>5. IsFiniteSet(Counted) /\ Cardinality(Counted) \in Nat
    BY CountedFinite
  <2>6. IsFiniteSet(Counted')
    <3>1. Counted' \in SUBSET faultRows
      BY <1>2 DEF Counted
    <3> QED BY <1>5, <3>1, FS_Subset
  <2>7. Cardinality(Counted \cup r.fresh) = Cardinality(Counted) + Cardinality(r.fresh) /\ IsFiniteSet(Counted \cup r.fresh)
    <3>1. Cardinality(Counted \cap r.fresh) = 0
      BY <2>4, FS_EmptySet
    <3> QED BY <1>6, <2>5, <3>1, FS_Union
  <2>8. Cardinality(Counted \cup r.fresh) <= Cardinality(Counted') /\ Cardinality(Counted') \in Nat
    <3>1. Counted \cup r.fresh \in SUBSET (Counted')
      BY <2>4
    <3> QED BY <2>6, <3>1, FS_Subset, FS_CardinalityType
  <2>9. counted' <= Cardinality(Counted')
    <3>1. counted <= Cardinality(Counted)
      BY DEF CountInv
    <3> QED BY <1>2, <1>5, <1>6, <2>5, <2>7, <2>8, <3>1
  <2> QED BY <2>3, <2>9 DEF CountInv
<1> QED BY <1>7, <1>8, <1>9, <1>10

LEMMA HealthStep == HealthInv /\ [HealthNext]_healthVars => HealthInv'
<1> SUFFICES ASSUME HealthInv, [HealthNext]_healthVars PROVE HealthInv'
  OBVIOUS
<1>1. CASE UNCHANGED healthVars
  BY <1>1 DEF healthVars, HealthInv, HealthShapes, SlicesInv, MarkInv, CountInv, Counted, Pending, LinesOf
<1>2. CASE Change \/ JournalFault \/ TearLine \/ ReplaceJournal
  BY <1>2, MachineMoves
<1>3. CASE Reporting
  BY <1>3, ReportBegins, ReportsGoOn, LineStored, LinesCounted DEF Reporting
<1>4. ASSUME NEW r \in reports, GivenUp(r) PROVE HealthInv'
  BY <1>4, ReportsGoOn
<1> QED BY <1>1, <1>2, <1>3, <1>4 DEF HealthNext

(* Whatever is lost, late, torn, sent twice or replaced, central has every *)
(* whole line of the file that the mark has passed, and has counted none   *)
(* twice (server/nodeHealth.js, ingestFaultJournal): for any slice size,   *)
(* any lines that cannot be stored and any number of faults.               *)
THEOREM EvidenceStays == HealthSpec => []EvidenceKept
<1>1. HealthInv => EvidenceKept
  <2> SUFFICES ASSUME HealthInv PROVE EvidenceKept
    OBVIOUS
  <2>1. counted <= Cardinality(faultRows)
    BY CountedFinite DEF HealthInv, CountInv, HealthShapes
  <2> QED BY <2>1 DEF EvidenceKept, HealthInv, MarkInv
<1> QED BY <1>1, HealthStart, HealthStep, PTL DEF HealthSpec
-----------------------------------------------------------------------------
(* The wiring of the hooks *)

CheckRecord ==
  [on : BOOLEAN, at : Nat \ {0}, repair : BOOLEAN,
   ever : SUBSET Backends, installed : SUBSET Backends, tampered : SUBSET Backends]

WiringTypes ==
  /\ config \in [Backends -> {"bare", "wired", "unreadable"}]
  /\ everInstalled \subseteq Backends
  /\ check \in CheckRecord
  /\ check.repair => check.on /\ check.at <= Len(Adapters)

Asked == wanted \cup mended

(* Files, memory and the check under way name nobody that was not asked    *)
(* for; a check that repairs a file has found it unreadable, or somebody   *)
(* asked for it.                                                           *)
AskedInv ==
  /\ \A b \in Backends : config[b] = "wired" => b \in Asked
  /\ everInstalled \subseteq Asked /\ tampers \subseteq everInstalled
  /\ check.on => check.ever = everInstalled
  /\ check.installed \subseteq Asked /\ check.tampered \subseteq check.installed
  /\ check.repair => Adapters[check.at] \in Asked \/ config[Adapters[check.at]] = "unreadable"

WiringInv == WiringTypes /\ AskedInv

LEMMA NoCheckFields ==
  /\ NoCheck \in CheckRecord /\ ~NoCheck.on /\ ~NoCheck.repair
  /\ NoCheck.installed = {} /\ NoCheck.tampered = {}
  BY DEF NoCheck, CheckRecord

LEMMA FieldsOf ==
  ASSUME WiringInv
  PROVE  /\ check \in CheckRecord /\ check.at + 1 \in Nat \ {0}
         /\ \A b \in Backends : check.installed \cup {b} \in SUBSET Backends /\ check.tampered \cup {b} \in SUBSET Backends
  BY DEF WiringInv, WiringTypes, CheckRecord

(* At the start.                                                           *)
LEMMA WiringInitInv == WiringInit => WiringInv
  BY NoCheckFields DEF WiringInit, WiringInv, WiringTypes, AskedInv

(* The backend that the check has come to is one.                          *)
LEMMA AtBackend ==
  ASSUME WiringTypes, check.at <= Len(Adapters)
  PROVE  Adapters[check.at] \in Backends
<1>1. check.at \in 1 .. Len(Adapters)
  BY WiringAssumption DEF WiringTypes, CheckRecord
<1> QED BY <1>1 DEF Backends

(* Others write what they like: who they wire is asked for, and so is whose*)
(* file they put right under a repair.                                     *)
LEMMA OthersSteps ==
  ASSUME WiringInv, NEW b \in Backends, NEW content \in {"bare", "wired", "unreadable"},
         Edit(b, content) \/ InstallProvider(b) \/ UninstallProvider(b)
  PROVE  WiringInv'
<1>1. CASE Edit(b, content)
  <2>1. WiringTypes'
    BY <1>1 DEF Edit, WiringInv, WiringTypes
  <2>2. check.repair => Adapters[check.at] \in Backends
    BY AtBackend DEF WiringInv, WiringTypes
  <2> QED BY <1>1, <2>1, <2>2 DEF Edit, WiringInv, WiringTypes, AskedInv, Asked
<1>2. CASE InstallProvider(b)
  BY <1>2 DEF InstallProvider, WiringInv, WiringTypes, AskedInv, Asked
<1>3. CASE UninstallProvider(b)
  BY <1>3 DEF UninstallProvider, WiringInv, WiringTypes, AskedInv, Asked
<1> QED BY <1>1, <1>2, <1>3

(* A check begins, and finds each file wired, to be repaired, or neither.  *)
LEMMA LookingSteps ==
  ASSUME WiringInv, StartCheck \/ Detect
  PROVE  WiringInv'
<1>1. CASE StartCheck
  <2>1. check' = [on |-> TRUE, at |-> 1, repair |-> FALSE, ever |-> everInstalled, installed |-> {}, tampered |-> {}]
    BY <1>1 DEF StartCheck, NoCheck
  <2>2. /\ check' \in CheckRecord /\ check'.on /\ ~check'.repair /\ check'.ever = everInstalled
        /\ check'.installed = {} /\ check'.tampered = {}
    BY <2>1 DEF CheckRecord, WiringInv, WiringTypes
  <2> QED BY <1>1, <2>2 DEF StartCheck, WiringInv, WiringTypes, AskedInv, Asked
<1>2. CASE Detect
  <2> DEFINE b == Adapters[check.at]
  <2>1. b \in Backends /\ check.on /\ ~check.repair /\ check.at <= Len(Adapters)
    BY <1>2, AtBackend DEF Detect, Looking, WiringInv
  <2>2. CASE config[b] = "wired"
    <3>1. check' = [check EXCEPT !.at = check.at + 1, !.installed = check.installed \cup {b}]
      BY <1>2, <2>2 DEF Detect
    <3>2. check' \in CheckRecord
      <4>1. check.at + 1 \in Nat \ {0} /\ check.installed \cup {b} \in SUBSET Backends
        BY <2>1, FieldsOf
      <4> QED BY <3>1, <4>1, FieldsOf DEF CheckRecord
    <3>3. /\ check'.on /\ ~check'.repair /\ check'.ever = check.ever
          /\ check'.installed = check.installed \cup {b} /\ check'.tampered = check.tampered
      BY <2>1, <3>1, FieldsOf DEF CheckRecord
    <3> QED BY <1>2, <2>1, <2>2, <3>2, <3>3 DEF Detect, WiringInv, WiringTypes, AskedInv, Asked
  <2>3. CASE config[b] # "wired"
    <3>1. \/ check' = [check EXCEPT !.at = check.at + 1]
          \/ check' = [check EXCEPT !.repair = TRUE] /\ (b \in check.ever \/ config[b] = "unreadable")
      BY <1>2, <2>3 DEF Detect
    <3>2. check' \in CheckRecord
      <4>1. check.at + 1 \in Nat \ {0}
        BY FieldsOf
      <4> QED BY <3>1, <4>1, FieldsOf DEF CheckRecord
    <3>3. /\ check'.on /\ check'.ever = check.ever
          /\ check'.installed = check.installed /\ check'.tampered = check.tampered
          /\ check'.repair => check'.at = check.at /\ (b \in check.ever \/ config[b] = "unreadable")
      BY <2>1, <3>1, FieldsOf DEF CheckRecord
    <3> QED BY <1>2, <2>1, <3>2, <3>3 DEF Detect, WiringInv, WiringTypes, AskedInv, Asked
  <2> QED BY <2>2, <2>3
<1> QED BY <1>1, <1>2

(* A repair wires the file it was decided on, or finds it unreadable and   *)
(* ends the check.                                                         *)
LEMMA RepairStep ==
  ASSUME WiringInv, Repair
  PROVE  WiringInv'
<1> DEFINE b == Adapters[check.at]
<1>1. b \in Backends /\ check.on /\ check.repair
  BY AtBackend DEF Repair, WiringInv, WiringTypes
<1>2. CASE config[b] = "unreadable"
  BY <1>2, NoCheckFields DEF Repair, WiringInv, WiringTypes, AskedInv, Asked
<1>3. CASE config[b] # "unreadable"
  <2> check' = [check EXCEPT !.at = check.at + 1, !.repair = FALSE, !.installed = check.installed \cup {b},
                             !.tampered = check.tampered \cup {b}]
    BY <1>3 DEF Repair
  <2>0. check' \in CheckRecord
    <3>1. /\ check.at + 1 \in Nat \ {0}
          /\ check.installed \cup {b} \in SUBSET Backends /\ check.tampered \cup {b} \in SUBSET Backends
      BY <1>1, FieldsOf
    <3> QED BY <3>1, FieldsOf DEF CheckRecord
  <2>1. /\ check'.on /\ ~check'.repair /\ check'.ever = check.ever
        /\ check'.installed = check.installed \cup {b} /\ check'.tampered = check.tampered \cup {b}
    BY <1>1, FieldsOf DEF CheckRecord
  <2>2. config' = [config EXCEPT ![b] = "wired"] /\ b \in Asked
    BY <1>1, <1>3 DEF Repair, WiringInv, AskedInv
  <2> QED BY <1>1, <2>0, <2>1, <2>2 DEF Repair, WiringInv, WiringTypes, AskedInv, Asked
<1> QED BY <1>2, <1>3

(* What was found is remembered; a server that starts changes nothing, and *)
(* one that dies takes its check with it and wires nothing.                *)
LEMMA ServerSteps ==
  ASSUME WiringInv, Remember \/ StartHookWatcher \/ Die
  PROVE  WiringInv'
<1>1. CASE Remember
  <2>1. check.ever \subseteq Backends /\ check.installed \subseteq Backends
    BY DEF WiringInv, WiringTypes, CheckRecord
  <2> QED BY <1>1, <2>1, NoCheckFields DEF Remember, WiringInv, WiringTypes, AskedInv, Asked
<1>2. CASE StartHookWatcher
  BY <1>2 DEF StartHookWatcher, WiringInv, WiringTypes, AskedInv, Asked
<1>3. CASE Die
  <2>1. /\ config' \in [Backends -> {"bare", "wired", "unreadable"}]
        /\ \A b \in Backends : config'[b] = "wired" => config[b] = "wired"
    BY <1>3 DEF Die, WiringInv, WiringTypes
  <2> QED BY <1>3, <2>1, NoCheckFields DEF Die, WiringInv, WiringTypes, AskedInv, Asked
<1> QED BY <1>1, <1>2, <1>3

(* The watcher puts back what somebody asked for and nothing else, and the *)
(* backends it logs are remembered (server/providers.js checkAndRepair).   *)
THEOREM NobodyIsForced == WiringSpec => []NobodyForced
<1>1. WiringInv /\ [WiringNext]_wiringVars => WiringInv'
  <2> SUFFICES ASSUME WiringInv, [WiringNext]_wiringVars PROVE WiringInv'
    OBVIOUS
  <2>1. CASE UNCHANGED wiringVars
    BY <2>1 DEF wiringVars, WiringInv, WiringTypes, AskedInv, Asked
  <2>2. ASSUME NEW b \in Backends, NEW content \in {"bare", "wired", "unreadable"},
               Edit(b, content) \/ InstallProvider(b) \/ UninstallProvider(b)
        PROVE  WiringInv'
    BY <2>2, OthersSteps
  <2>3. CASE Watching \/ Die
    BY <2>3, LookingSteps, RepairStep, ServerSteps DEF Watching
  <2> QED BY <2>1, <2>2, <2>3 DEF WiringNext
<1>2. WiringInv => NobodyForced
  BY DEF WiringInv, AskedInv, NobodyForced, Asked
<1> QED BY <1>1, <1>2, WiringInitInv, PTL DEF WiringSpec

-----------------------------------------------------------------------------
(* The parts of one instance *)

RecordedInv == TypeInv /\ (DeadInv /\ LettersInv) /\ (AlertsInv /\ TimesInv)

LEMMA RecordedStart == RecordedInit => RecordedInv
BY TypeInit, DeadInitInv, LettersStart, AlertsStart, TimesStart DEF RecordedInit, RecordedInv

LEMMA RecordedStep == RecordedInv /\ [RecordedNext]_recordedVars => RecordedInv'
<1> SUFFICES ASSUME RecordedInv, [RecordedNext]_recordedVars PROVE RecordedInv'
  OBVIOUS
<1>1. [Next]_vars /\ [DeadNext]_deadVars /\ [AlertsNext]_alertVars
  BY DEF RecordedNext, recordedVars
<1> QED BY <1>1, TypeStep, DeadStep, LettersStep, AlertsStep, TimesStep DEF RecordedInv

(* The parts keep their types; and a row of central's is always made of a  *)
(* shipment in its ledger (central/store.js ingestBatch), a replay under   *)
(* way is always of a letter that is there, and no alert is of a window    *)
(* that its rule could not have had open (alerts/rules.js).                *)
THEOREM RecordedTypeCorrect == RecordedSafety => []RecordedTypeOK
<1>1. RecordedInv => RecordedTypeOK
  BY LettersTyped, TimesTyped DEF RecordedInv, RecordedTypeOK, TypeInv
<1> QED BY <1>1, RecordedStart, RecordedStep, PTL DEF RecordedSafety
=============================================================================
