---------------------------- MODULE AuditDelivery ----------------------------
(***************************************************************************)
(* What the usage outbox, the shipper and central's ingest promise         *)
(* together about the audit trail, with no queue and no network in sight.  *)
(* The node records an event and may amend it once; central comes to hold  *)
(* it.  What central holds of an event was true of it, is never taken back *)
(* for something older, and in the end is what the node has.               *)
(***************************************************************************)
EXTENDS Naturals

CONSTANT Events  \* the events a node may record

VARIABLES
  recorded,      \* how often the node has written each event: 0, 1 or 2
  held           \* which of those writes central has

vars == <<recorded, held>>

AInit == recorded = [e \in Events |-> 0] /\ held = [e \in Events |-> 0]

(* The node writes the event, or the one correction it may get.            *)
WriteEvent(e) ==
  /\ recorded[e] < 2
  /\ recorded' = [recorded EXCEPT ![e] = @ + 1]
  /\ UNCHANGED held

(* Central moves some events forward, all to something the node wrote.     *)
Receive ==
  /\ \E h \in [Events -> 0 .. 2] :
       /\ \A e \in Events : held[e] <= h[e] /\ h[e] <= recorded[e]
       /\ held' = h
  /\ UNCHANGED recorded

ANext == Receive \/ \E e \in Events : WriteEvent(e)

ASafety == AInit /\ [][ANext]_vars

(* Once the node is done, central has it all and keeps it.                 *)
Delivered == <>[](held = recorded)

ASpec == ASafety /\ WF_vars(Receive /\ held' = recorded)
=============================================================================
