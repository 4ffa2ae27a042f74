-------------------------- MODULE RevocationChannel --------------------------
(***************************************************************************)
(* What Windrow promises about a revocation, with no mechanism at all.     *)
(*                                                                         *)
(* An administrator revokes a grant at central; the revocation reaches the *)
(* deny-list file the node's hook reads.  Revoking is for good, a node     *)
(* denies nothing that was not revoked, it never forgets a revocation it   *)
(* has learned, and it learns every revocation in the end.                 *)
(*                                                                         *)
(* PolicyChannel implements this specification.                            *)
(***************************************************************************)
CONSTANT Grants         \* every grant an administrator may ever create

VARIABLES revoked,      \* the grants revoked at central
          denied        \* the grants the node's deny-list names

avars == <<revoked, denied>>

AInit == revoked = {} /\ denied = {}

(* An administrator revokes a grant. *)
Revoke(g) ==
  /\ g \notin revoked
  /\ revoked' = revoked \cup {g}
  /\ UNCHANGED denied

(* The node learns of revocations: of some it did not know, never of one   *)
(* that did not happen, and without forgetting those it already knew.      *)
Learn ==
  /\ \E news \in SUBSET revoked : denied' = denied \cup news
  /\ UNCHANGED revoked

ANext == Learn \/ \E g \in Grants : Revoke(g)

ASafety == AInit /\ [][ANext]_avars

(* A revocation lands: every revoked grant is denied by the node in the    *)
(* end.                                                                    *)
Lands == \A g \in Grants : g \in revoked ~> g \in denied

ASpec == ASafety /\ Lands
=============================================================================
