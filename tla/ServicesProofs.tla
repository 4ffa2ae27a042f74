--------------------------- MODULE ServicesProofs ---------------------------
(***************************************************************************)
(* What the processes beside the governed call keep, for any number of     *)
(* machines, nodes, tokens, requests, lines and crashes: enrollment's      *)
(* tokens and names, the dashboard's supervisor, and the shipper of native *)
(* observations.                                                           *)
(***************************************************************************)
EXTENDS ServicesMC, FiniteSetTheorems, TLAPS

(* Tokens and names *)

TokenRecord == [uses : Nat, dead : BOOLEAN]
NodeRecord == [enrolled : BOOLEAN, revoked : BOOLEAN, serial : 0 .. MaxCerts]
CertRecord == [node : NodeIds \cup {NoName}, token : Tokens \cup {NoToken}]
DiskRecord == [key : 0 .. MaxCerts, cert : 0 .. MaxCerts]
RequestSteps == {"idle", "sent", "admitted", "chosen", "issued", "checked", "answered", "keyed"}
RequestRecord ==
  [step : RequestSteps, token : Tokens \cup {NoToken}, proven : NodeIds \cup {NoName},
   claim : NodeIds \cup {NoName}, node : NodeIds \cup {NoName},
   serial : 0 .. MaxCerts, barred : BOOLEAN, taken : BOOLEAN]

EnrollTypes ==
  /\ tokens \in [Tokens -> TokenRecord]
  /\ roster \in [NodeIds -> NodeRecord]
  /\ issued \in 0 .. MaxCerts
  /\ certs \in [Serials -> CertRecord]
  /\ aged \subseteq 1 .. issued
  /\ disk \in [Machines -> DiskRecord]
  /\ faults \in 0 .. MaxFaults

(* Every certificate that was signed for a token is one of its uses.       *)
UsesInv == \A t \in Tokens : Cardinality(CertsBy(t)) <= tokens[t].uses /\ tokens[t].uses <= MaxUses[t]

(* A request has a token while one is asked for, and a name once it was    *)
(* given one; who is to be kept out has not come past the look that will   *)
(* keep him out, and what keeps him out is in the roster still.            *)
Name(r) == IF r.proven # NoName THEN r.proven ELSE r.claim

Goal(r) == IF r.step \in {"chosen", "issued"} THEN r.node ELSE Name(r)
Unlooked == {"sent", "admitted", "chosen", "issued"}

InOrder(r) ==
  /\ r.step \in {"chosen", "issued", "checked", "answered", "keyed"} => r.node \in NodeIds
  /\ r.step \in {"admitted", "chosen"} => r.token \in Tokens
  /\ r.barred => r.step \in Unlooked /\ Goal(r) \in NodeIds /\ roster[Goal(r)].revoked
  /\ r.taken => /\ r.step \in {"sent", "admitted"} /\ Name(r) \in NodeIds /\ roster[Name(r)].enrolled
                /\ r.proven = NoName /\ r.token \in Tokens /\ MaxUses[r.token] = 1

RequestInv ==
  /\ request \in [Machines -> RequestRecord]
  /\ \A m \in Machines : InOrder(request[m])

EnrollInv == EnrollTypes /\ UsesInv /\ RequestInv

(* Who asks nothing is in order.                                           *)
LEMMA NoRequestIs == NoRequest \in RequestRecord /\ InOrder(NoRequest) /\ InOrder(NoRequest)'
<1>1. NoRequest \in RequestRecord
  <2>1. 0 \in 0 .. MaxCerts
    BY EnrollAssumption
  <2> QED BY <2>1 DEF NoRequest, RequestRecord, RequestSteps
<1> QED BY <1>1 DEF NoRequest, InOrder

(* At the start.                                                           *)
LEMMA EnrollInitInv == EnrollInit => EnrollInv
<1> SUFFICES ASSUME EnrollInit PROVE EnrollInv
  OBVIOUS
<1>1. EnrollTypes
  <2>1. /\ 0 \in 0 .. MaxCerts /\ 0 \in 0 .. MaxFaults /\ 0 \in Nat
    BY EnrollAssumption
  <2>2. [uses |-> 0, dead |-> FALSE] \in TokenRecord /\ [enrolled |-> FALSE, revoked |-> FALSE, serial |-> 0] \in NodeRecord
        /\ [key |-> 0, cert |-> 0] \in DiskRecord
    BY <2>1 DEF TokenRecord, NodeRecord, DiskRecord
  <2>3. NoCert \in CertRecord
    BY DEF NoCert, CertRecord
  <2> QED BY <2>1, <2>2, <2>3 DEF EnrollInit, EnrollTypes
<1>2. UsesInv
  <2>1. ASSUME NEW t \in Tokens PROVE CertsBy(t) = {}
    BY DEF CertsBy, EnrollInit
  <2>2. \A t \in Tokens : tokens[t].uses = 0 /\ MaxUses[t] \in Nat
    BY EnrollAssumption DEF EnrollInit
  <2> QED BY <2>1, <2>2, FS_EmptySet DEF UsesInv
<1>3. RequestInv
  BY NoRequestIs DEF EnrollInit, RequestInv
<1> QED BY <1>1, <1>2, <1>3 DEF EnrollInv

-----------------------------------------------------------------------------
(* What steps do to the parts of the invariant.                            *)

(* A name, once enrolled or revoked, stays so.                             *)
RosterGrows ==
  /\ roster' \in [NodeIds -> NodeRecord]
  /\ \A n \in NodeIds : /\ roster[n].enrolled => roster'[n].enrolled
                        /\ roster[n].revoked => roster'[n].revoked

(* A name that is enrolled, or revoked, stays so: what keeps a request out *)
(* goes on keeping it out.                                                 *)
LEMMA StaysInOrder ==
  ASSUME RosterGrows, NEW r, InOrder(r)
  PROVE  InOrder(r)'
  BY DEF RosterGrows, InOrder, Goal, Unlooked, Name

(* One request moves on while the roster grows.                            *)
LEMMA RequestMoves ==
  ASSUME RequestInv, RosterGrows, NEW m \in Machines, NEW r \in RequestRecord, Goes(m, r), InOrder(r)
  PROVE  RequestInv'
<1>1. request' \in [Machines -> RequestRecord] /\ \A x \in Machines : request'[x] = r \/ request'[x] = request[x]
  BY DEF RequestInv, Goes
<1>2. \A q : InOrder(q) => InOrder(q)'
  BY StaysInOrder
<1>3. ASSUME NEW x \in Machines PROVE InOrder(request[x])'
  <2>1. PICK q : q = request'[x] /\ InOrder(q)
    BY <1>1 DEF RequestInv
  <2>2. InOrder(q)'
    BY <1>2, <2>1
  <2> QED BY <2>1, <2>2 DEF InOrder, Goal, Unlooked, Name
<1> QED BY <1>1, <1>3 DEF RequestInv

(* The roster grows while no request moves.                                *)
LEMMA RequestsStay == ASSUME RequestInv, RosterGrows, request' = request PROVE RequestInv'
<1>1. \A q : InOrder(q) => InOrder(q)'
  BY StaysInOrder
<1>2. ASSUME NEW x \in Machines PROVE InOrder(request[x])'
  <2>1. PICK q : q = request[x] /\ InOrder(q)
    BY DEF RequestInv
  <2>2. InOrder(q)'
    BY <1>1, <2>1
  <2> QED BY <2>1, <2>2 DEF InOrder, Goal, Unlooked, Name
<1> QED BY <1>2 DEF RequestInv

(* No change is growth.                                                    *)
LEMMA RosterStays == ASSUME EnrollTypes, roster' = roster PROVE RosterGrows
  BY DEF EnrollTypes, RosterGrows

(* The certificates of a token can be counted.                             *)
LEMMA CertsByFinite == ASSUME EnrollTypes, NEW t PROVE IsFiniteSet(CertsBy(t)) /\ Cardinality(CertsBy(t)) \in Nat
<1>1. IsFiniteSet(1 .. issued) /\ CertsBy(t) \subseteq 1 .. issued
  BY FS_Interval DEF EnrollTypes, CertsBy
<1> QED BY <1>1, FS_Subset, FS_CardinalityType

(* Where no certificate is signed and no token touched, the counts stand.  *)
LEMMA UsesStay == ASSUME UsesInv, tokens' = tokens, issued' = issued, certs' = certs PROVE UsesInv'
  BY DEF UsesInv, CertsBy

(* A certificate adds one to the count of its token.                       *)
LEMMA IssueCounts ==
  ASSUME EnrollTypes, NEW m \in Machines, request[m] \in RequestRecord, NEW n \in NodeIds, Issue(m, n), NEW t \in Tokens
  PROVE  /\ request[m].token # t => CertsBy(t)' = CertsBy(t)
         /\ request[m].token = t => Cardinality(CertsBy(t)') = Cardinality(CertsBy(t)) + 1
<1>1. /\ issued \in Nat /\ issued < MaxCerts /\ issued' = issued + 1 /\ certs \in [Serials -> CertRecord]
      /\ certs' = [certs EXCEPT ![issued + 1] = [node |-> n, token |-> request[m].token]]
  BY EnrollAssumption DEF EnrollTypes, Issue
<1>2. issued + 1 \in Serials /\ \A s \in 1 .. issued : s \in Serials /\ certs'[s] = certs[s]
  BY <1>1, EnrollAssumption DEF Serials
<1>3. certs'[issued + 1].token = request[m].token
  BY <1>1, <1>2
<1>4. 1 .. issued' = (1 .. issued) \cup {issued + 1} /\ issued + 1 \notin 1 .. issued
  BY <1>1
<1>5. CASE request[m].token # t
  BY <1>2, <1>3, <1>4, <1>5 DEF CertsBy
<1>6. CASE request[m].token = t
  <2>1. CertsBy(t)' = CertsBy(t) \cup {issued + 1} /\ issued + 1 \notin CertsBy(t)
    BY <1>2, <1>3, <1>4, <1>6 DEF CertsBy
  <2> QED BY <1>6, <2>1, CertsByFinite, FS_AddElement
<1> QED BY <1>5, <1>6
-----------------------------------------------------------------------------
(* Central                                                                 *)

Rest == UNCHANGED <<roster, aged, disk, faults>>

(* A step that only moves a request on.                                    *)
LEMMA OnlyMoves ==
  ASSUME EnrollInv, NEW m \in Machines, NEW r \in RequestRecord, Goes(m, r), InOrder(r),
         UNCHANGED <<tokens, issued, certs>>, Rest
  PROVE  EnrollInv'
<1>1. EnrollTypes'
  BY DEF Rest, EnrollInv, EnrollTypes
<1> QED BY <1>1, RosterStays, RequestMoves, UsesStay DEF EnrollInv, Rest

(* A request is refused.                                                   *)
LEMMA RefuseStep == ASSUME EnrollInv, NEW m \in Machines, Refuse(m), Rest PROVE EnrollInv'
  BY OnlyMoves, NoRequestIs DEF Refuse

(* What is known of a machine that asks.                                   *)
LEMMA MachineRequest == ASSUME EnrollInv, NEW m \in Machines PROVE request[m] \in RequestRecord /\ InOrder(request[m])
  BY DEF EnrollInv, RequestInv

(* Moving from one step to a later one.                                    *)
Moved(m, step, node) == [request[m] EXCEPT !.step = step, !.node = node]

(* What moving changes, and what it leaves.                                *)
LEMMA ToStep ==
  ASSUME EnrollInv, NEW m \in Machines, NEW step \in RequestSteps, NEW node \in NodeIds \cup {NoName}
  PROVE  /\ Moved(m, step, node) \in RequestRecord
         /\ Moved(m, step, node).step = step /\ Moved(m, step, node).node = node
         /\ Moved(m, step, node).token = request[m].token /\ Name(Moved(m, step, node)) = Name(request[m])
         /\ Moved(m, step, node).barred = request[m].barred /\ Moved(m, step, node).taken = request[m].taken
         /\ Moved(m, step, node).proven = request[m].proven
  BY MachineRequest DEF Moved, RequestRecord, Name

(* The step that the module takes is that move.                            *)
LEMMA ToIs ==
  ASSUME EnrollInv, NEW m \in Machines, NEW step \in RequestSteps, To(m, step)
  PROVE  Goes(m, Moved(m, step, request[m].node))
<1>1. [request[m] EXCEPT !.step = step] = Moved(m, step, request[m].node)
  BY MachineRequest DEF RequestRecord, Moved
<1> QED BY <1>1 DEF To

(* Spending adds one use, and there was one left.                          *)
LEMMA SpendTypes ==
  ASSUME EnrollInv, NEW t \in Tokens, tokens' = [tokens EXCEPT ![t].uses = @ + 1], Spendable(t)
  PROVE  /\ tokens' \in [Tokens -> TokenRecord]
         /\ \A x \in Tokens : tokens'[x].uses = IF x = t THEN tokens[x].uses + 1 ELSE tokens[x].uses
         /\ tokens[t].uses + 1 <= MaxUses[t]
<1>1. \A x \in Tokens : MaxUses[x] \in Nat /\ tokens[x].uses \in Nat
  BY EnrollAssumption DEF EnrollInv, EnrollTypes, TokenRecord
<1>2. tokens[t].uses + 1 \in Nat
  BY <1>1
<1> QED BY <1>1, <1>2 DEF EnrollInv, EnrollTypes, TokenRecord, Spendable

(* A certificate is signed, for a use of a token or on a proof.            *)
LEMMA IssueStep ==
  ASSUME EnrollInv, NEW m \in Machines, NEW n \in NodeIds, Issue(m, n), Rest,
         request[m].barred => roster[n].revoked, ~request[m].taken,
         \/ request[m].token = NoToken /\ tokens' = tokens
         \/ /\ request[m].token \in Tokens /\ Spendable(request[m].token)
            /\ tokens' = [tokens EXCEPT ![request[m].token].uses = @ + 1]
  PROVE  EnrollInv'
<1>1. /\ request[m] \in RequestRecord /\ issued \in Nat /\ issued + 1 \in Serials /\ issued + 1 \in 0 .. MaxCerts
      /\ issued' = issued + 1
  BY MachineRequest, EnrollAssumption DEF EnrollInv, EnrollTypes, Issue, Serials
<1>2. tokens' \in [Tokens -> TokenRecord]
  BY SpendTypes DEF EnrollInv, EnrollTypes
<1>3. EnrollTypes'
  <2>1. [node |-> n, token |-> request[m].token] \in CertRecord
    BY <1>1 DEF RequestRecord, CertRecord
  <2>2. certs' \in [Serials -> CertRecord]
    BY <2>1 DEF Issue, EnrollInv, EnrollTypes
  <2>3. aged' \subseteq 1 .. issued' /\ issued' \in 0 .. MaxCerts
    BY <1>1 DEF Rest, EnrollInv, EnrollTypes
  <2> QED BY <1>2, <2>2, <2>3 DEF Rest, EnrollInv, EnrollTypes
<1>4. UsesInv'
  <2> SUFFICES ASSUME NEW t \in Tokens
               PROVE  Cardinality(CertsBy(t)') <= tokens'[t].uses /\ tokens'[t].uses <= MaxUses[t]
    BY DEF UsesInv
  <2>1. /\ Cardinality(CertsBy(t)) \in Nat /\ tokens[t].uses \in Nat /\ MaxUses[t] \in Nat
        /\ Cardinality(CertsBy(t)) <= tokens[t].uses /\ tokens[t].uses <= MaxUses[t]
    BY CertsByFinite, EnrollAssumption DEF EnrollInv, EnrollTypes, TokenRecord, UsesInv
  <2>2. CASE request[m].token # t
    <3>1. CertsBy(t)' = CertsBy(t)
      BY <1>1, <2>2, IssueCounts DEF EnrollInv
    <3>2. tokens'[t].uses = tokens[t].uses
      BY <2>2, SpendTypes
    <3> QED BY <2>1, <3>1, <3>2
  <2>3. CASE request[m].token = t
    <3>1. Cardinality(CertsBy(t)') = Cardinality(CertsBy(t)) + 1
      BY <1>1, <2>3, IssueCounts DEF EnrollInv
    <3>2. Spendable(t) /\ tokens' = [tokens EXCEPT ![t].uses = @ + 1]
      BY <2>3, EnrollAssumption
    <3>3. tokens'[t].uses = tokens[t].uses + 1 /\ tokens[t].uses + 1 <= MaxUses[t]
      BY <3>2, SpendTypes
    <3> QED BY <2>1, <3>1, <3>3
  <2> QED BY <2>2, <2>3
<1>5. RequestInv'
  <2> DEFINE moved == [request[m] EXCEPT !.step = "issued", !.node = n, !.serial = issued + 1]
  <2>1. /\ moved \in RequestRecord /\ moved.step = "issued" /\ moved.node = n
        /\ moved.barred = request[m].barred /\ moved.taken = request[m].taken
    BY <1>1 DEF RequestRecord, RequestSteps
  <2>2. Goes(m, moved)
    BY DEF Issue
  <2> HIDE DEF moved
  <2>3. PICK r \in RequestRecord : r = moved
    BY <2>1
  <2>4. InOrder(r)
    BY <2>1, <2>3 DEF InOrder, Goal, Unlooked
  <2> QED BY <2>2, <2>3, <2>4, RosterStays, RequestMoves DEF Rest, EnrollInv
<1> QED BY <1>3, <1>4, <1>5 DEF EnrollInv

(* On a proof or with a token: who is to be kept out is refused, and so is *)
(* whoever loses the race for a token.                                     *)
LEMMA ServeStep == ASSUME EnrollInv, NEW m \in Machines, Renew(m) \/ FindToken(m) \/ ClaimNode(m) PROVE EnrollInv'
<1>1. request[m] \in RequestRecord /\ InOrder(request[m])
  BY MachineRequest
<1>2. CASE Renew(m)
  <2>1. Rest /\ request[m].token = NoToken /\ request[m].step = "sent"
    BY <1>2 DEF Renew, Rest, On
  <2>2. CASE Refuse(m)
    BY <2>1, <2>2, RefuseStep
  <2>3. CASE ~Refuse(m)
    <3>1. PICK n \in NodeIds : n = request[m].proven /\ Issue(m, n) /\ tokens' = tokens /\ ~roster[n].revoked
      BY <1>1, <1>2, <2>3 DEF Renew, RequestRecord
    <3>2. n # NoName /\ NoToken \notin Tokens
      BY EnrollAssumption
    <3>3. ~request[m].barred /\ ~request[m].taken
      BY <1>1, <2>1, <3>1, <3>2 DEF InOrder, Goal, Unlooked, Name
    <3> QED BY <2>1, <3>1, <3>3, IssueStep
  <2> QED BY <2>2, <2>3
<1>3. CASE FindToken(m)
  <2>1. Rest /\ request[m].token \in Tokens /\ request[m].step = "sent"
    BY <1>1, <1>3 DEF FindToken, Rest, On, RequestRecord
  <2>2. CASE Refuse(m)
    BY <2>1, <2>2, RefuseStep
  <2>3. CASE ~Refuse(m)
    <3>1. To(m, "admitted") /\ UNCHANGED <<tokens, issued, certs>>
      BY <1>3, <2>3 DEF FindToken
    <3>2. PICK node \in NodeIds \cup {NoName} : node = request[m].node
      BY <1>1 DEF RequestRecord
    <3> DEFINE r == Moved(m, "admitted", node)
    <3>3. /\ r \in RequestRecord /\ r.step = "admitted" /\ r.token = request[m].token /\ Name(r) = Name(request[m])
          /\ r.barred = request[m].barred /\ r.taken = request[m].taken /\ r.proven = request[m].proven
      BY ToStep DEF RequestSteps
    <3>4. Goes(m, r)
      BY <3>1, <3>2, ToIs DEF RequestSteps
    <3> HIDE DEF r
    <3>5. InOrder(r)
      BY <1>1, <2>1, <3>3 DEF InOrder, Goal, Unlooked
    <3> QED BY <2>1, <3>1, <3>3, <3>4, <3>5, OnlyMoves
  <2> QED BY <2>2, <2>3
<1>4. CASE ClaimNode(m)
  <2>1. Rest /\ request[m].token \in Tokens /\ request[m].step = "admitted" /\ Claimed(m) = Name(request[m])
    BY <1>1, <1>4 DEF ClaimNode, Rest, On, InOrder, Goal, Unlooked, Claimed, Name
  <2>2. CASE Refuse(m)
    BY <2>1, <2>2, RefuseStep
  <2>3. CASE ~Refuse(m)
    <3>1. PICK n \in NodeIds : Choose(m, n) /\ ~request[m].barred /\ ~request[m].taken
      <4>1. Claimed(m) \in NodeIds \cup {NoName} /\ NoName \notin NodeIds
        BY <1>1, EnrollAssumption DEF Claimed, RequestRecord
      <4>2. CASE Claimed(m) = NoName
        BY <1>1, <1>4, <2>1, <4>1, <4>2 DEF ClaimNode, InOrder, Goal, Unlooked
      <4>3. CASE Claimed(m) \in NodeIds
        <5>1. ~roster[Claimed(m)].revoked /\ Choose(m, Claimed(m))
              /\ ~(roster[Claimed(m)].enrolled /\ request[m].proven = NoName /\ MaxUses[request[m].token] = 1)
          BY <1>4, <2>3, <4>1, <4>3 DEF ClaimNode
        <5> QED BY <1>1, <2>1, <4>3, <5>1 DEF InOrder, Goal, Unlooked
      <4> QED BY <4>1, <4>2, <4>3
    <3> DEFINE r == Moved(m, "chosen", n)
    <3>2. /\ r \in RequestRecord /\ r.step = "chosen" /\ r.node = n /\ r.token = request[m].token
          /\ r.barred = request[m].barred /\ r.taken = request[m].taken
      BY ToStep DEF RequestSteps
    <3>3. Goes(m, r) /\ UNCHANGED <<tokens, issued, certs>>
      BY <3>1 DEF Choose, Moved
    <3> HIDE DEF r
    <3>4. InOrder(r)
      BY <2>1, <3>1, <3>2 DEF InOrder, Goal, Unlooked
    <3> QED BY <2>1, <3>2, <3>3, <3>4, OnlyMoves
  <2> QED BY <2>2, <2>3
<1> QED BY <1>2, <1>3, <1>4

(* One use of the token and one certificate, or a use that comes to        *)
(* nothing.                                                                *)
LEMMA SpendStep == ASSUME EnrollInv, NEW m \in Machines, ConsumeEnrollmentToken(m) \/ IssueFails(m) PROVE EnrollInv'
<1>1. request[m] \in RequestRecord /\ InOrder(request[m]) /\ request[m].step = "chosen"
  BY MachineRequest DEF ConsumeEnrollmentToken, IssueFails, On
<1>2. /\ request[m].token \in Tokens /\ request[m].node \in NodeIds /\ ~request[m].taken
      /\ request[m].barred => roster[request[m].node].revoked
  BY <1>1 DEF InOrder, Goal, Unlooked
<1>3. Rest
  BY DEF ConsumeEnrollmentToken, IssueFails, Rest
<1>4. CASE ConsumeEnrollmentToken(m)
  <2>1. CASE Refuse(m)
    BY <1>3, <2>1, RefuseStep
  <2>2. CASE ~Refuse(m)
    <3>1. /\ Spendable(request[m].token) /\ Issue(m, request[m].node)
          /\ tokens' = [tokens EXCEPT ![request[m].token].uses = @ + 1]
      BY <1>4, <2>2 DEF ConsumeEnrollmentToken
    <3>2. PICK n \in NodeIds : n = request[m].node
      BY <1>2
    <3> QED BY <1>2, <1>3, <3>1, <3>2, IssueStep
  <2> QED BY <2>1, <2>2
<1>5. CASE IssueFails(m)
  <2>1. PICK t \in Tokens : t = request[m].token
    BY <1>2
  <2>2. Spendable(t) /\ tokens' = [tokens EXCEPT ![t].uses = @ + 1] /\ Goes(m, NoRequest) /\ UNCHANGED <<issued, certs>>
    BY <1>5, <2>1 DEF IssueFails
  <2>3. EnrollTypes'
    BY <1>3, <2>2, SpendTypes DEF Rest, EnrollInv, EnrollTypes
  <2>4. UsesInv'
    <3> SUFFICES ASSUME NEW x \in Tokens
                 PROVE  Cardinality(CertsBy(x)') <= tokens'[x].uses /\ tokens'[x].uses <= MaxUses[x]
      BY DEF UsesInv
    <3>1. /\ Cardinality(CertsBy(x)) \in Nat /\ tokens[x].uses \in Nat /\ MaxUses[x] \in Nat
          /\ Cardinality(CertsBy(x)) <= tokens[x].uses /\ tokens[x].uses <= MaxUses[x]
      BY CertsByFinite, EnrollAssumption DEF EnrollInv, EnrollTypes, TokenRecord, UsesInv
    <3>2. CertsBy(x)' = CertsBy(x)
      BY <2>2 DEF CertsBy
    <3>3. x # t => tokens'[x].uses = tokens[x].uses
      BY <2>2, SpendTypes
    <3>4. x = t => tokens'[x].uses = tokens[x].uses + 1 /\ tokens[x].uses + 1 <= MaxUses[x]
      BY <2>2, SpendTypes
    <3> QED BY <3>1, <3>2, <3>3, <3>4
  <2>5. RequestInv'
    BY <1>3, <2>2, NoRequestIs, RosterStays, RequestMoves DEF Rest, EnrollInv
  <2> QED BY <2>3, <2>4, <2>5 DEF EnrollInv
<1> QED BY <1>4, <1>5

(* The row is looked at, then written.                                     *)
LEMMA RegisterSteps == ASSUME EnrollInv, NEW m \in Machines, CheckRow(m) \/ RegisterNode(m) PROVE EnrollInv'
<1>1. request[m] \in RequestRecord /\ InOrder(request[m]) /\ request[m].step \in {"issued", "checked"}
  BY MachineRequest DEF CheckRow, RegisterNode, On
<1>2. /\ request[m].node \in NodeIds /\ ~request[m].taken
      /\ request[m].barred => request[m].step = "issued" /\ roster[request[m].node].revoked
  BY <1>1 DEF InOrder, Goal, Unlooked
<1>3. ASSUME NEW step \in {"checked", "answered"}, To(m, step), ~request[m].barred
      PROVE  \E r \in RequestRecord : Goes(m, r) /\ InOrder(r)
  <2>1. PICK node \in NodeIds \cup {NoName} : node = request[m].node
    BY <1>2
  <2> DEFINE r == Moved(m, step, node)
  <2>2. /\ r \in RequestRecord /\ r.step = step /\ r.node = node /\ r.token = request[m].token
        /\ r.barred = request[m].barred /\ r.taken = request[m].taken
    BY ToStep DEF RequestSteps
  <2>3. Goes(m, r)
    BY <1>3, <2>1, ToIs DEF RequestSteps
  <2> HIDE DEF r
  <2>4. InOrder(r)
    BY <1>2, <1>3, <2>1, <2>2 DEF InOrder, Goal, Unlooked
  <2> QED BY <2>2, <2>3, <2>4
<1>4. CASE CheckRow(m)
  <2>1. Rest /\ (Refuse(m) \/ (~request[m].barred /\ To(m, "checked") /\ UNCHANGED <<tokens, issued, certs>>))
    BY <1>2, <1>4 DEF CheckRow, Rest
  <2> QED BY <1>3, <2>1, RefuseStep, OnlyMoves
<1>5. CASE RegisterNode(m)
  <2>1. PICK n \in NodeIds, serial \in 0 .. MaxCerts : n = request[m].node /\ serial = request[m].serial
    BY <1>1, <1>2 DEF RequestRecord
  <2>2. /\ roster' = [roster EXCEPT ![n].enrolled = TRUE, ![n].serial = serial] /\ To(m, "answered")
        /\ UNCHANGED <<tokens, issued, certs, aged, disk, faults>>
    BY <1>5, <2>1 DEF RegisterNode
  <2>3. RosterGrows
    <3>1. roster \in [NodeIds -> NodeRecord]
      BY DEF EnrollInv, EnrollTypes
    <3> QED BY <2>2, <3>1 DEF RosterGrows, NodeRecord
  <2>4. EnrollTypes'
    BY <2>2, <2>3 DEF RosterGrows, EnrollInv, EnrollTypes
  <2>5. ~request[m].barred
    BY <1>2, <1>5 DEF RegisterNode, On
  <2> QED BY <1>3, <2>2, <2>3, <2>4, <2>5, RequestMoves, UsesStay DEF EnrollInv
<1> QED BY <1>4, <1>5
-----------------------------------------------------------------------------
(* The machine                                                             *)

(* What a machine can prove or claim is a name, or none.                   *)
LEMMA ProofIs ==
  ASSUME EnrollInv, NEW m \in Machines
  PROVE  /\ Proof(m) \in NodeIds \cup {NoName} /\ CurrentNodeId(m) \in NodeIds \cup {NoName}
<1>1. disk[m].cert \in 0 .. MaxCerts
  BY DEF EnrollInv, EnrollTypes, DiskRecord
<1>2. NodeOf(disk[m].cert) \in NodeIds \cup {NoName}
  <2>1. disk[m].cert = 0 \/ disk[m].cert \in Serials
    BY <1>1, EnrollAssumption DEF Serials
  <2> QED BY <2>1 DEF NodeOf, EnrollInv, EnrollTypes, CertRecord
<1> QED BY <1>2, EnrollAssumption DEF Proof, CurrentNodeId

(* What is to be kept out is written down when the machine asks.           *)
LEMMA AskStep ==
  ASSUME EnrollInv, NEW m \in Machines, NEW t \in Tokens \cup {NoToken}, Enroll(m, t)
  PROVE  EnrollInv'
<1> DEFINE known == Named(m) # NoName /\ roster[Named(m)].enrolled
           barred == known /\ roster[Named(m)].revoked
           taken == known /\ Proof(m) = NoName /\ t # NoToken /\ MaxUses[t] = 1
           r == [NoRequest EXCEPT !.step = "sent", !.token = t, !.proven = Proof(m), !.claim = CurrentNodeId(m),
                                  !.barred = barred, !.taken = taken]
<1>1. Goes(m, r) /\ UNCHANGED <<tokens, issued, certs>> /\ Rest
  BY DEF Enroll, Rest
<1>2. barred \in BOOLEAN /\ taken \in BOOLEAN
  OBVIOUS
<1>3. PICK b \in BOOLEAN, k \in BOOLEAN : b = barred /\ k = taken
  BY <1>2, Zenon
<1>4. PICK proven \in NodeIds \cup {NoName}, claim \in NodeIds \cup {NoName} : proven = Proof(m) /\ claim = CurrentNodeId(m)
  BY ProofIs
<1>5. r = [NoRequest EXCEPT !.step = "sent", !.token = t, !.proven = proven, !.claim = claim, !.barred = b, !.taken = k]
  BY <1>3, <1>4, Zenon
<1>6. /\ r \in RequestRecord /\ r.step = "sent" /\ r.token = t /\ r.proven = proven /\ r.claim = claim
      /\ r.barred = b /\ r.taken = k
  <2> HIDE DEF r
  <2> QED BY <1>5, NoRequestIs DEF RequestRecord, RequestSteps
<1>7. Name(r) = Named(m)
  <2> HIDE DEF r
  <2> QED BY <1>4, <1>6 DEF Name, Named
<1>8. Named(m) \in NodeIds \cup {NoName}
  BY ProofIs DEF Named
<1>9. InOrder(r)
  <2>1. b => Named(m) \in NodeIds /\ roster[Named(m)].revoked
    BY <1>3, <1>8
  <2>2. k => Named(m) \in NodeIds /\ roster[Named(m)].enrolled /\ proven = NoName /\ t \in Tokens /\ MaxUses[t] = 1
    BY <1>3, <1>4, <1>8
  <2> HIDE DEF r
  <2> QED BY <1>6, <1>7, <2>1, <2>2 DEF InOrder, Goal, Unlooked
<1> HIDE DEF r
<1> QED BY <1>1, <1>6, <1>9, OnlyMoves

(* The machine keeps what it was sent, loses it, or is built anew.         *)
LEMMA KeepSteps == ASSUME EnrollInv, NEW m \in Machines, Keep(m) \/ Lose(m) \/ Rebuild(m) PROVE EnrollInv'
<1>1. request[m] \in RequestRecord /\ InOrder(request[m]) /\ RosterGrows
  <2>1. roster' = roster
    BY DEF Keep, SaveKey, SaveCert, Lose, Rebuild
  <2> QED BY <2>1, MachineRequest, RosterStays DEF EnrollInv
<1>2. UsesInv'
  BY UsesStay DEF Keep, SaveKey, SaveCert, Lose, Rebuild, EnrollInv
<1>3. EnrollTypes'
  <2>1. request[m].serial \in 0 .. MaxCerts /\ 0 \in 0 .. MaxCerts
    BY <1>1, EnrollAssumption DEF RequestRecord
  <2>2. disk' \in [Machines -> DiskRecord]
    <3>1. CASE disk' = disk
      BY <3>1 DEF EnrollInv, EnrollTypes
    <3>2. CASE \/ disk' = [disk EXCEPT ![m].key = request[m].serial]
               \/ disk' = [disk EXCEPT ![m].cert = request[m].serial]
               \/ disk' = [disk EXCEPT ![m] = [key |-> 0, cert |-> 0]]
      BY <2>1, <3>2 DEF EnrollInv, EnrollTypes, DiskRecord
    <3> QED BY <3>1, <3>2 DEF Keep, SaveKey, SaveCert, Lose, Rebuild
  <2>3. faults' \in 0 .. MaxFaults
    <3>1. faults' = faults \/ (faults < MaxFaults /\ faults' = faults + 1)
      BY DEF Keep, SaveKey, SaveCert, Lose, Rebuild
    <3> QED BY <3>1, EnrollAssumption DEF EnrollInv, EnrollTypes
  <2>4. UNCHANGED <<tokens, roster, issued, certs, aged>>
    BY DEF Keep, SaveKey, SaveCert, Lose, Rebuild
  <2> QED BY <2>2, <2>3, <2>4 DEF EnrollInv, EnrollTypes
<1>4. RequestInv'
  <2>1. CASE SaveKey(m)
    <3>1. request[m].step = "answered" /\ To(m, "keyed")
      BY <2>1 DEF SaveKey, On
    <3>2. PICK node \in NodeIds \cup {NoName} : node = request[m].node
      BY <1>1 DEF RequestRecord
    <3> DEFINE r == Moved(m, "keyed", node)
    <3>3. /\ r \in RequestRecord /\ r.step = "keyed" /\ r.node = node
          /\ r.barred = request[m].barred /\ r.taken = request[m].taken
      BY ToStep DEF RequestSteps
    <3>4. Goes(m, r)
      BY <3>1, <3>2, ToIs DEF RequestSteps
    <3> HIDE DEF r
    <3>5. InOrder(r)
      BY <1>1, <3>1, <3>2, <3>3 DEF InOrder, Goal, Unlooked
    <3> QED BY <1>1, <3>3, <3>4, <3>5, RequestMoves DEF EnrollInv
  <2>2. CASE SaveCert(m) \/ Lose(m)
    <3>1. Goes(m, NoRequest)
      BY <2>2 DEF SaveCert, Lose
    <3> QED BY <1>1, <3>1, NoRequestIs, RequestMoves DEF EnrollInv
  <2>3. CASE Rebuild(m)
    BY <1>1, <2>3, RequestsStay DEF Rebuild, EnrollInv
  <2> QED BY <2>1, <2>2, <2>3 DEF Keep
<1> QED BY <1>2, <1>3, <1>4 DEF EnrollInv

-----------------------------------------------------------------------------
(* An administrator, and time                                              *)

(* Tokens and nodes are revoked; certificates come of age.                 *)
LEMMA AdminSteps ==
  ASSUME EnrollInv,
         \/ \E t \in Tokens : RevokeToken(t)
         \/ \E n \in NodeIds : RevokeNode(n)
         \/ \E s \in Serials : Age(s)
  PROVE  EnrollInv'
<1>1. ASSUME NEW t \in Tokens, RevokeToken(t) PROVE EnrollInv'
  <2>1. /\ tokens' \in [Tokens -> TokenRecord] /\ \A x \in Tokens : tokens'[x].uses = tokens[x].uses
        /\ UNCHANGED <<roster, issued, certs, aged, disk, request, faults>>
    BY <1>1 DEF RevokeToken, EnrollInv, EnrollTypes, TokenRecord
  <2>2. UsesInv'
    BY <2>1 DEF EnrollInv, UsesInv, CertsBy
  <2>3. RequestInv'
    BY <2>1, RosterStays, RequestsStay DEF EnrollInv
  <2> QED BY <2>1, <2>2, <2>3 DEF EnrollInv, EnrollTypes
<1>2. ASSUME NEW n \in NodeIds, RevokeNode(n) PROVE EnrollInv'
  <2>1. /\ roster' = [roster EXCEPT ![n].revoked = TRUE]
        /\ UNCHANGED <<tokens, issued, certs, aged, disk, faults>>
        /\ request' = [m \in Machines |-> IF Destined(m) = n THEN [request[m] EXCEPT !.barred = TRUE] ELSE request[m]]
    BY <1>2 DEF RevokeNode
  <2>2. RosterGrows
    <3>1. roster \in [NodeIds -> NodeRecord]
      BY DEF EnrollInv, EnrollTypes
    <3> QED BY <2>1, <3>1 DEF RosterGrows, NodeRecord
  <2>3. EnrollTypes'
    BY <2>1, <2>2 DEF RosterGrows, EnrollInv, EnrollTypes
  <2>4. roster'[n].revoked
    BY <2>1 DEF EnrollInv, EnrollTypes, NodeRecord
  <2>5. ASSUME NEW m \in Machines PROVE request'[m] \in RequestRecord /\ InOrder(request[m])'
    <3>1. PICK r \in RequestRecord : r = request[m] /\ InOrder(r)
      BY MachineRequest
    <3>2. PICK q \in RequestRecord : q = [r EXCEPT !.barred = TRUE]
      BY DEF RequestRecord
    <3>3. /\ q.step = r.step /\ q.token = r.token /\ q.proven = r.proven /\ q.claim = r.claim /\ q.node = r.node
          /\ q.barred /\ q.taken = r.taken
      BY <3>2 DEF RequestRecord
    <3>4. InOrder(r)'
      BY <2>2, <3>1, StaysInOrder
    <3>5. CASE Destined(m) = n
      <4>1. r.step \in Unlooked /\ Goal(r) = n
        BY <3>1, <3>5, EnrollAssumption DEF Destined, Claimed, Unlooked, Goal, Name
      <4>2. InOrder(q)'
        BY <2>4, <3>3, <3>4, <4>1 DEF InOrder, Goal, Name
      <4>3. request'[m] = q
        BY <2>1, <3>1, <3>2, <3>5
      <4> QED BY <4>2, <4>3 DEF InOrder, Goal, Name
    <3>6. CASE Destined(m) # n
      <4>1. request'[m] = r
        BY <2>1, <3>1, <3>6
      <4> QED BY <3>4, <4>1 DEF InOrder, Goal, Name
    <3> QED BY <3>5, <3>6
  <2>6. RequestInv'
    BY <2>1, <2>5 DEF RequestInv
  <2> QED BY <2>1, <2>2, <2>3, <2>6, UsesStay DEF EnrollInv
<1>3. ASSUME NEW s \in Serials, Age(s) PROVE EnrollInv'
  <2>1. aged' \subseteq 1 .. issued' /\ UNCHANGED <<tokens, roster, issued, certs, disk, request, faults>>
    BY <1>3 DEF Age, EnrollInv, EnrollTypes
  <2> QED BY <2>1, RosterStays, RequestsStay, UsesStay DEF EnrollInv, EnrollTypes
<1> QED BY <1>1, <1>2, <1>3

(* Every step keeps the invariant.                                         *)
LEMMA EnrollStep == EnrollInv /\ [EnrollNext]_enrollVars => EnrollInv'
<1> SUFFICES ASSUME EnrollInv, [EnrollNext]_enrollVars PROVE EnrollInv'
  OBVIOUS
<1>1. ASSUME NEW m \in Machines, CheckOnce(m) \/ \E t \in Tokens : EnrollByHand(m, t) PROVE EnrollInv'
  <2>1. PICK t \in Tokens \cup {NoToken} : Enroll(m, t)
    BY <1>1, EnrollAssumption DEF CheckOnce, EnrollByHand
  <2> QED BY <2>1, AskStep
<1>2. ASSUME NEW m \in Machines, Serve(m) \/ IssueFails(m) PROVE EnrollInv'
  BY <1>2, ServeStep, SpendStep, RegisterSteps DEF Serve
<1>3. ASSUME NEW m \in Machines, Keep(m) \/ Lose(m) \/ Rebuild(m) PROVE EnrollInv'
  BY <1>3, KeepSteps
<1>4. CASE UNCHANGED enrollVars
  BY <1>4, RosterStays, RequestsStay, UsesStay DEF enrollVars, EnrollInv, EnrollTypes
<1> QED BY <1>1, <1>2, <1>3, <1>4, AdminSteps DEF EnrollNext

(* So it holds throughout.                                                 *)
LEMMA EnrollAlways == EnrollSafety => []EnrollInv
  BY EnrollInitInv, EnrollStep, PTL DEF EnrollSafety

LEMMA EnrollTyped == EnrollInv => EnrollTypeOK
<1> SUFFICES ASSUME EnrollInv PROVE EnrollTypeOK
  OBVIOUS
<1>1. request \in [Machines -> RequestRecord]
  BY DEF EnrollInv, RequestInv
<1>2. \A t \in Tokens : tokens[t].uses <= MaxUses[t]
  BY DEF EnrollInv, UsesInv
<1> QED BY <1>1, <1>2 DEF EnrollInv, EnrollTypes, EnrollTypeOK, TokenRecord, NodeRecord, CertRecord, DiskRecord,
                          RequestRecord, RequestSteps

(* The variables keep their types, and no token is used more often than it *)
(* may be (central/enrollmentStore.js consumeEnrollmentToken).             *)
THEOREM EnrollTypeCorrect == EnrollSafety => []EnrollTypeOK
  BY EnrollTyped, EnrollAlways, PTL

(* However many machines race for a token, and whatever fails between a use*)
(* and its certificate, there are no more certificates for it than uses    *)
(* (central/enrollmentStore.js consumeEnrollmentToken).                    *)
THEOREM CertificatesWithinUses == EnrollSafety => []WithinUses
<1>1. EnrollInv => WithinUses
  <2> SUFFICES ASSUME EnrollInv, NEW t \in Tokens PROVE Cardinality(CertsBy(t)) <= MaxUses[t]
    BY DEF WithinUses
  <2>1. Cardinality(CertsBy(t)) \in Nat /\ tokens[t].uses \in Nat /\ MaxUses[t] \in Nat
    BY CertsByFinite, EnrollAssumption DEF EnrollInv, EnrollTypes, TokenRecord
  <2> QED BY <2>1 DEF EnrollInv, UsesInv
<1> QED BY <1>1, EnrollAlways, PTL

(* Who was revoked before it asked, or before central looked at its row for*)
(* the last time, and who claims with a single-use token alone a name that *)
(* is held, is not served (enrollment/routes.js).                          *)
THEOREM RevokedAreKeptOut == EnrollSafety => []KeptOut
<1>1. EnrollInv => KeptOut
  BY DEF EnrollInv, RequestInv, InOrder, Goal, Unlooked, KeptOut, Served
<1> QED BY <1>1, EnrollAlways, PTL

-----------------------------------------------------------------------------
(* The supervisor *)

(* The backend: who is told to stop while the supervisor goes on has an    *)
(* exit left, and every delayed start is owed to an exit.                  *)
Flags == ready \in BOOLEAN /\ intentional \in BOOLEAN /\ stopping \in BOOLEAN

BackendInv ==
  /\ child \in {"none", "starting", "up", "dying"}
  /\ timers \in Nat /\ exits \in Nat /\ timers <= exits /\ timers <= MaxExits
  /\ ~stopping => exits <= MaxExits /\ (child = "dying" => exits < MaxExits)
  /\ stopping => exits <= MaxExits + 1 /\ (child # "none" => child = "dying" /\ exits <= MaxExits)

ReqSteps == {"idle", "parked", "trying", "open", "sent", "run", "reset", "cut", "answered", "failed"}
Unrun == {"idle", "parked", "trying", "open", "sent", "reset"}

(* The requests: each run but the last was cut short by an exit, and a     *)
(* write that may still be sent has not been run.                          *)
ProxyInv ==
  /\ req \in [Requests -> [step : ReqSteps, runs : Nat]]
  /\ \A r \in Requests : req[r].step \in {"run", "answered"} => req[r].runs <= exits + 1
  /\ \A r \in Requests : req[r].step \notin {"run", "answered"} => req[r].runs <= exits
  /\ \A r \in Writes : req[r].runs <= 1
  /\ \A r \in Writes : req[r].step \in Unrun => req[r].runs = 0

SuperInv == Flags /\ BackendInv /\ ProxyInv

(* At the start.                                                           *)
LEMMA SuperInitInv == SuperInit => SuperInv
<1> SUFFICES ASSUME SuperInit PROVE SuperInv
  OBVIOUS
<1>0. Flags /\ ~stopping
  BY DEF SuperInit, Flags
<1>1. BackendInv
  BY <1>0, SupervisorAssumption DEF SuperInit, BackendInv
<1>2. ProxyInv
  BY SupervisorAssumption DEF SuperInit, ProxyInv, ReqSteps, Unrun
<1> QED BY <1>0, <1>1, <1>2 DEF SuperInv

(* What happens to the backend alone leaves the requests where they are.   *)
LEMMA BackendSteps ==
  ASSUME SuperInv, Listen \/ SpawnChild \/ Restart \/ Shutdown \/ MarkReady
  PROVE  SuperInv'
<1>1. exits' = exits /\ req' = req
  BY DEF Listen, SpawnChild, Restart, Shutdown, MarkReady, Process
<1>2. ProxyInv'
  BY <1>1 DEF SuperInv, ProxyInv
<1>3. Flags'
  BY DEF Listen, SpawnChild, Restart, Shutdown, MarkReady, Process, SuperInv, Flags
<1>4. BackendInv'
  <2>1. CASE Listen
    BY <2>1 DEF Listen, SuperInv, BackendInv
  <2>2. CASE SpawnChild
    <3>1. stopping' = stopping /\ exits' = exits /\ timers > 0 /\ timers' = timers - 1
      BY <2>2 DEF SpawnChild
    <3>2. child' = child \/ (child = "none" /\ ~stopping /\ child' = "starting")
      BY <2>2 DEF SpawnChild
    <3> QED BY <3>1, <3>2, SupervisorAssumption DEF SuperInv, BackendInv
  <2>3. CASE Restart
    BY <2>3 DEF Restart, SuperInv, BackendInv
  <2>4. CASE Shutdown
    <3>1. ~stopping /\ stopping' /\ exits' = exits /\ timers' = timers
      BY <2>4 DEF Shutdown
    <3>2. child' = "dying" \/ (child = "none" /\ child' = "none")
      BY <2>4 DEF Shutdown
    <3> QED BY <3>1, <3>2, SupervisorAssumption DEF SuperInv, BackendInv
  <2>5. CASE MarkReady
    BY <2>5 DEF MarkReady, Process, SuperInv, BackendInv
  <2> QED BY <2>1, <2>2, <2>3, <2>4, <2>5
<1> QED BY <1>2, <1>3, <1>4 DEF SuperInv

(* An exit cuts every run short and pays for it.                           *)
LEMMA ExitStep ==
  ASSUME SuperInv, OnChildExit
  PROVE  SuperInv'
<1>1. Flags'
  BY DEF OnChildExit, SuperInv, Flags
<1>2. BackendInv'
  <2>1. /\ child # "none" /\ (child = "dying" \/ exits < MaxExits)
        /\ exits' = exits + 1 /\ stopping' = stopping
        /\ child' = (IF child = "dying" /\ ~stopping THEN "starting" ELSE "none")
        /\ timers' = timers \/ (~stopping /\ timers' = timers + 1)
    BY DEF OnChildExit
  <2> QED BY <2>1, SupervisorAssumption DEF SuperInv, BackendInv
<1>3. exits' = exits + 1 /\ exits \in Nat
  BY DEF OnChildExit, SuperInv, BackendInv
<1>4. \A r \in Requests :
        /\ req'[r].runs = req[r].runs
        /\ req[r].step = "open" => req'[r].step = "reset"
        /\ req[r].step \in {"sent", "run"} => req'[r].step = "cut"
        /\ req[r].step \notin {"open", "sent", "run"} => req'[r].step = req[r].step
  BY DEF OnChildExit, Broken, SuperInv, ProxyInv
<1>5. req' \in [Requests -> [step : ReqSteps, runs : Nat]]
  BY DEF OnChildExit, Broken, SuperInv, ProxyInv, ReqSteps
<1>6. ProxyInv'
  BY <1>3, <1>4, <1>5, SupervisorAssumption DEF SuperInv, ProxyInv, ReqSteps, Unrun
<1> QED BY <1>1, <1>6, <1>2 DEF SuperInv

(* A request moves on; it is run only when it has been sent, and parked    *)
(* again after that only if it is no write.                                *)
LEMMA ProxySteps ==
  ASSUME SuperInv, NEW r \in Requests, Proxy(r)
  PROVE  SuperInv'
<1>1. Flags' /\ BackendInv'
  <2>1. UNCHANGED Process /\ ready' \in BOOLEAN
    BY DEF Proxy, Arrive, Release, ParkExpires, Connect, Send, Run, Reply, AttemptFailed, SuperInv, Flags
  <2> QED BY <2>1 DEF Process, SuperInv, Flags, BackendInv
<1>2. exits' = exits /\ exits \in Nat
  BY DEF Proxy, Arrive, Release, ParkExpires, Connect, Send, Run, Reply, AttemptFailed, Process, SuperInv, BackendInv
<1>3. req[r] \in [step : ReqSteps, runs : Nat]
  BY DEF SuperInv, ProxyInv
<1>4. ASSUME NEW step \in ReqSteps, Moves(r, step), req[r].step \notin {"run", "answered"}, step \notin {"run", "answered"},
             r \in Writes /\ step \in Unrun => req[r].step \in Unrun
      PROVE  ProxyInv'
  BY <1>2, <1>3, <1>4, SupervisorAssumption DEF Moves, SuperInv, ProxyInv
<1>5. ProxyInv'
  <2>1. CASE Run(r)
    BY <1>2, <1>3, <2>1, SupervisorAssumption DEF Run, At, SuperInv, ProxyInv, ReqSteps, Unrun
  <2>2. CASE Reply(r)
    BY <1>2, <1>3, <2>2, SupervisorAssumption DEF Reply, Moves, At, SuperInv, ProxyInv, ReqSteps, Unrun
  <2>3. CASE Arrive(r)
    BY <1>4, <2>3 DEF Arrive, At, ReqSteps, Unrun
  <2>4. CASE Release(r) \/ ParkExpires(r) \/ Connect(r) \/ Send(r)
    BY <1>4, <2>4 DEF Release, ParkExpires, Connect, Send, At, ReqSteps, Unrun
  <2>5. CASE AttemptFailed(r)
    BY <1>4, <2>5 DEF AttemptFailed, At, ReqSteps, Unrun
  <2> QED BY <2>1, <2>2, <2>3, <2>4, <2>5 DEF Proxy
<1> QED BY <1>1, <1>5 DEF SuperInv

(* Every step of the supervisor and its backend keeps the invariant.       *)
LEMMA SuperStep == SuperInv /\ [SuperNext]_superVars => SuperInv'
<1> SUFFICES ASSUME SuperInv, [SuperNext]_superVars PROVE SuperInv'
  OBVIOUS
<1>1. CASE Listen \/ SpawnChild \/ Restart \/ Shutdown \/ MarkReady
  BY <1>1, BackendSteps
<1>2. CASE OnChildExit
  BY <1>2, ExitStep
<1>3. ASSUME NEW r \in Requests, Proxy(r) PROVE SuperInv'
  BY <1>3, ProxySteps
<1>4. CASE UNCHANGED superVars
  BY <1>4 DEF superVars, SuperInv, Flags, BackendInv, ProxyInv
<1> QED BY <1>1, <1>2, <1>3, <1>4 DEF SuperNext

(* So it holds throughout.                                                 *)
LEMMA SuperAlways == SuperSpec => []SuperInv
  BY SuperInitInv, SuperStep, PTL DEF SuperSpec

LEMMA SuperTyped == SuperInv => SuperTypeOK
  BY SupervisorAssumption DEF SuperInv, Flags, BackendInv, ProxyInv, ReqSteps, SuperTypeOK

(* The variables keep their types, and delayed starts and exits stay within*)
(* their bounds (scripts/supervisor.js).                                   *)
THEOREM SupervisorTypeCorrect == SuperSpec => []SuperTypeOK
  BY SuperTyped, SuperAlways, PTL

(* A POST, PATCH, PUT or DELETE is run once at most, whatever exits, delayed*)
(* starts, retries and parked requests it meets: the proxy sends it again  *)
(* only when it was not sent (scripts/supervisor.js).                      *)
THEOREM WritesRunOnce == SuperSpec => []WriteRunsOnce
<1>1. SuperInv => WriteRunsOnce
  BY DEF SuperInv, ProxyInv, WriteRunsOnce
<1> QED BY <1>1, SuperAlways, PTL

-----------------------------------------------------------------------------
(* Native observations *)

RowStates == {"absent", "unshipped", "shipped"}
PostRecord == [lines : SUBSET Lines, fresh : SUBSET Lines, step : {"none", "sent", "open", "stored", "lost"}]

(* NativeTypeOK, in which central counts a line once for each request it   *)
(* has stored.                                                             *)
NativeTypes ==
  /\ hook \in [Lines -> {"idle", "open", "renamed", "unlinked", "done"}]
  /\ journal \in Files /\ draining \in Files
  /\ drain \in {"down", "idle", "claim", "read", "insert", "unlink", "prune"} /\ claimed \subseteq Lines
  /\ row \in [Lines -> RowStates] /\ old \subseteq Lines /\ given \subseteq Lines
  /\ shipping \in BOOLEAN /\ awaiting \in 0 .. MaxPosts
  /\ post \in [Posts -> PostRecord]
  /\ central \in [Lines -> Nat] /\ crashes \in 0 .. MaxCrashes

(* What trimUnshipped does to the rows it is given.                        *)
LEMMA TrimDrops ==
  ASSUME NEW rows \in [Lines -> RowStates], given \subseteq Lines, TrimUnshipped(rows)
  PROVE  /\ row' \in [Lines -> RowStates] /\ given' \subseteq Lines /\ given \subseteq given'
         /\ \A l \in Lines : row'[l] = rows[l] \/ (rows[l] = "unshipped" /\ row'[l] = "absent" /\ l \in given')
<1> DEFINE queue == {l \in Lines : rows[l] = "unshipped"}
<1>1. PICK dropped \in SUBSET queue :
        /\ row' = [l \in Lines |-> IF l \in dropped THEN "absent" ELSE rows[l]]
        /\ given' = given \cup dropped
  BY DEF TrimUnshipped
<1> QED BY <1>1 DEF RowStates

(* The rows that MarkShipped and ShipFailed hand to it.                    *)
LEMMA MarkedRows ==
  ASSUME NativeTypes, NEW k \in Posts
  PROVE  /\ row \in [Lines -> RowStates] /\ given \subseteq Lines
         /\ [l \in Lines |-> IF l \in post[k].lines /\ row[l] = "unshipped" THEN "shipped" ELSE row[l]]
              \in [Lines -> RowStates]
  BY DEF NativeTypes, RowStates

(* What a file is made of.                                                 *)
LEMMA FilesHold == ASSUME NEW S \in SUBSET Lines PROVE File(S) \in Files /\ File(S).lines = S /\ File(S).exists
  BY DEF Files, File

(* What is known of any file.                                              *)
LEMMA FilesAre ==
  ASSUME NEW f \in Files
  PROVE  f.lines \in SUBSET Lines /\ (~f.exists => f.lines = {})
<1>1. CASE f = NoFile
  BY <1>1 DEF NoFile
<1>2. CASE \E S \in SUBSET Lines : f = File(S)
  BY <1>2 DEF File
<1> QED BY <1>1, <1>2 DEF Files

(* Every step of hooks, drain and shipper keeps the types.                 *)
LEMMA NativeTypesStep == NativeTypes /\ [NativeNext]_nativeVars => NativeTypes'
<1> SUFFICES ASSUME NativeTypes, [NativeNext]_nativeVars PROVE NativeTypes'
  OBVIOUS
<1> USE NativeAssumption DEF spoolVars, drainVars, shipVars
<1>1. NoFile \in Files
  BY DEF Files
<1>2. ASSUME NEW l \in Lines, OpenSpool(l) \/ AppendLine(l) \/ Fortnight(l) PROVE NativeTypes'
  <2>1. /\ File(journal.lines) \in Files
        /\ File(journal.lines \cup {l}) \in Files /\ File(draining.lines \cup {l}) \in Files
    BY FilesHold, FilesAre DEF NativeTypes
  <2>2. CASE OpenSpool(l)
    BY <2>1, <2>2 DEF OpenSpool, NativeTypes
  <2>3. CASE AppendLine(l)
    BY <2>1, <2>3 DEF AppendLine, NativeTypes
  <2>4. CASE Fortnight(l)
    BY <2>4 DEF Fortnight, NativeTypes
  <2> QED BY <1>2, <2>2, <2>3, <2>4
<1>3. CASE Boot \/ Tick \/ ReadSpool \/ StartNativeShipper \/ NativeCrash
  <2>1. CASE Boot \/ Tick
    BY <2>1 DEF Boot, Tick, NativeTypes
  <2>2. CASE ReadSpool
    <3>1. draining.lines \in SUBSET Lines
      BY FilesAre DEF NativeTypes
    <3> QED BY <2>2, <3>1 DEF ReadSpool, NativeTypes
  <2>3. CASE StartNativeShipper
    BY <2>3 DEF StartNativeShipper, NativeTypes
  <2>4. CASE NativeCrash
    <3>1. shipping' \in BOOLEAN
      BY <2>4 DEF NativeCrash
    <3>2. crashes' \in 0 .. MaxCrashes /\ awaiting' \in 0 .. MaxPosts
      BY <2>4 DEF NativeCrash, NativeTypes
    <3> QED BY <2>4, <3>1, <3>2 DEF NativeCrash, NativeTypes
  <2> QED BY <1>3, <2>1, <2>2, <2>3, <2>4
<1>4. CASE ClaimSpool
  BY <1>1, <1>4 DEF ClaimSpool, Follow, NativeTypes
<1>5. CASE InsertNativeToolEvents \/ Prune
  BY <1>5 DEF InsertNativeToolEvents, Prune, NativeTypes, RowStates
<1>6. CASE UnlinkSpool
  BY <1>1, <1>6, FilesAre DEF UnlinkSpool, Follow, NativeTypes
<1>7. CASE ShipFailed
  BY <1>7, MarkedRows, TrimDrops DEF ShipFailed, NativeTypes
<1>8. ASSUME NEW k \in Posts, ShipOnce(k) \/ LookUp(k) \/ IngestNativeBatch(k) \/ LosePost(k) \/ MarkShipped(k)
      PROVE  NativeTypes'
  <2>1. CASE ShipOnce(k)
    <3>1. InRow("unshipped") \in SUBSET Lines /\ k \in 0 .. MaxPosts
      BY DEF InRow, Posts
    <3>2. post' \in [Posts -> PostRecord]
      BY <2>1, <3>1 DEF ShipOnce, NativeTypes, PostRecord
    <3> QED BY <2>1, <3>1, <3>2 DEF ShipOnce, NativeTypes
  <2>2. CASE LookUp(k) \/ LosePost(k)
    <3>1. post' \in [Posts -> PostRecord]
      BY <2>2 DEF LookUp, LosePost, NativeTypes, PostRecord
    <3> QED BY <2>2, <3>1 DEF LookUp, LosePost, NativeTypes
  <2>3. CASE IngestNativeBatch(k)
    <3>1. post' \in [Posts -> PostRecord] /\ central' \in [Lines -> Nat]
      BY <2>3 DEF IngestNativeBatch, NativeTypes, PostRecord
    <3> QED BY <2>3, <3>1 DEF IngestNativeBatch, NativeTypes
  <2>4. CASE MarkShipped(k)
    BY <2>4, MarkedRows, TrimDrops DEF MarkShipped, NativeTypes
  <2> QED BY <1>8, <2>1, <2>2, <2>3, <2>4
<1>9. CASE UNCHANGED nativeVars
  BY <1>9 DEF nativeVars, NativeTypes
<1> QED BY <1>2, <1>3, <1>4, <1>5, <1>6, <1>7, <1>8, <1>9 DEF NativeNext

-----------------------------------------------------------------------------
(* No line is mislaid: what a drain has read and is about to delete with   *)
(* its file is in the table, or was given up.                              *)
Held(l) == row[l] \in {"unshipped", "shipped"} \/ l \in given \/ central[l] > 0

KeptInv ==
  /\ \A l \in Lines : hook[l] = "done" => l \in journal.lines \cup draining.lines \/ Held(l)
  /\ drain = "unlink" => \A l \in claimed : Held(l)

(* Whatever is done to table and central takes nothing from a line but to  *)
(* give it up.                                                             *)
LEMMA HeldStays ==
  ASSUME NativeTypes, [NativeNext]_nativeVars, NEW l \in Lines, Held(l)
  PROVE  Held(l)'
<1> USE DEF spoolVars, drainVars, shipVars, Held
<1>1. ASSUME NEW m \in Lines, OpenSpool(m) \/ AppendLine(m) \/ Fortnight(m) PROVE Held(l)'
  BY <1>1 DEF OpenSpool, AppendLine, Fortnight
<1>2. CASE Boot \/ Tick \/ ReadSpool \/ ClaimSpool \/ UnlinkSpool \/ StartNativeShipper \/ NativeCrash
  BY <1>2 DEF Boot, Tick, ReadSpool, ClaimSpool, UnlinkSpool, StartNativeShipper, NativeCrash
<1>3. CASE InsertNativeToolEvents \/ Prune
  BY <1>3 DEF InsertNativeToolEvents, Prune, NativeTypes
<1>4. CASE ShipFailed
  BY <1>4, MarkedRows, TrimDrops DEF ShipFailed, NativeTypes
<1>5. ASSUME NEW k \in Posts, ShipOnce(k) \/ LookUp(k) \/ LosePost(k) \/ IngestNativeBatch(k) \/ MarkShipped(k)
      PROVE Held(l)'
  <2>1. CASE ShipOnce(k) \/ LookUp(k) \/ LosePost(k)
    BY <2>1 DEF ShipOnce, LookUp, LosePost
  <2>2. CASE IngestNativeBatch(k)
    BY <2>2 DEF IngestNativeBatch, NativeTypes
  <2>3. CASE MarkShipped(k)
    BY <2>3, MarkedRows, TrimDrops DEF MarkShipped, NativeTypes
  <2> QED BY <1>5, <2>1, <2>2, <2>3
<1>6. CASE UNCHANGED nativeVars
  BY <1>6 DEF nativeVars
<1> QED BY <1>1, <1>2, <1>3, <1>4, <1>5, <1>6 DEF NativeNext

(* A file is deleted only after its lines are in the table.                *)
LEMMA KeptStep == NativeTypes /\ KeptInv /\ [NativeNext]_nativeVars => KeptInv'
<1> SUFFICES ASSUME NativeTypes, KeptInv, [NativeNext]_nativeVars PROVE KeptInv'
  OBVIOUS
<1>1. \A l \in Lines : Held(l) => Held(l)'
  BY HeldStays
<1> USE DEF spoolVars, drainVars, shipVars
<1>2. ASSUME NEW l \in Lines, OpenSpool(l) \/ AppendLine(l) \/ Fortnight(l) PROVE KeptInv'
  <2>1. CASE OpenSpool(l)
    BY <1>1, <2>1, FilesHold, FilesAre DEF OpenSpool, KeptInv, NativeTypes
  <2>2. CASE AppendLine(l)
    <3>1. claimed' = claimed /\ drain' = drain
      BY <2>2 DEF AppendLine
    <3>2. \A m \in Lines : hook'[m] = "done" => hook[m] = "done" \/ m = l
      BY <2>2 DEF AppendLine, NativeTypes
    <3>3. /\ journal.lines \subseteq journal'.lines /\ draining.lines \subseteq draining'.lines
          /\ l \in journal'.lines \cup draining'.lines \/ l \in given'
      <4>1. CASE hook[l] = "open"
        BY <2>2, <4>1 DEF AppendLine, File
      <4>2. CASE hook[l] = "renamed"
        BY <2>2, <4>2 DEF AppendLine, File
      <4>3. CASE hook[l] = "unlinked"
        BY <2>2, <4>3 DEF AppendLine, File
      <4> QED BY <2>2, <4>1, <4>2, <4>3 DEF AppendLine
    <3> QED BY <1>1, <3>1, <3>2, <3>3 DEF KeptInv, Held, NativeTypes
  <2>3. CASE Fortnight(l)
    BY <1>1, <2>3 DEF Fortnight, KeptInv, NativeTypes
  <2> QED BY <1>2, <2>1, <2>2, <2>3
<1>3. CASE Boot \/ Tick \/ StartNativeShipper \/ NativeCrash \/ Prune
  BY <1>1, <1>3 DEF Boot, Tick, StartNativeShipper, NativeCrash, Prune, KeptInv, NativeTypes
<1>4. CASE ReadSpool
  BY <1>1, <1>4 DEF ReadSpool, KeptInv, NativeTypes
<1>5. CASE ClaimSpool
  <2>1. \A m \in Lines : hook'[m] = "done" <=> hook[m] = "done"
    BY <1>5 DEF ClaimSpool, Follow, NativeTypes
  <2>2. journal.lines \cup draining.lines \subseteq journal'.lines \cup draining'.lines
    BY <1>5, FilesAre DEF ClaimSpool, NativeTypes
  <2>3. drain' # "unlink"
    BY <1>5 DEF ClaimSpool
  <2> QED BY <1>1, <2>1, <2>2, <2>3 DEF KeptInv
<1>6. CASE InsertNativeToolEvents
  <2>1. \A l \in claimed : Held(l)'
    BY <1>6 DEF InsertNativeToolEvents, Held, NativeTypes, RowStates
  <2>2. hook' = hook /\ journal' = journal /\ draining' = draining /\ claimed' = claimed
    BY <1>6 DEF InsertNativeToolEvents
  <2> QED BY <1>1, <2>1, <2>2 DEF KeptInv
<1>7. CASE UnlinkSpool
  <2>1. \A m \in Lines : hook'[m] = "done" <=> hook[m] = "done"
    BY <1>7 DEF UnlinkSpool, Follow, NativeTypes
  <2>2. \A l \in draining.lines : Held(l)'
    BY <1>1, <1>7, FilesAre DEF UnlinkSpool, KeptInv, Held, NativeTypes
  <2>3. journal' = journal /\ drain' # "unlink"
    BY <1>7 DEF UnlinkSpool
  <2> QED BY <1>1, <2>1, <2>2, <2>3 DEF KeptInv
<1>8. CASE ShipFailed
  BY <1>1, <1>8 DEF ShipFailed, KeptInv, NativeTypes
<1>9. ASSUME NEW k \in Posts, ShipOnce(k) \/ LookUp(k) \/ IngestNativeBatch(k) \/ LosePost(k) \/ MarkShipped(k)
      PROVE  KeptInv'
  BY <1>1, <1>9 DEF ShipOnce, LookUp, IngestNativeBatch, LosePost, MarkShipped, KeptInv, NativeTypes
<1>10. CASE UNCHANGED nativeVars
  BY <1>1, <1>10 DEF nativeVars, KeptInv, NativeTypes
<1> QED BY <1>2, <1>3, <1>4, <1>5, <1>6, <1>7, <1>8, <1>9, <1>10 DEF NativeNext

-----------------------------------------------------------------------------
(* What a request has looked up and did not find new was at central then,  *)
(* and central deletes nothing.                                            *)
PostInv ==
  /\ \A k \in Posts : post[k].step = "open" => \A l \in post[k].lines \ post[k].fresh : central[l] > 0
  /\ \A k \in Posts : post[k].step = "stored" => \A l \in post[k].lines : central[l] > 0
  /\ \A l \in Lines : row[l] = "shipped" => central[l] > 0

(* A row is marked only after its request has been answered.               *)
LEMMA PostStep == NativeTypes /\ PostInv /\ [NativeNext]_nativeVars => PostInv'
<1> SUFFICES ASSUME NativeTypes, PostInv, [NativeNext]_nativeVars PROVE PostInv'
  OBVIOUS
<1> USE DEF spoolVars, drainVars, shipVars
<1>1. CASE post' = post /\ central' = central /\ \A l \in Lines : row'[l] = "shipped" => row[l] = "shipped"
  BY <1>1 DEF PostInv
<1>2. ASSUME NEW l \in Lines, OpenSpool(l) \/ AppendLine(l) \/ Fortnight(l) PROVE PostInv'
  BY <1>1, <1>2 DEF OpenSpool, AppendLine, Fortnight
<1>3. CASE Boot \/ Tick \/ ReadSpool \/ ClaimSpool \/ UnlinkSpool \/ StartNativeShipper \/ NativeCrash
  BY <1>1, <1>3 DEF Boot, Tick, ReadSpool, ClaimSpool, UnlinkSpool, StartNativeShipper, NativeCrash
<1>4. CASE InsertNativeToolEvents \/ Prune
  BY <1>1, <1>4 DEF InsertNativeToolEvents, Prune, NativeTypes
<1>5. CASE ShipFailed
  BY <1>1, <1>5, MarkedRows, TrimDrops DEF ShipFailed, NativeTypes
<1>6. ASSUME NEW k \in Posts, ShipOnce(k) \/ LookUp(k) \/ IngestNativeBatch(k) \/ LosePost(k) \/ MarkShipped(k)
      PROVE  PostInv'
  <2>1. CASE ShipOnce(k) \/ LosePost(k)
    <3>1. row' = row /\ central' = central
      BY <2>1 DEF ShipOnce, LosePost
    <3>2. post'[k].step \notin {"open", "stored"} /\ \A j \in Posts : j # k => post'[j] = post[j]
      <4>1. CASE ShipOnce(k)
        BY <4>1 DEF ShipOnce, NativeTypes
      <4>2. CASE LosePost(k)
        BY <4>2 DEF LosePost, NativeTypes, PostRecord
      <4> QED BY <2>1, <4>1, <4>2
    <3>3. \A j \in Posts : post'[j].step \in {"open", "stored"} => post'[j] = post[j]
      BY <3>2
    <3> QED BY <3>1, <3>3 DEF PostInv
  <2>2. CASE LookUp(k)
    BY <2>2 DEF LookUp, PostInv, NativeTypes, PostRecord
  <2>3. CASE IngestNativeBatch(k)
    <3>1. \A l \in Lines : central'[l] >= central[l] /\ (l \in post[k].fresh => central'[l] > 0) /\ central[l] \in Nat /\ central'[l] \in Nat
      BY <2>3 DEF IngestNativeBatch, NativeTypes
    <3>2. /\ row' = row /\ post[k].step = "open"
          /\ \A j \in Posts : post'[j].lines = post[j].lines /\ post'[j].fresh = post[j].fresh
          /\ \A j \in Posts : j # k => post'[j].step = post[j].step
          /\ post'[k].step = "stored" /\ post[k].lines \subseteq Lines
      BY <2>3 DEF IngestNativeBatch, NativeTypes, PostRecord
    <3>3. \A j \in Posts : post[j].lines \subseteq Lines
      BY DEF NativeTypes, PostRecord
    <3> QED BY <3>1, <3>2, <3>3 DEF PostInv
  <2>4. CASE MarkShipped(k)
    <3>1. \A l \in Lines : row'[l] = "shipped" => row[l] = "shipped" \/ l \in post[k].lines
      BY <2>4, MarkedRows, TrimDrops DEF MarkShipped, NativeTypes
    <3>2. post' = post /\ central' = central /\ post[k].step = "stored"
      BY <2>4 DEF MarkShipped
    <3> QED BY <3>1, <3>2 DEF PostInv
  <2> QED BY <1>6, <2>1, <2>2, <2>3, <2>4
<1>7. CASE UNCHANGED nativeVars
  BY <1>1, <1>7 DEF nativeVars
<1> QED BY <1>2, <1>3, <1>4, <1>5, <1>6, <1>7 DEF NativeNext

-----------------------------------------------------------------------------

(* At the start.                                                           *)
LEMMA NativeTypesInit == NativeInit => NativeTypes
<1> SUFFICES ASSUME NativeInit PROVE NativeTypes
  OBVIOUS
<1>1. NoFile \in Files
  BY DEF Files
<1>2. post \in [Posts -> PostRecord]
  BY DEF NativeInit, PostRecord
<1>3. shipping \in BOOLEAN
  BY DEF NativeInit
<1> QED BY <1>1, <1>2, <1>3, NativeAssumption DEF NativeInit, NativeTypes, RowStates

(* What a hook has written is in a spool file, in the table or at central, *)
(* or was given up openly, whatever the server's deaths: a claimed file is *)
(* deleted after its lines are in the table (nativeObservations.js         *)
(* drainNativeObservations).                                               *)
THEOREM LinesNotMislaid == NativeSpec => []NoneMislaid
<1> DEFINE Inv == NativeTypes /\ KeptInv
<1>1. NativeInit => Inv
  BY NativeTypesInit DEF NativeInit, KeptInv
<1>2. Inv /\ [NativeNext]_nativeVars => Inv'
  BY NativeTypesStep, KeptStep
<1>3. Inv => NoneMislaid
  BY DEF NativeTypes, KeptInv, Held, NoneMislaid, InRow
<1> QED BY <1>1, <1>2, <1>3, PTL DEF NativeSpec

(* A row that is marked shipped is a row that central has, though requests *)
(* are cut short, repeated and overlap (nativeShipper.js shipOnce,         *)
(* central/store.js ingestNativeBatch).                                    *)
THEOREM ShippedIsKept == NativeSpec => []ShippedIsAtCentral
<1> DEFINE Inv == NativeTypes /\ PostInv
<1>1. NativeInit => Inv
  BY NativeTypesInit DEF NativeInit, PostInv
<1>2. Inv /\ [NativeNext]_nativeVars => Inv'
  BY NativeTypesStep, PostStep
<1>3. Inv => ShippedIsAtCentral
  BY DEF PostInv, ShippedIsAtCentral, InRow
<1> QED BY <1>1, <1>2, <1>3, PTL DEF NativeSpec

-----------------------------------------------------------------------------
(* A line has as many rows at central as there are requests that stored it.*)
StoredWith(l) == {k \in Posts : post[k].step = "stored" /\ l \in post[k].fresh}
CountInv == \A l \in Lines : central[l] = Cardinality(StoredWith(l))

LEMMA CountStep == NativeTypes /\ CountInv /\ [NativeNext]_nativeVars => CountInv'
<1> SUFFICES ASSUME NativeTypes, CountInv, [NativeNext]_nativeVars PROVE CountInv'
  OBVIOUS
<1> USE DEF spoolVars, drainVars, shipVars
<1>1. ASSUME UNCHANGED <<post, central>> PROVE CountInv'
  BY <1>1 DEF CountInv, StoredWith
<1>2. ASSUME NEW k \in Posts, NEW p \in PostRecord, post' = [post EXCEPT ![k] = p],
             post[k].step # "stored", p.step # "stored", central' = central
      PROVE  CountInv'
  <2>1. \A j \in Posts : post'[j].step = "stored" <=> (post[j].step = "stored" /\ post'[j] = post[j])
    BY <1>2 DEF NativeTypes
  <2>2. \A l \in Lines : StoredWith(l)' = StoredWith(l)
    BY <1>2, <2>1 DEF StoredWith, NativeTypes
  <2> QED BY <1>2, <2>2 DEF CountInv
<1>3. ASSUME NEW k \in Posts, IngestNativeBatch(k) PROVE CountInv'
  <2>1. /\ post[k].step = "open"
        /\ post' = [post EXCEPT ![k] = [@ EXCEPT !.step = "stored"]]
        /\ central' = [l \in Lines |-> IF l \in post[k].fresh THEN central[l] + 1 ELSE central[l]]
    BY <1>3 DEF IngestNativeBatch
  <2>2. /\ \A j \in Posts \ {k} : post'[j] = post[j]
        /\ post'[k].step = "stored" /\ post'[k].fresh = post[k].fresh
    BY <2>1 DEF NativeTypes, PostRecord
  <2> SUFFICES ASSUME NEW l \in Lines PROVE central'[l] = Cardinality(StoredWith(l)')
    BY DEF CountInv
  <2>3. IsFiniteSet(StoredWith(l)) /\ k \notin StoredWith(l)
    <3>1. IsFiniteSet(Posts)
      BY FS_Interval, NativeAssumption DEF Posts
    <3> QED BY <2>1, <3>1, FS_Subset DEF StoredWith
  <2>4. central[l] = Cardinality(StoredWith(l))
    BY DEF CountInv
  <2>5. CASE l \in post[k].fresh
    <3>1. StoredWith(l)' = StoredWith(l) \cup {k}
      BY <2>2, <2>5 DEF StoredWith
    <3>2. Cardinality(StoredWith(l) \cup {k}) = Cardinality(StoredWith(l)) + 1
      BY <2>3, FS_AddElement
    <3> QED BY <2>1, <2>4, <2>5, <3>1, <3>2
  <2>6. CASE l \notin post[k].fresh
    <3>1. StoredWith(l)' = StoredWith(l)
      BY <2>1, <2>2, <2>6 DEF StoredWith
    <3> QED BY <2>1, <2>4, <2>6, <3>1
  <2> QED BY <2>5, <2>6
<1>4. ASSUME NEW k \in Posts, ShipOnce(k) PROVE CountInv'
  <2> DEFINE p == [lines |-> InRow("unshipped"), fresh |-> {}, step |-> "sent"]
  <2>1. p \in PostRecord /\ p.step = "sent" /\ post' = [post EXCEPT ![k] = p] /\ central' = central /\ post[k].step = "none"
    BY <1>4 DEF ShipOnce, PostRecord, InRow
  <2> HIDE DEF p
  <2> QED BY <1>2, <2>1
<1>5. ASSUME NEW k \in Posts, LookUp(k) PROVE CountInv'
  <2> DEFINE p == [post[k] EXCEPT !.step = "open", !.fresh = {l \in post[k].lines : central[l] = 0}]
  <2>1. /\ p \in PostRecord /\ p.step = "open" /\ post' = [post EXCEPT ![k] = p]
        /\ central' = central /\ post[k].step = "sent"
    BY <1>5 DEF LookUp, PostRecord, NativeTypes
  <2> HIDE DEF p
  <2> QED BY <1>2, <2>1
<1>6. ASSUME NEW k \in Posts, LosePost(k) PROVE CountInv'
  <2> DEFINE p == [post[k] EXCEPT !.step = "lost"]
  <2>1. /\ p \in PostRecord /\ p.step = "lost" /\ post' = [post EXCEPT ![k] = p]
        /\ central' = central /\ post[k].step # "stored"
    BY <1>6 DEF LosePost, PostRecord, NativeTypes
  <2> HIDE DEF p
  <2> QED BY <1>2, <2>1
<1>7. CASE UNCHANGED nativeVars
  BY <1>1, <1>7 DEF nativeVars
<1>8. CASE \E l \in Lines : OpenSpool(l) \/ AppendLine(l) \/ Fortnight(l)
  BY <1>1, <1>8 DEF OpenSpool, AppendLine, Fortnight
<1>9. CASE Boot \/ Tick \/ ClaimSpool \/ ReadSpool \/ InsertNativeToolEvents \/ UnlinkSpool \/ Prune
  BY <1>1, <1>9 DEF Boot, Tick, ClaimSpool, ReadSpool, InsertNativeToolEvents, UnlinkSpool, Prune
<1>10. CASE StartNativeShipper \/ ShipFailed \/ NativeCrash \/ \E k \in Posts : MarkShipped(k)
  BY <1>1, <1>10 DEF StartNativeShipper, ShipFailed, NativeCrash, MarkShipped
<1> QED BY <1>3, <1>4, <1>5, <1>6, <1>7, <1>8, <1>9, <1>10 DEF NativeNext

LEMMA CountStart == NativeInit => CountInv
<1> SUFFICES ASSUME NativeInit, NEW l \in Lines PROVE central[l] = Cardinality(StoredWith(l))
  BY DEF CountInv
<1>1. StoredWith(l) = {}
  BY DEF NativeInit, StoredWith
<1> QED BY <1>1, FS_EmptySet DEF NativeInit

LEMMA CountBounds == ASSUME NativeTypes, CountInv PROVE NativeTypeOK
<1>1. \A l \in Lines : central[l] \in 0 .. MaxPosts
  <2> TAKE l \in Lines
  <2>1. IsFiniteSet(Posts) /\ Cardinality(Posts) = MaxPosts
    BY FS_Interval, NativeAssumption DEF Posts
  <2>2. StoredWith(l) \subseteq Posts
    BY DEF StoredWith
  <2>3. Cardinality(StoredWith(l)) \in Nat /\ Cardinality(StoredWith(l)) <= MaxPosts
    BY <2>1, <2>2, FS_Subset, FS_CardinalityType
  <2> QED BY <2>3, NativeAssumption DEF CountInv
<1>2. central \in [Lines -> 0 .. MaxPosts]
  BY <1>1 DEF NativeTypes
<1> QED BY <1>2 DEF NativeTypes, NativeTypeOK, RowStates, PostRecord

-----------------------------------------------------------------------------
(* The parts of one instance *)

ServicesInv == EnrollInv /\ SuperInv /\ NativeTypes /\ CountInv

LEMMA ServicesStart == ServicesInit => ServicesInv
BY EnrollInitInv, SuperInitInv, NativeTypesInit, CountStart DEF ServicesInit, ServicesInv

LEMMA ServicesStep == ServicesInv /\ [ServicesNext]_servicesVars => ServicesInv'
<1> SUFFICES ASSUME ServicesInv, [ServicesNext]_servicesVars PROVE ServicesInv'
  OBVIOUS
<1>1. [EnrollNext]_enrollVars /\ [SuperNext]_superVars /\ [NativeNext]_nativeVars
  BY DEF ServicesNext, servicesVars
<1> QED BY <1>1, EnrollStep, SuperStep, NativeTypesStep, CountStep DEF ServicesInv

(* The services' parts keep their types; and of a native tool call central *)
(* has no more rows than there were requests that stored it, one for each  *)
(* (central/enrollmentStore.js, scripts/supervisor.js, central/store.js    *)
(* ingestNativeBatch).                                                     *)
THEOREM ServicesTypeCorrect == ServicesSafety => []ServicesTypeOK
<1>1. ServicesInv => ServicesTypeOK
  BY EnrollTyped, SuperTyped, CountBounds DEF ServicesInv, ServicesTypeOK
<1> QED BY <1>1, ServicesStart, ServicesStep, PTL DEF ServicesSafety

=============================================================================
