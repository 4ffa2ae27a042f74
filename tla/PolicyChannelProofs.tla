------------------------- MODULE PolicyChannelProofs -------------------------
(***************************************************************************)
(* What PolicyChannel guarantees for every number of grants, principals,   *)
(* capabilities and writers, every page size, with or without mirror       *)
(* failures and schema skew: type correctness, that the channel implements *)
(* RevocationChannel's promise, that a refusal sticks, and what its        *)
(* versions promise.                                                       *)
(***************************************************************************)
EXTENDS PolicyChannel, OrderFacts, TLAPS

(* The newest of a nonempty bounded set of changes is one of them.         *)
LEMMA NewestOf ==
  ASSUME NEW S \in SUBSET Change, S # {}, NEW n \in Nat, \A c \in S : c.ver < n
  PROVE  Newest(S) \in S /\ \A d \in S : d.ver <= Newest(S).ver
<1> DEFINE V == {c.ver : c \in S}
<1>1. V \in SUBSET Nat /\ V # {} /\ \A v \in V : v < n
  BY DEF Change
<1>2. PICK v \in V : \A u \in V : u <= v
  <2> HIDE DEF V
  <2> QED BY <1>1, GreatestOfNats
<1>3. \E c \in S : \A d \in S : d.ver <= c.ver
  BY <1>2
<1> QED BY <1>3 DEF Newest

-----------------------------------------------------------------------------
(* Type correctness.  PolicyVersion and Newest choose a greatest version,  *)
(* which exists because the sequence bounds the versions: the invariant    *)
(* carries that bound.                                                     *)
Bounded(S) == \A c \in S : c.ver < nextVer

TypeInv ==
  /\ TypeOK
  /\ Bounded(log) /\ \A w \in Writers : Bounded(tx[w])
  /\ reply.page \subseteq log

(* The version central serves, and the floor of its log, are numbers.      *)
LEMMA VersionType ==
  ASSUME TypeInv
  PROVE  PolicyVersion \in Nat /\ PolicyChangeFloor \in Nat
<1>1. CASE log = {}
  BY <1>1 DEF PolicyVersion, PolicyChangeFloor
<1>2. CASE log # {}
  <2>1. /\ Versions \in SUBSET Nat /\ Versions # {}
        /\ \A v \in Versions : v < nextVer
        /\ nextVer \in Nat
    BY <1>2 DEF TypeInv, TypeOK, Bounded, Versions, Change
  <2>2. \E v \in Versions : \A u \in Versions : u <= v
    BY <2>1, GreatestOfNats
  <2>3. \E v \in Versions : \A u \in Versions : v <= u
    BY <2>1, LeastOfNats
  <2>4. PolicyVersion \in Versions
    BY <1>2, <2>2 DEF PolicyVersion
  <2>5. PolicyChangeFloor \in Versions
    BY <1>2, <2>3 DEF PolicyChangeFloor
  <2> QED BY <2>1, <2>4, <2>5
<1> QED BY <1>1, <1>2

(* The newest change of a page, and of one row in it, are in the page.     *)
LEMMA PageType ==
  ASSUME TypeInv, NEW k \in Entities
  PROVE  /\ reply.page # {} => Newest(reply.page) \in reply.page
         /\ For(k) # {} => Newest(For(k)) \in For(k)
         /\ reply.page \subseteq Change
<1>1. reply.page \in SUBSET Change /\ Bounded(reply.page) /\ nextVer \in Nat
  BY DEF TypeInv, TypeOK, Bounded
<1>2. For(k) \in SUBSET Change /\ Bounded(For(k))
  BY <1>1 DEF For, Bounded
<1> QED BY <1>1, <1>2, NewestOf DEF Bounded

(* An answer applied to the node's copies gives copies.                    *)
LEMMA ApplyType ==
  ASSUME TypeInv
  PROVE  ApplyDelta \in Copy /\ ApplyPolicyReplica \in Copy
<1>1. /\ reply.head \in Nat /\ reply.snapshot \in [Entities -> Rows]
      /\ replica.rows \in [Entities -> Rows] /\ mirror.rows \in [Entities -> Rows]
  BY DEF TypeInv, TypeOK, Reply, Copy
<1>2. ASSUME NEW k \in Entities, For(k) # {} PROVE Newest(For(k)).row \in Rows
  <2>1. Newest(For(k)) \in Change
    BY <1>2, PageType DEF For
  <2> QED BY <2>1 DEF Change
<1>3. ApplyDelta.version \in Nat
  <2>1. reply.page # {} => Newest(reply.page).ver \in Nat
    <3>1. reply.page # {} => Newest(reply.page) \in Change
      <4>1. reply.page \in SUBSET Change /\ (\A c \in reply.page : c.ver < nextVer) /\ nextVer \in Nat
        BY DEF TypeInv, TypeOK, Bounded
      <4> QED BY <4>1, NewestOf
    <3> QED BY <3>1 DEF Change
  <2> QED BY <1>1, <2>1 DEF ApplyDelta
<1>4. [k \in Entities |-> IF For(k) = {} THEN replica.rows[k] ELSE Newest(For(k)).row]
        \in [Entities -> Rows]
  BY <1>1, <1>2
<1>5. ApplyDelta \in Copy
  BY <1>1, <1>3, <1>4 DEF ApplyDelta, Copy
<1>6. ASSUME NEW k \in Entities PROVE Upserted(k) \in Rows
  BY <1>1, <1>2, <1>6 DEF Upserted, Rows
<1>7. ApplyPolicyReplica \in Copy
  BY <1>1, <1>3, <1>6 DEF ApplyPolicyReplica, Copy
<1> QED BY <1>5, <1>7

(* Writing changes into tables gives tables.                               *)
LEMMA WrittenType ==
  ASSUME NEW S \in SUBSET Change, NEW old \in [Entities -> Rows]
  PROVE  Written(S, old) \in [Entities -> Rows]
<1>1. ASSUME NEW k \in Entities, \E c \in S : c.key = k
      PROVE  (CHOOSE c \in S : c.key = k).row \in Rows
  BY <1>1 DEF Change
<1> QED BY <1>1 DEF Written

(* The empty answer is an answer, with an empty page.                      *)
LEMMA NoReplyType == NoReply \in Reply /\ NoReply.page = {}
BY DEF NoReply, Reply, Nothing, Rows

(* The type invariant holds at the start ...                               *)
LEMMA TypeInit == Init => TypeInv
<1> SUFFICES ASSUME Init PROVE TypeInv
  OBVIOUS
<1> USE DEF Init
<1>1. InitialLog \in SUBSET Change /\ Bounded(InitialLog) /\ nextVer \in Nat
  BY SeedAssumption DEF Change, Bounded, Entities
<1>2. rows \in [Entities -> Rows] /\ Nothing \in [Entities -> Rows]
  <2>1. Nothing \in [Entities -> Rows]
    BY DEF Nothing, Rows
  <2> QED BY <1>1, <2>1, WrittenType
<1>3. EmptyReplica \in Copy
  BY <1>2 DEF EmptyReplica, Copy
<1>4. TypeOK
  BY <1>1, <1>2, <1>3, NoReplyType DEF TypeOK, PC
<1> QED BY <1>1, <1>4, NoReplyType DEF TypeInv, Bounded

(* ... every step of every actor keeps it ...                              *)
LEMMA TypeStep == TypeInv /\ [Next]_vars => TypeInv'
<1> SUFFICES ASSUME TypeInv, [Next]_vars PROVE TypeInv'
  OBVIOUS
<1> USE DEF centralVars, nodeVars
<1>0. TypeOK /\ nextVer \in Nat
  BY DEF TypeInv, TypeOK
<1>1. ASSUME NEW w \in Writers, NEW k \in Entities, NEW r \in {"on", "off"}, Write(w, k, r)
      PROVE  TypeInv'
  <2>1. [ver |-> nextVer, key |-> k, row |-> r] \in Change
    BY <1>0 DEF Change, Rows
  <2>2. tx' \in [Writers -> SUBSET Change]
    BY <1>0, <1>1, <2>1 DEF TypeOK, Write
  <2>3. TypeOK'
    BY <1>0, <1>1, <2>2 DEF TypeOK, Write
  <2>4. Bounded(log)'
    BY <1>0, <1>1 DEF TypeInv, TypeOK, Bounded, Write, Change
  <2>5. ASSUME NEW v \in Writers PROVE Bounded(tx[v])'
    <3>1. tx'[v] \subseteq tx[v] \cup {[ver |-> nextVer, key |-> k, row |-> r]}
      BY <1>0, <1>1 DEF TypeOK, Write
    <3>2. nextVer' = nextVer + 1 /\ Bounded(tx[v]) /\ tx[v] \subseteq Change
      BY <1>0, <1>1 DEF TypeInv, TypeOK, Write
    <3> QED BY <1>0, <3>1, <3>2 DEF Bounded, Change
  <2> QED BY <1>1, <2>3, <2>4, <2>5 DEF TypeInv, Write
<1>2. ASSUME NEW w \in Writers, Commit(w) PROVE TypeInv'
  <2>1. rows' \in [Entities -> Rows]
    BY <1>0, <1>2, WrittenType DEF TypeOK, Commit
  <2>2. TypeOK'
    BY <1>0, <1>2, <2>1 DEF TypeOK, Commit
  <2>3. Bounded(log)' /\ \A v \in Writers : Bounded(tx[v])'
    BY <1>0, <1>2 DEF TypeInv, TypeOK, Bounded, Commit
  <2> QED BY <1>2, <2>2, <2>3 DEF TypeInv, Commit
<1>3. ASSUME NEW w \in Writers, Rollback(w) PROVE TypeInv'
  BY <1>0, <1>3 DEF TypeInv, TypeOK, Bounded, Rollback
<1>4. CASE ReadVersion
  <2>1. reply' \in Reply /\ reply'.page = {}
    BY <1>0, <1>4, VersionType, NoReplyType DEF TypeOK, ReadVersion, Reply, NoReply
  <2> QED BY <1>0, <1>4, <2>1 DEF TypeInv, TypeOK, Bounded, ReadVersion, PC, Serving
<1>5. CASE ReadFloor
  <2>1. reply' \in Reply /\ reply'.page = reply.page
    BY <1>0, <1>5, VersionType DEF TypeOK, ReadFloor, Reply
  <2> QED BY <1>0, <1>5, <2>1 DEF TypeInv, TypeOK, Bounded, ReadFloor, PC, Serving
<1>6. CASE ReadRevoked
  <2>1. reply' \in Reply /\ reply'.page = reply.page
    BY <1>0, <1>6 DEF TypeOK, ReadRevoked, Reply, Off, Entities
  <2> QED BY <1>0, <1>6, <2>1 DEF TypeInv, TypeOK, Bounded, ReadRevoked, PC, Serving
<1>7. CASE ReadBlocked
  <2>1. reply' \in Reply /\ reply'.page = reply.page
    BY <1>0, <1>7 DEF TypeOK, ReadBlocked, Reply, Off, Entities
  <2> QED BY <1>0, <1>7, <2>1 DEF TypeInv, TypeOK, Bounded, ReadBlocked, PC, Serving
<1>8. CASE AnswerChanges
  <2>1. ListPolicyChanges \subseteq log
    BY DEF ListPolicyChanges, Lowest
  <2>2. reply' \in Reply /\ reply'.page \subseteq log
    <3>1. ListPolicyChanges \in SUBSET Change
      BY <1>0, <2>1 DEF TypeOK
    <3>2. (Cardinality(ListPolicyChanges) < PageSize) \in BOOLEAN
      OBVIOUS
    <3> DEFINE short == Cardinality(ListPolicyChanges) < PageSize
    <3>3. reply' = [reply EXCEPT !.page = ListPolicyChanges, !.complete = short]
      BY <1>8 DEF AnswerChanges
    <3> HIDE DEF short
    <3>4. reply \in Reply /\ short \in BOOLEAN
      BY <1>0, <3>2 DEF TypeOK, short
    <3> QED BY <2>1, <3>1, <3>3, <3>4 DEF Reply
  <2>3. fleetView' \in Nat
    BY <1>0, <1>8 DEF TypeOK, AnswerChanges, NoteNodePull, Reply
  <2> QED BY <1>0, <1>8, <2>2, <2>3 DEF TypeInv, TypeOK, Bounded, AnswerChanges, PC
<1>9. ASSUME NEW S, reply' = [reply EXCEPT !.snapshot = Snapshotted(S)]
      PROVE  reply' \in Reply /\ reply'.page = reply.page
  BY <1>0, <1>9 DEF TypeOK, Reply, Snapshotted
<1>10. CASE ReadCapabilities
  BY <1>0, <1>9, <1>10 DEF TypeInv, TypeOK, Bounded, ReadCapabilities, PC, Serving
<1>11. CASE ReadPrincipals
  BY <1>0, <1>9, <1>11 DEF TypeInv, TypeOK, Bounded, ReadPrincipals, PC, Serving
<1>12. CASE AnswerReset
  <2>1. fleetView' \in Nat
    BY <1>0, <1>12 DEF TypeOK, AnswerReset, NoteNodePull, Reply
  <2> QED BY <1>0, <1>9, <1>12, <2>1 DEF TypeInv, TypeOK, Bounded, AnswerReset, PC
<1>13. CASE StartPull
  BY <1>0, <1>13 DEF TypeInv, TypeOK, Bounded, StartPull, PC, Serving
<1>14. CASE PersistDenyList
  BY <1>0, <1>14 DEF TypeInv, TypeOK, Bounded, PersistDenyList, PC, Reply
<1>15. CASE RefuseDelta
  BY <1>0, <1>15, NoReplyType DEF TypeInv, TypeOK, Bounded, RefuseDelta, PC
<1>16. CASE MaterialiseReplica
  BY <1>0, <1>16, ApplyType DEF TypeInv, TypeOK, Bounded, MaterialiseReplica, PC
<1>17. CASE SaveReplica
  BY <1>0, <1>17, ApplyType, NoReplyType DEF TypeInv, TypeOK, Bounded, SaveReplica, PC, Serving
<1>18. CASE Interrupt
  BY <1>0, <1>18, NoReplyType DEF TypeInv, TypeOK, Bounded, Interrupt, PC
<1>19. CASE UpgradeCentral
  BY <1>0, <1>19, NoReplyType DEF TypeInv, TypeOK, Bounded, UpgradeCentral, PC
<1>20. CASE UpgradeNode
  BY <1>0, <1>20, NoReplyType DEF TypeInv, TypeOK, Bounded, UpgradeNode, PC
<1>21. CASE UNCHANGED vars
  BY <1>0, <1>21 DEF TypeInv, TypeOK, Bounded, vars
<1> QED
  BY <1>1, <1>2, <1>3, <1>4, <1>5, <1>6, <1>7, <1>8, <1>10, <1>11, <1>12, <1>13, <1>14, <1>15,
     <1>16, <1>17, <1>18, <1>19, <1>20, <1>21 DEF Next, Central, Serve, Node, Faults

(* ... so it always holds.                                                 *)
LEMMA TypeInvariant == Safety => []TypeInv
BY TypeInit, TypeStep, PTL DEF Safety

(* Every variable keeps its type; in particular the version central        *)
(* computes and the versions the node stores are numbers.                  *)
THEOREM TypeCorrect == Safety => []TypeOK
<1>1. TypeInv => TypeOK
  BY DEF TypeInv
<1> QED BY <1>1, TypeInvariant, PTL

-----------------------------------------------------------------------------
(* Revocations.  The invariant in parts: what the locks and transactions   *)
(* keep true at central, that every copy of "revoked" is a copy of a       *)
(* committed revocation, and that the full deny-list of an answer covers   *)
(* whatever the node already refuses.                                      *)

(* No two open changes are to one row.                                     *)
LockHeld ==
  \A v, w \in Writers : \A c \in tx[v], d \in tx[w] : c.key = d.key => v = w /\ c = d

(* A transaction that writes a grant writes nothing else.                  *)
GrantAlone == \A w \in Writers : \A c \in tx[w] : c.key \in Grants => tx[w] = {c}

(* A revoked grant is not written again.                                   *)
RevokedIsFinal == \A w \in Writers : \A c \in tx[w] : c.key \in Grants => rows[c.key] # "off"

(* The log, the answer, and the mirror call a grant revoked only if it is. *)
LogHonest    == \A c \in log : c.key \in Grants /\ c.row = "off" => rows[c.key] = "off"
AnswerHonest == \A g \in Grants : reply.snapshot[g] = "off" \/ g \in reply.deny => rows[g] = "off"
MirrorHonest == \A g \in Grants : mirror.rows[g] = "off" => rows[g] = "off"
DenyHonest   == \A g \in Grants : g \in deny => rows[g] = "off"

(* Once central has read the revoked grants, the answer names every grant  *)
(* the node refuses, and once the node has written them, so does its file. *)
Listed == {"revoked", "blocked", "capabilities", "principals", "answered", "denied"}
AnswerCovers == pc \in Listed => \A g \in Grants : Refused(g) => g \in reply.deny
FileCovers   == pc = "denied" => \A g \in Grants : mirror.rows[g] = "off" => g \in deny

CentralInv == LockHeld /\ GrantAlone /\ RevokedIsFinal /\ LogHonest
NodeInv    == AnswerHonest /\ MirrorHonest /\ DenyHonest /\ AnswerCovers /\ FileCovers
RevInv     == CentralInv /\ NodeInv

(* The invariant about revocations holds at the start ...                  *)
LEMMA RevInit == Init => RevInv
<1> SUFFICES ASSUME Init PROVE RevInv
  OBVIOUS
<1>1. ASSUME NEW g \in Grants PROVE rows[g] = "absent" /\ g \in Entities
  BY SeedAssumption, EntityAssumption DEF Init, Written, Nothing, Entities
<1>2. ASSUME NEW c \in log PROVE c.key \notin Grants
  BY SeedAssumption, EntityAssumption DEF Init
<1>3. CentralInv
  BY <1>2 DEF Init, CentralInv, LockHeld, GrantAlone, RevokedIsFinal, LogHonest
<1>4. NodeInv
  BY <1>1 DEF Init, NodeInv, AnswerHonest, MirrorHonest, DenyHonest, AnswerCovers, FileCovers,
              Listed, Refused, NoReply, Nothing, EmptyReplica
<1> QED BY <1>3, <1>4 DEF RevInv

(* What a commit leaves in the tables: the transaction's rows, and nothing *)
(* else changed.                                                           *)
LEMMA CommitRows ==
  ASSUME TypeInv, CentralInv, NEW w \in Writers, Commit(w), NEW k \in Entities
  PROVE  /\ \A c \in tx[w] : c.key = k => rows'[k] = c.row
         /\ (\A c \in tx[w] : c.key # k) => rows'[k] = rows[k]
<1>1. rows'[k] = IF \E c \in tx[w] : c.key = k
                 THEN (CHOOSE c \in tx[w] : c.key = k).row ELSE rows[k]
  BY DEF Commit, Written
<1>2. \A c, d \in tx[w] : c.key = d.key => c = d
  BY DEF CentralInv, LockHeld
<1> QED BY <1>1, <1>2

(* Revoking is for good.                                                   *)
LEMMA OffStays ==
  ASSUME TypeInv, CentralInv, [Next]_vars, NEW g \in Grants, rows[g] = "off"
  PROVE  rows'[g] = "off"
<1>1. ASSUME NEW w \in Writers, Commit(w) PROVE rows'[g] = "off"
  <2>1. \A c \in tx[w] : c.key # g
    BY DEF CentralInv, RevokedIsFinal
  <2> QED BY <1>1, <2>1, CommitRows DEF Entities
<1> QED
  BY <1>1 DEF Next, Central, Serve, Node, Faults, vars, centralVars, Write, Rollback, ReadVersion,
     ReadFloor, ReadRevoked, ReadBlocked, AnswerChanges, ReadCapabilities, ReadPrincipals,
     AnswerReset, StartPull, PersistDenyList, RefuseDelta, MaterialiseReplica, SaveReplica,
     Interrupt, UpgradeCentral, UpgradeNode

(* ... its part about central's transactions is kept by every step ...     *)
LEMMA CentralStep == TypeInv /\ CentralInv /\ [Next]_vars => CentralInv'
<1> SUFFICES ASSUME TypeInv, CentralInv, [Next]_vars PROVE CentralInv'
  OBVIOUS
<1>0. tx \in [Writers -> SUBSET Change] /\ log \in SUBSET Change
  BY DEF TypeInv, TypeOK
<1>1. ASSUME NEW w \in Writers, NEW k \in Entities, NEW r \in {"on", "off"}, Write(w, k, r)
      PROVE  CentralInv'
  <2> DEFINE new == [ver |-> nextVer, key |-> k, row |-> r]
  <2>1. /\ tx'[w] = tx[w] \cup {new} /\ new.key = k
        /\ \A v \in Writers : v # w => tx'[v] = tx[v]
        /\ rows' = rows /\ log' = log
    BY <1>0, <1>1 DEF Write
  <2>2. \A v \in Writers : \A c \in tx[v] : c.key # k
    BY <1>1 DEF Write, Locked, Open
  <2>3. k \in Grants => tx[w] = {} /\ rows[k] # "off"
    BY <1>1, EntityAssumption DEF Write, MayWrite, MayWriteGrant
  <2>4. k \notin Grants => \A c \in tx[w] : c.key \notin Grants
    BY <1>1, EntityAssumption DEF Write
  <2> HIDE DEF new
  <2>5. LockHeld'
    <3> SUFFICES ASSUME NEW u \in Writers, NEW v \in Writers, NEW c \in tx'[u], NEW d \in tx'[v],
                        c.key = d.key
                 PROVE  u = v /\ c = d
      BY DEF LockHeld
    <3>1. (c \in tx[u] \/ (u = w /\ c = new)) /\ (d \in tx[v] \/ (v = w /\ d = new))
      BY <2>1
    <3> QED BY <2>1, <2>2, <3>1 DEF CentralInv, LockHeld
  <2>6. GrantAlone'
    <3> SUFFICES ASSUME NEW v \in Writers, NEW c \in tx'[v], c.key \in Grants
                 PROVE  tx'[v] = {c}
      BY DEF GrantAlone
    <3>1. CASE v = w
      BY <2>1, <2>3, <2>4, <3>1
    <3>2. CASE v # w
      BY <2>1, <3>2 DEF CentralInv, GrantAlone
    <3> QED BY <3>1, <3>2
  <2>7. RevokedIsFinal'
    <3> SUFFICES ASSUME NEW v \in Writers, NEW c \in tx'[v], c.key \in Grants
                 PROVE  rows'[c.key] # "off"
      BY DEF RevokedIsFinal
    <3>1. c \in tx[v] \/ c = new
      BY <2>1
    <3> QED BY <2>1, <2>3, <3>1 DEF CentralInv, RevokedIsFinal
  <2>8. LogHonest'
    BY <2>1 DEF CentralInv, LogHonest
  <2> QED BY <2>5, <2>6, <2>7, <2>8 DEF CentralInv
<1>2. ASSUME NEW w \in Writers, Commit(w) PROVE CentralInv'
  <2>1. /\ tx'[w] = {} /\ \A v \in Writers : v # w => tx'[v] = tx[v]
        /\ log' = log \cup tx[w]
    BY <1>0, <1>2 DEF Commit
  <2>2. \A v \in Writers : \A c \in tx'[v] : c \in tx[v] /\ v # w
    BY <2>1
  <2>3. LockHeld'
    BY <2>2 DEF CentralInv, LockHeld
  <2>4. GrantAlone'
    BY <2>1, <2>2 DEF CentralInv, GrantAlone
  <2>5. RevokedIsFinal'
    <3> SUFFICES ASSUME NEW v \in Writers, NEW c \in tx'[v], c.key \in Grants
                 PROVE  rows'[c.key] # "off"
      BY DEF RevokedIsFinal
    <3>1. \A d \in tx[w] : d.key # c.key
      BY <2>2 DEF CentralInv, LockHeld
    <3>2. rows'[c.key] = rows[c.key]
      BY <1>2, <3>1, CommitRows DEF Entities
    <3> QED BY <2>2, <3>2 DEF CentralInv, RevokedIsFinal
  <2>6. LogHonest'
    <3> SUFFICES ASSUME NEW c \in log', c.key \in Grants, c.row = "off"
                 PROVE  rows'[c.key] = "off"
      BY DEF LogHonest
    <3>1. CASE c \in log
      BY <3>1, OffStays DEF CentralInv, LogHonest
    <3>2. CASE c \in tx[w]
      BY <1>2, <3>2, CommitRows DEF Entities
    <3> QED BY <2>1, <3>1, <3>2
  <2> QED BY <2>3, <2>4, <2>5, <2>6 DEF CentralInv
<1>3. ASSUME rows' = rows, log' = log, tx' \in [Writers -> SUBSET Change],
             \A w \in Writers : tx'[w] \subseteq tx[w] /\ (tx'[w] = tx[w] \/ tx'[w] = {})
      PROVE  CentralInv'
  <2>1. LockHeld' /\ RevokedIsFinal' /\ LogHonest'
    BY <1>3 DEF CentralInv, LockHeld, RevokedIsFinal, LogHonest
  <2>2. GrantAlone'
    <3> SUFFICES ASSUME NEW v \in Writers, NEW c \in tx'[v], c.key \in Grants
                 PROVE  tx'[v] = {c}
      BY DEF GrantAlone
    <3> QED BY <1>3 DEF CentralInv, GrantAlone
  <2> QED BY <2>1, <2>2 DEF CentralInv
<1>4. ASSUME NEW w \in Writers, Rollback(w) PROVE CentralInv'
  BY <1>0, <1>3, <1>4 DEF Rollback
<1>5. CASE UpgradeCentral
  BY <1>0, <1>3, <1>5 DEF UpgradeCentral
<1>6. CASE UNCHANGED <<rows, log, tx>>
  BY <1>0, <1>3, <1>6
<1> QED
  BY <1>1, <1>2, <1>4, <1>5, <1>6 DEF Next, Central, Serve, Node, Faults, vars, centralVars,
     ReadVersion, ReadFloor, ReadRevoked, ReadBlocked, AnswerChanges, ReadCapabilities,
     ReadPrincipals, AnswerReset, StartPull, PersistDenyList, RefuseDelta, MaterialiseReplica,
     SaveReplica, Interrupt, UpgradeNode

(* A grant that an answer writes into the mirror as revoked is revoked.    *)
LEMMA MirrorWriteHonest ==
  ASSUME TypeInv, RevInv, NEW g \in Grants, ApplyPolicyReplica.rows[g] = "off"
  PROVE  rows[g] = "off"
<1>0. g \in Entities
  BY DEF Entities
<1>1. CASE NeedsReset
  BY <1>1, <1>0 DEF ApplyPolicyReplica, RevInv, NodeInv, AnswerHonest
<1>2. CASE ~NeedsReset
  <2>1. Upserted(g) = "off"
    BY <1>0, <1>2 DEF ApplyPolicyReplica
  <2>2. CASE For(g) = {}
    <3>1. mirror.rows[g] = "off"
      BY <2>1, <2>2 DEF Upserted
    <3> QED BY <3>1 DEF RevInv, NodeInv, MirrorHonest
  <2>3. CASE For(g) # {}
    <3>1. Newest(For(g)).row = "off"
      BY <2>1, <2>3 DEF Upserted
    <3>2. Newest(For(g)) \in log /\ Newest(For(g)).key = g
      BY <1>0, <2>3, PageType DEF For, TypeInv
    <3> QED BY <3>1, <3>2 DEF RevInv, CentralInv, LogHonest
  <2> QED BY <2>2, <2>3
<1> QED BY <1>1, <1>2

(* ... and so is its part about the answer and the node's files ...        *)
LEMMA NodeStep == TypeInv /\ RevInv /\ [Next]_vars => NodeInv'
<1> SUFFICES ASSUME TypeInv, RevInv, [Next]_vars PROVE NodeInv'
  OBVIOUS
<1> USE DEF centralVars, nodeVars, Refused
<1>0. /\ NodeInv /\ CentralInv
      /\ \A g \in Grants : rows[g] = "off" => rows'[g] = "off"
      /\ reply \in Reply
      /\ Grants \cap Principals = {} /\ Grants \cap Capabilities = {}
      /\ \A g \in Grants : g \in Entities
  BY OffStays, EntityAssumption DEF RevInv, TypeInv, TypeOK, Entities
<1>1. ASSUME UNCHANGED <<pc, reply, deny, mirror>> PROVE NodeInv'
  BY <1>0, <1>1 DEF NodeInv, AnswerHonest, MirrorHonest, DenyHonest, AnswerCovers, FileCovers, Listed
<1>2. ASSUME pc' = "idle", reply' = NoReply, UNCHANGED <<deny, mirror>> PROVE NodeInv'
  BY <1>0, <1>2 DEF NodeInv, AnswerHonest, MirrorHonest, DenyHonest, AnswerCovers, FileCovers,
                    Listed, NoReply, Nothing
<1>3. CASE Central
  BY <1>1, <1>3 DEF Central, Write, Commit, Rollback
<1>4. CASE ReadVersion
  BY <1>0, <1>4 DEF NodeInv, AnswerHonest, MirrorHonest, DenyHonest, AnswerCovers, FileCovers,
                    Listed, NoReply, Nothing, ReadVersion
<1>5. CASE ReadFloor
  BY <1>0, <1>5 DEF NodeInv, AnswerHonest, MirrorHonest, DenyHonest, AnswerCovers, FileCovers,
                    Listed, Reply, ReadFloor
<1>6. CASE ReadRevoked
  <2>1. /\ reply'.deny = Off(Grants) /\ reply'.snapshot = reply.snapshot
        /\ UNCHANGED <<rows, deny, mirror>> /\ pc' = "revoked"
    BY <1>0, <1>6 DEF ReadRevoked, Reply
  <2>2. \A g \in Grants : Refused(g) => g \in Off(Grants)
    BY <1>0 DEF NodeInv, MirrorHonest, DenyHonest, Off
  <2> QED BY <1>0, <2>1, <2>2 DEF NodeInv, AnswerHonest, MirrorHonest, DenyHonest, AnswerCovers,
                                  FileCovers, Off
<1>7. CASE ReadBlocked
  <2>1. /\ reply'.deny = reply.deny \cup Off(Principals) /\ reply'.snapshot = reply.snapshot
        /\ UNCHANGED <<rows, deny, mirror>> /\ pc = "revoked" /\ pc' = "blocked"
    BY <1>0, <1>7 DEF ReadBlocked, Reply
  <2>2. \A g \in Grants : g \notin Off(Principals)
    BY <1>0 DEF Off
  <2> QED BY <1>0, <2>1, <2>2 DEF NodeInv, AnswerHonest, MirrorHonest, DenyHonest, AnswerCovers,
                                  FileCovers, Listed
<1>8. CASE AnswerChanges
  <2>1. /\ reply'.deny = reply.deny /\ reply'.snapshot = reply.snapshot
        /\ UNCHANGED <<rows, deny, mirror>> /\ pc = "blocked" /\ pc' = "answered"
    BY <1>0, <1>8 DEF AnswerChanges, Reply
  <2> QED BY <1>0, <2>1 DEF NodeInv, AnswerHonest, MirrorHonest, DenyHonest, AnswerCovers,
                            FileCovers, Listed
<1>9. ASSUME NEW S, reply' = [reply EXCEPT !.snapshot = Snapshotted(S)],
             UNCHANGED <<rows, deny, mirror>>, pc \in Listed, pc' \in Listed, pc' # "denied"
      PROVE  NodeInv'
  <2>1. reply'.deny = reply.deny /\ reply'.snapshot = Snapshotted(S)
    BY <1>0, <1>9 DEF Reply
  <2>2. \A g \in Grants : reply'.snapshot[g] = "off" => rows[g] = "off"
    BY <1>0, <2>1 DEF Snapshotted, NodeInv, AnswerHonest
  <2> QED BY <1>0, <1>9, <2>1, <2>2 DEF NodeInv, AnswerHonest, MirrorHonest, DenyHonest,
                                        AnswerCovers, FileCovers
<1>10. CASE ReadCapabilities
  BY <1>9, <1>10 DEF ReadCapabilities, Listed
<1>11. CASE ReadPrincipals
  BY <1>9, <1>11 DEF ReadPrincipals, Listed
<1>12. CASE AnswerReset
  BY <1>9, <1>12 DEF AnswerReset, Listed
<1>13. CASE StartPull
  BY <1>0, <1>13 DEF NodeInv, AnswerHonest, MirrorHonest, DenyHonest, AnswerCovers, FileCovers,
                     Listed, StartPull
<1>14. CASE PersistDenyList
  BY <1>0, <1>14 DEF NodeInv, AnswerHonest, MirrorHonest, DenyHonest, AnswerCovers, FileCovers,
                     Listed, PersistDenyList
<1>15. CASE RefuseDelta
  BY <1>2, <1>15 DEF RefuseDelta
<1>16. CASE MaterialiseReplica
  <2>1. /\ UNCHANGED <<rows, deny, reply>> /\ pc' = "mirrored"
        /\ mirror' = ApplyPolicyReplica \/ mirror' = mirror
    BY <1>16 DEF MaterialiseReplica
  <2>2. \A g \in Grants : mirror'.rows[g] = "off" => rows[g] = "off"
    BY <1>0, <2>1, MirrorWriteHonest DEF NodeInv, MirrorHonest
  <2> QED BY <1>0, <2>1, <2>2 DEF NodeInv, AnswerHonest, MirrorHonest, DenyHonest, AnswerCovers,
                                  FileCovers, Listed
<1>17. CASE SaveReplica
  BY <1>0, <1>17 DEF NodeInv, AnswerHonest, MirrorHonest, DenyHonest, AnswerCovers, FileCovers,
                     Listed, SaveReplica, NoReply, Nothing
<1>18. CASE Interrupt
  BY <1>2, <1>18 DEF Interrupt
<1>19. CASE UpgradeCentral
  BY <1>1, <1>2, <1>19 DEF UpgradeCentral
<1>20. CASE UpgradeNode
  BY <1>2, <1>20 DEF UpgradeNode
<1>21. CASE UNCHANGED vars
  BY <1>1, <1>21 DEF vars
<1> QED
  BY <1>3, <1>4, <1>5, <1>6, <1>7, <1>8, <1>10, <1>11, <1>12, <1>13, <1>14, <1>15, <1>16, <1>17,
     <1>18, <1>19, <1>20, <1>21 DEF Next, Serve, Node, Faults

(* ... so it always holds.                                                 *)
LEMMA RevInvariant == Safety => [](TypeInv /\ RevInv)
<1>1. Init => TypeInv /\ RevInv
  BY TypeInit, RevInit
<1>2. TypeInv /\ RevInv /\ [Next]_vars => (TypeInv /\ RevInv)'
  BY TypeStep, CentralStep, NodeStep DEF RevInv
<1> QED BY <1>1, <1>2, PTL DEF Safety

-----------------------------------------------------------------------------
(* The deny-list file is taken from an answer that covers it.              *)
LEMMA DenySteps ==
  ASSUME TypeInv, RevInv, [Next]_vars
  PROVE  \/ deny' = deny
         \/ /\ pc = "answered" /\ deny' = reply.deny
            /\ UNCHANGED <<rows, mirror>>
BY DEF Next, Central, Serve, Node, Faults, vars, centralVars, nodeVars, Write, Commit, Rollback,
   ReadVersion, ReadFloor, ReadRevoked, ReadBlocked, AnswerChanges, ReadCapabilities,
   ReadPrincipals, AnswerReset, StartPull, PersistDenyList, RefuseDelta, MaterialiseReplica,
   SaveReplica, Interrupt, UpgradeCentral, UpgradeNode

(* Once the node refuses a revoked grant it always does, whatever the      *)
(* delta stream, the mirror and the schema do.                             *)
THEOREM RefusalSticks == Safety => RevocationSticks
<1>1. TypeInv /\ RevInv /\ [Next]_vars
        => [\A g \in Grants : Refused(g) => Refused(g)']_<<deny, mirror>>
  <2> SUFFICES ASSUME TypeInv, RevInv, [Next]_vars, NEW g \in Grants, Refused(g)
               PROVE  Refused(g)'
    OBVIOUS
  <2>1. CASE deny' # deny
    BY <2>1, DenySteps DEF RevInv, NodeInv, AnswerCovers, Listed, Refused
  <2>2. CASE deny' = deny /\ mirror' = mirror
    BY <2>2 DEF Refused
  <2>3. CASE deny' = deny /\ mirror' # mirror
    <3>1. pc = "denied"
      BY <2>3 DEF Next, Central, Serve, Node, Faults, vars, centralVars, nodeVars, Write, Commit,
         Rollback, ReadVersion, ReadFloor, ReadRevoked, ReadBlocked, AnswerChanges,
         ReadCapabilities, ReadPrincipals, AnswerReset, StartPull, PersistDenyList, RefuseDelta,
         MaterialiseReplica, SaveReplica, Interrupt, UpgradeCentral, UpgradeNode
    <3>2. g \in deny
      BY <3>1 DEF RevInv, NodeInv, FileCovers, Refused
    <3> QED BY <2>3, <3>2 DEF Refused
  <2> QED BY <2>1, <2>2, <2>3
<1> QED BY <1>1, RevInvariant, PTL DEF Safety, RevocationSticks

(* A step leaves the revoked grants alone or revokes one of them.          *)
LEMMA RevokeSteps ==
  ASSUME TypeInv, RevInv, [Next]_vars
  PROVE  \/ Off(Grants)' = Off(Grants)
         \/ /\ deny' = deny
            /\ \E g \in Grants : g \notin Off(Grants) /\ Off(Grants)' = Off(Grants) \cup {g}
<1>1. CASE rows' = rows
  BY <1>1 DEF Off
<1>2. ASSUME NEW w \in Writers, Commit(w)
      PROVE  \/ Off(Grants)' = Off(Grants)
             \/ \E g \in Grants : g \notin Off(Grants) /\ Off(Grants)' = Off(Grants) \cup {g}
  <2>0. CentralInv
    BY DEF RevInv
  <2>1. CASE \A c \in tx[w] : c.key \notin Grants
    <3>1. \A g \in Grants : rows'[g] = rows[g]
      BY <1>2, <2>0, <2>1, CommitRows DEF Entities
    <3> QED BY <3>1 DEF Off
  <2>2. CASE \E c \in tx[w] : c.key \in Grants
    <3>1. PICK c \in tx[w] : c.key \in Grants
      BY <2>2
    <3>2. \A d \in tx[w] : d = c
      BY <3>1 DEF RevInv, CentralInv, GrantAlone
    <3>3. \A g \in Grants : g # c.key => rows'[g] = rows[g]
      BY <1>2, <2>0, <3>2, CommitRows DEF Entities
    <3>4. rows'[c.key] = c.row /\ rows[c.key] # "off"
      BY <1>2, <2>0, <3>1, CommitRows DEF Entities, CentralInv, RevokedIsFinal
    <3>5. CASE c.row = "off"
      <4>1. c.key \notin Off(Grants) /\ Off(Grants)' = Off(Grants) \cup {c.key}
        BY <3>1, <3>3, <3>4, <3>5 DEF Off
      <4> QED BY <3>1, <4>1
    <3>6. CASE c.row # "off"
      BY <3>1, <3>3, <3>4, <3>6 DEF Off
    <3> QED BY <3>5, <3>6
  <2> QED BY <2>1, <2>2
<1>3. rows' = rows \/ (deny' = deny /\ \E w \in Writers : Commit(w))
  BY DEF Next, Central, Serve, Node, Faults, vars, centralVars, nodeVars, Write, Commit, Rollback,
     ReadVersion, ReadFloor, ReadRevoked, ReadBlocked, AnswerChanges, ReadCapabilities,
     ReadPrincipals, AnswerReset, StartPull, PersistDenyList, RefuseDelta, MaterialiseReplica,
     SaveReplica, Interrupt, UpgradeCentral, UpgradeNode
<1> QED BY <1>1, <1>2, <1>3

(* The channel implements the promise about revocations: the node denies   *)
(* nothing that was not revoked, and forgets no revocation.                *)
THEOREM ChannelKeepsPromise == Safety => ImplementsRevocation
<1>1. Init => Promise!AInit
  <2> SUFFICES ASSUME Init PROVE Promise!AInit
    OBVIOUS
  <2>1. \A g \in Grants : rows[g] = "absent"
    BY SeedAssumption, EntityAssumption DEF Init, Written, Nothing, Entities
  <2> QED BY <2>1 DEF Init, Promise!AInit, Off
<1>2. TypeInv /\ RevInv /\ [Next]_vars => [Promise!ANext]_Promise!avars
  <2> SUFFICES ASSUME TypeInv, RevInv, [Next]_vars
               PROVE  Promise!ANext \/ UNCHANGED Promise!avars
    BY DEF Promise!avars
  <2>1. CASE Off(Grants)' # Off(Grants)
    <3>1. PICK g \in Grants : g \notin Off(Grants) /\ Off(Grants)' = Off(Grants) \cup {g}
      BY <2>1, RevokeSteps
    <3>2. Promise!Revoke(g)
      BY <2>1, <3>1, RevokeSteps DEF Promise!Revoke
    <3> QED BY <3>2 DEF Promise!ANext
  <2>2. CASE Off(Grants)' = Off(Grants) /\ deny' = deny
    BY <2>2 DEF Promise!avars
  <2>3. CASE Off(Grants)' = Off(Grants) /\ deny' # deny
    <3>1. pc = "answered" /\ deny' = reply.deny
      BY <2>3, DenySteps
    <3>2. reply.deny \cap Grants \subseteq Off(Grants)
      BY DEF RevInv, NodeInv, AnswerHonest, Off
    <3>3. deny \cap Grants \subseteq reply.deny \cap Grants
      BY <3>1 DEF RevInv, NodeInv, AnswerCovers, Listed, Refused
    <3>4. Promise!Learn
      <4>1. reply.deny \cap Grants \in SUBSET Off(Grants)
        BY <3>2
      <4>2. (deny \cap Grants)' = (deny \cap Grants) \cup (reply.deny \cap Grants)
        BY <3>1, <3>3
      <4> QED BY <2>3, <4>1, <4>2 DEF Promise!Learn
    <3> QED BY <3>4 DEF Promise!ANext
  <2> QED BY <2>1, <2>2, <2>3
<1> QED BY <1>1, <1>2, RevInvariant, PTL DEF Safety, ImplementsRevocation, Promise!ASafety

-----------------------------------------------------------------------------
(* What the versions promise: that the change log replays to the tables    *)
(* whatever the writers do, and, as long as versions are committed in      *)
(* their order, that the node's copies hold everything up to the version   *)
(* they claim and never go back.                                           *)

(* Every change there is, committed or open.                               *)
Changes == log \cup Open

(* A version names one change.                                             *)
Distinct ==
  /\ nextVer >= 1
  /\ \A c \in Changes : c.ver >= 1
  /\ \A c, d \in Changes : c.ver = d.ver => c = d

(* An open change of a row is newer than its committed ones: the row was   *)
(* locked before the version was taken.                                    *)
TxNewer == \A w \in Writers : \A c \in tx[w], d \in log : d.key = c.key => d.ver < c.ver

(* The tables hold each row's newest change.                               *)
RowsNewest ==
  \A k \in Entities :
    \/ rows[k] = "absent" /\ \A c \in log : c.key # k
    \/ \E c \in log : /\ c.key = k /\ c.row = rows[k]
                      /\ \A d \in log : d.key = k => d.ver <= c.ver

LogInv == Distinct /\ TxNewer /\ RowsNewest

(* What a step does to the changes: one is written, or some are dropped;   *)
(* and the log grows by a whole transaction or not at all.                 *)
LEMMA ChangeSteps ==
  ASSUME TypeInv, [Next]_vars
  PROVE  /\ \/ /\ Changes' \subseteq Changes
               /\ \A v \in Writers : tx'[v] \subseteq tx[v]
            \/ \E w \in Writers, k \in Entities, r \in {"on", "off"} :
                 /\ Write(w, k, r)
                 /\ Changes' = Changes \cup {[ver |-> nextVer, key |-> k, row |-> r]}
                 /\ \A v \in Writers : tx'[v] \subseteq tx[v] \cup {[ver |-> nextVer, key |-> k, row |-> r]}
         /\ (log' = log /\ rows' = rows) \/ \E w \in Writers : Commit(w)
         /\ log \subseteq log'
         /\ nextVer' = nextVer \/ nextVer' = nextVer + 1
<1>0. tx \in [Writers -> SUBSET Change]
  BY DEF TypeInv, TypeOK
<1>1. ASSUME NEW w \in Writers, NEW k \in Entities, NEW r \in {"on", "off"}, Write(w, k, r)
      PROVE  /\ Changes' = Changes \cup {[ver |-> nextVer, key |-> k, row |-> r]}
             /\ \A v \in Writers : tx'[v] \subseteq tx[v] \cup {[ver |-> nextVer, key |-> k, row |-> r]}
             /\ log' = log /\ rows' = rows /\ nextVer' = nextVer + 1
  <2> DEFINE new == [ver |-> nextVer, key |-> k, row |-> r]
  <2>1. /\ tx'[w] = tx[w] \cup {new} /\ log' = log /\ rows' = rows /\ nextVer' = nextVer + 1
        /\ \A v \in Writers : v # w => tx'[v] = tx[v]
    BY <1>0, <1>1 DEF Write
  <2> HIDE DEF new
  <2>2. Open' = Open \cup {new}
    BY <2>1 DEF Open
  <2>3. Changes' = Changes \cup {new} /\ \A v \in Writers : tx'[v] \subseteq tx[v] \cup {new}
    BY <2>1, <2>2 DEF Changes
  <2> QED BY <2>1, <2>3 DEF new
<1>2. ASSUME NEW w \in Writers, Commit(w)
      PROVE  /\ Changes' \subseteq Changes /\ log \subseteq log' /\ nextVer' = nextVer
             /\ \A v \in Writers : tx'[v] \subseteq tx[v]
  <2>1. /\ tx'[w] = {} /\ \A v \in Writers : v # w => tx'[v] = tx[v]
        /\ log' = log \cup tx[w] /\ nextVer' = nextVer
    BY <1>0, <1>2 DEF Commit
  <2> QED BY <2>1 DEF Changes, Open
<1>3. ASSUME log' = log, rows' = rows, nextVer' = nextVer, \A v \in Writers : tx'[v] \subseteq tx[v]
      PROVE  Changes' \subseteq Changes
  BY <1>3 DEF Changes, Open
<1>4. CASE \E w \in Writers : Rollback(w)
  <2>1. log' = log /\ rows' = rows /\ nextVer' = nextVer /\ \A v \in Writers : tx'[v] \subseteq tx[v]
    BY <1>0, <1>4 DEF Rollback
  <2> QED BY <1>3, <2>1
<1>5. CASE UpgradeCentral
  <2>1. log' = log /\ rows' = rows /\ nextVer' = nextVer /\ \A v \in Writers : tx'[v] \subseteq tx[v]
    BY <1>5 DEF UpgradeCentral
  <2> QED BY <1>3, <2>1
<1>6. CASE UNCHANGED centralVars
  <2>1. log' = log /\ rows' = rows /\ nextVer' = nextVer /\ \A v \in Writers : tx'[v] \subseteq tx[v]
    BY <1>6 DEF centralVars
  <2> QED BY <1>3, <2>1
<1>7. CASE \E w \in Writers, k \in Entities, r \in {"on", "off"} : Write(w, k, r)
  BY <1>1, <1>7
<1>8. CASE \E w \in Writers : Commit(w)
  BY <1>2, <1>8
<1> QED
  BY <1>4, <1>5, <1>6, <1>7, <1>8 DEF Next, Central, Serve, Node, Faults, vars, centralVars,
     nodeVars, ReadVersion, ReadFloor, ReadRevoked, ReadBlocked, AnswerChanges, ReadCapabilities,
     ReadPrincipals, AnswerReset, StartPull, PersistDenyList, RefuseDelta, MaterialiseReplica,
     SaveReplica, Interrupt, UpgradeNode

(* Every change is a change with a version below the next one.             *)
LEMMA ChangesType ==
  ASSUME TypeInv
  PROVE  Changes \subseteq Change /\ (\A c \in Changes : c.ver < nextVer) /\ log \subseteq Changes
BY DEF TypeInv, TypeOK, Bounded, Changes, Open

(* The log's invariant holds at the start ...                              *)
LEMMA LogInit == Init => LogInv
<1> SUFFICES ASSUME Init PROVE LogInv
  OBVIOUS
<1>1. Open = {} /\ Changes = InitialLog /\ log = InitialLog
  BY DEF Init, Open, Changes
<1>2. \A c, d \in InitialLog : c.key = d.key \/ c.ver = d.ver => c = d
  BY SeedAssumption
<1>3. \A c \in InitialLog : c.ver \in 1 .. InitialVersion - 1
  BY SeedAssumption
<1>4. Distinct
  BY <1>1, <1>2, <1>3, SeedAssumption DEF Init, Distinct
<1>5. RowsNewest
  <2> SUFFICES ASSUME NEW k \in Entities
               PROVE  \/ rows[k] = "absent" /\ \A c \in log : c.key # k
                      \/ \E c \in log : /\ c.key = k /\ c.row = rows[k]
                                        /\ \A d \in log : d.key = k => d.ver <= c.ver
    BY DEF RowsNewest
  <2>1. rows[k] = IF \E c \in InitialLog : c.key = k
                  THEN (CHOOSE c \in InitialLog : c.key = k).row ELSE "absent"
    BY DEF Init, Written, Nothing
  <2>2. CASE \A c \in InitialLog : c.key # k
    BY <1>1, <2>1, <2>2
  <2>3. ASSUME NEW c \in InitialLog, c.key = k PROVE rows[k] = c.row /\ \A d \in log : d.key = k => d.ver <= c.ver
    <3>1. \A d \in InitialLog : d.key = k => d = c
      BY <1>2, <2>3
    <3>2. (CHOOSE d \in InitialLog : d.key = k) = c
      BY <2>3, <3>1
    <3> QED BY <1>1, <1>3, <2>1, <2>3, <3>1, <3>2
  <2> QED BY <1>1, <2>2, <2>3
<1> QED BY <1>1, <1>4, <1>5 DEF LogInv, TxNewer, Init

(* ... and every step keeps it ...                                         *)
LEMMA LogStep == TypeInv /\ CentralInv /\ LogInv /\ [Next]_vars => LogInv'
<1> SUFFICES ASSUME TypeInv, CentralInv, LogInv, [Next]_vars PROVE LogInv'
  OBVIOUS
<1>0. nextVer \in Nat /\ log \subseteq Change /\ tx \in [Writers -> SUBSET Change]
  BY DEF TypeInv, TypeOK
<1>1. Distinct'
  <2>1. CASE Changes' \subseteq Changes
    BY <1>0, <2>1, ChangeSteps DEF LogInv, Distinct
  <2>2. ASSUME NEW k \in Entities, NEW r \in {"on", "off"},
               Changes' = Changes \cup {[ver |-> nextVer, key |-> k, row |-> r]}
        PROVE  Distinct'
    BY <1>0, <2>2, ChangeSteps, ChangesType DEF LogInv, Distinct
  <2> QED BY <2>1, <2>2, ChangeSteps
<1>2. TxNewer'
  <2> SUFFICES ASSUME NEW v \in Writers, NEW c \in tx'[v], NEW d \in log', d.key = c.key
               PROVE  d.ver < c.ver
    BY DEF TxNewer
  <2>1. CASE c \in tx[v] /\ d \in log
    BY <2>1 DEF LogInv, TxNewer
  <2>2. CASE c \notin tx[v]
    <3>1. c.ver = nextVer /\ log' = log
      <4>1. PICK w \in Writers, k \in Entities, r \in {"on", "off"} :
              Write(w, k, r) /\ tx'[v] \subseteq tx[v] \cup {[ver |-> nextVer, key |-> k, row |-> r]}
        BY <2>2, ChangeSteps
      <4> QED BY <2>2, <4>1 DEF Write
    <3> QED BY <1>0, <3>1 DEF TypeInv, Bounded
  <2>3. ASSUME d \notin log PROVE FALSE
    <3>1. PICK w \in Writers : Commit(w)
      BY <2>3, ChangeSteps
    <3>2. c \in tx[v] /\ v # w /\ d \in tx[w]
      BY <1>0, <2>3, <3>1 DEF Commit
    <3> QED BY <3>2 DEF CentralInv, LockHeld
  <2> QED BY <2>1, <2>2, <2>3
<1>3. RowsNewest'
  <2>1. CASE log' = log /\ rows' = rows
    BY <2>1 DEF LogInv, RowsNewest
  <2>2. ASSUME NEW w \in Writers, Commit(w) PROVE RowsNewest'
    <3> SUFFICES ASSUME NEW k \in Entities
                 PROVE  \/ rows'[k] = "absent" /\ \A c \in log' : c.key # k
                        \/ \E c \in log' : /\ c.key = k /\ c.row = rows'[k]
                                           /\ \A d \in log' : d.key = k => d.ver <= c.ver
      BY DEF RowsNewest
    <3>0. log' = log \cup tx[w]
      BY <2>2 DEF Commit
    <3>1. ASSUME NEW c \in tx[w], c.key = k
          PROVE  c.row = rows'[k] /\ \A d \in log' : d.key = k => d.ver <= c.ver
      <4>1. c.row = rows'[k]
        BY <2>2, <3>1, CommitRows
      <4>2. ASSUME NEW d \in log', d.key = k PROVE d.ver <= c.ver
        <5>1. c.ver \in Nat
          BY <1>0 DEF Change
        <5>2. d \in tx[w] => d = c
          BY <3>1, <4>2 DEF CentralInv, LockHeld
        <5>3. d \in log => d.ver < c.ver /\ d.ver \in Nat
          BY <1>0, <3>1, <4>2 DEF LogInv, TxNewer, Change
        <5> QED BY <3>0, <5>1, <5>2, <5>3
      <4> QED BY <4>1, <4>2
    <3>2. CASE \A c \in tx[w] : c.key # k
      <4>1. rows'[k] = rows[k]
        BY <2>2, <3>2, CommitRows
      <4> QED BY <3>0, <3>2, <4>1 DEF LogInv, RowsNewest
    <3> QED BY <3>0, <3>1, <3>2
  <2> QED BY <2>1, <2>2, ChangeSteps
<1> QED BY <1>1, <1>2, <1>3 DEF LogInv

(* ... so it always holds.                                                 *)
LEMMA LogInvariant == Safety => [](TypeInv /\ RevInv /\ LogInv)
<1>1. TypeInv /\ RevInv /\ LogInv /\ [Next]_vars => LogInv'
  BY LogStep DEF RevInv
<1> QED BY <1>1, LogInit, RevInvariant, PTL DEF Safety

(* The row of a version is what its newest change says ...                 *)
LEMMA RowAtIs ==
  ASSUME TypeInv, Distinct, NEW k, NEW v \in Nat, NEW c \in log, c.key = k, c.ver <= v,
         \A d \in log : d.key = k /\ d.ver <= v => d.ver <= c.ver
  PROVE  RowAt(k, v) = c.row
<1> DEFINE past == {d \in log : d.key = k /\ d.ver <= v}
<1>1. past \in SUBSET Change /\ c \in past /\ nextVer \in Nat /\ \A d \in past : d.ver < nextVer
  BY DEF TypeInv, TypeOK, Bounded
<1>2. Newest(past) \in past /\ c.ver <= Newest(past).ver
  <2> HIDE DEF past
  <2> QED BY <1>1, NewestOf
<1>3. Newest(past).ver <= c.ver /\ Newest(past).ver \in Nat /\ c.ver \in Nat
  BY <1>1, <1>2 DEF Change
<1>4. Newest(past) \in Changes /\ c \in Changes
  BY <1>2 DEF Changes
<1>5. Newest(past) = c
  <2> HIDE DEF past
  <2> QED BY <1>2, <1>3, <1>4 DEF Distinct
<1> QED BY <1>1, <1>5 DEF RowAt

(* ... or absent when there is none.                                       *)
LEMMA RowAtNone ==
  ASSUME NEW k, NEW v, \A c \in log : c.key = k => ~(c.ver <= v)
  PROVE  RowAt(k, v) = "absent"
BY DEF RowAt

(* One of the two is the case.                                             *)
LEMMA RowAtCases ==
  ASSUME TypeInv, Distinct, NEW k, NEW v \in Nat
  PROVE  \/ RowAt(k, v) = "absent" /\ \A c \in log : c.key = k => ~(c.ver <= v)
         \/ \E c \in log : /\ c.key = k /\ c.ver <= v /\ RowAt(k, v) = c.row
                           /\ \A d \in log : d.key = k /\ d.ver <= v => d.ver <= c.ver
<1> DEFINE past == {d \in log : d.key = k /\ d.ver <= v}
<1>1. past \in SUBSET Change /\ nextVer \in Nat /\ \A d \in past : d.ver < nextVer
  BY DEF TypeInv, TypeOK, Bounded
<1>2. CASE past = {}
  BY <1>2 DEF RowAt
<1>3. CASE past # {}
  <2>1. Newest(past) \in past /\ \A d \in past : d.ver <= Newest(past).ver
    <3> HIDE DEF past
    <3> QED BY <1>1, <1>3, NewestOf
  <2>2. RowAt(k, v) = Newest(past).row
    BY <1>3 DEF RowAt
  <2> QED BY <2>1, <2>2
<1> QED BY <1>2, <1>3

(* The change log replays to the tables, for every number of writers and   *)
(* in spite of their overlapping: a row's lock is taken before its change  *)
(* gets its version, and both are committed together.                      *)
THEOREM TablesReplay == Safety => []TablesMatchLog
<1>1. TypeInv /\ LogInv => TablesMatchLog
  <2> SUFFICES ASSUME TypeInv, LogInv, NEW k \in Entities PROVE rows[k] = RowAt(k, nextVer)
    BY DEF TablesMatchLog
  <2>0. nextVer \in Nat /\ \A c \in log : c.ver < nextVer /\ c.ver \in Nat
    BY DEF TypeInv, TypeOK, Bounded, Change
  <2>1. CASE \A c \in log : c.key # k
    BY <2>1, RowAtNone DEF LogInv, RowsNewest
  <2>2. ASSUME NEW c \in log, c.key = k, c.row = rows[k],
               \A d \in log : d.key = k => d.ver <= c.ver
        PROVE  rows[k] = RowAt(k, nextVer)
    BY <2>0, <2>2, RowAtIs DEF LogInv
  <2> QED BY <2>1, <2>2 DEF LogInv, RowsNewest
<1> QED BY <1>1, LogInvariant, PTL

-----------------------------------------------------------------------------
(* Grants of one pair are live one at a time in the log, too.  A grant is  *)
(* switched on once, then off once; and it was off before another grant of *)
(* its pair was switched on.                                               *)
OnOff == \A c \in Changes : c.key \in Grants => c.row \in {"on", "off"}
GrantLife ==
  \A c, d \in Changes : c.key \in Grants /\ c.key = d.key =>
    /\ c.row = d.row => c = d
    /\ c.row = "on" /\ d.row = "off" => c.ver < d.ver
OnceLive ==
  \A c, d \in Changes :
    /\ c.key \in Grants /\ d.key \in Grants \ {c.key} /\ SamePair(c.key, d.key)
    /\ c.row = "on" /\ d.row = "on" /\ c.ver < d.ver
    => \E e \in log : e.key = c.key /\ e.row = "off" /\ e.ver < d.ver
PairInv == OnOff /\ GrantLife /\ OnceLive

(* Nothing open or committed for an absent row; the row of a grant that is *)
(* on was written on by its only change.                                   *)
LEMMA GrantRows ==
  ASSUME TypeInv, LogInv, PairInv, NEW g \in Grants, ~Locked(g)
  PROVE  /\ rows[g] = "absent" => \A c \in Changes : c.key # g
         /\ rows[g] = "on" => \A c \in Changes : c.key = g => c.row = "on"
         /\ rows[g] = "off" => \E e \in log : e.key = g /\ e.row = "off"
<1>0. g \in Entities /\ \A c \in Changes : c.key = g => c \in log
  BY DEF Entities, Changes, Locked
<1>1. CASE rows[g] = "absent" /\ \A c \in log : c.key # g
  BY <1>0, <1>1
<1>2. ASSUME NEW c \in log, c.key = g, c.row = rows[g], \A d \in log : d.key = g => d.ver <= c.ver
      PROVE  /\ rows[g] # "absent"
             /\ rows[g] = "on" => \A d \in Changes : d.key = g => d.row = "on"
             /\ rows[g] = "off" => \E e \in log : e.key = g /\ e.row = "off"
  <2>0. c \in Changes /\ c.ver \in Nat /\ \A d \in log : d.ver \in Nat /\ d \in Changes
    BY DEF Changes, TypeInv, TypeOK, Change
  <2>1. rows[g] \in {"on", "off"}
    BY <1>2, <2>0 DEF PairInv, OnOff
  <2>2. ASSUME rows[g] = "on", NEW d \in Changes, d.key = g PROVE d.row = "on"
    <3>1. d \in log /\ d.ver <= c.ver
      BY <1>0, <1>2, <2>2
    <3>2. d.row # "off"
      BY <1>2, <2>0, <2>2, <3>1 DEF PairInv, GrantLife
    <3> QED BY <2>2, <3>2 DEF PairInv, OnOff
  <2> QED BY <1>2, <2>1, <2>2
<1> QED BY <1>0, <1>1, <1>2 DEF LogInv, RowsNewest

LEMMA PairInit == Init => PairInv
<1> SUFFICES ASSUME Init PROVE PairInv
  OBVIOUS
<1>1. \A c \in Changes : c.key \notin Grants
  BY SeedAssumption, EntityAssumption DEF Init, Changes, Open
<1> QED BY <1>1 DEF PairInv, OnOff, GrantLife, OnceLive

LEMMA PairStep == TypeInv /\ LogInv /\ PairInv /\ [Next]_vars => PairInv'
<1> SUFFICES ASSUME TypeInv, LogInv, PairInv, [Next]_vars PROVE PairInv'
  OBVIOUS
<1>0. log \subseteq log' /\ nextVer \in Nat
  BY ChangeSteps DEF TypeInv, TypeOK
<1>1. CASE Changes' \subseteq Changes
  BY <1>0, <1>1 DEF PairInv, OnOff, GrantLife, OnceLive
<1>2. ASSUME NEW w \in Writers, NEW k \in Entities, NEW r \in {"on", "off"}, Write(w, k, r),
             Changes' = Changes \cup {[ver |-> nextVer, key |-> k, row |-> r]}
      PROVE  PairInv'
  <2> DEFINE new == [ver |-> nextVer, key |-> k, row |-> r]
  <2>1. ~Locked(k) /\ (k \in Grants => MayWriteGrant(k, r)) /\ log' = log
    BY <1>2 DEF Write, MayWrite
  <2>2. new.key = k /\ new.row = r /\ new.ver = nextVer /\ Changes' = Changes \cup {new}
    BY <1>2
  <2>3. \A c \in Changes : c.ver < nextVer /\ c.ver \in Nat
    BY ChangesType DEF Change
  <2> HIDE DEF new
  <2>4. ASSUME k \in Grants, NEW c \in Changes, c.key = k
        PROVE  r = "off" /\ c.row = "on"
    BY <2>1, <2>4, GrantRows DEF MayWriteGrant
  <2>5. OnOff'
    BY <2>2 DEF PairInv, OnOff
  <2>6. GrantLife'
    <3> SUFFICES ASSUME NEW c \in Changes', NEW d \in Changes', c.key \in Grants, c.key = d.key
                 PROVE  /\ c.row = d.row => c = d
                        /\ c.row = "on" /\ d.row = "off" => c.ver < d.ver
      BY DEF GrantLife
    <3>1. CASE c \in Changes /\ d \in Changes
      BY <3>1 DEF PairInv, GrantLife
    <3>2. CASE c = new /\ d = new
      BY <3>2
    <3>3. CASE c = new /\ d \in Changes
      BY <2>2, <2>4, <3>3
    <3>4. CASE c \in Changes /\ d = new
      BY <2>2, <2>3, <2>4, <3>4
    <3> QED BY <2>2, <3>1, <3>2, <3>3, <3>4
  <2>7. OnceLive'
    <3> SUFFICES ASSUME NEW c \in Changes', NEW d \in Changes',
                        c.key \in Grants, d.key \in Grants, d.key # c.key, SamePair(c.key, d.key),
                        c.row = "on", d.row = "on", c.ver < d.ver
                 PROVE  \E e \in log : e.key = c.key /\ e.row = "off" /\ e.ver < d.ver
      BY <2>1 DEF OnceLive
    <3>1. c \in Changes
      <4>1. d.ver <= nextVer /\ d.ver \in Nat
        BY <1>0, <2>2, <2>3
      <4> QED BY <1>0, <2>2, <4>1
    <3>2. CASE d \in Changes
      BY <3>1, <3>2 DEF PairInv, OnceLive
    <3>3. CASE d = new
      <4>1. k \in Grants /\ c.key \in Grants \ {k} /\ r = "on" /\ SamePair(k, c.key)
        BY <2>2, <3>3 DEF SamePair
      <4>2. rows[c.key] # "on" /\ ~Locked(c.key)
        BY <2>1, <4>1 DEF MayWriteGrant
      <4>3. rows[c.key] = "off"
        BY <3>1, <4>2, GrantRows DEF TypeInv, TypeOK, Rows, Entities
      <4>4. PICK e \in log : e.key = c.key /\ e.row = "off"
        BY <4>2, <4>3, GrantRows
      <4> QED BY <2>2, <3>3, <4>4 DEF TypeInv, Bounded
    <3> QED BY <2>2, <3>2, <3>3
  <2> QED BY <2>5, <2>6, <2>7 DEF PairInv
<1> QED BY <1>1, <1>2, ChangeSteps

LEMMA PairInvariant == Safety => [](TypeInv /\ LogInv /\ PairInv)
BY PairInit, PairStep, LogInvariant, PTL DEF Safety

-----------------------------------------------------------------------------
(* The versions a node holds.  With overlapping writers a version can be   *)
(* committed above one that is still open, and then a node that has seen   *)
(* it never asks for the other (README, section 5).  What follows is true  *)
(* of every behaviour in which that does not happen: it is the only thing  *)
(* asked of the writers.                                                   *)
CommitsInOrder == \A w \in Writers : \A c \in tx[w], d \in log : d.ver < c.ver

(* A version below which nothing is open, so that its rows are final; one  *)
(* that was committed; a row that is not behind a version.                 *)
Settled(u) == u \in Nat /\ u < nextVer /\ \A w \in Writers : \A c \in tx[w] : u < c.ver
Known(v)   == v = 0 \/ \E c \in log : c.ver = v
AtLeast(row, k, v) == \E u \in Nat : v <= u /\ Settled(u) /\ row = RowAt(k, u)
Fresh(copy, v) == \A k \in Entities : AtLeast(copy[k], k, v)
Between(a, b) == {c \in log : a < c.ver /\ c.ver < b}

(* A settled version stays settled, and its rows stay what they are.       *)
LEMMA SettledStays ==
  ASSUME TypeInv, [Next]_vars, NEW u \in Nat, Settled(u)
  PROVE  Settled(u)' /\ \A k : RowAt(k, u)' = RowAt(k, u)
<1>0. nextVer \in Nat /\ tx \in [Writers -> SUBSET Change]
  BY DEF TypeInv, TypeOK
<1>1. Settled(u)'
  <2>1. u < nextVer' /\ nextVer' \in Nat
    BY <1>0, ChangeSteps DEF Settled
  <2>2. ASSUME NEW v \in Writers, NEW c \in tx'[v] PROVE u < c.ver
    <3>1. c \in tx[v] \/ c.ver = nextVer
      BY ChangeSteps
    <3> QED BY <3>1 DEF Settled
  <2> QED BY <2>1, <2>2 DEF Settled
<1>2. ASSUME NEW k PROVE RowAt(k, u)' = RowAt(k, u)
  <2> DEFINE past(S) == {c \in S : c.key = k /\ c.ver <= u}
  <2>1. past(log') = past(log)
    <3>1. CASE log' = log
      BY <3>1
    <3>2. ASSUME NEW w \in Writers, Commit(w)
          PROVE  past(log') = past(log)
      <4>1. log' = log \cup tx[w]
        BY <3>2 DEF Commit
      <4>2. \A c \in tx[w] : u < c.ver /\ c.ver \in Nat
        BY <1>0 DEF Settled, Change
      <4> QED BY <4>1, <4>2
    <3> QED BY <3>1, <3>2, ChangeSteps
  <2>2. /\ RowAt(k, u) = IF past(log) = {} THEN "absent" ELSE Newest(past(log)).row
        /\ RowAt(k, u)' = IF past(log') = {} THEN "absent" ELSE Newest(past(log')).row
    BY DEF RowAt, Newest
  <2> HIDE DEF past
  <2> QED BY <2>1, <2>2
<1> QED BY <1>1, <1>2

(* A committed version stays one, and is settled.                          *)
LEMMA KnownSettled ==
  ASSUME TypeInv, LogInv, CommitsInOrder, NEW v \in Nat, Known(v)
  PROVE  Settled(v)
<1>1. nextVer \in Nat /\ nextVer >= 1 /\ \A w \in Writers : \A c \in tx[w] : c.ver >= 1 /\ c.ver \in Nat
  BY DEF TypeInv, TypeOK, LogInv, Distinct, Changes, Open, Change
<1>2. CASE v = 0
  BY <1>1, <1>2 DEF Settled
<1>3. ASSUME NEW c \in log, c.ver = v PROVE Settled(v)
  <2>1. v < nextVer
    BY <1>3 DEF TypeInv, Bounded
  <2> QED BY <1>3, <2>1 DEF Settled, CommitsInOrder
<1> QED BY <1>2, <1>3 DEF Known

LEMMA KnownStays ==
  ASSUME TypeInv, [Next]_vars, NEW v, Known(v)
  PROVE  Known(v)'
BY ChangeSteps DEF Known

(* What is committed later has a version above every committed one.        *)
LEMMA LogGrows ==
  ASSUME TypeInv, LogInv, CommitsInOrder, [Next]_vars, NEW v \in Nat, Known(v)
  PROVE  log \subseteq log' /\ \A c \in log' : c \in log \/ v < c.ver
<1>1. Settled(v)
  BY KnownSettled
<1>2. ASSUME NEW w \in Writers, Commit(w) PROVE \A c \in log' : c \in log \/ v < c.ver
  BY <1>1, <1>2 DEF Settled, Commit
<1> QED BY <1>2, ChangeSteps

(* The rows of central are not behind any committed version.               *)
LEMMA CurrentRows ==
  ASSUME TypeInv, LogInv, CommitsInOrder
  PROVE  /\ PolicyVersion \in Nat /\ Known(PolicyVersion)
         /\ \A v \in Nat : Known(v) => v <= PolicyVersion
         /\ \A k \in Entities, v \in Nat : Known(v) => AtLeast(rows[k], k, v)
<1>0. \A c \in log : c.ver \in Nat
  BY DEF TypeInv, TypeOK, Change
<1>1. PolicyVersion \in Nat /\ Known(PolicyVersion) /\ \A c \in log : c.ver <= PolicyVersion
  <2>1. CASE log = {}
    BY <2>1 DEF PolicyVersion, Known
  <2>2. CASE log # {}
    <3>1. Versions \in SUBSET Nat /\ Versions # {} /\ nextVer \in Nat /\ \A v \in Versions : v < nextVer
      BY <1>0, <2>2 DEF Versions, TypeInv, TypeOK, Bounded
    <3>2. \E v \in Versions : \A u \in Versions : u <= v
      BY <3>1, GreatestOfNats
    <3>3. PolicyVersion \in Versions /\ \A u \in Versions : u <= PolicyVersion
      BY <2>2, <3>2 DEF PolicyVersion
    <3> QED BY <3>1, <3>3 DEF Versions, Known
  <2> QED BY <2>1, <2>2
<1>2. \A v \in Nat : Known(v) => v <= PolicyVersion
  BY <1>1 DEF Known
<1>3. Settled(PolicyVersion)
  BY <1>1, KnownSettled
<1>4. ASSUME NEW k \in Entities PROVE rows[k] = RowAt(k, PolicyVersion)
  <2>1. CASE rows[k] = "absent" /\ \A c \in log : c.key # k
    BY <2>1, RowAtNone
  <2>2. ASSUME NEW c \in log, c.key = k, c.row = rows[k], \A d \in log : d.key = k => d.ver <= c.ver
        PROVE  rows[k] = RowAt(k, PolicyVersion)
    BY <1>1, <2>2, RowAtIs DEF LogInv
  <2> QED BY <2>1, <2>2 DEF LogInv, RowsNewest
<1> QED BY <1>1, <1>2, <1>3, <1>4 DEF AtLeast

-----------------------------------------------------------------------------
(* The lowest changes of a log: with one there is a page, a page has no    *)
(* holes, and what is in it has less than a page below it.                 *)
LEMMA PageOf ==
  ASSUME NEW S \in SUBSET Change, NEW n \in Nat, NEW m \in Nat \ {0},
         \A c \in S : c.ver < n, \A c, d \in S : c.ver = d.ver => c = d
  PROVE  /\ S # {} => Lowest(S, m) # {}
         /\ \A c \in Lowest(S, m), d \in S : d.ver <= c.ver => d \in Lowest(S, m)
<1> DEFINE Below(c) == {d \in S : d.ver < c.ver}
<1> DEFINE verOf == [c \in S |-> c.ver]
<1>0. \A c \in S : c.ver \in Nat
  BY DEF Change
<1>1. IsFiniteSet(S)
  <2>1. verOf \in [S -> 0 .. n] /\ \A c, d \in S : verOf[c] = verOf[d] => c = d
    BY <1>0
  <2>2. verOf \in Injection(S, 0 .. n)
    <3> HIDE DEF verOf
    <3> QED BY <2>1 DEF Injection, IsInjective
  <2>3. IsFiniteSet(0 .. n)
    BY FS_Interval
  <2> QED BY <2>2, <2>3, FS_Injection
<1>2. ASSUME NEW c \in S PROVE IsFiniteSet(Below(c)) /\ Cardinality(Below(c)) \in Nat
  BY <1>1, FS_Subset, FS_CardinalityType
<1>3. ASSUME S # {} PROVE Lowest(S, m) # {}
  <2> DEFINE V == {c.ver : c \in S}
  <2>1. V \in SUBSET Nat /\ V # {}
    BY <1>0, <1>3
  <2>2. PICK v \in V : \A u \in V : v <= u
    <3> HIDE DEF V
    <3> QED BY <2>1, LeastOfNats
  <2>3. PICK c \in S : c.ver = v
    BY <2>2
  <2>4. Below(c) = {}
    BY <1>0, <2>2, <2>3
  <2>5. Cardinality(Below(c)) = 0
    BY <2>4, FS_EmptySet
  <2> QED BY <2>5 DEF Lowest
<1>4. ASSUME NEW c \in Lowest(S, m), NEW d \in S, d.ver <= c.ver PROVE d \in Lowest(S, m)
  <2>1. c \in S /\ Cardinality(Below(c)) < m
    BY DEF Lowest
  <2>2. Below(d) \in SUBSET Below(c)
    BY <1>0, <1>4, <2>1
  <2>3. Cardinality(Below(d)) <= Cardinality(Below(c))
    BY <1>2, <2>1, <2>2, FS_Subset
  <2>4. Cardinality(Below(d)) < m
    <3>1. Cardinality(Below(c)) \in Nat /\ Cardinality(Below(d)) \in Nat
      BY <1>2, <2>1
    <3> HIDE DEF Below
    <3> QED BY <2>1, <2>3, <3>1
  <2> QED BY <2>4 DEF Lowest
<1> QED BY <1>3, <1>4

-----------------------------------------------------------------------------
(* The invariant of the copies, in parts.  The replica claims a committed  *)
(* version and holds everything up to it ...                               *)
Top == ApplyDelta.version
Answer == {"answered", "denied", "mirrored"}

ReplicaFresh == Known(replica.version) /\ Fresh(replica.rows, replica.version)

(* ... a head that was read is not below what the node holds, and the      *)
(* floor is the log's least version ...                                    *)
HeadAhead ==
  /\ Known(reply.head)
  /\ pc \notin {"idle", "asked"} => replica.version <= reply.head
FloorTrue ==
  pc \notin {"idle", "asked", "headed"} =>
    reply.head = 0 \/ /\ \E c \in log : c.ver = reply.floor
                      /\ \A d \in log : reply.floor <= d.ver

(* ... a page has every change from the replica's version to its last one, *)
(* and a snapshot's tables are read after the head it is for.              *)
PageCovers ==
  pc \in Answer /\ ~NeedsReset =>
    /\ Known(Top) /\ replica.version <= Top
    /\ \A c \in reply.page : replica.version < c.ver /\ c.ver <= Top
    /\ \A c \in log : replica.version < c.ver /\ c.ver <= Top => c \in reply.page
    /\ Cardinality(Between(replica.version, Top)) < PageSize
SnapshotFresh ==
  /\ pc \in {"capabilities", "principals"} => NeedsReset
  /\ NeedsReset =>
       /\ pc \in {"capabilities", "principals"} \cup Answer =>
            \A k \in Capabilities : AtLeast(reply.snapshot[k], k, reply.head)
       /\ pc \in {"principals"} \cup Answer =>
            \A k \in Principals : AtLeast(reply.snapshot[k], k, reply.head)
       /\ pc \in Answer =>
            \A k \in Grants : AtLeast(reply.snapshot[k], k, reply.head)

CopyInv == ReplicaFresh /\ HeadAhead /\ FloorTrue /\ PageCovers /\ SnapshotFresh

(* A row that is not behind the replica's version, once the page's change  *)
(* of it is applied, is not behind the page's last version.                *)
LEMMA Paged ==
  ASSUME TypeInv, LogInv, CommitsInOrder, CopyInv, pc \in Answer, ~NeedsReset,
         NEW k \in Entities, NEW old, AtLeast(old, k, replica.version)
  PROVE  AtLeast(IF For(k) = {} THEN old ELSE Newest(For(k)).row, k, Top)
<1>0. /\ replica.version \in Nat /\ Top \in Nat /\ \A c \in log : c.ver \in Nat
      /\ reply.page \subseteq log
  BY ApplyType DEF TypeInv, TypeOK, Copy, Top, Change
<1>1. /\ Known(Top) /\ replica.version <= Top
      /\ \A c \in reply.page : replica.version < c.ver /\ c.ver <= Top
      /\ \A c \in log : replica.version < c.ver /\ c.ver <= Top => c \in reply.page
  BY DEF CopyInv, PageCovers
<1>2. Settled(Top)
  BY <1>0, <1>1, KnownSettled
<1>3. PICK u \in Nat : replica.version <= u /\ Settled(u) /\ old = RowAt(k, u)
  BY DEF AtLeast
<1>4. CASE For(k) = {}
  <2>1. CASE Top <= u
    BY <1>3, <1>4, <2>1 DEF AtLeast
  <2>2. CASE u < Top
    <3> DEFINE past(v) == {c \in log : c.key = k /\ c.ver <= v}
    <3>1. \A c \in log : c.key = k => ~(replica.version < c.ver /\ c.ver <= Top)
      BY <1>1, <1>4 DEF For
    <3>2. past(u) = past(Top)
      BY <1>0, <1>3, <2>2, <3>1
    <3>3. RowAt(k, u) = RowAt(k, Top)
      BY <3>2 DEF RowAt
    <3> QED BY <1>0, <1>2, <1>3, <1>4, <3>3 DEF AtLeast
  <2> QED BY <1>0, <2>1, <2>2
<1>5. CASE For(k) # {}
  <2> DEFINE n == Newest(For(k))
  <2>1. n \in For(k) /\ \A d \in For(k) : d.ver <= n.ver
    <3>1. For(k) \in SUBSET Change /\ nextVer \in Nat /\ \A c \in For(k) : c.ver < nextVer
      BY DEF TypeInv, TypeOK, Bounded, For
    <3> QED BY <1>5, <3>1, NewestOf
  <2> HIDE DEF n
  <2>2. n \in log /\ n.key = k /\ replica.version < n.ver /\ n.ver <= Top
    BY <1>0, <1>1, <2>1 DEF For
  <2>3. ASSUME NEW d \in log, d.key = k, d.ver <= Top PROVE d.ver <= n.ver
    <3>1. CASE replica.version < d.ver
      BY <1>1, <2>1, <2>3, <3>1 DEF For
    <3>2. CASE ~(replica.version < d.ver)
      BY <1>0, <2>2, <3>2
    <3> QED BY <3>1, <3>2
  <2>4. RowAt(k, Top) = n.row
    BY <1>0, <2>2, <2>3, RowAtIs DEF LogInv
  <2> QED BY <1>0, <1>2, <1>5, <2>4 DEF AtLeast, n
<1> QED BY <1>4, <1>5

(* An answer that is applied gives rows that are not behind its version,   *)
(* which is a committed one and not below the replica's.                   *)
LEMMA AnswerFresh ==
  ASSUME TypeInv, LogInv, CommitsInOrder, CopyInv, pc \in Answer
  PROVE  /\ Top \in Nat /\ Known(Top) /\ replica.version <= Top
         /\ Fresh(ApplyDelta.rows, Top)
         /\ NeedsReset => Fresh(reply.snapshot, Top)
<1>0. Top \in Nat
  BY ApplyType DEF Copy, Top
<1>1. CASE NeedsReset
  <2>1. Top = reply.head /\ ApplyDelta.rows = reply.snapshot
    BY <1>1 DEF Top, ApplyDelta
  <2>2. \A k \in Entities : AtLeast(reply.snapshot[k], k, Top)
    BY <1>1, <2>1 DEF CopyInv, SnapshotFresh, Entities
  <2> QED BY <1>0, <2>1, <2>2 DEF Fresh, CopyInv, HeadAhead, Answer
<1>2. CASE ~NeedsReset
  <2>1. ASSUME NEW k \in Entities PROVE AtLeast(ApplyDelta.rows[k], k, Top)
    <3>1. ApplyDelta.rows[k] = IF For(k) = {} THEN replica.rows[k] ELSE Newest(For(k)).row
      BY <1>2 DEF ApplyDelta
    <3>2. AtLeast(replica.rows[k], k, replica.version)
      BY DEF CopyInv, ReplicaFresh, Fresh
    <3> HIDE DEF Top
    <3> QED BY <1>2, <3>1, <3>2, Paged
  <2> QED BY <1>0, <1>2, <2>1 DEF Fresh, CopyInv, PageCovers
<1> QED BY <1>1, <1>2

(* A row that is not behind stays so, whatever central does.               *)
LEMMA AtLeastStays ==
  ASSUME TypeInv, [Next]_vars, NEW row, NEW k, NEW v, AtLeast(row, k, v)
  PROVE  AtLeast(row, k, v)'
BY SettledStays DEF AtLeast

(* The parts of the invariant that only the replica, or only what was      *)
(* read, can disturb.                                                      *)
LEMMA ReplicaKept ==
  ASSUME TypeInv, [Next]_vars, ReplicaFresh, UNCHANGED replica
  PROVE  ReplicaFresh'
<1>1. Known(replica.version)'
  BY KnownStays DEF ReplicaFresh, Known
<1>2. ASSUME NEW k \in Entities PROVE AtLeast(replica.rows[k], k, replica.version)'
  <2>1. PICK u \in Nat : replica.version <= u /\ Settled(u) /\ replica.rows[k] = RowAt(k, u)
    BY DEF ReplicaFresh, Fresh, AtLeast
  <2>2. Settled(u)' /\ RowAt(k, u)' = RowAt(k, u)
    BY <2>1, SettledStays
  <2> QED BY <2>1, <2>2 DEF AtLeast
<1> QED BY <1>1, <1>2 DEF ReplicaFresh, Fresh

LEMMA HeadKept ==
  ASSUME TypeInv, LogInv, CommitsInOrder, [Next]_vars, HeadAhead, FloorTrue, UNCHANGED replica,
         reply'.head = reply.head, reply'.floor = reply.floor,
         pc' \notin {"idle", "asked"} => pc \notin {"idle", "asked"},
         pc' \notin {"idle", "asked", "headed"} => pc \notin {"idle", "asked", "headed"}
  PROVE  HeadAhead' /\ FloorTrue'
<1>0. reply.head \in Nat /\ reply.floor \in Nat /\ (\A d \in log : d.ver \in Nat) /\ \A d \in log' : d.ver \in Nat
  BY TypeStep DEF TypeInv, TypeOK, Reply, Change
<1>1. Known(reply.head)'
  BY KnownStays DEF HeadAhead, Known
<1>2. ASSUME reply.head # 0, \A d \in log : reply.floor <= d.ver
      PROVE  \A d \in log' : reply.floor <= d.ver
  <2>1. PICK c \in log : c.ver = reply.head
    BY <1>2 DEF HeadAhead, Known
  <2>2. \A d \in log' : d \in log \/ reply.head < d.ver
    BY <1>0, LogGrows DEF HeadAhead
  <2> QED BY <1>0, <1>2, <2>1, <2>2
<1>3. log \subseteq log'
  BY ChangeSteps
<1> QED BY <1>1, <1>2, <1>3 DEF HeadAhead, FloorTrue

(* While a page is worked on, what is committed does not change its part   *)
(* of the log.                                                             *)
LEMMA PageKept ==
  ASSUME TypeInv, LogInv, CommitsInOrder, CopyInv, [Next]_vars, UNCHANGED <<reply, replica>>,
         pc' \in Answer => pc \in Answer
  PROVE  PageCovers'
<1> SUFFICES ASSUME pc' \in Answer, ~NeedsReset', pc \in Answer PROVE PageCovers'
  BY DEF PageCovers
<1>0. /\ replica.version \in Nat /\ Top \in Nat /\ (\A d \in log : d.ver \in Nat)
      /\ \A d \in log' : d.ver \in Nat
  BY TypeStep, ApplyType DEF TypeInv, TypeOK, Copy, Top, Change
<1>1. ~NeedsReset
  BY DEF NeedsReset
<1>2. Top' = Top
  BY DEF Top, ApplyDelta, NeedsReset, For, Newest
<1>3. /\ Known(Top) /\ replica.version <= Top
      /\ \A c \in reply.page : replica.version < c.ver /\ c.ver <= Top
      /\ \A c \in log : replica.version < c.ver /\ c.ver <= Top => c \in reply.page
      /\ Cardinality(Between(replica.version, Top)) < PageSize
  BY <1>1 DEF CopyInv, PageCovers
<1>4. log \subseteq log' /\ \A c \in log' : c \in log \/ Top < c.ver
  BY <1>0, <1>3, LogGrows
<1> DEFINE top == Top
<1>5. Known(top)'
  BY <1>3, <1>2, KnownStays DEF Known
<1>6. {c \in log' : replica.version < c.ver /\ c.ver < Top} = Between(replica.version, Top)
  BY <1>0, <1>4 DEF Between
<1>7. Between(replica.version, Top)' = Between(replica.version, Top)
  BY <1>2, <1>6 DEF Between
<1>8. \A c \in log' : replica.version < c.ver /\ c.ver <= Top => c \in reply.page
  BY <1>0, <1>3, <1>4
<1> QED BY <1>2, <1>3, <1>5, <1>7, <1>8 DEF PageCovers

LEMMA SnapshotKept ==
  ASSUME TypeInv, [Next]_vars, SnapshotFresh, UNCHANGED replica,
         reply'.head = reply.head, reply'.floor = reply.floor, reply'.snapshot = reply.snapshot,
         pc' \in {"capabilities", "principals"} => pc' = pc,
         pc' \in Answer => pc \in Answer
  PROVE  SnapshotFresh'
<1>1. NeedsReset' = NeedsReset
  BY DEF NeedsReset
<1>2. ASSUME NEW k, AtLeast(reply.snapshot[k], k, reply.head)
      PROVE  AtLeast(reply.snapshot[k], k, reply.head)'
  <2>1. PICK u \in Nat : reply.head <= u /\ Settled(u) /\ reply.snapshot[k] = RowAt(k, u)
    BY <1>2 DEF AtLeast
  <2>2. Settled(u)' /\ RowAt(k, u)' = RowAt(k, u)
    BY <2>1, SettledStays
  <2> QED BY <2>1, <2>2 DEF AtLeast
<1> QED BY <1>1, <1>2 DEF SnapshotFresh, Answer

(* A step that leaves the answer and the replica alone, or ends the cycle. *)
LEMMA CopyKept ==
  ASSUME TypeInv, LogInv, CommitsInOrder, CopyInv, [Next]_vars, UNCHANGED <<reply, replica>>,
         pc' = pc \/ (pc \in Answer /\ pc' \in Answer)
  PROVE  CopyInv'
<1>1. ReplicaFresh'
  BY ReplicaKept DEF CopyInv
<1>2. HeadAhead' /\ FloorTrue'
  BY HeadKept DEF CopyInv, Answer
<1>3. PageCovers'
  BY PageKept
<1>4. SnapshotFresh'
  BY SnapshotKept DEF CopyInv, Answer
<1> QED BY <1>1, <1>2, <1>3, <1>4 DEF CopyInv

LEMMA CycleEnds ==
  ASSUME TypeInv, CopyInv, [Next]_vars, UNCHANGED replica, pc' \in {"idle", "asked"},
         reply' = NoReply \/ reply' = reply
  PROVE  CopyInv'
<1>1. ReplicaFresh'
  BY ReplicaKept DEF CopyInv
<1>2. Known(reply.head)'
  <2>1. CASE reply' = NoReply
    BY <2>1 DEF Known, NoReply
  <2>2. CASE reply' = reply
    BY <2>2, KnownStays DEF CopyInv, HeadAhead, Known
  <2> QED BY <2>1, <2>2
<1> QED BY <1>1, <1>2 DEF CopyInv, HeadAhead, FloorTrue, PageCovers, SnapshotFresh, Answer

(* Reading the version and the floor.                                      *)
LEMMA CopyReads ==
  ASSUME TypeInv, LogInv, CommitsInOrder, CopyInv, [Next]_vars,
         ReadVersion \/ ReadFloor \/ ReadRevoked \/ ReadBlocked
  PROVE  CopyInv'
<1>0. reply \in Reply /\ UNCHANGED replica /\ UNCHANGED centralVars /\ replica.version \in Nat
  BY DEF TypeInv, TypeOK, ReadVersion, ReadFloor, ReadRevoked, ReadBlocked, nodeVars, Copy
<1>1. ReplicaFresh'
  BY <1>0, ReplicaKept DEF CopyInv
<1>2. CASE ReadVersion
  <2>1. reply'.head = PolicyVersion /\ pc' = "headed"
    BY <1>2 DEF ReadVersion, NoReply
  <2>2. /\ Known(PolicyVersion) /\ \A v \in Nat : Known(v) => v <= PolicyVersion
    BY CurrentRows
  <2>3. Known(reply.head)'
    BY <1>0, <2>1, <2>2 DEF Known, centralVars
  <2>4. replica.version <= PolicyVersion
    BY <1>0, <2>2 DEF CopyInv, ReplicaFresh
  <2> QED BY <1>0, <1>1, <2>1, <2>3, <2>4
          DEF CopyInv, HeadAhead, FloorTrue, PageCovers, SnapshotFresh, Answer
<1>3. CASE ReadFloor
  <2>1. reply'.head = reply.head /\ reply'.floor = PolicyChangeFloor /\ pc = "headed" /\ pc' = "floored"
    BY <1>0, <1>3 DEF ReadFloor, Reply
  <2>2. HeadAhead'
    BY <1>0, <2>1 DEF CopyInv, HeadAhead, Known, centralVars
  <2>3. log # {} => (\E c \in log : c.ver = PolicyChangeFloor) /\ \A d \in log : PolicyChangeFloor <= d.ver
    <3> SUFFICES ASSUME log # {}
                 PROVE  (\E c \in log : c.ver = PolicyChangeFloor) /\ \A d \in log : PolicyChangeFloor <= d.ver
      OBVIOUS
    <3>1. Versions \in SUBSET Nat /\ Versions # {}
      BY DEF TypeInv, TypeOK, Change, Versions
    <3>2. \E v \in Versions : \A u \in Versions : v <= u
      BY <3>1, LeastOfNats
    <3>3. PolicyChangeFloor \in Versions /\ \A u \in Versions : PolicyChangeFloor <= u
      BY <3>2 DEF PolicyChangeFloor
    <3> QED BY <3>3 DEF Versions
  <2>4. log # {} \/ reply.head = 0
    BY DEF CopyInv, HeadAhead, Known
  <2>5. FloorTrue'
    BY <1>0, <2>1, <2>3, <2>4 DEF FloorTrue, centralVars
  <2> QED BY <1>1, <2>1, <2>2, <2>5 DEF CopyInv, PageCovers, SnapshotFresh, Answer
<1>4. CASE ReadRevoked \/ ReadBlocked
  <2>1. /\ reply'.head = reply.head /\ reply'.floor = reply.floor
        /\ pc \in {"floored", "revoked"} /\ pc' \in {"revoked", "blocked"}
    BY <1>0, <1>4 DEF ReadRevoked, ReadBlocked, Reply
  <2>2. HeadAhead' /\ FloorTrue'
    BY <1>0, <2>1, HeadKept DEF CopyInv
  <2> QED BY <1>1, <2>1, <2>2 DEF CopyInv, PageCovers, SnapshotFresh, Answer
<1> QED BY <1>2, <1>3, <1>4

(* The page that is answered has no holes, and its last version is not     *)
(* below the replica's: an empty page means that there is nothing new.     *)
LEMMA PageAnswered ==
  ASSUME TypeInv, LogInv, CopyInv, pc = "blocked", ~NeedsReset
  PROVE  LET page == ListPolicyChanges
             top  == IF page = {} THEN reply.head ELSE Newest(page).ver
         IN  /\ Known(top) /\ replica.version <= top /\ top \in Nat
             /\ \A c \in page : replica.version < c.ver /\ c.ver <= top
             /\ \A c \in log : replica.version < c.ver /\ c.ver <= top => c \in page
             /\ Cardinality(Between(replica.version, top)) < PageSize
<1> DEFINE S == {c \in log : c.ver > replica.version}
<1> DEFINE page == Lowest(S, PageSize)
<1> DEFINE top == IF page = {} THEN reply.head ELSE Newest(page).ver
<1>0. /\ replica.version \in Nat /\ reply.head \in Nat /\ nextVer \in Nat /\ log \subseteq Change
      /\ (\A c \in log : c.ver \in Nat /\ c.ver < nextVer) /\ PageSize \in Nat \ {0}
  BY BoundAssumption DEF TypeInv, TypeOK, Bounded, Copy, Reply, Change
<1>1. /\ S \in SUBSET Change /\ (\A c \in S : c.ver < nextVer) /\ S \subseteq log
      /\ \A c, d \in S : c.ver = d.ver => c = d
  BY <1>0 DEF LogInv, Distinct, Changes
<1>2. /\ page = {} => S = {}
      /\ \A c \in page, d \in S : d.ver <= c.ver => d \in page
      /\ page \subseteq S /\ \A c \in page : Cardinality({d \in S : d.ver < c.ver}) < PageSize
  <2>1. /\ S # {} => Lowest(S, PageSize) # {}
        /\ \A c \in Lowest(S, PageSize), d \in S : d.ver <= c.ver => d \in Lowest(S, PageSize)
    <3> HIDE DEF S
    <3> QED BY <1>0, <1>1, PageOf
  <2>2. page \subseteq S /\ \A c \in page : Cardinality({d \in S : d.ver < c.ver}) < PageSize
    BY DEF Lowest
  <2> QED BY <2>1, <2>2
<1>3. CASE page = {}
  <2>1. \A c \in log : c.ver <= replica.version
    BY <1>0, <1>2, <1>3
  <2>2. replica.version <= reply.head /\ Known(reply.head)
    BY DEF CopyInv, HeadAhead
  <2>3. reply.head <= replica.version
    BY <1>0, <2>1, <2>2 DEF Known
  <2>4. top = replica.version
    BY <1>0, <1>3, <2>2, <2>3
  <2>5. Between(replica.version, replica.version) = {}
    BY <1>0 DEF Between
  <2>6. Cardinality(Between(replica.version, replica.version)) < PageSize
    BY <1>0, <2>5, FS_EmptySet
  <2>7. Known(replica.version)
    BY DEF CopyInv, ReplicaFresh
  <2>8. \A c \in log : ~(replica.version < c.ver)
    BY <1>0, <2>1
  <2> HIDE DEF top
  <2>9. replica.version <= top /\ top \in Nat /\ Known(top)
    BY <1>0, <2>4, <2>7
  <2> QED BY <1>3, <2>4, <2>6, <2>8, <2>9 DEF ListPolicyChanges, top
<1>4. CASE page # {}
  <2> DEFINE n == Newest(page)
  <2>0. page \in SUBSET Change /\ (\A c \in page : c.ver < nextVer) /\ page \subseteq log
    BY <1>1, <1>2
  <2>1. n \in page /\ \A d \in page : d.ver <= n.ver
    <3> HIDE DEF page
    <3> QED BY <1>0, <1>4, <2>0, NewestOf
  <2>2. top = n.ver
    BY <1>4
  <2> HIDE DEF n
  <2>3. n \in log /\ n.ver \in Nat /\ replica.version < n.ver
    BY <1>0, <1>2, <2>1
  <2>4. \A c \in page : replica.version < c.ver /\ c.ver <= n.ver
    BY <1>0, <1>2, <2>1
  <2>5. \A c \in log : replica.version < c.ver /\ c.ver <= n.ver => c \in page
    <3> SUFFICES ASSUME NEW c \in log, replica.version < c.ver, c.ver <= n.ver PROVE c \in page
      OBVIOUS
    <3>1. c \in S
      BY <1>0
    <3> HIDE DEF S, page
    <3> QED BY <1>2, <2>1, <3>1
  <2>6. Between(replica.version, n.ver) = {d \in S : d.ver < n.ver}
    BY <1>0, <2>3 DEF Between
  <2>7. Cardinality(Between(replica.version, n.ver)) < PageSize
    BY <1>2, <2>1, <2>6
  <2>8. Known(n.ver) /\ replica.version <= n.ver
    BY <1>0, <2>3 DEF Known
  <2> HIDE DEF top
  <2>9. /\ Known(top) /\ replica.version <= top /\ top \in Nat
        /\ \A c \in page : replica.version < c.ver /\ c.ver <= top
        /\ \A c \in log : replica.version < c.ver /\ c.ver <= top => c \in page
        /\ Cardinality(Between(replica.version, top)) < PageSize
    <3> HIDE DEF page
    <3> QED BY <2>2, <2>3, <2>4, <2>5, <2>7, <2>8
  <2> QED BY <2>9 DEF ListPolicyChanges, top
<1> QED BY <1>3, <1>4

(* Answering with changes.                                                 *)
LEMMA CopyAnswered ==
  ASSUME TypeInv, LogInv, CommitsInOrder, CopyInv, [Next]_vars, AnswerChanges
  PROVE  /\ CopyInv' /\ ~NeedsReset'
         /\ Top' = IF ListPolicyChanges = {} THEN reply.head ELSE Newest(ListPolicyChanges).ver
<1>0. reply \in Reply /\ UNCHANGED replica /\ UNCHANGED centralVars /\ pc = "blocked" /\ pc' = "answered"
  BY DEF TypeInv, TypeOK, AnswerChanges, nodeVars
<1>1. /\ reply'.head = reply.head /\ reply'.floor = reply.floor /\ reply'.page = ListPolicyChanges
  BY <1>0 DEF AnswerChanges, Reply
<1>2. ~NeedsReset /\ ~NeedsReset'
  BY <1>0, <1>1 DEF AnswerChanges, NeedsReset
<1>3. ReplicaFresh'
  BY <1>0, ReplicaKept DEF CopyInv
<1>4. HeadAhead' /\ FloorTrue'
  BY <1>0, <1>1, HeadKept DEF CopyInv
<1> DEFINE top == IF ListPolicyChanges = {} THEN reply.head ELSE Newest(ListPolicyChanges).ver
<1>5. Top' = top
  BY <1>1, <1>2 DEF Top, ApplyDelta, Newest
<1>6. /\ Known(top) /\ replica.version <= top
      /\ \A c \in ListPolicyChanges : replica.version < c.ver /\ c.ver <= top
      /\ \A c \in log : replica.version < c.ver /\ c.ver <= top => c \in ListPolicyChanges
      /\ Cardinality(Between(replica.version, top)) < PageSize
  BY <1>0, <1>2, PageAnswered
<1> HIDE DEF top
<1>7. PageCovers'
  <2>1. Known(Top)'
    BY <1>0, <1>5, <1>6 DEF Known, centralVars
  <2>2. Between(replica.version, Top)' = Between(replica.version, top)
    BY <1>0, <1>5 DEF Between, centralVars
  <2>3. /\ replica.version' <= Top'
        /\ \A c \in reply'.page : replica.version' < c.ver /\ c.ver <= Top'
        /\ \A c \in log' : replica.version' < c.ver /\ c.ver <= Top' => c \in reply'.page
    BY <1>0, <1>1, <1>5, <1>6 DEF centralVars
  <2>4. Cardinality(Between(replica.version, Top)') < PageSize
    BY <1>6, <2>2
  <2> QED BY <2>1, <2>3, <2>4 DEF PageCovers
<1>8. SnapshotFresh'
  BY <1>0, <1>2 DEF SnapshotFresh
<1> QED BY <1>2, <1>3, <1>4, <1>5, <1>7, <1>8 DEF CopyInv, top

(* Answering with a snapshot, one table after another: what is read now is *)
(* not behind the head that was read before.                               *)
LEMMA CopySnapshots ==
  ASSUME TypeInv, LogInv, CommitsInOrder, CopyInv, [Next]_vars,
         ReadCapabilities \/ ReadPrincipals \/ AnswerReset
  PROVE  CopyInv' /\ NeedsReset'
<1>0. reply \in Reply /\ UNCHANGED replica /\ UNCHANGED centralVars /\ NeedsReset
  BY DEF TypeInv, TypeOK, ReadCapabilities, ReadPrincipals, AnswerReset, nodeVars, CopyInv, SnapshotFresh
<1>1. PICK S \in {Capabilities, Principals, Grants} :
        /\ reply' = [reply EXCEPT !.snapshot = Snapshotted(S)]
        /\ \/ pc = "blocked" /\ pc' = "capabilities" /\ S = Capabilities
           \/ pc = "capabilities" /\ pc' = "principals" /\ S = Principals
           \/ pc = "principals" /\ pc' = "answered" /\ S = Grants
  BY DEF ReadCapabilities, ReadPrincipals, AnswerReset
<1>2. /\ reply'.head = reply.head /\ reply'.floor = reply.floor /\ reply'.snapshot = Snapshotted(S)
  BY <1>0, <1>1 DEF Reply
<1>3. NeedsReset'
  BY <1>0, <1>2 DEF NeedsReset
<1>4. ReplicaFresh'
  BY <1>0, ReplicaKept DEF CopyInv
<1>5. HeadAhead' /\ FloorTrue'
  BY <1>0, <1>1, <1>2, HeadKept DEF CopyInv
<1>6. ASSUME NEW k \in Entities, k \in S \/ AtLeast(reply.snapshot[k], k, reply.head)
      PROVE  AtLeast(reply.snapshot[k], k, reply.head)'
  <2>1. reply'.snapshot[k] = IF k \in S THEN rows[k] ELSE reply.snapshot[k]
    BY <1>2 DEF Snapshotted
  <2>2. AtLeast(rows[k], k, reply.head)
    <3>1. reply.head \in Nat /\ Known(reply.head)
      BY <1>0 DEF Reply, CopyInv, HeadAhead
    <3> QED BY <3>1, CurrentRows
  <2>3. AtLeast(reply'.snapshot[k], k, reply.head)
    BY <1>6, <2>1, <2>2
  <2>4. PICK u \in Nat : reply.head <= u /\ Settled(u) /\ reply'.snapshot[k] = RowAt(k, u)
    BY <2>3 DEF AtLeast
  <2>5. Settled(u)' /\ RowAt(k, u)' = RowAt(k, u)
    BY <2>4, SettledStays
  <2> QED BY <1>2, <2>4, <2>5 DEF AtLeast
<1>7. SnapshotFresh'
  <2>0. Capabilities \subseteq Entities /\ Principals \subseteq Entities /\ Grants \subseteq Entities
    BY DEF Entities
  <2>1. CASE pc = "blocked" /\ pc' = "capabilities" /\ S = Capabilities
    BY <1>3, <1>6, <2>0, <2>1 DEF SnapshotFresh, Answer
  <2>2. CASE pc = "capabilities" /\ pc' = "principals" /\ S = Principals
    BY <1>0, <1>3, <1>6, <2>0, <2>2 DEF CopyInv, SnapshotFresh, Answer
  <2>3. CASE pc = "principals" /\ pc' = "answered" /\ S = Grants
    BY <1>0, <1>3, <1>6, <2>0, <2>3 DEF CopyInv, SnapshotFresh, Answer
  <2> QED BY <1>1, <2>1, <2>2, <2>3
<1> QED BY <1>3, <1>4, <1>5, <1>7 DEF CopyInv, PageCovers

(* Saving the replica: it holds what was answered.                         *)
LEMMA CopySaved ==
  ASSUME TypeInv, LogInv, CommitsInOrder, CopyInv, [Next]_vars, SaveReplica
  PROVE  CopyInv'
<1>0. /\ replica' = ApplyDelta /\ pc = "mirrored" /\ pc' \in {"idle", "asked"} /\ reply' = NoReply
      /\ UNCHANGED centralVars
  BY DEF SaveReplica
<1>1. Known(Top) /\ Fresh(ApplyDelta.rows, Top)
  BY <1>0, AnswerFresh DEF Answer
<1>2. Known(replica.version)'
  BY <1>0, <1>1 DEF Known, Top, centralVars
<1>3. ASSUME NEW k \in Entities PROVE AtLeast(replica.rows[k], k, replica.version)'
  <2>1. PICK u \in Nat : Top <= u /\ Settled(u) /\ ApplyDelta.rows[k] = RowAt(k, u)
    BY <1>1 DEF Fresh, AtLeast
  <2>2. Settled(u)' /\ RowAt(k, u)' = RowAt(k, u)
    BY <2>1, SettledStays
  <2> QED BY <1>0, <2>1, <2>2 DEF AtLeast, Top
<1>4. ReplicaFresh'
  BY <1>2, <1>3 DEF ReplicaFresh, Fresh
<1>5. Known(reply.head)'
  BY <1>0 DEF Known, NoReply
<1> QED BY <1>0, <1>4, <1>5 DEF CopyInv, HeadAhead, FloorTrue, PageCovers, SnapshotFresh, Answer

LEMMA CopyInit == Init => CopyInv
<1> SUFFICES ASSUME Init PROVE CopyInv
  OBVIOUS
<1>0. pc = "idle" /\ replica = EmptyReplica /\ reply = NoReply /\ nextVer \in Nat /\ nextVer >= 1
      /\ TypeInv /\ LogInv
  BY TypeInit, LogInit, SeedAssumption DEF Init
<1>1. Settled(0)
  BY <1>0 DEF Settled, Init
<1>2. ASSUME NEW k \in Entities PROVE AtLeast(replica.rows[k], k, replica.version)
  <2>1. RowAt(k, 0) = "absent"
    <3>1. \A c \in log : c.ver >= 1 /\ c.ver \in Nat
      BY <1>0, ChangesType DEF LogInv, Distinct, Change
    <3> QED BY <3>1, RowAtNone
  <2> QED BY <1>0, <1>1, <2>1 DEF EmptyReplica, Nothing, AtLeast
<1>3. ReplicaFresh
  BY <1>0, <1>2 DEF ReplicaFresh, Fresh, Known, EmptyReplica
<1>4. HeadAhead /\ FloorTrue /\ PageCovers
  BY <1>0 DEF HeadAhead, FloorTrue, PageCovers, Known, NoReply, Answer
<1>5. SnapshotFresh
  BY <1>0 DEF SnapshotFresh, Answer
<1> QED BY <1>3, <1>4, <1>5 DEF CopyInv

LEMMA CopyStep == TypeInv /\ LogInv /\ CommitsInOrder /\ CopyInv /\ [Next]_vars => CopyInv'
<1> SUFFICES ASSUME TypeInv, LogInv, CommitsInOrder, CopyInv, [Next]_vars PROVE CopyInv'
  OBVIOUS
<1> USE DEF nodeVars
<1>1. CASE Central \/ UNCHANGED vars
  BY <1>1, CopyKept DEF Central, Write, Commit, Rollback, vars
<1>2. CASE PersistDenyList \/ MaterialiseReplica
  BY <1>2, CopyKept DEF PersistDenyList, MaterialiseReplica, Answer
<1>3. CASE StartPull \/ RefuseDelta \/ Interrupt \/ UpgradeNode
  BY <1>3, CycleEnds DEF StartPull, RefuseDelta, Interrupt, UpgradeNode
<1>4. CASE UpgradeCentral
  BY <1>4, CopyKept, CycleEnds DEF UpgradeCentral
<1> QED
  BY <1>1, <1>2, <1>3, <1>4, CopyReads, CopyAnswered, CopySnapshots, CopySaved
     DEF Next, Serve, Node, Faults

LEMMA CopyInvariant == Safety /\ []CommitsInOrder => [](TypeInv /\ LogInv /\ CopyInv)
<1>1. Safety => [](TypeInv /\ LogInv)
  BY LogInvariant, PTL
<1> QED BY <1>1, CopyInit, CopyStep, PTL DEF Safety

(* A copy whose rows are not behind, in the words of the property.         *)
LEMMA FreshNotBehind ==
  ASSUME TypeInv, NEW copy, NEW v \in Nat, Fresh(copy, v)
  PROVE  NotBehind(copy, v)
<1>1. ASSUME NEW k \in Entities PROVE \E u \in {v} \cup (v .. nextVer) : copy[k] = RowAt(k, u)
  <2>1. PICK u \in Nat : v <= u /\ Settled(u) /\ copy[k] = RowAt(k, u)
    BY DEF Fresh, AtLeast
  <2>2. u \in v .. nextVer
    BY <2>1 DEF Settled, TypeInv, TypeOK
  <2> QED BY <2>1, <2>2
<1> QED BY <1>1 DEF NotBehind

(* As long as versions are committed in their order, the replica holds     *)
(* everything up to the version it claims, through lost answers, resets    *)
(* and pages that are cut short: the next `since` steps over nothing.      *)
THEOREM ReplicaKeepsUp == Safety /\ []CommitsInOrder => []ReplicaNotBehind
<1>1. TypeInv /\ CopyInv => ReplicaNotBehind
  BY FreshNotBehind DEF CopyInv, ReplicaFresh, ReplicaNotBehind, TypeInv, TypeOK, Copy
<1> QED BY <1>1, CopyInvariant, PTL

(* One writer at a time is enough for that, whatever it rolls back: its    *)
(* versions are taken and committed in order.                              *)
LEMMA OneWriterStep ==
  ASSUME \A v, w \in Writers : v = w, TypeInv, CommitsInOrder, [Next]_vars
  PROVE  CommitsInOrder'
<1>0. tx \in [Writers -> SUBSET Change]
  BY DEF TypeInv, TypeOK
<1> SUFFICES ASSUME NEW v \in Writers, NEW c \in tx'[v], NEW d \in log' PROVE d.ver < c.ver
  BY DEF CommitsInOrder
<1>1. CASE d \notin log
  <2>1. PICK w \in Writers : Commit(w)
    BY <1>1, ChangeSteps
  <2>2. tx'[w] = {} /\ v = w
    BY <1>0, <2>1 DEF Commit
  <2> QED BY <2>2
<1>2. CASE d \in log
  <2>1. c \in tx[v] \/ c.ver = nextVer
    BY ChangeSteps
  <2> QED BY <1>2, <2>1 DEF CommitsInOrder, TypeInv, Bounded
<1> QED BY <1>1, <1>2

THEOREM OneWriterCommitsInOrder ==
  ASSUME \A v, w \in Writers : v = w
  PROVE  Safety => []CommitsInOrder
<1>1. Init => CommitsInOrder
  BY DEF Init, CommitsInOrder
<1>2. TypeInv /\ CommitsInOrder /\ [Next]_vars => CommitsInOrder'
  BY OneWriterStep
<1> QED BY <1>1, <1>2, TypeInvariant, PTL DEF Safety

-----------------------------------------------------------------------------
(* The mirror's version.  It is ahead of the replica's when a cycle dies   *)
(* between the two writes; the next answer, for the same `since`, is not   *)
(* below it: either it is the same reset, or a page that reaches as far.   *)
MirrorVersion ==
  /\ Known(mirror.version)
  /\ pc \notin {"idle", "asked", "mirrored"} => mirror.version <= reply.head
MirrorAhead ==
  \/ mirror.version <= replica.version
  \/ replica.version = 0 /\ \A c \in log : c.ver > 1
  \/ Cardinality(Between(replica.version, mirror.version)) < PageSize
VersionAhead == pc \in Answer => mirror.version <= Top

AheadInv == MirrorVersion /\ MirrorAhead /\ VersionAhead

LEMMA AheadInit == Init => AheadInv
BY DEF Init, AheadInv, MirrorVersion, MirrorAhead, VersionAhead, Known, Answer, EmptyReplica

(* What is committed later is above the mirror's version too.              *)
LEMMA AheadKept ==
  ASSUME TypeInv, LogInv, CommitsInOrder, AheadInv, [Next]_vars, UNCHANGED <<mirror, replica>>
  PROVE  Known(mirror.version)' /\ MirrorAhead'
<1>0. /\ mirror.version \in Nat /\ replica.version \in Nat
      /\ (\A c \in log : c.ver \in Nat) /\ \A c \in log' : c.ver \in Nat
  BY TypeStep DEF TypeInv, TypeOK, Copy, Change
<1>1. Known(mirror.version) /\ Known(mirror.version)'
  BY KnownStays DEF AheadInv, MirrorVersion, Known
<1>2. log \subseteq log' /\ \A c \in log' : c \in log \/ mirror.version < c.ver
  BY <1>0, <1>1, LogGrows
<1>3. CASE mirror.version <= replica.version
  BY <1>1, <1>3 DEF MirrorAhead
<1>4. CASE replica.version = 0 /\ (\A c \in log : c.ver > 1) /\ ~(mirror.version <= replica.version)
  <2>1. PICK c \in log : c.ver = mirror.version
    BY <1>1, <1>4 DEF Known
  <2>2. \A d \in log' : d.ver > 1
    BY <1>0, <1>2, <1>4, <2>1
  <2> QED BY <1>1, <1>4, <2>2 DEF MirrorAhead
<1>5. CASE Cardinality(Between(replica.version, mirror.version)) < PageSize
  <2>1. Between(replica.version, mirror.version)' = Between(replica.version, mirror.version)
    BY <1>0, <1>2 DEF Between
  <2> QED BY <1>1, <1>5, <2>1 DEF MirrorAhead
<1> QED BY <1>3, <1>4, <1>5 DEF AheadInv, MirrorAhead

(* Applying an answer leaves the mirror ahead in one of those ways.        *)
LEMMA AheadApplied ==
  ASSUME TypeInv, LogInv, CommitsInOrder, CopyInv, pc \in Answer
  PROVE  \/ Top <= replica.version
         \/ replica.version = 0 /\ \A c \in log : c.ver > 1
         \/ Cardinality(Between(replica.version, Top)) < PageSize
<1>0. /\ replica.version \in Nat /\ reply.head \in Nat /\ reply.floor \in Nat
      /\ \A c \in log : c.ver \in Nat
  BY DEF TypeInv, TypeOK, Copy, Reply, Change
<1>1. CASE ~NeedsReset
  BY <1>1 DEF CopyInv, PageCovers
<1>2. CASE NeedsReset
  <2>1. Top = reply.head /\ replica.version <= reply.head /\ Known(replica.version)
    BY <1>2 DEF Top, ApplyDelta, CopyInv, HeadAhead, Answer, ReplicaFresh
  <2>2. CASE reply.head = 0
    BY <1>0, <2>1, <2>2
  <2>3. CASE \A d \in log : reply.floor <= d.ver
    <3>1. ~(replica.version > 0 /\ replica.version < reply.floor - 1)
      BY <1>0, <2>1, <2>3 DEF Known
    <3>2. replica.version = 0 /\ reply.floor > 1
      BY <1>0, <1>2, <2>1, <3>1 DEF NeedsReset
    <3> QED BY <1>0, <2>3, <3>2
  <2> QED BY <2>2, <2>3 DEF CopyInv, FloorTrue, Answer
<1> QED BY <1>1, <1>2

(* A page, and a reset, reach at least as far as the mirror is.            *)
LEMMA AheadAnswered ==
  ASSUME TypeInv, LogInv, CommitsInOrder, CopyInv, AheadInv, [Next]_vars,
         AnswerChanges \/ AnswerReset
  PROVE  VersionAhead'
<1>0. /\ replica.version \in Nat /\ mirror.version \in Nat /\ reply.head \in Nat /\ reply.floor \in Nat
      /\ (\A c \in log : c.ver \in Nat) /\ UNCHANGED mirror /\ pc' = "answered"
      /\ mirror.version <= reply.head
  BY DEF TypeInv, TypeOK, Copy, Reply, Change, AnswerChanges, AnswerReset, nodeVars, AheadInv, MirrorVersion
<1>1. CASE AnswerReset
  <2>1. NeedsReset' /\ reply'.head = reply.head
    BY <1>1, CopySnapshots DEF AnswerReset, TypeInv, TypeOK, Reply
  <2> QED BY <1>0, <2>1 DEF VersionAhead, Top, ApplyDelta
<1>2. CASE AnswerChanges
  <2> DEFINE top == IF ListPolicyChanges = {} THEN reply.head ELSE Newest(ListPolicyChanges).ver
  <2>1. pc = "blocked" /\ ~NeedsReset /\ Top' = top
    BY <1>2, CopyAnswered DEF AnswerChanges
  <2>2. /\ replica.version <= top /\ top \in Nat
        /\ \A c \in ListPolicyChanges : c.ver <= top
    BY <2>1, PageAnswered
  <2> HIDE DEF top
  <2>3. mirror.version <= top
    <3>1. CASE mirror.version <= replica.version
      BY <1>0, <2>2, <3>1
    <3>2. CASE replica.version = 0 /\ \A c \in log : c.ver > 1
      <4>1. reply.head # 0 => \E c \in log : c.ver = reply.floor
        BY <2>1 DEF CopyInv, FloorTrue
      <4>2. reply.head = 0
        BY <1>0, <2>1, <3>2, <4>1 DEF NeedsReset
      <4> QED BY <1>0, <2>2, <4>2
    <3>3. CASE mirror.version > replica.version /\ Cardinality(Between(replica.version, mirror.version)) < PageSize
      <4>1. PICK c \in log : c.ver = mirror.version
        BY <1>0, <3>3 DEF AheadInv, MirrorVersion, Known
      <4>2. {d \in {e \in log : e.ver > replica.version} : d.ver < c.ver} = Between(replica.version, mirror.version)
        BY <1>0, <4>1 DEF Between
      <4>3. c \in ListPolicyChanges
        BY <3>3, <4>1, <4>2 DEF ListPolicyChanges, Lowest
      <4> QED BY <2>2, <4>1, <4>3
    <3> QED BY <1>0, <3>1, <3>2, <3>3 DEF AheadInv, MirrorAhead
  <2> QED BY <1>0, <2>1, <2>3 DEF VersionAhead
<1> QED BY <1>1, <1>2

LEMMA AheadStep ==
  TypeInv /\ LogInv /\ CommitsInOrder /\ CopyInv /\ AheadInv /\ [Next]_vars => AheadInv'
<1> SUFFICES ASSUME TypeInv, LogInv, CommitsInOrder, CopyInv, AheadInv, [Next]_vars
             PROVE  AheadInv'
  OBVIOUS
<1> USE DEF nodeVars
<1>0. reply \in Reply /\ mirror.version \in Nat
  BY DEF TypeInv, TypeOK, Copy
<1>1. ASSUME UNCHANGED <<mirror, replica>>,
             pc' \notin {"idle", "asked", "mirrored"} => mirror.version <= reply'.head,
             VersionAhead'
      PROVE  AheadInv'
  BY <1>1, AheadKept DEF AheadInv, MirrorVersion
<1>2. ASSUME UNCHANGED <<reply, replica>>, pc \in Answer PROVE Top' = Top
  BY <1>2 DEF Top, ApplyDelta, NeedsReset, For, Newest
<1>3. ASSUME UNCHANGED <<pc, reply, mirror, replica>> PROVE AheadInv'
  BY <1>1, <1>2, <1>3 DEF AheadInv, MirrorVersion, VersionAhead
<1>4. ASSUME UNCHANGED <<mirror, replica>>, pc' \in {"idle", "asked"} PROVE AheadInv'
  BY <1>1, <1>4 DEF VersionAhead, Answer
<1>5. ASSUME UNCHANGED <<mirror, replica>>, reply'.head = reply.head,
             pc \notin {"idle", "asked", "mirrored"}, pc' \notin Answer
      PROVE  AheadInv'
  BY <1>1, <1>5 DEF AheadInv, MirrorVersion, VersionAhead
<1>6. CASE Central \/ UNCHANGED vars
  BY <1>3, <1>6 DEF Central, Write, Commit, Rollback, vars
<1>7. CASE StartPull \/ RefuseDelta \/ Interrupt \/ UpgradeNode
  BY <1>4, <1>7 DEF StartPull, RefuseDelta, Interrupt, UpgradeNode
<1>8. CASE UpgradeCentral
  BY <1>3, <1>4, <1>8 DEF UpgradeCentral
<1>9. CASE ReadVersion
  <2>1. mirror.version <= PolicyVersion
    BY <1>0, CurrentRows DEF AheadInv, MirrorVersion
  <2>2. reply'.head = PolicyVersion /\ pc' = "headed" /\ UNCHANGED <<mirror, replica>>
    BY <1>9 DEF ReadVersion, NoReply
  <2> QED BY <1>1, <2>1, <2>2 DEF VersionAhead, Answer
<1>10. CASE ReadFloor \/ ReadRevoked \/ ReadBlocked \/ ReadCapabilities \/ ReadPrincipals
  <2>1. /\ reply'.head = reply.head /\ UNCHANGED <<mirror, replica>>
        /\ pc \notin {"idle", "asked", "mirrored"} /\ pc' \notin Answer
    BY <1>0, <1>10 DEF ReadFloor, ReadRevoked, ReadBlocked, ReadCapabilities, ReadPrincipals, Reply, Answer
  <2> QED BY <1>5, <2>1
<1>11. CASE AnswerChanges \/ AnswerReset
  <2>1. /\ reply'.head = reply.head /\ UNCHANGED <<mirror, replica>>
        /\ pc \notin {"idle", "asked", "mirrored"}
    BY <1>0, <1>11 DEF AnswerChanges, AnswerReset, Reply
  <2>2. mirror.version <= reply'.head
    BY <2>1 DEF AheadInv, MirrorVersion
  <2> QED BY <1>1, <1>11, <2>1, <2>2, AheadAnswered
<1>12. CASE PersistDenyList
  <2>1. UNCHANGED <<reply, mirror, replica>> /\ pc = "answered" /\ pc' = "denied"
    BY <1>12 DEF PersistDenyList
  <2>2. VersionAhead'
    BY <1>2, <2>1 DEF AheadInv, VersionAhead, Answer
  <2> QED BY <1>1, <2>1, <2>2 DEF AheadInv, MirrorVersion
<1>13. CASE MaterialiseReplica
  <2>0. UNCHANGED <<reply, replica>> /\ UNCHANGED centralVars /\ pc = "denied" /\ pc' = "mirrored"
    BY <1>13 DEF MaterialiseReplica
  <2>1. CASE mirror' = mirror
    <3>1. VersionAhead'
      BY <1>2, <2>0, <2>1 DEF AheadInv, VersionAhead, Answer
    <3> QED BY <1>1, <2>0, <2>1, <3>1
  <2>2. CASE mirror' = ApplyPolicyReplica
    <3>1. mirror'.version = Top /\ Top' = Top /\ Top \in Nat /\ Known(Top)
      BY <1>2, <2>0, <2>2, AnswerFresh DEF ApplyPolicyReplica, Top, Answer
    <3>2. Known(mirror.version)'
      BY <2>0, <3>1 DEF Known, centralVars
    <3>3. MirrorVersion'
      BY <2>0, <3>2 DEF MirrorVersion
    <3>4. VersionAhead'
      BY <3>1 DEF VersionAhead
    <3>5. \/ mirror'.version <= replica'.version
          \/ replica'.version = 0 /\ \A c \in log' : c.ver > 1
          \/ Cardinality(Between(replica.version, mirror'.version)) < PageSize
      BY <2>0, <3>1, AheadApplied DEF Answer, centralVars
    <3>6. Between(replica.version, mirror.version)' = Between(replica.version, mirror'.version)
      BY <2>0 DEF Between, centralVars
    <3>7. MirrorAhead'
      BY <3>5, <3>6 DEF MirrorAhead
    <3> QED BY <3>3, <3>4, <3>7 DEF AheadInv
  <2> QED BY <1>13, <2>1, <2>2 DEF MaterialiseReplica
<1>14. CASE SaveReplica
  <2>1. /\ replica'.version = Top /\ UNCHANGED mirror /\ UNCHANGED centralVars
        /\ pc = "mirrored" /\ pc' \in {"idle", "asked"}
    BY <1>14 DEF SaveReplica, Top
  <2>2. mirror.version <= Top
    BY <2>1 DEF AheadInv, VersionAhead, Answer
  <2>3. Known(mirror.version)'
    BY <2>1 DEF AheadInv, MirrorVersion, Known, centralVars
  <2> QED BY <2>1, <2>2, <2>3 DEF AheadInv, MirrorVersion, MirrorAhead, VersionAhead, Answer
<1> QED
  BY <1>6, <1>7, <1>8, <1>9, <1>10, <1>11, <1>12, <1>13, <1>14 DEF Next, Serve, Node, Faults

(* What the node knows never goes back to an older version, as long as     *)
(* versions are committed in their order: an answer that is applied, the   *)
(* first time or again after a crash, is not below what is there.          *)
THEOREM VersionsNeverRewind == Safety /\ []CommitsInOrder => NoRewind
<1>1. TypeInv /\ LogInv /\ CommitsInOrder /\ CopyInv /\ AheadInv /\ [Next]_vars
        => [mirror.version' >= mirror.version /\ replica.version' >= replica.version]_<<mirror, replica>>
  <2> SUFFICES ASSUME TypeInv, LogInv, CommitsInOrder, CopyInv, AheadInv, [Next]_vars
               PROVE  mirror.version' >= mirror.version /\ replica.version' >= replica.version
    OBVIOUS
  <2>0. mirror.version \in Nat /\ replica.version \in Nat
    BY DEF TypeInv, TypeOK, Copy
  <2>1. \/ UNCHANGED <<mirror, replica>>
        \/ pc = "denied" /\ replica' = replica /\ mirror' \in {mirror, ApplyPolicyReplica}
        \/ pc = "mirrored" /\ mirror' = mirror /\ replica' = ApplyDelta
    BY DEF Next, Central, Serve, Node, Faults, vars, nodeVars, Write, Commit, Rollback,
       ReadVersion, ReadFloor, ReadRevoked, ReadBlocked, AnswerChanges, ReadCapabilities,
       ReadPrincipals, AnswerReset, StartPull, PersistDenyList, RefuseDelta, MaterialiseReplica,
       SaveReplica, Interrupt, UpgradeCentral, UpgradeNode
  <2>2. pc \in Answer => Top \in Nat /\ replica.version <= Top /\ mirror.version <= Top
    BY AnswerFresh DEF AheadInv, VersionAhead
  <2>3. ApplyDelta.version = Top /\ ApplyPolicyReplica.version = Top
    BY DEF Top, ApplyPolicyReplica
  <2> QED BY <2>0, <2>1, <2>2, <2>3 DEF Answer
<1> QED BY <1>1, AheadInit, AheadStep, CopyInvariant, PTL DEF Safety, NoRewind

-----------------------------------------------------------------------------
(* The mirror's rows.  Applying a page deletes a live grant that another   *)
(* one of the same pair displaces; that is never more than what central    *)
(* did: the displaced grant was not there yet, or its revocation is in     *)
(* the same page.                                                          *)
MirrorFresh ==
  /\ Fresh(mirror.rows, replica.version)
  /\ pc = "mirrored" => Fresh(mirror.rows, Top)

LEMMA DisplacedAbsent ==
  ASSUME TypeInv, LogInv, PairInv, CommitsInOrder, CopyInv, pc \in Answer, ~NeedsReset,
         Fresh(mirror.rows, replica.version), NEW g \in Grants, Upserted(g) # IF For(g) = {} THEN mirror.rows[g] ELSE Newest(For(g)).row
  PROVE  Upserted(g) = "absent" /\ RowAt(g, Top) = "absent"
<1>0. /\ replica.version \in Nat /\ Top \in Nat /\ (\A c \in Changes : c.ver \in Nat)
      /\ log \subseteq Changes /\ reply.page \subseteq log /\ g \in Entities
  BY ApplyType, ChangesType DEF TypeInv, TypeOK, Copy, Top, Change, Entities
<1>1. /\ \A c \in reply.page : replica.version < c.ver /\ c.ver <= Top
      /\ \A c \in log : replica.version < c.ver /\ c.ver <= Top => c \in reply.page
  BY DEF CopyInv, PageCovers
<1> DEFINE since == IF For(g) = {} THEN 0 ELSE Newest(For(g)).ver
<1>2. /\ Upserted(g) = "absent" /\ Displaced(g, since)
      /\ (IF For(g) = {} THEN mirror.rows[g] ELSE Newest(For(g)).row) = "on"
  BY DEF Upserted
<1>3. PICK c \in reply.page : /\ c.key \in Grants \ {g} /\ c.row = "on"
                              /\ c.ver > since /\ SamePair(c.key, g)
  BY <1>2 DEF Displaced
<1>4. ASSUME NEW x \in log, x.key = g, x.row = "on", x.ver < c.ver
      PROVE  \E e \in log : e.key = g /\ e.row = "off" /\ x.ver < e.ver /\ e.ver < c.ver
  <2>1. SamePair(x.key, c.key) /\ c \in Changes /\ x \in Changes
    BY <1>0, <1>3, <1>4 DEF SamePair
  <2>2. PICK e \in log : e.key = g /\ e.row = "off" /\ e.ver < c.ver
    BY <1>3, <1>4, <2>1 DEF PairInv, OnceLive
  <2>3. x.ver < e.ver
    BY <1>0, <1>4, <2>1, <2>2 DEF PairInv, GrantLife
  <2> QED BY <2>2, <2>3
<1>5. CASE For(g) # {}
  <2> DEFINE n == Newest(For(g))
  <2>1. n \in For(g) /\ \A d \in For(g) : d.ver <= n.ver
    <3>1. For(g) \in SUBSET Change /\ nextVer \in Nat /\ \A d \in For(g) : d.ver < nextVer
      BY DEF TypeInv, TypeOK, Bounded, For
    <3> QED BY <1>5, <3>1, NewestOf
  <2>2. since = n.ver /\ n.row = "on"
    BY <1>2, <1>5
  <2> HIDE DEF n, since
  <2>3. n \in log /\ n.key = g /\ n.ver < c.ver
    BY <1>0, <1>3, <2>1, <2>2 DEF For
  <2>4. PICK e \in log : e.key = g /\ e.row = "off" /\ n.ver < e.ver /\ e.ver < c.ver
    BY <1>4, <2>2, <2>3
  <2>5. replica.version < e.ver /\ e.ver <= Top
    BY <1>0, <1>1, <1>3, <2>1, <2>4 DEF For
  <2>6. e \in For(g)
    BY <1>1, <2>4, <2>5 DEF For
  <2> QED BY <1>0, <2>1, <2>3, <2>4, <2>6
<1>6. CASE For(g) = {}
  <2>1. mirror.rows[g] = "on"
    BY <1>2, <1>6
  <2>2. PICK u \in Nat : replica.version <= u /\ Settled(u) /\ RowAt(g, u) = "on"
    BY <1>0, <2>1 DEF Fresh, AtLeast
  <2>3. PICK x \in log : x.key = g /\ x.ver <= u /\ x.row = "on"
                         /\ \A d \in log : d.key = g /\ d.ver <= u => d.ver <= x.ver
    BY <2>2, RowAtCases DEF LogInv
  <2>4. x.ver # c.ver /\ c \in log /\ c \in Changes /\ x \in Changes
    BY <1>0, <1>3, <2>3 DEF LogInv, Distinct
  <2>5. ASSUME NEW e \in log, e.key = g, replica.version < e.ver, e.ver <= Top PROVE FALSE
    BY <1>1, <1>6, <2>5 DEF For
  <2>6. CASE x.ver < c.ver
    <3>1. PICK e \in log : e.key = g /\ e.row = "off" /\ x.ver < e.ver /\ e.ver < c.ver
      BY <1>4, <2>3, <2>6
    <3>2. u < e.ver
      BY <1>0, <2>3, <3>1
    <3>3. replica.version < e.ver /\ e.ver <= Top
      BY <1>0, <1>1, <2>2, <3>1, <3>2
    <3> QED BY <2>5, <3>1, <3>3
  <2>7. CASE c.ver < x.ver
    <3>1. ~(x.ver <= Top)
      BY <1>0, <1>1, <2>3, <2>4, <2>5, <2>7
    <3>2. ASSUME NEW d \in log, d.key = g, d.ver <= Top PROVE FALSE
      <4>1. d.row \in {"on", "off"} /\ d \in Changes
        BY <1>0, <3>2 DEF PairInv, OnOff
      <4>2. x.ver <= d.ver
        BY <1>0, <2>3, <2>4, <3>2, <4>1 DEF PairInv, GrantLife
      <4> QED BY <1>0, <2>4, <3>1, <3>2, <4>1, <4>2
    <3> QED BY <1>2, <3>2, RowAtNone
  <2> QED BY <1>0, <2>4, <2>6, <2>7
<1> QED BY <1>5, <1>6

(* An answer that is applied to the mirror gives rows that are not behind  *)
(* its version.                                                            *)
LEMMA MirrorApplied ==
  ASSUME TypeInv, LogInv, PairInv, CommitsInOrder, CopyInv, pc \in Answer,
         Fresh(mirror.rows, replica.version)
  PROVE  Fresh(ApplyPolicyReplica.rows, Top)
<1>1. CASE NeedsReset
  BY <1>1, AnswerFresh DEF ApplyPolicyReplica
<1>2. CASE ~NeedsReset
  <2> SUFFICES ASSUME NEW k \in Entities PROVE AtLeast(ApplyPolicyReplica.rows[k], k, Top)
    BY DEF Fresh
  <2> DEFINE own == IF For(k) = {} THEN mirror.rows[k] ELSE Newest(For(k)).row
  <2>1. ApplyPolicyReplica.rows[k] = Upserted(k)
    BY <1>2 DEF ApplyPolicyReplica
  <2>2. CASE Upserted(k) = own
    <3>1. AtLeast(mirror.rows[k], k, replica.version)
      BY DEF Fresh
    <3>2. AtLeast(own, k, Top)
      BY <1>2, <3>1, Paged
    <3> HIDE DEF own
    <3> QED BY <2>1, <2>2, <3>2
  <2>3. CASE Upserted(k) # own
    <3>1. k \in Grants
      BY <2>3 DEF Upserted, Displaced
    <3>2. Upserted(k) = "absent" /\ RowAt(k, Top) = "absent"
      BY <1>2, <2>3, <3>1, DisplacedAbsent
    <3>3. Top \in Nat /\ Settled(Top)
      BY AnswerFresh, KnownSettled
    <3> HIDE DEF own
    <3> QED BY <2>1, <3>2, <3>3 DEF AtLeast
  <2> QED BY <2>2, <2>3
<1> QED BY <1>1, <1>2

(* Rows that are not behind a version are not behind a lower one.          *)
LEMMA FreshBelow ==
  ASSUME NEW copy, NEW u \in Nat, NEW v \in Nat, v <= u, Fresh(copy, u)
  PROVE  Fresh(copy, v)
<1> SUFFICES ASSUME NEW k \in Entities PROVE AtLeast(copy[k], k, v)
  BY DEF Fresh
<1>1. PICK n \in Nat : u <= n /\ Settled(n) /\ copy[k] = RowAt(k, n)
  BY DEF Fresh, AtLeast
<1> QED BY <1>1 DEF AtLeast

(* What is not behind stays so while nobody writes it.                     *)
LEMMA FreshStays ==
  ASSUME TypeInv, [Next]_vars, NEW copy, NEW v, Fresh(copy, v)
  PROVE  \A k \in Entities : \E u \in Nat : v <= u /\ Settled(u)' /\ copy[k] = RowAt(k, u)'
<1> SUFFICES ASSUME NEW k \in Entities
             PROVE  \E u \in Nat : v <= u /\ Settled(u)' /\ copy[k] = RowAt(k, u)'
  OBVIOUS
<1>1. PICK u \in Nat : v <= u /\ Settled(u) /\ copy[k] = RowAt(k, u)
  BY DEF Fresh, AtLeast
<1>2. Settled(u)' /\ RowAt(k, u)' = RowAt(k, u)
  BY <1>1, SettledStays
<1> QED BY <1>1, <1>2

LEMMA MirrorStep ==
  ASSUME ~MirrorMayFail, TypeInv, LogInv, PairInv, CommitsInOrder, CopyInv, MirrorFresh, [Next]_vars
  PROVE  MirrorFresh'
<1> USE DEF nodeVars
<1>0. replica.version \in Nat
  BY DEF TypeInv, TypeOK, Copy
<1>1. ASSUME UNCHANGED <<mirror, replica>> PROVE Fresh(mirror.rows, replica.version)'
  BY <1>1, FreshStays DEF MirrorFresh, Fresh, AtLeast
<1>2. CASE UNCHANGED <<mirror, replica>> /\ pc' # "mirrored"
  BY <1>1, <1>2 DEF MirrorFresh
<1>3. CASE UNCHANGED <<pc, reply, mirror, replica>>
  <2>1. CASE pc' = "mirrored"
    <3>1. Top' = Top
      BY <1>3 DEF Top, ApplyDelta, NeedsReset, For, Newest
    <3>2. Fresh(mirror.rows, Top)
      BY <1>3, <2>1 DEF MirrorFresh
    <3>3. Fresh(mirror.rows, Top)'
      BY <1>3, <3>1, <3>2, FreshStays DEF Fresh, AtLeast
    <3> QED BY <1>1, <1>3, <3>3 DEF MirrorFresh
  <2> QED BY <1>2, <1>3, <2>1
<1>4. CASE MaterialiseReplica
  <2>1. /\ UNCHANGED <<reply, replica>> /\ pc = "denied" /\ mirror' = ApplyPolicyReplica
        /\ Top' = Top
    BY <1>4 DEF MaterialiseReplica, Top, ApplyDelta, NeedsReset, For, Newest
  <2>2. Fresh(ApplyPolicyReplica.rows, Top) /\ Top \in Nat /\ replica.version <= Top
    BY <2>1, MirrorApplied, AnswerFresh DEF MirrorFresh, Answer
  <2>3. Fresh(ApplyPolicyReplica.rows, replica.version)
    BY <1>0, <2>2, FreshBelow
  <2>4. Fresh(mirror.rows, Top)'
    BY <2>1, <2>2, FreshStays DEF Fresh, AtLeast
  <2>5. Fresh(mirror.rows, replica.version)'
    BY <2>1, <2>3, FreshStays DEF Fresh, AtLeast
  <2> QED BY <2>4, <2>5 DEF MirrorFresh
<1>5. CASE SaveReplica
  <2>1. /\ replica'.version = Top /\ pc = "mirrored" /\ pc' # "mirrored" /\ UNCHANGED mirror
    BY <1>5 DEF SaveReplica, Top
  <2>2. Fresh(mirror.rows, Top)
    BY <2>1 DEF MirrorFresh
  <2>3. Fresh(mirror.rows, replica.version)'
    BY <2>1, <2>2, FreshStays DEF Fresh, AtLeast
  <2> QED BY <2>1, <2>3 DEF MirrorFresh
<1>6. \/ UNCHANGED <<mirror, replica>> /\ pc' # "mirrored"
      \/ UNCHANGED <<pc, reply, mirror, replica>>
      \/ MaterialiseReplica \/ SaveReplica
  BY DEF Next, Central, Serve, Node, Faults, vars, Write, Commit, Rollback, ReadVersion,
     ReadFloor, ReadRevoked, ReadBlocked, AnswerChanges, ReadCapabilities, ReadPrincipals,
     AnswerReset, StartPull, PersistDenyList, RefuseDelta, Interrupt, UpgradeCentral, UpgradeNode
<1> QED BY <1>2, <1>3, <1>4, <1>5, <1>6

(* ... and so does the mirror the server reads, when its writes do not     *)
(* fail, through every crash between the two copies and every re-send.     *)
THEOREM MirrorKeepsUp ==
  ASSUME ~MirrorMayFail
  PROVE  Safety /\ []CommitsInOrder => []MirrorCoversReplica
<1>1. Init => MirrorFresh
  <2> SUFFICES ASSUME Init PROVE MirrorFresh
    OBVIOUS
  <2>1. mirror = replica /\ pc = "idle"
    BY DEF Init
  <2> QED BY <2>1, CopyInit DEF MirrorFresh, CopyInv, ReplicaFresh
<1>2. TypeInv /\ LogInv /\ PairInv /\ CommitsInOrder /\ CopyInv /\ MirrorFresh /\ [Next]_vars
        => MirrorFresh'
  BY MirrorStep
<1>3. TypeInv /\ MirrorFresh => MirrorCoversReplica
  BY FreshNotBehind DEF MirrorFresh, MirrorCoversReplica, TypeInv, TypeOK, Copy
<1> QED BY <1>1, <1>2, <1>3, CopyInvariant, PairInvariant, PTL DEF Safety

(* So with one writer at a time both copies keep up and neither goes back. *)
COROLLARY OneWriterKeepsUp ==
  ASSUME ~MirrorMayFail, \A v, w \in Writers : v = w
  PROVE  Safety => []ReplicaNotBehind /\ []MirrorCoversReplica /\ NoRewind
<1>1. Safety => []CommitsInOrder
  BY OneWriterCommitsInOrder
<1> QED BY <1>1, ReplicaKeepsUp, MirrorKeepsUp, VersionsNeverRewind, PTL
=============================================================================
