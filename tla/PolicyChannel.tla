---------------------------- MODULE PolicyChannel ----------------------------
(***************************************************************************)
(* How policy gets from central's Postgres tables to one node.             *)
(*                                                                         *)
(* Central (server/central/policyStore.js, policyRoutes.js) owns three     *)
(* tables -- capabilities, principals, grants -- and an append-only change *)
(* log with a version number per change.  A node                           *)
(* (server/policy/policyClient.js, replica.js, server/store.js) polls      *)
(* GET /api/policy?since=v and keeps three files of the answer: the        *)
(* deny-list the hook reads, the mirror tables in SQLite the server reads, *)
(* and the JSON replica whose version is the next poll's `since`.          *)
(*                                                                         *)
(* The model keeps every point where another actor can get in between:     *)
(* central's handler runs one SELECT per step with no transaction around   *)
(* them, a writer's transaction takes its version number before it         *)
(* commits, and the node may lose the answer or crash between any two of   *)
(* its writes.  Rows are abstracted to what enforcement reads of them.     *)
(* Nodes share nothing, so one node is enough.                             *)
(***************************************************************************)
EXTENDS Integers, FiniteSets

CONSTANTS
  Grants, Principals, Capabilities,  \* ids of the rows central may create
  PrincipalOf, CapabilityOf,         \* what each grant grants, and to whom
  Writers,                           \* connections with a write transaction
  PageSize,                          \* MAX_CHANGES, changes in one answer
  MaxVersion,                        \* bound: versions handed out
  InitialLog, InitialVersion,        \* what was seeded, and the next version
  MirrorMayFail,                     \* can a write of the SQLite mirror fail?
  NotesRecorded,                     \* can central record what a node pulled?
  CanSkew                            \* can central be upgraded before the node?

Entities == Grants \cup Principals \cup Capabilities

(* A row is absent, or on (grant live, principal active, capability        *)
(* auto-granted), or off (revoked, blocked, not auto-granted).             *)
Rows == {"absent", "on", "off"}
Change == [ver : Nat, key : Entities, row : Rows]

ASSUME EntityAssumption ==
  /\ Grants \cap Principals = {}
  /\ Grants \cap Capabilities = {}
  /\ Principals \cap Capabilities = {}
  /\ PrincipalOf \in [Grants -> Principals]
  /\ CapabilityOf \in [Grants -> Capabilities]

ASSUME BoundAssumption ==
  /\ PageSize \in Nat \ {0}
  /\ MaxVersion \in Nat
  /\ MirrorMayFail \in BOOLEAN
  /\ NotesRecorded \in BOOLEAN
  /\ CanSkew \in BOOLEAN

(* An installation is seeded with principals and capabilities before its   *)
(* first grant; versions are positive and some may have been lost already. *)
ASSUME SeedAssumption ==
  /\ InitialVersion \in Nat \ {0}
  /\ InitialLog \subseteq [ver : 1 .. InitialVersion - 1, key : Principals \cup Capabilities, row : Rows]
  /\ \A c, d \in InitialLog : c.key = d.key \/ c.ver = d.ver => c = d

VARIABLES
  rows,       \* central: the committed tables
  log,        \* central: the committed policy_changes
  nextVer,    \* central: the BIGSERIAL sequence
  tx,         \* central: each writer's uncommitted changes
  fleetView,  \* central: node_policy_state.replicaVersion of this node
  skewed,     \* central speaks a schemaVersion the node does not know
  pc,         \* the pull cycle: what it does next
  reply,      \* the answer central has assembled so far
  deny,       \* node disk: ids on the deny-list the hook reads
  mirror,     \* node disk: SQLite policy tables and their version
  replica     \* node disk: the JSON replica

centralVars == <<rows, log, nextVer, tx>>
nodeVars    == <<deny, mirror, replica>>
vars == <<rows, log, nextVer, tx, fleetView, skewed, pc, reply, deny, mirror, replica>>

Nothing == [k \in Entities |-> "absent"]
Copy    == [version : Nat, rows : [Entities -> Rows]]
EmptyReplica == [version |-> 0, rows |-> Nothing]

(* Central assembles the answer while the pull is in a serving state; the  *)
(* node works on it afterwards.                                            *)
Serving == {"asked", "headed", "floored", "revoked", "blocked", "capabilities", "principals"}
PC == Serving \cup {"idle", "answered", "denied", "mirrored"}

Reply == [head : Nat, floor : Nat, skew : BOOLEAN, deny : SUBSET Entities,
          page : SUBSET Change, snapshot : [Entities -> Rows], complete : BOOLEAN]
NoReply == [head |-> 0, floor |-> 0, skew |-> FALSE, deny |-> {},
            page |-> {}, snapshot |-> Nothing, complete |-> TRUE]

-----------------------------------------------------------------------------
(* Central's writers *)

Open == UNION {tx[w] : w \in Writers}
(* Mutant: an update that takes no lock on the row it changes.             *)
UnlockedUpdates(k) == k \in Grants /\ \E c \in Open : c.key = k

Locked(k) == \E c \in Open : c.key = k
SamePair(g, h) == PrincipalOf[g] = PrincipalOf[h] /\ CapabilityOf[g] = CapabilityOf[h]

(* Grants are created live, once per pair while one is live, and revoked   *)
(* once; the UPDATE and the partial unique index take the row's lock, and  *)
(* the principal and capability must exist.                                *)
MayWriteGrant(g, r) ==
  \/ /\ r = "on" /\ rows[g] = "absent"
     /\ rows[PrincipalOf[g]] # "absent" /\ rows[CapabilityOf[g]] # "absent"
     /\ \A h \in Grants \ {g} : SamePair(g, h) => rows[h] # "on" /\ ~Locked(h)
  \/ r = "off" /\ rows[g] = "on"

MayWrite(k, r) == k \in Grants => MayWriteGrant(k, r)

(* A mutator writes a row and, in the same transaction, its change with    *)
(* the next version.  Only upsertPrincipalIdentity writes several rows,    *)
(* all of them principals.                                                 *)
Write(w, k, r) ==
  /\ nextVer <= MaxVersion
  /\ ~Locked(k) /\ MayWrite(k, r)
  /\ tx[w] # {} => k \in Principals /\ \A c \in tx[w] : c.key \in Principals
  /\ tx' = [tx EXCEPT ![w] = @ \cup {[ver |-> nextVer, key |-> k, row |-> r]}]
  /\ nextVer' = nextVer + 1
  /\ UNCHANGED <<rows, log, fleetView, skewed, pc, reply, nodeVars>>

Written(changes, old) ==
  [k \in Entities |-> IF \E c \in changes : c.key = k
                      THEN (CHOOSE c \in changes : c.key = k).row ELSE old[k]]

(* Mutant: a save that replaces the tables by the rows it was given.       *)
CommitWholesale(w) ==
  /\ tx[w] # {}
  /\ log' = log \cup tx[w]
  /\ rows' = [k \in {c.key : c \in tx[w]} |-> (CHOOSE c \in tx[w] : c.key = k).row]
  /\ tx' = [tx EXCEPT ![w] = {}]
  /\ UNCHANGED <<nextVer, fleetView, skewed, pc, reply, nodeVars>>

Commit(w) ==
  /\ tx[w] # {}
  /\ log' = log \cup tx[w]
  /\ rows' = Written(tx[w], rows)
  /\ tx' = [tx EXCEPT ![w] = {}]
  /\ UNCHANGED <<nextVer, fleetView, skewed, pc, reply, nodeVars>>

(* A rollback keeps the sequence's advance, so its versions never exist.   *)
Rollback(w) ==
  /\ tx[w] # {}
  /\ tx' = [tx EXCEPT ![w] = {}]
  /\ UNCHANGED <<rows, log, nextVer, fleetView, skewed, pc, reply, nodeVars>>

-----------------------------------------------------------------------------
(* GET /api/policy?since=replica.version, one SELECT per step *)

Versions == {c.ver : c \in log}
(* Mutant: the version counted instead of read.                            *)
PolicyVersionCounted == Cardinality(log)

PolicyVersion == IF log = {} THEN 0 ELSE CHOOSE v \in Versions : \A u \in Versions : u <= v
PolicyChangeFloor == IF log = {} THEN 0 ELSE CHOOSE v \in Versions : \A u \in Versions : v <= u

Off(S) == {k \in S : rows[k] = "off"}

(* The poll timer, an SSE poke, or a write's pullNow; one cycle at a time. *)
StartPull ==
  /\ pc = "idle"
  /\ pc' = "asked"
  /\ UNCHANGED <<centralVars, fleetView, skewed, reply, nodeVars>>

ReadVersion ==
  /\ pc = "asked" /\ pc' = "headed"
  /\ reply' = [NoReply EXCEPT !.head = PolicyVersion, !.skew = skewed]
  /\ UNCHANGED <<centralVars, fleetView, skewed, nodeVars>>

ReadFloor ==
  /\ pc = "headed" /\ pc' = "floored"
  /\ reply' = [reply EXCEPT !.floor = PolicyChangeFloor]
  /\ UNCHANGED <<centralVars, fleetView, skewed, nodeVars>>

(* Mutant: every grant that is not live, the ones not yet created too.     *)
ReadNotLive ==
  /\ pc = "floored" /\ pc' = "revoked"
  /\ reply' = [reply EXCEPT !.deny = {g \in Grants : rows[g] # "on"}]
  /\ UNCHANGED <<centralVars, fleetView, skewed, nodeVars>>

ReadRevoked ==
  /\ pc = "floored" /\ pc' = "revoked"
  /\ reply' = [reply EXCEPT !.deny = Off(Grants)]
  /\ UNCHANGED <<centralVars, fleetView, skewed, nodeVars>>

ReadBlocked ==
  /\ pc = "revoked" /\ pc' = "blocked"
  /\ reply' = [reply EXCEPT !.deny = @ \cup Off(Principals)]
  /\ UNCHANGED <<centralVars, fleetView, skewed, nodeVars>>

NeedsReset ==
  LET asked == replica.version
  IN  \/ asked > reply.head
      \/ asked > 0 /\ asked < reply.floor - 1
      \/ asked = 0 /\ reply.head > 0 /\ reply.floor > 1

Lowest(S, n) == {c \in S : Cardinality({d \in S : d.ver < c.ver}) < n}

(* Mutant: `since + 1`.                                                    *)
ListFromNext == Lowest({c \in log : c.ver > replica.version + 1}, PageSize)

ListPolicyChanges == Lowest({c \in log : c.ver > replica.version}, PageSize)

(* What noteNodePull writes, after the answer is assembled and without     *)
(* waiting for the node: the version central served, or nothing when the   *)
(* write fails.                                                            *)
NoteNodePull ==
  \/ NotesRecorded /\ fleetView' = IF reply.head > fleetView THEN reply.head ELSE fleetView
  \/ UNCHANGED fleetView

AnswerChanges ==
  /\ pc = "blocked" /\ ~NeedsReset /\ pc' = "answered"
  /\ reply' = [reply EXCEPT !.page = ListPolicyChanges,
                            !.complete = Cardinality(ListPolicyChanges) < PageSize]
  /\ NoteNodePull
  /\ UNCHANGED <<centralVars, skewed, nodeVars>>

(* The reset snapshot is three SELECTs as well: each adds its table.       *)
Snapshotted(S) == [k \in Entities |-> IF k \in S THEN rows[k] ELSE reply.snapshot[k]]

ReadCapabilities ==
  /\ pc = "blocked" /\ NeedsReset /\ pc' = "capabilities"
  /\ reply' = [reply EXCEPT !.snapshot = Snapshotted(Capabilities)]
  /\ UNCHANGED <<centralVars, fleetView, skewed, nodeVars>>

ReadPrincipals ==
  /\ pc = "capabilities" /\ pc' = "principals"
  /\ reply' = [reply EXCEPT !.snapshot = Snapshotted(Principals)]
  /\ UNCHANGED <<centralVars, fleetView, skewed, nodeVars>>

AnswerReset ==
  /\ pc = "principals" /\ pc' = "answered"
  /\ reply' = [reply EXCEPT !.snapshot = Snapshotted(Grants)]
  /\ NoteNodePull
  /\ UNCHANGED <<centralVars, skewed, nodeVars>>

-----------------------------------------------------------------------------
(* pullOnce, working on an answer *)

(* Mutant: a deny-list skipped together with a delta that is refused.      *)
PersistUnlessSkewed ==
  /\ pc = "answered" /\ pc' = "denied"
  /\ deny' = IF reply.skew THEN deny ELSE reply.deny
  /\ UNCHANGED <<centralVars, fleetView, skewed, reply, mirror, replica>>

(* First and unconditional: the deny-list, whatever becomes of the rest.   *)
PersistDenyList ==
  /\ pc = "answered" /\ pc' = "denied"
  /\ deny' = reply.deny
  /\ UNCHANGED <<centralVars, fleetView, skewed, reply, mirror, replica>>

(* applyDelta refuses a schema it does not know; the cycle ends there.     *)
RefuseDelta ==
  /\ pc = "denied" /\ reply.skew
  /\ pc' = "idle" /\ reply' = NoReply
  /\ UNCHANGED <<centralVars, fleetView, skewed, nodeVars>>

Newest(S) == CHOOSE c \in S : \A d \in S : d.ver <= c.ver
For(k) == {c \in reply.page : c.key = k}

(* Mutant: the head taken as the version of a page that was cut short.     *)
ApplyDeltaAtHead ==
  IF NeedsReset
  THEN [version |-> reply.head, rows |-> reply.snapshot]
  ELSE [version |-> reply.head,
        rows |-> [k \in Entities |-> IF For(k) = {} THEN replica.rows[k] ELSE Newest(For(k)).row]]

(* applyDelta: the replica after this answer.  The version is the last     *)
(* change applied, or the head when there was none.                        *)
ApplyDelta ==
  IF NeedsReset
  THEN [version |-> reply.head, rows |-> reply.snapshot]
  ELSE [version |-> IF reply.page = {} THEN reply.head ELSE Newest(reply.page).ver,
        rows |-> [k \in Entities |-> IF For(k) = {} THEN replica.rows[k] ELSE Newest(For(k)).row]]

(* applyPolicyReplica: the mirror tables after this answer, in one SQLite  *)
(* transaction.  A live grant displaces (deletes) any other live grant of  *)
(* the same principal and capability that it finds there.                  *)
Displaced(k, since) ==
  /\ k \in Grants
  /\ \E c \in reply.page : /\ c.key \in Grants \ {k} /\ c.row = "on"
                           /\ c.ver > since /\ SamePair(c.key, k)

Upserted(k) ==
  LET own   == IF For(k) = {} THEN mirror.rows[k] ELSE Newest(For(k)).row
      since == IF For(k) = {} THEN 0 ELSE Newest(For(k)).ver
  IN  IF own = "on" /\ Displaced(k, since) THEN "absent" ELSE own

ApplyPolicyReplica ==
  [version |-> ApplyDelta.version,
   rows    |-> IF NeedsReset THEN reply.snapshot ELSE [k \in Entities |-> Upserted(k)]]

(* materialiseReplica swallows a failed mirror write: the cycle goes on.   *)
MaterialiseReplica ==
  /\ pc = "denied" /\ ~reply.skew /\ pc' = "mirrored"
  /\ \/ mirror' = ApplyPolicyReplica
     \/ MirrorMayFail /\ UNCHANGED mirror
  /\ UNCHANGED <<centralVars, fleetView, skewed, reply, deny, replica>>

(* Mutant: the replica saved without waiting for the mirror.               *)
SaveReplicaEarly ==
  /\ pc \in {"denied", "mirrored"} /\ ~reply.skew
  /\ replica' = ApplyDelta
  /\ pc' = IF reply.complete THEN "idle" ELSE "asked"
  /\ reply' = NoReply
  /\ UNCHANGED <<centralVars, fleetView, skewed, deny, mirror>>

(* The replica is saved last; an incomplete page asks for the next one.    *)
SaveReplica ==
  /\ pc = "mirrored"
  /\ replica' = ApplyDelta
  /\ pc' = IF reply.complete THEN "idle" ELSE "asked"
  /\ reply' = NoReply
  /\ UNCHANGED <<centralVars, fleetView, skewed, deny, mirror>>

(* The request fails, the answer is lost, or the node's process dies: what *)
(* is on disk stays, the cycle is gone.                                    *)
Interrupt ==
  /\ pc # "idle"
  /\ pc' = "idle" /\ reply' = NoReply
  /\ UNCHANGED <<centralVars, fleetView, skewed, nodeVars>>

(* Upgrades restart the upgraded process: central's loses its open         *)
(* transactions and the request it is serving, the node's loses its cycle. *)
UpgradeCentral ==
  /\ CanSkew /\ ~skewed
  /\ skewed' = TRUE
  /\ tx' = [w \in Writers |-> {}]
  /\ IF pc \in Serving THEN pc' = "idle" /\ reply' = NoReply ELSE UNCHANGED <<pc, reply>>
  /\ UNCHANGED <<rows, log, nextVer, fleetView, nodeVars>>

UpgradeNode ==
  /\ skewed
  /\ skewed' = FALSE
  /\ pc' = "idle" /\ reply' = NoReply
  /\ UNCHANGED <<centralVars, fleetView, nodeVars>>

-----------------------------------------------------------------------------
Init ==
  /\ rows = Written(InitialLog, Nothing) /\ log = InitialLog
  /\ nextVer = InitialVersion /\ tx = [w \in Writers |-> {}]
  /\ fleetView = 0 /\ skewed = FALSE
  /\ pc = "idle" /\ reply = NoReply
  /\ deny = {} /\ mirror = EmptyReplica /\ replica = EmptyReplica

Central == \E w \in Writers : \/ Commit(w) \/ Rollback(w)
                              \/ \E k \in Entities, r \in {"on", "off"} : Write(w, k, r)
Serve == \/ ReadVersion \/ ReadFloor \/ ReadRevoked \/ ReadBlocked \/ AnswerChanges
         \/ ReadCapabilities \/ ReadPrincipals \/ AnswerReset
Node == \/ StartPull \/ PersistDenyList \/ RefuseDelta \/ MaterialiseReplica \/ SaveReplica
Faults == Interrupt \/ UpgradeCentral \/ UpgradeNode

Next == Central \/ Serve \/ Node \/ Faults

(* A transaction ends, the poll timer keeps firing, and both processes do  *)
(* their next step.  Faults stop at some time nobody knows: requests get   *)
(* answered and nothing restarts, but a skew that is there may stay.       *)
Fairness ==
  /\ \A w \in Writers : WF_vars(Commit(w) \/ Rollback(w))
  /\ WF_vars(Serve \/ Node)
  /\ <>[][Central \/ Serve \/ Node]_vars

Safety == Init /\ [][Next]_vars
Spec == Safety /\ Fairness

-----------------------------------------------------------------------------
(* Properties *)

TypeOK ==
  /\ rows \in [Entities -> Rows]
  /\ log \in SUBSET Change
  /\ nextVer \in Nat
  /\ tx \in [Writers -> SUBSET Change]
  /\ fleetView \in Nat
  /\ skewed \in BOOLEAN
  /\ pc \in PC
  /\ reply \in Reply
  /\ deny \in SUBSET Entities
  /\ mirror \in Copy
  /\ replica \in Copy

(* The row of k in the version v of the log.                               *)
RowAt(k, v) ==
  LET past == {c \in log : c.key = k /\ c.ver <= v}
  IN  IF past = {} THEN "absent" ELSE Newest(past).row

(* The change log replays to the tables, in spite of concurrent writers:   *)
(* recordPolicyChange runs inside the mutator's transaction, under the     *)
(* lock of the row it describes.                                           *)
TablesMatchLog == \A k \in Entities : rows[k] = RowAt(k, nextVer)

(* A copy is not behind a version when each of its rows is the row of that *)
(* version or of a later one.                                              *)
NotBehind(copy, v) ==
  \A k \in Entities : \E u \in {v} \cup (v .. nextVer) : copy[k] = RowAt(k, u)

(* The replica holds everything up to the version it claims: the next      *)
(* `since` never steps over a change (applyDelta, "rows we will never      *)
(* see").                                                                  *)
ReplicaNotBehind == NotBehind(replica.rows, replica.version)

(* The mirror holds everything up to the version the next poll starts      *)
(* from, through every crash and re-send: pullOnce writes the mirror       *)
(* before it saves the replica.                                            *)
MirrorCoversReplica == NotBehind(mirror.rows, replica.version)

(* Refuted (README, section 5).  The version the mirror itself reports is  *)
(* one it is not behind (materialiseReplica, "the mirror's staleness is    *)
(* not silent").                                                           *)
MirrorNotBehind == NotBehind(mirror.rows, mirror.version)

(* Refuted (README, section 5).  A grant in the mirror points at a         *)
(* principal and a capability that are there too: the mirror is some       *)
(* consistent version of central (applyPolicyReplicaTx).                   *)
MirrorGrantsResolve ==
  \A g \in Grants : mirror.rows[g] # "absent" =>
    mirror.rows[PrincipalOf[g]] # "absent" /\ mirror.rows[CapabilityOf[g]] # "absent"

(* What the node knows never goes back to an older version, although       *)
(* versions have holes, pages are cut short and answers are re-sent.       *)
NoRewind ==
  [][mirror.version' >= mirror.version /\ replica.version' >= replica.version]_<<mirror, replica>>

(* Once the node refuses a revoked grant, through the deny-list or through *)
(* the mirror, it refuses it for ever: a mirror that a re-sent page takes  *)
(* back in time is always behind a deny-list that is not (persistDenyList  *)
(* comes first, and the deny-list is full on every answer).                *)
Refused(g) == g \in deny \/ mirror.rows[g] = "off"
RevocationSticks == [][\A g \in Grants : Refused(g) => Refused(g)']_<<deny, mirror>>

(* Refuted (README, section 5).                                            *)
(* A node that refuses central's schema looks frozen to the fleet: its     *)
(* version in node_policy_state does not move while it is stuck            *)
(* (noteNodePull, "a node that is stuck reports the same version").        *)
FrozenLooksFrozen ==
  [][skewed /\ (pc = "idle" \/ reply.skew) => fleetView' = fleetView]_vars

(* Once writers are done, the node's two copies are central's tables and   *)
(* stay so.                                                                *)
Converges ==
  []<>~skewed => <>[](mirror.rows = rows /\ replica.rows = rows)

(* The channel implements the promise about revocations, and goes on doing *)
(* so with concurrent writers, a mirror that cannot be written, and a      *)
(* schema the node does not know.                                          *)
Promise == INSTANCE RevocationChannel WITH revoked <- Off(Grants), denied <- deny \cap Grants
ImplementsRevocation == Promise!ASafety
RevocationLands == Promise!Lands
=============================================================================
