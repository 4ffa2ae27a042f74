# Windrow in TLA+

Windrow is a governance layer for AI agents.  Each machine runs a *node*: a server
with an SQLite database and a hook that the agent's client calls around every tool
call.  One machine runs *central*: a control plane on Postgres that owns policy and
collects every node's audit trail.  This directory holds TLA+ specifications of the
two channels between them and of what runs at their ends: the decision of a governed
call, its limits and the windows of leniency, its audit row, approvals, packages, alerts,
dead letters, enrollment, the supervisor, the observations of native tool calls, the
node's health reports, the wiring of the hooks, and the schema of the databases; with
their TLC configurations, and TLAPS proofs.

1. [The system](#1-the-system)
2. [Modules](#2-modules)
3. [Model and code](#3-model-and-code)
4. [Runs](#4-runs)
5. [Disagreements between the code and what it says](#5-disagreements-between-the-code-and-what-it-says)
6. [Proofs](#6-proofs)
7. [Abstractions](#7-abstractions)
8. [Plan](#8-plan)

To check a run: `tlc -config <run>.cfg <module>`; to check the proofs: `tlapm M.tla` for
each of the modules `OrderFacts`, `PolicyChannelProofs`, `UsageStreamProofs`,
`DeliveryProofs`, `RecordedProofs`, `GovernedCallProofs`, `LimitsProofs` and
`ServicesProofs`.  `PROJECT.json` lists the runs with their
properties, the source lines behind every definition, for every property of a
passing run a mutant of the code that breaks it, the hazards, and the theorems.

## 1. The system

| Component | State it keeps | Operations | Hard part | Correct when |
|---|---|---|---|---|
| Central policy store (`server/central/policyStore.js`, `policyRoutes.js`) | capabilities, principals, grants, `policy_changes`, `node_policy_state` | create, update, revoke; `GET /api/policy` | concurrent transactions, a version taken before commit, an answer read by many statements | the log replays to the tables; an answer is some version of them |
| Policy channel of a node (`server/policy/`, `applyPolicyReplica` in `server/store.js`) | deny-list file, mirror tables, JSON replica | poll, apply, save | crash between the three writes, a failed write, re-sent pages, schema skew | no copy is behind the version it polls from; a revocation is never forgotten and lands |
| Hook decision (`server/hooks/lib.js`) | none of its own; reads deny-list, replica, pause file, lease | decide one call | stale or missing files, server unreachable | a revoked or stale grant is never allowed above its tier |
| Usage chain and outbox (`server/store.js`) | `usage_events` with a hash chain per incarnation, `usage_outbox`, the shipment counter | insert, correct, queue, acknowledge, trim | restart under a new incarnation, two processes | every event is at central, or queued, or trimmed |
| Usage shipper (`server/usageShipper.js`, `scripts/retire.js`) | in flight, backoff | drain, drain until empty | lost and late requests | deleted only when confirmed; drained in order |
| Central ingest (`server/central/store.js`) | `usage_shipments`, `usage_events`, `nodes`, dead letters | ingest a batch | redelivery, corrections before their event | one row per event; content never goes back |
| Verification (`server/central/queries.js`, `shadow-compare.js`) | none | gaps, chain, verdict | reads beside writers | the verdict says what happened |
| Invoke API (`server/app.js`) | in-memory event until inserted | invoke, PATCH, approve-consent | answered before inserted | an executed call has an event |
| Approvals (`server/app.js`, `policyStore.js`) | `approvals` | propose, approve, reject | two administrators | one request, one grant |
| Enrollment (`server/enrollment/`, `enrollmentStore.js`) | tokens, nodes, CA | enroll, renew, revoke | consumed but not issued | a token is spent once |
| Pause and lease (`enforcementPause.js`, `maintenance.js`, `policy/nodeConfig.js`) | one file each; the profile in the deny-list file | pause, resume, expire, boot | two sides that may each narrow, clamps, clocks | a window ends, and keeps within what central and the environment allow |
| Packages (`server/central/packages.js`, `routes.js`) | `package_state`, the grants they issue | enable, sync, revoke | reads and writes on the pool, two administrators, a request cut short | what an answer says is done is done; no pair twice |
| Supervisor (`supervisor.js`) | child, parked requests | start, probe, restart, stop | timers against exits | one child; parked requests end |
| Alerts (`server/alerts/`) | windows, cooldowns | evaluate, fire, ship | debounce, the two engines | one alert per key and cooldown |
| Native observations (`nativeShipper.js`) | shipped marks | ship | mark after acknowledgement | one row per observation |
| Limits (`policy/tokenBucket.js`, `velocity.js`, `constraints.js`) | buckets | take, narrow | rounding, clocks | never more than the rate |
| Schema migrator (`server/schema/migrator.js`, the drivers, `rechainIncarnations`) | `schema_migrations`, the schema, the chains | migrate, hash anew, write | several processes and builds on one database, a crash in the middle | a recorded migration is whole; an upgraded chain verifies |
| Node health (`server/nodeHealth.js`, `ingestNodeHealth`) | the journal's mark; central's journal rows and roster | report, ingest, acknowledge | torn lines, replaced files, late reports | a line the mark has passed is at central |
| Hook wiring (`server/providers.js`, `hookWatcher.js`) | backends' files, `everInstalled` | check, repair, install, uninstall | files others write at any time, an unreadable one, death in a write | who was wired stays so; nobody else is |
| Rollup, partitions, discovery, skills, dashboard, scripts | files and tables | sequential | little | not modelled |

The parts meet in three places.  Policy flows down: an administrator's write at
central becomes a change in the log, a node polls it into its three copies, and the
hook and the node's server read those.  Audit flows up: a call becomes an event in
the node's chain and a shipment in its outbox; the shipper sends it; central files
it.  And central compares: the two ends of the audit stream are held against each
other.  The models follow these flows; within a node the processes (server, hook,
`retire`) share only files and the database.

## 2. Modules

| Module | What it is |
|---|---|
| `RevocationChannel` | what an administrator is promised about a revocation, with no mechanism |
| `PolicyChannel` | central's policy store, the poll protocol, the node's three copies |
| `PolicyChannelMC` | its instances for TLC |
| `Velocity` | token buckets per principal and capability in a server's memory |
| `Constraints` | the legs of a decision merged one after the other |
| `EnforcementWindows` | pause and lease, narrowed by central's profile and the environment |
| `Packages` | a package's sync into grants and its teardown, by several administrators |
| `Migrations` | databases brought to a build's schema, and chains hashed anew |
| `PolicyLimitsMC` | an instance of `PolicyChannelMC` and the last five |
| `PolicyChannelProofs` | theorems about `PolicyChannel` |
| `LimitsProofs` | theorems about `Velocity`, `Constraints`, `EnforcementWindows`, `Packages`, `Migrations`, and the limits of `PolicyLimitsMC` |
| `AuditDelivery` | what is promised about an event of the audit trail, with no mechanism |
| `UsageStream` | the node's chain and outbox, the shipper, central's ingest and ledger |
| `DeadLetters` | packets central cannot store, kept aside, replayed and discarded |
| `Alerts` | the alert engines of a node and of central, and the alerts' way up |
| `NodeHealth` | health reports, the fault journal's lines and the mark |
| `HookWiring` | the hooks' entries in the backends' files, and their watcher |
| `UsageStreamMC` | an instance of the last five |
| `UsageStreamProofs` | theorems about `UsageStream` |
| `RecordedProofs` | theorems about `DeadLetters`, `Alerts`, `NodeHealth`, `HookWiring`, and the state of `UsageStreamMC` |
| `OrderFacts` | least and greatest elements of sets of numbers, for the proofs |
| `Reconciliation` | extends `UsageStream` with the comparison of both ends and its verdict |
| `ReconciliationMC` | its instances for TLC |
| `DeliveryProofs` | theorems about `Reconciliation`, and that `UsageStream` implements `AuditDelivery` |
| `HookDecision` | one governed call decided by the hook while policy moves |
| `UsageAudit` | a call's audit row: answered, inserted, corrected by another process |
| `Approvals` | proposals, the grants they become, and two administrators |
| `GovernedCallMC` | an instance of the last three |
| `GovernedCallProofs` | theorems about these, and the state of `GovernedCallMC` |
| `Enrollment` | tokens, certificates, the roster, renewal |
| `Supervisor` | the backend's life, and requests parked and replayed |
| `NativeObservations` | spool, drain, table, shipper, central's rows |
| `ServicesMC` | an instance of the last three |
| `ServicesProofs` | theorems about these, and the state of `ServicesMC` |

`PolicyChannel` implements `RevocationChannel` under the mapping "revoked = central's
grants that are off, denied = the grants on the deny-list" (`ImplementsRevocation`,
`RevocationLands`).  `UsageStream` implements `AuditDelivery` under "recorded = what
the node says of each event, held = what central says of it" (`ImplementsDelivery`,
`EventuallyDelivered`).  In both, the safety half and the liveness half of the
abstract specification are properties of their own.

All MC modules but `PolicyChannelMC` run several independent systems
under one configuration: a variable `part` names the system a behaviour is of, the others
rest in an initial state, and every property is of one system's variables only.

Mutants of the code stand next to what they change, under a comment that says so.
They are no part of the specifications.

## 3. Model and code

### PolicyChannel

Central's tables are one function `rows` from entity to *absent*, *on* or *off*
(grant live or revoked, principal active or blocked, capability auto-granted or not),
which is all that enforcement reads of a row's state.  `Write` is a mutator's
statement inside `withTransaction`: it takes the row's lock, draws the next version
from the sequence and keeps the change with the writer (`tx`); `Commit` publishes
all changes of a transaction at once; `Rollback` loses them and keeps the advance of
the sequence.  The guard `MayWriteGrant` is the partial unique index on live pairs,
`revokedAt IS NULL` in the revoking UPDATE, and the foreign keys.

`policyDelta` is one action per SELECT (`ReadVersion`, `ReadFloor`, `ReadRevoked`,
`ReadBlocked`, then the page in `AnswerChanges` or the snapshot in `ReadCapabilities`,
`ReadPrincipals`, `AnswerReset`), since it runs on the pool with no transaction;
commits may fall between any two.  `NoteNodePull` is not awaited but is started with the answer.

`pullOnce` is `StartPull`, `PersistDenyList`, then `RefuseDelta` (schema skew) or
`MaterialiseReplica` and `SaveReplica`; an incomplete page goes round again.
`Interrupt` is a failed request, a lost answer, or the death of the node's process at
any point in between: the three files stay, the cycle is gone.  `UpgradeCentral` makes
central speak a schema the node does not know; `UpgradeNode` ends that.

### UsageStream

A lifetime (incarnation) is a number, by which its id sorts.  An event is its lifetime
and its place in that lifetime's chain; what it says is *first* or *final* (corrected).
The hash of an event stands for what it covers: the sequence of all that the events up
to it say.  `InsertUsageEvent` and `PatchUsageEvent` are the SQLite transactions that
write the chain and queue the shipment.  `ShipOnce`, `Ingest`, `AckOutbox`,
`ShipFailed` are the request and its outcomes; a batch whose request was given up stays
in `delayed` and central may process it at any later time, or never.  A drainer is a
timer's `drain()`, which ends its cycle with `TrimUsageOutbox`, or a `drainUntilEmpty()`
in a process of its own.  `Restart` is a new process on the same database.

`IngestBatch` is central's transaction: shipments in the ledger are dropped, an event is
inserted, a correction updates the rows of its event or is inserted when there is none.
Rows of an event are a sequence, so that a second row is visible when it happens.  All
inserts of a batch have one arrival time, which is part of the row's key, so a second
insert of the same event in the same batch makes no row (`IngestedRows`).  `TrackNode`
is the roster: events counted, and lifetimes counted when they change.

### Reconciliation

`nodeReport` is three reads of the node's database beside the running server
(`ReadHead`, `ReadQueue`, `ReadCount`); `nodeStream` is two reads at central
(`ReadEvents`, `ReadGaps`); `Reconcile` is `verifyNodeChain`, whose one statement reads
the rows, and the verdict.  `Verdict` is the code's cascade in its order.

### HookDecision

`setting` is what a call's world is and does not change: the capability's tier and
autoGrant, the node profile's ceiling, standalone or replicating.  `tables` is what the
authority for policy says, `list`, `mirror` and `cache` are the node's copies of it: the
deny-list file, the mirror that the node's server answers from, the signed grant cache
of the fault ladder.  *Policy* actions (`Register`, `Grant`, `Revoke`, `WriteDenyList`,
`GrowStale`, `Mirror`, `WarmCache`, `LayMarker`) change them at any moment between two
reads of the hook, each copy for itself; that the copies do not go *back* is
`PolicyChannel`'s subject.

The hook is `runPreToolUse` from one read to the next: `Begin`; `FoundCapability`,
`UnknownCapability` or `LookupFailed`; `ResolvePrincipal` or `ResolveFailed`;
`PolicyChannelGate` (deny-list, then age); `Invoke` or `InvokeFailed`; `DenyOrAsk`;
and at any time `Deadline`, the watchdog.  Pause and lease are read when they are
needed, so a value is chosen at each read.  `FaultPolicyStrict` is the ladder of
`faultPolicy` by tier, `EnforcementPauseOverride` the one place that turns a denial round.
`call` keeps, besides phase and verdict, what the properties compare with: what was
listed and capped when the call began, how old the policy was that the gate saw, and
which lease or pause was in force when it was consulted.

### UsageAudit

`/invoke` answers and inserts afterwards, on a later turn of the event loop:
`RecordInvoke`, `RecordUsageEvent`.  Other requests may be served in between, and the
process may die there (`Crash`).  The hook writes the pending file (`Allow`, `Ask`),
denies (`Deny`), or did not get the answer, whether or not one was given: the fault ladder
then denies (`AnswerUnheard`) or lets the call run without a file (`RunUnrecorded`).
The file is named by session, tool and input (`PendingKey`), so calls that look alike share
one.  PostToolUse is another process: `ReadPending`, then the unlink (`ClearPending`),
which decides who of two may go on; then `PatchUsage`, or `ApproveConsent` and its two
requests to the authority.  `GiveUp` is every way in which it may stop.

### Approvals

Central's handler of a decision awaits the database four times; each await ends an
action: `FindApproval`, `IssueGrant`, `RecordAuditEntry`, `DecideApproval`.  The
unique index on live grants is `NoConflict`, the `WHERE status = 'pending'` of the last
UPDATE is the IF of `DecideApproval`.  `LoseRequests` is a server that stops.

### Enrollment

A certificate is a serial number, `certs` what it says.  `CheckOnce` is the daily pass of
`renewal.js` and `Enroll` what it sends: the token of the environment, the proof by
the old key, the configured name.  Central's route is one action per await (`Renew`, or
`FindToken`, `ClaimNode`, `ConsumeEnrollmentToken`, `CheckRow`, `RegisterNode`);
signing is synchronous and follows the await before it.  The machine writes the key file
and the certificate file in two steps (`SaveKey`, `SaveCert`); `Lose` ends a
request anywhere, so the two files may belong to different certificates, and then the
machine proves nothing (`Proof`).  `Rebuild` is a machine installed anew.  `barred` and
`taken` are no part of the code: they keep for `KeptOut` that the name a request is for
was revoked, before it was made or since (`Destined`), or was held when it was made.

### Supervisor

`child` is the process, `ready` what the supervisor believes of it: `MarkReady` is the
answer of a probe, which may be read after the process that gave it has gone.
`OnChildExit` is also `stopChild`'s own listener, so a restart starts the next backend in
the same turn, and a crash starts a timer (`timers`, `SpawnChild`).  A request is parked,
tried, connected, sent, run and answered; `Broken` is what an exit does to those that
are connected; `AttemptFailed` decides on another attempt, by method and by size.

### NativeObservations

The spool is a file with two names.  A hook opens it by the first name and appends to
what it opened, under whatever name that is by then (`renamed`, `unlinked`).  The
drain is `ClaimSpool`, `ReadSpool`, `InsertNativeToolEvents`, `UnlinkSpool`, `Prune`, all
synchronous in the server, which may die between any two.  `ShipOnce`, `MarkShipped` and
`ShipFailed` are the shipper; central's ingest is two actions, `LookUp` and
`IngestNativeBatch`, since its transaction does not see what another has not committed.
A line is its own id, as in the code, where the id is the line's hash.

### Velocity

A token is `Cost` units, so that what one tick of the clock adds is a whole number; the
code's tokens are fractions of one.  `checkVelocity` is the one call, made for every
invocation with a grant: `refill`, then `Spent` or `Limited`, and `Store`, which prunes
the map first when a new bucket would exceed its cap.  `Restart` empties the map, `Regrant`
gives a pair another velocity under the same bucket, `ClockBack` is a correction of the
machine's clock.  `watch` is an observer of one pair: from one of its calls on it counts
what was let through, and what happened beside it.  `promise` is `retryAfterMs`, as a time.

### Constraints

A leg is what a grant or the node's profile says, a function from some keys to values;
one key stands for each rule of combination (a bound, a list, a flag, a velocity), and
there is one that the code does not know.  `mergeConstraints` is a turn of the loop.
`Permits` reads a single leg, key by key, as the code's own table of keys describes it
(`KNOWN_KEYS`), and is the reference the merge is compared with.

### EnforcementWindows

`copy` is what the deny-list file says of the node's profile, `floor` the environment that
the server read when it started; either says any of six things or not (`Absent`), or says
what `Parse` makes of `null` and junk.  `Narrow` is the merge of the two, key by key.
`PausePosted` and `Boot` mint a pause (`BeginEnforcementPause`), `BeginGrace` a lease;
the file keeps what was minted, and nothing reads the profile again.  `lever` says which
of the two a behaviour is about, for neither looks at the other.  `minute` is the time
that passes, `behind` how far the machine's clock is set back from it.  `window` keeps
besides, for the properties, when it was written and what the two sides said.

### Packages

Of a package there are its capabilities with tiers (or none yet: `RegisterCapability`),
its roles, and `RolesFor`, whom the policy of a tier names.  A request is one action per
statement on the pool: three SELECTs in any order, since they run side by side
(`ListCapabilities`, `ListPrincipals`, `ListGrants`), then an INSERT and an audit entry
for each missing pair (`InsertGrant`, `RecordAuditEntry`) or an UPDATE for each live grant
(`RevokeGrant`), in any order, then `Answer`.  `BreakOff` is a statement that fails, or
central's death.  Other administrators grant, revoke and register between any two.

### Migrations

`engine` says whether the database is a node's or central's.  A migration is two
statements.  At a node they commit with the row in the ledger (`UpTogether`); at central
each commits by itself, and the row after them (`Exec`, `Record`).  `OpenDatabase` is the
reading of the version by any build, which refuses a newer database.  A node's store then
does what the migrations *signalled*: `RechainRow` and `RechainHead` update each chain row
by row, beside whoever else has the database open.  A hash stands for the canonical forms
under which the rows up to it were hashed; `Verifies` is `verifyUsageEventChain`.
`spoilt` notes that one of the ways in which the code loses a chain has come about.

### NodeHealth

`journal` is the file the hooks append to, one line each; a hook that dies leaves half a
line, which swallows the next.  `ReportNow` takes the slice behind the mark and the state
of the machine, `Acknowledged` moves the mark, `GivenUp` is a request that fails while
central may go on with it.  A report carries its lines as sets: `lines` that it was sent
with, `left` that central has still to store, `fresh` that were new to it.  Central's ingest
is one action per statement: `IngestLine`, `UpsertRoster`, `CountLines`.

### HookWiring

A backend's file is *bare*, *wired* or *unreadable*; `Edit` is any write by others, of
which the watch tells or does not (`Told`).  `checkAndRepair` is one action per file it
reads or writes: `Detect`, `Repair` (which reads anew, and throws on what it cannot
read), and at the end `Remember`.  `StartCheck` needs no telling, for the fallback's
interval starts checks too.  `Die` is the server's death, which may cut a write short.

### DeadLetters

Shipments are of one event: the first is the event, the others correct it.  `needs` says
from which build of central on each can be stored (`Storable` is every rejection point of
`ingestBatch` at once, the unparseable line included); `UpgradeCentral` is a release.
`IngestPackets` is the transaction: what can be stored is stored, the rest becomes a
letter, and both are answered with 200, so `AckAll` deletes both at the node.  A replay
is three actions, `FindLetter`, `ReplayLetter` and `MarkReplayed`, since it reads, ingests
and writes in statements of their own; `LoseReplay` is a death of central in between.

### Alerts

There is one rule of each scope, node and fleet, and one subject.  `nodeEngine` is the
evaluation that `RecordCall` schedules: due when the debounce is over, and `evaluateNow`
may also run at any time by the timer.  The window is computed as in `rules.js`: it ends
at the end of the present bucket.  A post is central's loop over its alerts
(`ingestNodeAlerts`, `RejectAlert`), then `markAlertsSynced`; `LoseAnswer` is a request
that fails on either side of central.  Central's sweep is `breachesFor`, then for each breach
`lastFiredAt` and `FireAtCentral`, each a statement of its own, so a node's alert may
come between.  `upsertAlert` is the one statement both ends share.  `Tick` does not pass
over a timer that is due.

## 4. Runs

Every run is exhaustive.  What is *not* bounded by the system is bounded by a constant in
a guard: versions (`MaxVersion`), events (`MaxEvents`), shipments (`MaxShipments`),
writes, crashes, certificates, exits, requests.

| Run | Instance | Properties | States |
|---|---|---|---|
| `policy_live` | 2 grants of one pair, 1 writer, pages of 1, skew, fairness | `TypeOK` `ReplicaNotBehind` `MirrorCoversReplica` `NoRewind` `Converges` `RevocationLands` | 0.53 million |
| `policy_hostile` | 1 grant, 2 writers, pages of 1, failing mirror, skew; 2 pairs, 2 velocities, 1 bucket; 3 legs of at most 2 keys; 5 profiles, 3 environments, 35 minutes; 2 administrators, a package of 2 capabilities of which one is a skill; 2 processes of 4 builds, 2 rows, 1 crash | `TablesMatchLog` `ImplementsRevocation` `LimitsAsTold` `OpensWhole` `VerifiesAfterUpgrade` `PackagesKeepWord` | 1.0 million |
| `usage_delivery` | 2 lifetimes, server and retire script, batches of 1, no cap; 2 shipments, 1 administrator, 2 builds; 2 nodes and the fleet, 2 calls, 1 fault; 3 lines of which central cannot store one, slices of 2, 2 faults; 2 backends, 4 edits, 2 deaths; fairness | `RecordedTypeOK` `NothingLost` `ImplementsDelivery` `EventuallyDelivered` `AckedIsKept` `BurstCaught` `SyncedIsAtCentral` `EvidenceKept` `ReportsCome` `NobodyForced` `WiringRestored` | 0.57 million |
| `usage_trim` | two parts: a restarting node with a queue of 1, batches of 2, 2 lifetimes; a compared node in its first life, a queue of 1 | `RosterCounts` `GapIsTrim` `MatchMeansSame` | 2.1 million |
| `governed_call` | a call under 3 policy writes in 8 settings; 3 calls, 2 of one input, 1 crash; 2 proposals, 2 administrators, 3 grants | `CallTypeOK` `RevokedNeverRuns` `FailsClosed` `NeverGrantedNeverRuns` `RowsTellOfRuns` `ResultIsItsGrant` | 3.2 million |
| `services` | 2 machines, 2 names, tokens of 1 and 2 uses, 3 certificates, 1 fault; 3 requests, 2 exits; 2 lines, 2 posts, a queue of 1, 1 crash; fairness | `ServicesTypeOK` `WithinUses` `KeptOut` `RenewsWithoutToken` `WriteRunsOnce` `BackendReturns` `NoneMislaid` `ShippedIsAtCentral` | 0.67 million |

The other six runs end in a violation; section 5 lists them.

**Why these bounds.**  One principal, one capability and one or two grants of that one
pair give every conflict the tables know: revoke, re-grant, displacement in the mirror,
and a grant whose principal or capability is missing.  Five versions from an empty log
allow create, create, grant, revoke and one rolled-back version anywhere; a rollback of
version 1 makes the log start above 1, so resets from `since = 0` happen, and pages of
one change make every catch-up longer than one answer.  Two writers are what a lost
update or a version out of order needs.  Two lifetimes, two events and two shipments per
lifetime allow a correction by a later lifetime of an earlier one's event, in flight
beside the event itself; a queue of one is the smallest cap, and three shipments the
least with a hole in the middle.  Nodes share nothing in these channels, so there is
one node.  Symmetry is used in safety runs only (writers; calls that look alike).

A call's settings are all tiers, standalone and replicating, and two in which the profile
caps the node; three writes are a grant, its revocation and another grant, of the
instance or of its role.  Two calls that look alike let one overwrite the other's file,
claim it, or race with it for the file; a third of another input must be left alone.  Two administrators and two proposals for one pair, in the two spellings of
the action that the code has, meet every conflict of the index.  Two machines of which one
has a configured name and a token in its environment and the other neither, a single-use
and a two-use token, and one fault make a race for a token, a claim of a held name, torn
files and a rebuilt machine.  Two exits are a crash during the wait after another.  Two
lines, two posts and a cap of one make a post that is given up and arrives late.

Two pairs over a map of one bucket make every second call prune; two velocities of which
one is larger on both counts are what a regrant needs, and the time is long enough for
the smaller burst to be full again.  Three legs are what the code has (user, role,
profile), and two keys in a leg meet every rule of combination with every refusal.  Two
shipments are an event and its correction, in one batch or in two; one administrator's
replay overlaps redeliveries, discards and a release.  Windows of two strides and a cooldown
of four ticks let two calls fall on both sides of each edge; a threshold of two is met by
one node or by both together.

The profiles and environments say nothing, less than the code's own bounds, more, or
nonsense, on every key; 35 minutes in steps of 5 and 25 are longer than any pause and
shorter than some leases, so windows are in force, over, and cut.  A pair for the package's own
role, one for a role that only the policy names, and a skill meet each way in which a
sync may end; two grants are one that is revoked and one issued again.  Four versions
hold two that signal (the code's are 7, 8, 11 and 15), on either side of the one that gives
each lifetime its chain, and one that does neither; two rows are what a chain needs to be broken in the middle.  Three journal lines and slices of
two take two reports, one with a line that central refuses.  Of two backends either may be
the one in whose way the other's file is.

**What the properties say.**

- `TablesMatchLog`: for every row, the newest change in the log is the row.  It needs
  the change to be written in the row's own transaction and under its lock.
- `ReplicaNotBehind`: each row of the replica is the row of the version it claims or of
  a later one.  `MirrorCoversReplica`: the same of the mirror and the version the *next
  poll* starts from, which is why the mirror is written first.
- `NoRewind`: no version of a copy ever goes down.
- `ImplementsRevocation`, `RevocationLands`, and `RevocationSticks`, which is proved only: no
  grant is denied that was not revoked, the deny-list forgets nothing, a grant the node
  refuses by deny-list or mirror stays refused, and a revocation arrives, also at a node
  frozen for ever.  The first is checked with mirror writes that fail, the second without.
- `Converges`: once the writers are done, mirror and replica become central's tables.
- `NothingLost`: a recorded event is held by central as it stands, or queued in a
  shipment central will still take, or was trimmed.  Its run has no cap, so nothing is
  trimmed there; the theorem (section 6) is for every cap.  Both suppose that a later
  lifetime's id sorts later; section 5 says what happens if not.
- `RosterCounts`, and `OneRowPerEvent`, which is proved only: redeliveries, corrections, lost
  acknowledgements and mixed batches do not make central count wrong, neither rows nor
  lifetimes.
- `ImplementsDelivery`: what central says of an event only moves forward and never
  ahead of the node.  It is checked without a cap, and does not hold with one: a
  shipment that was given up and then trimmed may be processed late, after a later
  correction that changed nothing.
- `GapIsTrim`, and `GapMeansTrimmed`, which is proved only: a hole in the ledger is a trim.
- `MatchMeansSame`: a *match* is given only when central has each reported event.
- `RevokedNeverRuns`, `FailsClosed`, `NeverGrantedNeverRuns`, and `CeilingHolds`, which is
  proved only: what no combination of a stale mirror, a warm cache, a lease, a pause, an
  outage and a policy that moves between two reads may let through.  Each says which exception the code means to make; the exceptions are the content.
- `RowsTellOfRuns`: every corrected row says what became of a call that looks like the
  row's and ran, and no two rows tell of the same call.  That it is the row's *own* call is
  false, by the code's own account, unless no other looks like it (`OwnRowTrue`, proved
  only).  `ApprovedWasAsked`, proved only: with look-alikes too, nobody's row says that a
  human approved unless a human was asked.
- `ResultIsItsGrant`: however administrators race, the grant a proposal names was issued
  for it and is in the audit.
- `WithinUses`, `KeptOut`: a token's ceiling under a race, a
  revoked name that does not get back in under another, a held name that a single-use
  token does not take.  The revocation may come before the machine asks or while it is
  served, up to `registerNode`'s look at the row; one between that look and the upsert after
  it leaves the machine with a certificate that every later request is refused with.  The
  held name was held *when the machine asked*: of two machines that claim a free name at
  once, both may get it.
- `RenewsWithoutToken`: whoever holds both files and no token in his environment renews.
- `LimitsAsTold` is three of three modules, of which the first, `RateAsTold`, is again two.
  `WithinRate`: between any two calls there are no more than a burst and what the interval
  adds, and what a restart, a clock set back, or a dropped bucket adds to that is named in
  the formula.  `RetryHonoured`: who comes back when told is let through.
  `MergeIsIntersection`: in whatever order the legs come, the merged constraints let through
  what each leg, read for itself, lets through.  `WindowsBounded`: however central's profile and
  the environment change, and in whatever order, a window in force keeps within what both
  said when it was minted.
- `PackagesKeepWord`: what a sync or a teardown answers for is so, but for what others
  revoked meanwhile; no pair is granted twice; no issued grant misses its audit entry
  unless a request was broken off.
- `OpensWhole`: whoever has opened a database finds all that its build knows, whatever raced
  or died.  `VerifiesAfterUpgrade`: no chain reads as tampered with because of an upgrade.
  The premise names every way in which the code does let that happen (section 5); that
  there is no other is the content.
- `AckedIsKept`, and `SecondRowWasLetter`, which is proved only: what has left the queue is
  stored or among the dead letters, and the one way to a second row of an event is a replay
  of the event after its correction.
- `EvidenceKept`: a journal line that the mark has passed is at central, through torn lines,
  files that were replaced and reports that arrive twice or late; no line is counted twice.
  `ReportsCome`: the roster comes to show the machine as it is.
- `NobodyForced`: no backend is wired that nobody has wired, but for one race that the
  formula names.  `WiringRestored`: what a watch missed or a crash cut short is put back.
- `BurstCaught`: no threshold is met unnoticed at either end, across windows and restarts,
  within a window less a stride (what overlapping windows can promise).
  `SyncedIsAtCentral`: what a node takes as delivered is there, or was refused by name.
- `WriteRunsOnce`, `BackendReturns`: no replay runs a write twice; the backend comes back
  after crashes and restarts that overlap.
- `NoneMislaid`: a line is somewhere, or was given up in one of four ways the code has;
  death of the server is none of them.  `ShippedIsAtCentral`: what retention may delete,
  central has.

**Fairness.**  `PolicyChannel`: a transaction commits or rolls back (the driver's
`finally` releases it); the poll timer and both processes keep taking steps; faults
(lost answers, crashes, upgrades) stop at some unknown time, since an unlimited supply
of them defeats any protocol that retries.  A skew that is there when they stop may
stay, and `Converges` is asked only of runs where it does not.  Rolling back is as good
as committing for fairness, so nothing assumes that a write succeeds.  `UsageStream`:
the timer of the server keeps running its cycles (`setInterval` in `startUsageShipper`)
and its requests are answered; failures and restarts stop in the end.  Nothing is assumed
of the retire script, and nothing of requests that were given up.  `Enrollment`: the
daily check runs, central's awaits end, the machine writes its files; faults are bounded.
`Supervisor`: the operating system starts processes and ends those that were told to
(SIGTERM, then SIGKILL), timers fire, and a backend that listens answers its probe.
`NodeHealth`: the reporter's interval goes on while the node runs, and central works on what
it was sent; faults are bounded.  `HookWiring`: the supervisor starts the server again and the
watcher's fallback interval goes on; others' edits and deaths are bounded.  No telling by
`fs.watch` is assumed.
The other modules are checked for safety only.

`policy_live`, `usage_trim` and the violation runs of the two channels check deadlock too:
with the poll timer and the drain timer the system never stops.  The others do not
(`CHECK_DEADLOCK FALSE`), nor do the violation runs made from them or from their modules:
calls, requests, legs, shipments, lines, minutes, processes and certificates are finite in
their parts, and once all are done those may rest.

## 5. Disagreements between the code and what it says

Each of these has a run in which TLC finds the stated property violated; PROJECT.json
quotes the lines on both sides.

| Run | Property | In short |
|---|---|---|
| `policy_gap` | `ReplicaNotBehind` | two transactions commit in the other order than they took their versions; a node that polls in between steps over a change for good, and `applyDelta` does not do what its comment says about gaps |
| `reconcile_restart` | `QuietNeverDivergent` | oldest head against newest: after a restart, a quiet node is divergent |
| `hook_role_revoked` | `RevokedRoleStops` | the deny-list names the pairs of principals that hold grants; the hook looks up the instance, and an instance works by its role's grants, so a revoked role still runs on a node whose mirror does not move |
| `half_migrated` | `NeverHalfApplied` | BEGIN and COMMIT go to one client of the pool and a migration's statements to others, so a crash leaves half a migration at central, though migrator.js says "never half-applied" |
| `renewal_stuck` | `RenewsItself` | a machine with its join token still in the environment sends it along when it renews; a spent token refuses the request, and the machine never renews |
| `native_pruned` | `UnshippedSpared` | the first cycle of the drain runs before the shipper has started, and its retention then spares nothing: what central never got is deleted |

More can be seen by adding a property or changing a bound.  The first ten are
definitions of the modules, marked *refuted*:

- `PatchCorrects` (in `governed_call`): a call let through by a pause has a row that says
  *denied*, and PATCH takes only *ok* rows (`app.js`:1873), so its outcome is never
  recorded, though `lib.js`:1794-1795 says it is.
- `MirrorNotBehind` (in `policy_hostile`): after a failed mirror write the next one moves
  the mirror's version past rows it never got (`policyClient.js`:309).
- `MirrorGrantsResolve` (in `policy_gap`): a reset snapshot is torn by a commit between its
  SELECTs, and names a grant without its principal (`policyStore.js`, `policyDelta`).
- `FrozenLooksFrozen` (in `policy_live` with `NotesRecorded = TRUE`): the fleet view
  records what central served, so a frozen node looks current.
- `ChainLinked` (in `usage_delivery`): a correction moves later hashes, central is not told,
  and calls it divergence.
- `RegrantedRuns` (in `governed_call`): the list of revoked pairs never forgets one, so a pair
  that was granted again stays denied, although the schema's partial index is there
  to let it be "re-granted".
- `GrantWithItsProposal` (in `governed_call`): the reference says the approved proposal becomes the
  grant "in the same transaction" (`docs/reference/api.md`:394); an approval that races a
  denial, or a crash between the two, leaves a grant that no proposal names.
- `OneSighting` (in `services`): a request that timed out and its retry may both look an
  observation up before either has inserted it; central then has two rows of it.
- `ContentForward` (in `usage_delivery`, with three shipments): a replay of a correction that
  was a dead letter takes back what a later correction said.
- `FiresOnce` (in `usage_delivery`): a breach that goes on makes alerts of different
  windows at the two ends, whose keys differ.
- `usage_delivery` with `LivesInOrder = FALSE`: an incarnation's id carries a clock of
  seconds and a random suffix; if a later lifetime's id sorts first, its correction
  overtakes the event it corrects, and `NothingLost` fails, as does `OneRowPerEvent` when added,
  and `RosterCounts` in `usage_trim`.
- `reconcile_restart` with one lifetime and `MaxOutbox = 1`: when the first shipments of
  a lifetime are trimmed there is no hole *between* two, so the verdict is divergent and
  not gap.
- The verdict need not be about a quiet node: with `verdict # "divergent"` as an
  invariant, an event recorded between two reads of the report is enough.
- The roster may count more lifetimes than there were: a correction of an earlier
  lifetime's event moves `lastIncarnation` back, and the next event moves it forth.
  (The other direction, the second half of `RosterCounts`, holds.)
- `Enrollment`: files torn by a crash between key and certificate never fit again, and every
  later renewal without a token is refused (`Settled` counts that as an end); two machines
  that claim the same *unheld* name with one two-use token may both get it; and the
  roster's revocation stops enrollment and renewal, while the routes that a certificate
  opens check the certificate only.
- `UsageAudit`: the file of an *asked* call that nobody claimed is claimed by the Post of a
  later call that looks alike, which then approves consent for the earlier one.
- `DeadLetters`: a redelivery after a release stores a packet whose letter stays
  *quarantined*; discarding overwrites *replayed*, and a replay overwrites *discarded*; a
  replay that fails again counts as another sighting (`occurrences`).
- `Alerts`: a node marks all that it posted as synced although the answer lists some as
  rejected (the second case of `SyncedIsAtCentral`).
- `Velocity`: `pruneIfNeeded` measures every bucket by the burst of the call that is being
  inserted, and by tokens as stored, before any refill.  With velocities of several sizes
  it drops buckets that are not full, though velocity.js says "removing it changes no future
  decision"; with one it finds none, since a bucket is stored after a token was taken.
- `Approvals`: central issues a grant for `grant_capability` only; a node's proposal that
  says `grant` is approved without one (both are in `Actions`).
- `EnforcementWindows`: `WINDROW_DISABLE_DENIALS` mints a pause at every boot, so a server that
  restarts often keeps denials off beyond the half hour; a profile that is tightened does
  not end a window already minted; a ceiling of `null` is the number 0, and a pause under it
  is over at once; a ceiling below the minimum wins; and once a profile narrows the lease's
  tiers, a request that names the default tiers is refused.
- `Packages`: `insertGrant` refuses skills (`policyStore.js`:828) and `packages.js` does not leave
  them out, so a central sync of a package with a skill in its policy throws in the middle:
  it stays enabled, and what comes after is neither issued nor announced.  A sync grants to the
  roles of the policy and a revoke goes over the package's own list, so it leaves grants
  that the package issued.  Disabling revokes nothing.
- `Migrations`: the exceptions of `VerifiesAfterUpgrade`.  A process that dies, or loses the
  ledger to another, between a signalling migration's commit and the end of the re-chain
  takes the signal with it, and the chains verify under no form ever after.  So they do when
  another process writes or signals between the two, or writes under an older build; and
  correcting a row of an older form leaves a chain of two.
- `NodeHealth`: a line that is longer than a slice, or a slice of torn lines only, stops the
  mark for good; a line that central's database refuses stops the roster too
  (`central/store.js`:877); a report that the watcher asks for while one is awaited is
  dropped until the interval comes; after a crash of central fewer lines are counted than
  there are.
- `HookWiring`: a file that cannot be read makes `install` throw, which ends the whole check,
  although `providers.js`:251 means it to be treated as tampered: later backends
  are not repaired, and earlier repairs neither logged nor remembered.  An
  uninstall by the API is undone by the watcher, for `everInstalled` never forgets.  A write
  cut short leaves a file that is never repaired.
- `HookDecision`: a capability the registry does not know runs ungoverned while the deny-list is
  fresh, also on a node whose replica is frozen and so never learns of it.

## 6. Proofs

Seven modules hold theorems about specifications, and `OrderFacts` the facts about sets
of numbers that they share.  Every safety property that a passing run checks has a
theorem; the run shows it on its instance, the theorem for every value of the constants.
The theorems are of the safety part of each specification (`Safety`, `EnrollSafety`,
`GovernedSpec`, `ServicesSafety`, `RecordedSafety` ...), without fairness, and rest on
the `ASSUME`s of its module, which TLC evaluates on every run.

| Module | About |
|---|---|
| `PolicyChannelProofs` | the log, the node's three copies, the refinement |
| `UsageStreamProofs` | the node's chain and outbox, central's ledger and rows |
| `DeliveryProofs` | that refinement, the roster, the two verdicts |
| `RecordedProofs` | dead letters, alerts, health reports, wiring |
| `GovernedCallProofs` | a decided call, its audit row, approvals |
| `LimitsProofs` | rates, merged constraints, windows, packages, the schema |
| `ServicesProofs` | enrollment, the supervisor, native observations |

### The policy channel

For all grants, principals, capabilities, writers, page sizes and version bounds, with
skews, crashes and (but for the last line) failing mirrors:

| Theorem | Statement |
|---|---|
| `TypeCorrect` | `Safety => []TypeOK` |
| `RefusalSticks` | `Safety => RevocationSticks` |
| `ChannelKeepsPromise` | `Safety => ImplementsRevocation` |
| `TablesReplay` | `Safety => []TablesMatchLog` |
| `ReplicaKeepsUp` | `Safety /\ []CommitsInOrder => []ReplicaNotBehind` |
| `VersionsNeverRewind` | `Safety /\ []CommitsInOrder => NoRewind` |
| `MirrorKeepsUp` | if `~MirrorMayFail`, `Safety /\ []CommitsInOrder => []MirrorCoversReplica` |
| `OneWriterCommitsInOrder` | with one writer, `Safety => []CommitsInOrder` |

The assumptions: entities of the three kinds are disjoint and every grant names a principal
and a capability; bounds are numbers; the seeded log has one change per row and per
version, below the next version, and no grants.

*Refusal and refinement.*  `TypeOK` alone is not inductive: the version central serves and
the newest change of a page are chosen as greatest elements, which exist only because every
version in the log and in the open transactions is below the next one, and because a
page is taken from the log.  `TypeInv` adds just that.
That a refused grant stays refused compares two states, so `RevInv` says where each copy
of "revoked" can come from and what it is covered by.  At central (`CentralInv`): no two
open changes are of one row, a transaction that writes a grant writes nothing else, a
revoked grant is not written again, and the log calls a grant revoked only if it is.  At
the node (`NodeInv`): answer, mirror and deny-list are honest in the same sense; once
central has read the revoked grants, the answer under way names every grant the node
refuses (`AnswerCovers`); and after the deny-list is written, it names every grant
the mirror has off (`FileCovers`).  So a step that replaces the deny-list takes it from an
answer that covers every refusal, and a step that writes the mirror, even one that takes
it back to an older page, stands behind a deny-list that already has them.
The refinement follows: a `Commit` revokes one grant or none (`GrantAlone`), which is
`Revoke` or a stutter; a new deny-list is honest and covers the old one, which is `Learn`;
no other step changes the two.

*The log.*  `LogInv`: a version names one change (`Distinct`), an open change of a row is
newer than its committed ones, since the row was locked before the version was drawn
(`TxNewer`), and the tables hold each row's newest change (`RowsNewest`).  `PairInv` adds
the life of a grant, on before off, and that of a pair's two grants the first was off
before the second came (`OnceLive`), which the mirror's displacement of a conflicting row
relies on.

*The versions.*  With overlapping writers a version can be committed above one that is
still open, and a node that has seen it never asks for the other: that is the finding
`policy_gap`, where `ReplicaNotBehind` is false, and `NoRewind` as well when it is added
(a cycle that dies before the replica is saved, and a page that now ends earlier).  What is proved is that this is the *only*
way: `CommitsInOrder`, that nothing is committed above a version still open, is all that is
asked, and one writer cannot break it (`OneWriterCommitsInOrder`).  Under it a committed
version is final below (`Known`), and `CopyInv` follows an answer through its SELECTs: the
head that was read is not below what the node holds, the floor is the log's least version,
a page has every change between the replica's version and its own last one, and each
table of a snapshot is read after its head.  `AheadInv` is about the mirror's version, which
is ahead of the replica's when a cycle dies between the two writes: the next answer is
either the same reset, or a page that reaches as far, since fewer than a page's changes lie
between the two.

### The usage stream, and what central has of it

For all numbers of lifetimes, events, shipments and drainers, all batch sizes and caps,
with requests lost, late or given up, and with restarts and retire scripts at any time:

| Theorem | Statement |
|---|---|
| `StreamTypeCorrect` | `Safety => []TypeOK` |
| `NothingIsLost` | if `LivesInOrder`, `Safety => []NothingLost` |
| `GapsAreTrims` | if `LivesInOrder`, `Safety => []GapMeansTrimmed` |
| `EventsCountedOnce` | if `LivesInOrder`, `Safety => []OneRowPerEvent` |
| `PipelineDelivers` | if `LivesInOrder`, `Safety /\ [](trimmed = {}) => ImplementsDelivery` |
| `RosterTrue` | if `LivesInOrder`, `Safety => []RosterCounts` |
| `GapVerdictTrue` | if `LivesInOrder`, `RSafety => []GapIsTrim` |
| `MatchVerdictTrue` | if `LivesInOrder`, `RSafety => MatchMeansSame` |

The first four are in `UsageStreamProofs`, the others in `DeliveryProofs`.  They rest on the
module's assumption (lifetimes are finitely many positive numbers, a process is a timer's
or a retire script's, bounds are numbers) and, from the second on, on `LivesInOrder`;
section 5 says what happens without it.  `PipelineDelivers` has a premise of its own, that
nothing is ever trimmed: with a cap it is false (section 4), and the run that checks it has
none.

*Nothing is lost.*  The roster is computed with cardinalities, so `TypeInv` adds to
`TypeOK` that the queue and every batch are finite.  `NothingLost` is not inductive:
central takes any batch, however old, and makes of it what its rules say, so one has to
know what may be in a batch.  `StreamInv` says it in four groups.

- Numbers: no lifetime so far is later than this one (`NewestLife`), and every shipment
  ever queued has a number of its own, at most the last one given out (`Numbered`,
  `OneNumberEach`).  So a new shipment comes after all others, and the ledger's key
  names one shipment.
- Flight: what is in flight is queued, or *settled*, that is, stored by central or
  trimmed (`FlightSettled`); what precedes it is in the same batch or settled
  (`OldestFirst`, the reason for draining in order); what was answered is in the ledger
  (`StoredInLedger`).  `OldestFirst` needs that a batch is downward closed in the queue
  (`OldestClosed`).
- Content: what a shipment or row says of its event is or was so; only corrections say
  "final", and every shipment that says "first" comes before every one that says "final"
  (`ContentKnown`, `RowKnown`).
- `FinalRow`: when central says "final" of an event, every shipment that says "first" is
  settled.

The step that matters is `IngestStep`.  If a shipment that says how the event stands is
among the new ones of a batch, central's first row says so afterwards (`RowSays`: what
says "first" comes before it, so neither the last update nor the first insert can be
older news).  If central already held the event as it stands and a new shipment takes
that back, the row said "final" and the shipment says "first"; by `FinalRow` it is
settled, central does not have it, so it was trimmed, and that is the exception
`NothingLost` names.  All other steps are of two kinds: `RecordsOf` says what a new
event or correction does, and `QuietStep` what the shipper, the trim and a restart may do to
the queue.

`GapInv`: every number given out is of a shipment queued, trimmed or stored, and what
precedes a stored shipment of its lifetime is settled; so a number missing below one that
is there was trimmed.  `RowInv`: an event is queued once as such and before its
corrections, and when central has a row of it that shipment is settled; so a second insert
is of a shipment that was trimmed.

*Delivery.*  To central's copy a step of the pipeline is one of three: the node recorded,
central stored a batch, or neither (`StepKinds`).  The first is `AuditDelivery`'s *record*,
the last a stutter.  For the second, what a batch makes of central's rows is `IngestStep`'s
once more: with nothing trimmed, `FinalRow` leaves no shipment that could take a word back.

*The roster and the verdicts.*  `RosterInv` adds to `RowInv` that the life seen last is one that
central has an event of, so a change of life is never missed.  `VerdictInv`
carries `GapInv` to the moment of the read: a hole that was read means a trim then, and
what was trimmed stays so.  `MatchInv` says of a comparison under way that what has been
read is still so: the reported head is of the oldest chain, which only grows; what was
counted after it is no less; and what central counted is no more than it has.  A match
asks for equality of what these bound from two sides.

### Dead letters, alerts, health reports, wiring

For any shipments of an event, batch sizes and builds of central; for any nodes, windows,
thresholds and faults; for any lines, slices, reports and torn or replaced files; for any
backends, edits and deaths:

| Theorem | Statement |
|---|---|
| `AckedNotLost` | `DeadSpec => []AckedIsKept` |
| `ReplaysAreStored` | `DeadSpec => []ReplayedIsStored`: a letter marked replayed is in the ledger |
| `SecondRowsWereLetters` | `DeadSpec => []SecondRowWasLetter` |
| `SyncedAlertsArrived` | `AlertsSpec => []SyncedIsAtCentral` |
| `BurstsAreCaught` | if `Stride <= Cooldown`, `AlertsSpec => []BurstCaught` |
| `EvidenceStays` | `HealthSpec => []EvidenceKept` |
| `NobodyIsForced` | `WiringSpec => []NobodyForced` |
| `RecordedTypeCorrect` | `RecordedSafety => []RecordedTypeOK` |

*Dead letters.*  `KeptInv` ties the acknowledgement to what was answered.  A second row
needs more: shipments are recorded and sent in order, so central has the event itself, in
the ledger or as a letter, before it has any correction (`FirstInv`); a row inserted for
the event beside one that is there means that a correction was stored first, hence that
the event was a letter, and the ledger admits it once.

*Alerts.*  A post's keys are those of the node's alerts, and what it has dealt with is at
central or listed as refused (`DealtWith`), so marking all of them is right up to the refusals that
`SyncedIsAtCentral` names.  For the bursts, `NodeInv` and `CentralInv` say what an engine
that has nothing to do has already alerted of: every threshold that was reached within a
full window less a stride.  That the code's windows, which end at the end of the present bucket,
cover as much is `Buckets`; that an alert that the cooldown holds back is made
unnecessary by the one it waits for needs `Stride <= Cooldown`.  The premise is real: a rule may
set `cooldownMs` to 0 (`alerts/rules.js`:251), and then the alert that a window made before
the burst began is the only one the window makes.

*Health reports.*  `HealthInv` follows a report's slice: the lines that it will have the
mark pass are at central or still left in it (`SlicesInv`), so the mark, which moves to
where an acknowledged report ended, passes nothing else (`MarkInv`).  Of several
reports of the same lines one alone inserts each (`fresh`), so it is counted once
(`CountInv`).  What a file's part holds, `LinesOf` says as a set.

*Wiring.*  `AskedInv` says of a check under way that it has found only who was asked
for, and that a repair was decided on for one of two reasons, of which the second, an
unreadable file, either is still there or was put right by somebody.

*Types.*  `RecordedTypeCorrect` needs the above and more: the letters' states and where a row's
parts come from (`LettersInv`), and when alerts were made (`TimesInv`).

### A governed call

For one call in every situation a node may be in, with every pause and lease and any
number of registrations, grants and revocations while it is decided; for any number of calls,
inputs and crashes; and for any proposals, actions, deciders and grants:

| Theorem | Statement |
|---|---|
| `HookTypeCorrect` | `HookSpec => []HookTypeOK` |
| `RevokedIsStopped` | `HookSpec => []RevokedNeverRuns` |
| `StalePolicyFailsClosed` | `HookSpec => []FailsClosed` |
| `DestructiveWasGranted` | `HookSpec => []DestructiveNeedsGrant`: a destructive call allowed without a human had a grant, now or once, or a pause |
| `CeilingIsKept` | `HookSpec => []CeilingHolds` |
| `NobodyUngrantedRuns` | `HookSpec => []NeverGrantedNeverRuns` |
| `ApprovalsWereAsked` | `AuditSpec => []ApprovedWasAsked` |
| `RowsTell` | `AuditSpec => []RowsTellOfRuns` |
| `OwnRows` | `AuditSpec => []OwnRowTrue`: while no other call looks like it, a row tells of its own call |
| `ApprovalTypeCorrect` | `ApprovalSpec => []ApprovalTypeOK` |
| `ResultsAreTheirs` | `ApprovalSpec => []ResultIsItsGrant` |
| `DecidesOnce` | `ApprovalSpec => DecidedOnce`: a decided proposal is not decided again |
| `CallTypeCorrect` | `GovernedSpec => []CallTypeOK` |

*The decision.*  The properties speak of decided calls; the invariant says of each earlier
phase what has been found out by then.  `CopiesInv`: list, mirror and cache hold only what
was in the tables once, so a grant found in any copy was given (`EverGranted`, which
policy never takes back).  `ProgressInv`: a call that is past the lookup is under the
ceiling, one past the gate was not listed when it began and, on old policy, has leave.
`VerdictInv` names what every verdict may rest on.  The ladder is used from three phases,
so what it can let through is one lemma (`LadderLetsThrough`), as is what is left to show
of any decision (`DecisionStands`).

*The row.*  A pending file may be another call's, and a hook may have claimed it
before it is overwritten; what makes `ApprovedWasAsked` inductive is that every file and
every claim that asks names a call that was put to a human (`Asked`), and that a call
never stops being one.  `OwnInv` says more: every file and every claim names a call of
its own key that has begun.  A hook corrects at most one row, and then ends or goes on to
the consent; so the rows corrected so far have each a call of its own to tell of, whose hook
is past correcting (`TellerInv`), and a hook that corrects another row is not among them
(`TellersGoOn`).  Of a call that nobody resembles, that one is itself.

*Approvals.*  `DecidingInv`: a request that is auditing or recording holds a grant issued
for the proposal it decides, and grants keep whom they were issued for.

### Limits, packages and the schema

For any pairs, velocities and sizes of the map; any legs and calls; any profiles and
environments; any roles, capabilities and administrators; and any processes, versions,
rows and crashes of a database:

| Theorem | Statement |
|---|---|
| `RatesAreTold` | `VelocitySpec => []RateAsTold` |
| `MergeTrue` | `ConstraintSpec => []MergeIsIntersection` |
| `WindowsTrue` | `[]WindowsBounded` of `WindowsInit` and `WindowsNext` |
| `PackagesTrue` | `[]PackagesKeepWord` of `PackagesInit` and `PackagesNext` |
| `LimitsHold` | `LimitsSpec => []LimitsAsTold` |
| `OpensWholly` | `MigrationSpec => []OpensWhole` |
| `UpgradesVerify` | `MigrationSpec => []VerifiesAfterUpgrade` |

*Rates.*  `RateInv`: what the watched pair's calls cost, and what its bucket would hold
now, are together no more than the allowance.  A tick adds the rate to one side at most and
to the other always; a restart and a drop by the pruning each add what the formula names.
`PromiseInv`: a promise that stands is of a time by which the bucket has what a call needs.
Rates are above zero, as `parseVelocity` has it.

*Constraints.*  `MergeInv`: what the merged constraints let through is what none of the legs so
far refused.  Its step is `CombineIsBoth`, key by key, and `MergedIsBoth` of two legs; the
cases with content are a bound that nobody can read, lists without a common member,
and velocities, where the lower of each number permits what both do.  The assumptions give
each key values of its kind.

*Windows.*  `WindowInv`: a window in force keeps within what either side it was minted under
said, since each number, list and flag of the narrowed profile is allowed by both
(`NumberAllowed`, `TiersAllowed`, `PauseAllowedByBoth`).  What a side may say is anything
that JSON and an environment can hold: a value of the kind, `null`, junk, or nothing.

*Packages.*  `PackagesInv` follows each request: what it has found missing or done still
holds of the grants but for what others revoked since (`OnCourse`); live grants of a pair are
one (`OneEach`, the partial index); and a grant that is not in the audit is some request's
next entry.

*The schema.*  `HasCome` says how far each opener is: all versions before its next are in the
ledger, and at central the statements of that one it has sent are done; since ledger and
schema only grow, no other opener can take that back, and a version is recorded on top of
all before it (`Recorded`).  For the chains, `HashInv` adds that unless one of the ways has
come about in which the code loses a chain (`spoilt`), one process at most has heard a
signal.  If none has, each chain is of one form that its readers know (`Settled`); if
one has, the rows behind it are of the new form, and no migration since has made another
one due (`Underway`).  The ways are in section 5; that there is no other is what is
proved.

### Enrollment, the supervisor, observations

For any tokens with any number of uses, machines, names and certificates; any requests and
exits; any observations, posts and crashes:

| Theorem | Statement |
|---|---|
| `EnrollTypeCorrect` | `EnrollSafety => []EnrollTypeOK` |
| `CertificatesWithinUses` | `EnrollSafety => []WithinUses` |
| `RevokedAreKeptOut` | `EnrollSafety => []KeptOut` |
| `SupervisorTypeCorrect` | `SuperSpec => []SuperTypeOK` |
| `WritesRunOnce` | `SuperSpec => []WriteRunsOnce` |
| `LinesNotMislaid` | `NativeSpec => []NoneMislaid` |
| `ShippedIsKept` | `NativeSpec => []ShippedIsAtCentral` |
| `ServicesTypeCorrect` | `ServicesSafety => []ServicesTypeOK` |

*The argument.*  `UsesInv` counts: the certificates of a token are at most its uses, and
these at most what it allows; the check of the remaining uses and the increment are one
statement, and a failure between a use and its certificate loses a use, never gains one.
`InOrder` says of each request how far it may have come: one that is to be kept out has
not got past `CheckRow`, or `ClaimNode` if it asks for a held name, and what keeps it out
is still in the roster, which only grows (`RosterGrows`).  Each run of a proxied request but the last was cut short by an exit
(`RequestInv`), and a write that may still be sent has not been run; an exit turns a write
that was sent into one that fails, not into one that is parked.  For observations,
`KeptInv` adds that what the drain is about to delete is in the table or given up, and
`PostInv` that what a request did not find new was at central when it looked, which
deletes nothing.  The number of central's rows of a line is bounded, as the type says,
because it is the number of the requests that stored it (`CountInv`).

### What is left

*Only model-checked*: the liveness properties, `Converges`, `RevocationLands`,
`EventuallyDelivered`, `RenewsWithoutToken`, `BackendReturns`, `ReportsCome` and
`WiringRestored`.  They rest on fairness, that is, on `ENABLED`, which the prover cannot
reason about.  What section 5 refutes has no theorem.

*Proved, and in no run*: `RevocationSticks`, `GapMeansTrimmed`, `OneRowPerEvent`,
`DestructiveNeedsGrant`, `CeilingHolds`, `ApprovedWasAsked`, `OwnRowTrue`, `DecidedOnce`,
`ReplayedIsStored`, `SecondRowWasLetter`; and `RateAsTold`, `MergeIsIntersection` and
`WindowsBounded`, of which `LimitsAsTold` is made.

## 7. Abstractions

- In `PolicyChannel` a row is what enforcement reads of it.  Constraints, expiry, names,
  profiles and node parameters that ride on the same answers are left out there.
- The deny-list is kept by grant.  The pairs it also names belong to the hook's decision.
- `applyDelta` also refuses a delta that starts elsewhere than asked or ends below where
  it began; with one central and one answer at a time neither can happen, the reset takes
  those cases first.
- A batch is sent whole and central stores it whole (one transaction).  In `UsageStream`
  central can store every packet; those it cannot are `DeadLetters`'.  The refusal of a
  batch under another node's certificate is not modelled: it stays queued.
- Urgency, attempt counts and backoff only decide *when* a cycle starts, which the model
  leaves open; so does the ceiling of batches per cycle.
- The outbox is enabled.  A server started without a credential records events and queues
  none.
- A comment in `server/store.js` (422-425) says the supervisor hands its child
  `WINDROW_INCARNATION`; `server/supervisor.js` does not, and each child is a lifetime.
- Sequence numbers, clocks and sizes are unbounded in the code's own arithmetic (Postgres
  BIGINT, JavaScript numbers far below 2^53), so no width is modelled.

- `HookDecision`: a grant covers the call or not; its expiry and constraints, per-call
  velocity and the wording of a denial are left out.  A velocity denial is a choice of
  `Invoke`.  What a pause or a lease holds is chosen at each read from those in force.
- `UsageAudit`: the correction window is part of `GiveUp`.
- `Enrollment`: tokens are of scope *node*; other scopes are refused by the first check.
- `Supervisor`: a client that hangs up only takes its request out; the port handover at
  start and the health page are not modelled.
- `Velocity`: all calls of a pair carry the velocity of its grant; what merges two
  grants' velocities is `Constraints`'.
- `Constraints`: expiry is compared by time, a list by its members; the adapters that
  apply what was merged (`enforce/index.js`) are not modelled.
- `EnforcementWindows`: a signature under a replaced token, like a file that is gone, means that the
  copy says nothing.  What profiles central stores, and who edits them, is a choice of
  `SaveDenyList`.
- `Packages`: one package at central.  The audit entries of a revoke, and the node's own
  `syncPackage`, which is one synchronous call, are left out.
- `Migrations`: a migration is two statements, and hashing anew keeps of a row the form only;
  partitions and the content of the migrations are left out.
- `NodeHealth`: a report is the number of the machine's state and the numbers of the lines.
- `HookWiring`: what else is in a backend's file is left out, as is the notification.
- `DeadLetters`: one event; the roster is `UsageStream`'s.
- `Alerts`: a sweep ends within its tick and both its counts are of that tick; a node has
  one post under way; rules are fixed, and their editing, suppression and the
  notification's wording are left out.
- `NativeObservations`: the spool's size cap, the lines a drain over its limit drops, a
  rename that fails and the principal filled in for a row are left out.  The shipper marks
  all rows it sent, also those that the answer lists as rejected (`nativeShipper.js`:164-175,
  `central/store.js`:647-655); a row that the node's own parser accepted is not rejected.

## 8. Plan

What is left, in this order.

1. A restored central in `PolicyChannel`, whose versions begin again below the nodes'.
2. What is still only partly modelled: the principals' authentication, the adapters that apply
   constraints, the node's own `syncPackage`.
3. `NothingLost` and its relatives with lifetimes out of order: what exactly is lost.

Not modelled: rollup and merge and monthly partitions are sequential jobs over tables;
discovery, the distribution of skills, setup scripts and the MCP server read and write files
of other programs; the dashboard presents what the API says.
