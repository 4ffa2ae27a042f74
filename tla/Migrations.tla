----------------------------- MODULE Migrations ------------------------------
(***************************************************************************)
(* How a database is brought to the schema of the build that opens it:     *)
(* server/schema/migrator.js with its SQLite and Postgres drivers, and what *)
(* the node's store does at boot with what a migration signalled: it       *)
(* hashes its chains anew (server/store.js).  The database is a node's or  *)
(* central's; several processes, of several builds, open it.               *)
(*                                                                         *)
(* A hash is the sequence of the canonical forms that the rows before it   *)
(* and its own were hashed under.  A form is named by the version that     *)
(* brought it; nobody edits a row behind the store's back.                 *)
(***************************************************************************)
EXTENDS Integers, Sequences, FiniteSets

CONSTANTS
  Openers,       \* processes
  LastVersion,   \* of the newest build
  Signalling,    \* versions that change the canonical form and signal a re-chain
  LifeVersion,   \* the version that gives each lifetime a chain: a form, and no signal
  MaxRows,       \* bound: rows in all
  MaxBreaks      \* bound: crashes

ASSUME MigrationsAssumption ==
  /\ {LastVersion, MaxRows, MaxBreaks} \subseteq Nat
  /\ Signalling \cup {LifeVersion} \subseteq 1 .. LastVersion

VARIABLES
  engine,   \* "sqlite" at a node, "postgres" at central
  shape,    \* the statements of the migrations that the schema shows
  ledger,   \* schema_migrations
  opener,   \* each process
  chains,   \* the rows of each chain
  heads,    \* usage_chain_heads
  breaks,
  spoilt    \* whether one of the ways in which a chain is lost has come about

migrationVars == <<engine, shape, ledger, opener, chains, heads, breaks, spoilt>>

SchemaVersions == 1 .. LastVersion
Statements == 1 .. 2          \* in each migration
Highest(S) == CHOOSE n \in S \cup {0} : \A m \in S : m <= n

(* 'inc_0' for the rows of before, then a lifetime's.  The processes of one *)
(* WINDROW_INCARNATION share it; without, the chain of each is shorter.    *)
ChainNames == <<"inc_0", "life">>
ChainOf(build) == IF build < LifeVersion THEN "inc_0" ELSE "life"

FormOf(build) == Highest({f \in {1} \cup Signalling \cup {LifeVersion} : f <= build})
FormsOf(build) == {FormOf(b) : b \in 1 .. build}

Down == [pc |-> "down", build |-> 0, next |-> 0, statement |-> 0, signals |-> {}, chain |-> 0, row |-> 0, rows |-> 0]

MigrationInit ==
  /\ engine \in {"sqlite", "postgres"}
  /\ shape = {} /\ ledger = {}
  /\ opener = [p \in Openers |-> Down]
  /\ chains = [c \in {"inc_0", "life"} |-> <<>>]
  /\ heads = [c \in {"inc_0", "life"} |-> <<>>]
  /\ breaks = 0
  /\ spoilt = FALSE

-----------------------------------------------------------------------------
(* migrate *)

StatementsOf(v) == {v} \X Statements

(* The node's first migration makes the whole shape that its build knows.  *)
Makes(v, build) ==
  IF engine = "sqlite" /\ v = 1 THEN UNION {StatementsOf(w) : w \in 1 .. build} ELSE StatementsOf(v)

(* A column that was not there yet has been added.                         *)
Signals(v) == IF v \in Signalling /\ ~StatementsOf(v) \subseteq shape THEN {v} ELSE {}

(* Nothing keeps the others out while the chains are hashed anew.          *)
Beside(p) == \E q \in Openers \ {p} : opener[q].signals # {}

(* The version is read; a database of a newer build is refused.            *)
OpenDatabase(p, build) ==
  /\ opener[p].pc = "down"
  /\ Highest(ledger) <= build
  /\ opener' = [opener EXCEPT ![p] =
       IF Highest(ledger) = build THEN [Down EXCEPT !.pc = "open", !.build = build]
       ELSE [Down EXCEPT !.pc = "up", !.build = build, !.next = Highest(ledger) + 1, !.statement = 1]]
  /\ UNCHANGED <<engine, shape, ledger, chains, heads, breaks, spoilt>>

(* The signals are read once the whole list has run.                       *)
AfterOne(p, signals) ==
  LET done == [opener[p] EXCEPT !.next = @ + 1, !.statement = 1, !.signals = signals]
  IN  IF opener[p].next < opener[p].build THEN done
      ELSE IF signals = {} THEN [done EXCEPT !.pc = "open"]
      ELSE [done EXCEPT !.pc = "rechain", !.chain = 1, !.row = 1, !.rows = Len(chains["inc_0"])]

(* The ledger has the version already: another process was faster, and     *)
(* this one throws.  What it was to do because of a signal nobody does.    *)
Lost(p) ==
  /\ opener' = [opener EXCEPT ![p] = Down]
  /\ spoilt' = (spoilt \/ opener[p].signals # {})

(* SQLite: the migration and its row in the ledger commit together.        *)
UpTogether(p) ==
  LET v == opener[p].next
  IN  /\ engine = "sqlite" /\ opener[p].pc = "up"
      /\ IF v \in ledger
         THEN Lost(p) /\ UNCHANGED <<shape, ledger>>
         ELSE /\ shape' = shape \cup Makes(v, opener[p].build)
              /\ ledger' = ledger \cup {v}
              /\ opener' = [opener EXCEPT ![p] = AfterOne(p, opener[p].signals \cup Signals(v))]
              /\ spoilt' = (spoilt \/ (Signals(v) # {} /\ Beside(p)))
      /\ UNCHANGED <<engine, chains, heads, breaks>>

(* Postgres: BEGIN and COMMIT go to one connection of the pool, and the    *)
(* statements between them to others, where each commits by itself.        *)
Exec(p) ==
  /\ engine = "postgres" /\ opener[p].pc = "up" /\ opener[p].statement \in Statements
  /\ shape' = shape \cup {<<opener[p].next, opener[p].statement>>}
  /\ opener' = [opener EXCEPT ![p].statement = @ + 1]
  /\ UNCHANGED <<engine, ledger, chains, heads, breaks, spoilt>>

(* Mutant: the version is recorded before the last statement.              *)
RecordEarly(p) ==
  /\ engine = "postgres" /\ opener[p].pc = "up" /\ opener[p].statement = 2
  /\ ledger' = ledger \cup {opener[p].next}
  /\ opener' = [opener EXCEPT ![p] = AfterOne(p, {})]
  /\ UNCHANGED <<engine, shape, chains, heads, breaks, spoilt>>

Record(p) ==
  LET v == opener[p].next
  IN  /\ engine = "postgres" /\ opener[p].pc = "up" /\ opener[p].statement \notin Statements
      /\ IF v \in ledger
         THEN Lost(p) /\ UNCHANGED ledger
         ELSE /\ ledger' = ledger \cup {v}
              /\ opener' = [opener EXCEPT ![p] = AfterOne(p, {})]    \* central's migrations signal nothing
              /\ UNCHANGED spoilt
      /\ UNCHANGED <<engine, shape, chains, heads, breaks>>

-----------------------------------------------------------------------------
(* The node's chains *)

Uniform(form, n) == [i \in 1 .. n |-> form]
Hashed(form, prev) == [prev |-> prev, hash |-> Append(prev, form)]

(* rechainNodeFrom: the rows from one on, under the form of the build.     *)
RechainedFrom(list, from, form) ==
  LET kept == IF from = 1 THEN <<>> ELSE list[from - 1].hash
  IN  [i \in 1 .. Len(list) |->
         IF i < from THEN list[i] ELSE Hashed(form, kept \o Uniform(form, i - from))]

HeadOf(list) == IF list = <<>> THEN <<>> ELSE list[Len(list)].hash

(* Mutant: a re-chain of all leaves the first row as it was.               *)
RechainSecond(p) ==
  LET o == opener[p]  c == ChainNames[o.chain]
  IN  /\ o.pc = "rechain" /\ o.row <= o.rows
      /\ chains' = IF o.row = 1 THEN chains
                   ELSE [chains EXCEPT ![c][o.row] = Hashed(FormOf(o.build), Uniform(FormOf(o.build), o.row - 1))]
      /\ opener' = [opener EXCEPT ![p].row = @ + 1]
      /\ UNCHANGED <<engine, shape, ledger, heads, breaks, spoilt>>

(* At boot each row is updated by a statement of its own, the rows having  *)
(* been read before the first.                                             *)
RechainRow(p) ==
  LET o == opener[p]  c == ChainNames[o.chain]
  IN  /\ o.pc = "rechain" /\ o.row <= o.rows
      /\ chains' = [chains EXCEPT ![c][o.row] = Hashed(FormOf(o.build), Uniform(FormOf(o.build), o.row - 1))]
      /\ opener' = [opener EXCEPT ![p].row = @ + 1]
      /\ UNCHANGED <<engine, shape, ledger, heads, breaks, spoilt>>

RechainHead(p) ==
  LET o == opener[p]  c == ChainNames[o.chain]
  IN  /\ o.pc = "rechain" /\ o.row > o.rows
      /\ heads' = IF o.rows = 0 THEN heads ELSE [heads EXCEPT ![c] = Uniform(FormOf(o.build), o.rows)]
      /\ opener' = [opener EXCEPT ![p] =
           IF o.chain < Len(ChainNames)
           THEN [o EXCEPT !.chain = @ + 1, !.row = 1, !.rows = Len(chains[ChainNames[o.chain + 1]])]
           ELSE [Down EXCEPT !.pc = "open", !.build = o.build]]
      /\ UNCHANGED <<engine, shape, ledger, chains, breaks, spoilt>>

(* A process that runs on while a newer build has migrated its database    *)
(* goes on writing: the version is looked at when a database is opened.    *)
(* So does one that opened it after the first migration of a newer build   *)
(* and before the second.                                                  *)
Outdated(p) == opener[p].build < Highest({v \in SchemaVersions : StatementsOf(v) \subseteq shape})

Writing(p) == engine = "sqlite" /\ opener[p].pc = "open"
RowCount == Len(chains["inc_0"]) + Len(chains["life"])

(* insertUsageEventTx: behind the rows there are.                          *)
InsertUsageEvent(p) ==
  LET c == ChainOf(opener[p].build)
      longer == Append(chains[c], [prev |-> <<>>, hash |-> <<>>])
      hashed == RechainedFrom(longer, Len(longer), FormOf(opener[p].build))
  IN  /\ Writing(p) /\ RowCount < MaxRows
      /\ chains' = [chains EXCEPT ![c] = hashed]
      /\ heads' = [heads EXCEPT ![c] = HeadOf(hashed)]
      /\ spoilt' = (spoilt \/ Outdated(p) \/ Beside(p))
      /\ UNCHANGED <<engine, shape, ledger, opener, breaks>>

(* patchUsageEventTx: a row of any lifetime, and those behind it.  The     *)
(* rows before it keep the form they have.                                 *)
PatchUsageEvent(p, c, k) ==
  LET form == FormOf(opener[p].build)
  IN  /\ Writing(p) /\ k \in 1 .. Len(chains[c])
      /\ c = "life" => opener[p].build >= LifeVersion
      /\ chains' = [chains EXCEPT ![c] = RechainedFrom(@, k, form)]
      /\ heads' = [heads EXCEPT ![c] = HeadOf(chains'[c])]
      /\ spoilt' = (spoilt \/ Outdated(p) \/ Beside(p) \/ (k > 1 /\ chains[c][k].hash[k] # form))
      /\ UNCHANGED <<engine, shape, ledger, opener, breaks>>

-----------------------------------------------------------------------------
(* A process ends: what it held in memory, the signals among it, is gone.  *)
Exit(p) ==
  /\ opener[p].pc # "down"
  /\ IF opener[p].pc = "open" THEN UNCHANGED breaks ELSE breaks < MaxBreaks /\ breaks' = breaks + 1
  /\ opener' = [opener EXCEPT ![p] = Down]
  /\ spoilt' = (spoilt \/ opener[p].signals # {})
  /\ UNCHANGED <<engine, shape, ledger, chains, heads>>

Migrating(p) ==
  \/ \E build \in SchemaVersions : OpenDatabase(p, build)
  \/ UpTogether(p) \/ Exec(p) \/ Record(p)

Chaining(p) ==
  \/ RechainRow(p) \/ RechainHead(p) \/ InsertUsageEvent(p)
  \/ \E c \in {"inc_0", "life"}, k \in 1 .. MaxRows : PatchUsageEvent(p, c, k)

MigrationNext == \E p \in Openers : Migrating(p) \/ Chaining(p) \/ Exit(p)

MigrationSpec == MigrationInit /\ [][MigrationNext]_migrationVars

-----------------------------------------------------------------------------
(* Properties *)

(* "a crash between them would otherwise record work that did not happen   *)
(* (silently skipping it forever)" (migrator.js): whichever processes race *)
(* or die, a version in the ledger has its whole migration in the schema,  *)
(* the ledger has no gap, and whoever has opened the database finds what   *)
(* its build knows.                                                        *)
OpensWhole ==
  /\ ledger = 1 .. Highest(ledger)
  /\ \A v \in ledger : StatementsOf(v) \subseteq shape
  /\ \A p \in Openers : opener[p].pc \in {"rechain", "open"} => 1 .. opener[p].build \subseteq ledger

(* "never half-applied" (migrator.js): with no migration under way, the    *)
(* schema shows all of a migration or nothing of it.                       *)
NeverHalfApplied ==
  (\A p \in Openers : opener[p].pc # "up") =>
    \A v \in SchemaVersions : StatementsOf(v) \subseteq shape \/ StatementsOf(v) \cap shape = {}

(* verifyUsageEventChain: every row, and the head, under one of the forms  *)
(* that the build knows.                                                   *)
Verifies(c, build) ==
  /\ \E form \in FormsOf(build) :
       \A i \in 1 .. Len(chains[c]) : chains[c][i] = Hashed(form, Uniform(form, i - 1))
  /\ heads[c] = HeadOf(chains[c])

(* "so each chain starts unbroken instead of every pre-existing row reading *)
(* as tampered" (store.js): after every upgrade the build that made it, and *)
(* any that follows, finds the chains whole.  Unless a process died, or    *)
(* lost the race, between the commit of a signalling migration and the end *)
(* of the re-chain; another wrote in between, or began a re-chain of its   *)
(* own, or wrote on under an older build; or a row of a lifetime of        *)
(* another form was corrected.                                             *)
VerifiesAfterUpgrade ==
  ~spoilt =>
    \A p \in Openers : opener[p].pc = "open" /\ ~Outdated(p) /\ (\A q \in Openers : opener[q].pc \in {"open", "down"}) =>
      \A c \in {"inc_0", "life"} : Verifies(c, opener[p].build)
=============================================================================
