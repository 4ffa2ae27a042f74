-------------------------- MODULE NativeObservations -------------------------
(***************************************************************************)
(* What becomes of the harness's own tool calls (Read, Edit, Bash): a hook *)
(* appends a line to a spool file, the server drains the file into a table *)
(* and ships the table to central (server/nativeObservations.js,           *)
(* server/nativeShipper.js, ingestNativeBatch of server/central/store.js). *)
(* The row's id is a hash of the line, so that a line is its own id.  What *)
(* the hooks write runs beside the server; the server's own steps on files *)
(* and table are synchronous, and it may die between two of them.          *)
(***************************************************************************)
EXTENDS Naturals, FiniteSets

CONSTANTS
  Lines,         \* lines the hooks write
  MaxUnshipped,  \* the cap on rows that wait for central
  MaxPosts,      \* bound: requests to central
  MaxCrashes     \* bound: deaths of the server

ASSUME NativeAssumption == IsFiniteSet(Lines) /\ MaxUnshipped \in Nat \ {0} /\ MaxPosts \in Nat /\ MaxCrashes \in Nat

VARIABLES
  hook,      \* each line: its write to the spool
  journal,   \* the spool file
  draining,  \* the spool file under its second name, if there is one
  drain,     \* the server: where its drain cycle is
  claimed,   \* the server: the lines it has read
  row,       \* native_tool_events: each line's row
  old,       \* the lines past the retention window
  given,     \* history: the lines given up
  shipping,  \* the server: has startNativeShipper run
  awaiting,  \* the server: the request it awaits an answer of, or 0
  post,      \* the requests: lines, and where each is at central
  central,   \* central: its rows of each line
  crashes

spoolVars == <<hook, journal, draining>>
drainVars == <<drain, claimed>>
shipVars == <<shipping, awaiting, post>>
nativeVars == <<spoolVars, drainVars, row, old, given, shipVars, central, crashes>>

NoFile == [exists |-> FALSE, lines |-> {}]
File(lines) == [exists |-> TRUE, lines |-> lines]
InRow(where) == {l \in Lines : row[l] = where}
Posts == 1 .. MaxPosts

NativeInit ==
  /\ hook = [l \in Lines |-> "idle"] /\ journal = NoFile /\ draining = NoFile
  /\ drain = "down" /\ claimed = {}
  /\ row = [l \in Lines |-> "absent"] /\ old = {} /\ given = {}
  /\ shipping = FALSE /\ awaiting = 0
  /\ post = [k \in Posts |-> [lines |-> {}, fresh |-> {}, step |-> "none"]]
  /\ central = [l \in Lines |-> 0] /\ crashes = 0

-----------------------------------------------------------------------------
(* The hooks *)

(* appendFileSync: the file is opened under its first name ...             *)
OpenSpool(l) ==
  /\ hook[l] = "idle"
  /\ hook' = [hook EXCEPT ![l] = "open"]
  /\ journal' = File(journal.lines)
  /\ UNCHANGED <<draining, drainVars, row, old, given, shipVars, central, crashes>>

(* ... and written to, whatever has become of it.                          *)
AppendLine(l) ==
  /\ hook[l] \in {"open", "renamed", "unlinked"}
  /\ hook' = [hook EXCEPT ![l] = "done"]
  /\ CASE hook[l] = "open"     -> journal' = File(journal.lines \cup {l}) /\ UNCHANGED <<draining, given>>
       [] hook[l] = "renamed"  -> draining' = File(draining.lines \cup {l}) /\ UNCHANGED <<journal, given>>
       [] hook[l] = "unlinked" -> given' = given \cup {l} /\ UNCHANGED <<journal, draining>>
  /\ UNCHANGED <<drainVars, row, old, shipVars, central, crashes>>

Follow(from, to) == [l \in Lines |-> IF hook[l] = from THEN to ELSE hook[l]]

-----------------------------------------------------------------------------
(* One cycle of the drain: claimSpool, insertNativeToolEvents, prune       *)

(* index.js starts the drain, whose first cycle runs at once, and then the *)
(* shipper.                                                                *)
Boot ==
  /\ drain = "down"
  /\ drain' = "claim"
  /\ UNCHANGED <<spoolVars, claimed, row, old, given, shipVars, central, crashes>>

Tick ==
  /\ drain = "idle"
  /\ drain' = "claim"
  /\ UNCHANGED <<spoolVars, claimed, row, old, given, shipVars, central, crashes>>

(* A file that an earlier cycle left is finished first.                    *)
ClaimSpool ==
  /\ drain = "claim"
  /\ IF ~draining.exists /\ journal.exists
     THEN draining' = journal /\ journal' = NoFile /\ hook' = Follow("open", "renamed")
     ELSE UNCHANGED spoolVars
  /\ drain' = IF draining'.exists THEN "read" ELSE "prune"
  /\ UNCHANGED <<claimed, row, old, given, shipVars, central, crashes>>

ReadSpool ==
  /\ drain = "read"
  /\ claimed' = draining.lines
  /\ drain' = IF draining.lines = {} THEN "unlink" ELSE "insert"
  /\ UNCHANGED <<spoolVars, row, old, given, shipVars, central, crashes>>

(* Mutant: the file goes before its lines are rows.                        *)
InsertUnlinked ==
  /\ drain = "insert"
  /\ IF draining.exists
     THEN draining' = NoFile /\ hook' = Follow("renamed", "unlinked") /\ UNCHANGED <<drain, row>>
     ELSE /\ row' = [l \in Lines |-> IF l \in claimed /\ row[l] = "absent" THEN "unshipped" ELSE row[l]]
          /\ drain' = "prune" /\ UNCHANGED <<draining, hook>>
  /\ UNCHANGED <<journal, claimed, old, given, shipVars, central, crashes>>

(* One transaction, INSERT OR IGNORE; a failure is logged, and the batch   *)
(* goes with the file.                                                     *)
InsertNativeToolEvents ==
  /\ drain = "insert"
  /\ drain' = "unlink"
  /\ \/ /\ row' = [l \in Lines |-> IF l \in claimed /\ row[l] = "absent" THEN "unshipped" ELSE row[l]]
        /\ UNCHANGED given
     \/ given' = given \cup claimed /\ UNCHANGED row
  /\ UNCHANGED <<spoolVars, claimed, old, shipVars, central, crashes>>

(* What was appended since the read goes with the file.                    *)
UnlinkSpool ==
  /\ drain = "unlink"
  /\ given' = given \cup (draining.lines \ claimed)
  /\ draining' = NoFile /\ hook' = Follow("renamed", "unlinked")
  /\ drain' = "prune"
  /\ UNCHANGED <<journal, claimed, row, old, shipVars, central, crashes>>

(* A fortnight passes.                                                     *)
Fortnight(l) ==
  /\ drain \in {"idle", "down"} /\ l \notin old /\ hook[l] = "done"
  /\ old' = old \cup {l}
  /\ UNCHANGED <<spoolVars, drainVars, row, given, shipVars, central, crashes>>

(* Unshipped rows are spared while isShipping().                           *)
Prune ==
  /\ drain = "prune"
  /\ LET gone == {l \in old : row[l] = "shipped" \/ (row[l] = "unshipped" /\ ~shipping)}
     IN  /\ row' = [l \in Lines |-> IF l \in gone THEN "absent" ELSE row[l]]
         /\ given' = given \cup gone
  /\ drain' = "idle" /\ claimed' = {}
  /\ UNCHANGED <<spoolVars, old, shipVars, central, crashes>>

-----------------------------------------------------------------------------
(* The shipper *)

StartNativeShipper ==
  /\ drain = "idle" /\ ~shipping
  /\ shipping' = TRUE
  /\ UNCHANGED <<spoolVars, drainVars, row, old, given, awaiting, post, central, crashes>>

ShipOnce(k) ==
  /\ drain = "idle" /\ shipping /\ awaiting = 0 /\ InRow("unshipped") # {}
  /\ post[k].step = "none" /\ \A j \in Posts : j < k => post[j].step # "none"
  /\ post' = [post EXCEPT ![k] = [lines |-> InRow("unshipped"), fresh |-> {}, step |-> "sent"]]
  /\ awaiting' = k
  /\ UNCHANGED <<spoolVars, drainVars, row, old, given, shipping, central, crashes>>

(* ingestNativeBatch: what is new is looked up by id in a transaction that *)
(* sees what was committed before; the key of the rows it then inserts     *)
(* holds the time of arrival.                                              *)
LookUp(k) ==
  /\ post[k].step = "sent"
  /\ post' = [post EXCEPT ![k].step = "open", ![k].fresh = {l \in post[k].lines : central[l] = 0}]
  /\ UNCHANGED <<spoolVars, drainVars, row, old, given, shipping, awaiting, central, crashes>>

IngestNativeBatch(k) ==
  /\ post[k].step = "open"
  /\ central' = [l \in Lines |-> IF l \in post[k].fresh THEN central[l] + 1 ELSE central[l]]
  /\ post' = [post EXCEPT ![k].step = "stored"]
  /\ UNCHANGED <<spoolVars, drainVars, row, old, given, shipping, awaiting, crashes>>

(* The request never gets there, or the transaction is rolled back.        *)
LosePost(k) ==
  /\ post[k].step \in {"sent", "open"}
  /\ post' = [post EXCEPT ![k].step = "lost"]
  /\ UNCHANGED <<spoolVars, drainVars, row, old, given, shipping, awaiting, central, crashes>>

(* The cycle ends with as many unshipped rows as the cap allows: the oldest*)
(* go.                                                                     *)
TrimUnshipped(rows) ==
  LET queue == {l \in Lines : rows[l] = "unshipped"}
  IN  \E dropped \in SUBSET queue :
        /\ Cardinality(dropped) =
             IF Cardinality(queue) > MaxUnshipped THEN Cardinality(queue) - MaxUnshipped ELSE 0
        /\ \A l \in dropped, kept \in queue \ dropped : kept \in old => l \in old
        /\ row' = [l \in Lines |-> IF l \in dropped THEN "absent" ELSE rows[l]]
        /\ given' = given \cup dropped

(* Mutant: the rows that are unshipped now.                                *)
MarkQueue(k) ==
  /\ drain = "idle" /\ awaiting = k /\ post[k].step = "stored"
  /\ TrimUnshipped([l \in Lines |-> IF row[l] = "unshipped" THEN "shipped" ELSE row[l]])
  /\ awaiting' = 0
  /\ UNCHANGED <<spoolVars, drainVars, old, shipping, post, central, crashes>>

(* The rows that were sent, those that are still there.                    *)
MarkShipped(k) ==
  /\ drain = "idle" /\ awaiting = k /\ post[k].step = "stored"
  /\ TrimUnshipped([l \in Lines |-> IF l \in post[k].lines /\ row[l] = "unshipped" THEN "shipped" ELSE row[l]])
  /\ awaiting' = 0
  /\ UNCHANGED <<spoolVars, drainVars, old, shipping, post, central, crashes>>

(* Time is up, or the connection breaks: central may go on.                *)
ShipFailed ==
  /\ drain = "idle" /\ awaiting # 0
  /\ TrimUnshipped(row)
  /\ awaiting' = 0
  /\ UNCHANGED <<spoolVars, drainVars, old, shipping, post, central, crashes>>

(* The server dies, at any point.                                          *)
NativeCrash ==
  /\ drain # "down" /\ crashes < MaxCrashes
  /\ crashes' = crashes + 1
  /\ drain' = "down" /\ claimed' = {} /\ shipping' = FALSE /\ awaiting' = 0
  /\ UNCHANGED <<spoolVars, row, old, given, post, central>>

NativeNext ==
  \/ \E l \in Lines : OpenSpool(l) \/ AppendLine(l) \/ Fortnight(l)
  \/ Boot \/ Tick \/ ClaimSpool \/ ReadSpool \/ InsertNativeToolEvents \/ UnlinkSpool \/ Prune
  \/ StartNativeShipper \/ ShipFailed \/ NativeCrash
  \/ \E k \in Posts : ShipOnce(k) \/ LookUp(k) \/ IngestNativeBatch(k) \/ LosePost(k) \/ MarkShipped(k)

NativeSpec == NativeInit /\ [][NativeNext]_nativeVars

-----------------------------------------------------------------------------
(* Properties *)

Files == {NoFile} \cup {File(S) : S \in SUBSET Lines}

NativeTypeOK ==
  /\ hook \in [Lines -> {"idle", "open", "renamed", "unlinked", "done"}]
  /\ journal \in Files /\ draining \in Files
  /\ drain \in {"down", "idle", "claim", "read", "insert", "unlink", "prune"} /\ claimed \subseteq Lines
  /\ row \in [Lines -> {"absent", "unshipped", "shipped"}] /\ old \subseteq Lines /\ given \subseteq Lines
  /\ shipping \in BOOLEAN /\ awaiting \in 0 .. MaxPosts
  /\ post \in [Posts -> [lines : SUBSET Lines, fresh : SUBSET Lines,
                         step : {"none", "sent", "open", "stored", "lost"}]]
  /\ central \in [Lines -> 0 .. MaxPosts] /\ crashes \in 0 .. MaxCrashes

(* A line that a hook has written is in a file, in the table or at central *)
(* unless it was given up: by a failed insert, by retention, by the cap on *)
(* the queue, or because it came between the drain's read and its unlink.  *)
(* No death of the server loses one, wherever it strikes.                  *)
NoneMislaid ==
  \A l \in Lines : hook[l] = "done" =>
    l \in journal.lines \cup draining.lines \cup InRow("unshipped") \cup InRow("shipped") \cup given
    \/ central[l] > 0

(* What the node takes for delivered, and lets retention delete, central   *)
(* has: whatever was inserted while the answer was under way, and whatever *)
(* request the answer belongs to.                                          *)
ShippedIsAtCentral == \A l \in InRow("shipped") : central[l] > 0

(* "Spare what central has not confirmed": on a node that ships, retention *)
(* takes no row that central does not have.                                *)
UnshippedSpared ==
  [][Prune => \A l \in Lines : row[l] = "unshipped" /\ row'[l] = "absent" => central[l] > 0]_nativeVars

(* Refuted (README, section 5).  "The same observation redelivered is the  *)
(* same id" (central/store.js): central has one row of an observation.     *)
OneSighting == \A l \in Lines : central[l] <= 1
=============================================================================
