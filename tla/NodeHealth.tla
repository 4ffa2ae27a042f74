------------------------------ MODULE NodeHealth -----------------------------
(***************************************************************************)
(* What a node says of itself to central: server/nodeHealth.js, and        *)
(* ingestNodeHealth with ingestFaultJournal in server/central/store.js.    *)
(* A report carries the state of the hooks' wiring and of the enforcement  *)
(* as it is when it is sent, and the next lines of the journal that the    *)
(* hooks write of the calls they decided by themselves.                    *)
(***************************************************************************)
EXTENDS Integers, Sequences, FiniteSets

CONSTANTS
  MaxLines,    \* bound: lines that the hooks begin, each known by its number
  Unstorable,  \* lines that central's database will not take
  SliceLines,  \* lines of which JOURNAL_MAX_BYTES and JOURNAL_MAX_LINES allow one report
  MaxWiring,   \* bound: states of the machine, in the order they come
  MaxTrouble   \* bound: requests given up, processes that die, lines torn, files replaced

ASSUME NodeHealthAssumption ==
  /\ {MaxLines, MaxWiring, MaxTrouble} \subseteq Nat /\ SliceLines \in Nat \ {0}
  /\ Unstorable \subseteq 1 .. MaxLines

VARIABLES
  journal,    \* the file: lines, by number, or Torn
  lastLine,   \* the last line begun
  half,       \* whether a hook died in the middle of the last one
  file,       \* which file it is
  mark,       \* the node mark: lines of the file that central has taken
  markFile,   \* which file the mark was set in
  wiring,     \* the machine's present state
  reports,    \* under way, or still being worked on at central
  faultRows,  \* central: node_fault_journal
  told,       \* central: the roster's account of the machine
  counted,    \* central: journalEntries
  trouble

healthVars == <<journal, lastLine, half, file, mark, markFile, wiring, reports, faultRows, told, counted, trouble>>

Torn == 0
Skipped == 0    \* no file: some lines before the mark have never been read

HealthInit ==
  /\ journal = <<>> /\ lastLine = 0 /\ half = FALSE /\ file = 1
  /\ mark = 0 /\ markFile = 1
  /\ wiring = 1
  /\ reports = {} /\ faultRows = {} /\ told = 0 /\ counted = 0
  /\ trouble = 0

Trouble == trouble < MaxTrouble /\ trouble' = trouble + 1

-----------------------------------------------------------------------------
(* The machine *)

Change ==
  /\ wiring < MaxWiring
  /\ wiring' = wiring + 1
  /\ UNCHANGED <<journal, lastLine, half, file, mark, markFile, reports, faultRows, told, counted, trouble>>

(* journalFault: one append.  Behind half a line there is no new one.      *)
JournalFault ==
  /\ lastLine < MaxLines
  /\ lastLine' = lastLine + 1
  /\ journal' = Append(journal, IF half THEN Torn ELSE lastLine + 1)
  /\ half' = FALSE
  /\ UNCHANGED <<file, mark, markFile, wiring, reports, faultRows, told, counted, trouble>>

TearLine ==
  /\ ~half /\ lastLine < MaxLines /\ Trouble
  /\ lastLine' = lastLine + 1
  /\ half' = TRUE
  /\ UNCHANGED <<journal, file, mark, markFile, wiring, reports, faultRows, told, counted>>

(* Somebody removes the journal.                                           *)
ReplaceJournal ==
  /\ journal # <<>> /\ Trouble
  /\ journal' = <<>> /\ half' = FALSE /\ file' = file + 1
  /\ UNCHANGED <<lastLine, mark, markFile, wiring, reports, faultRows, told, counted>>

-----------------------------------------------------------------------------
(* The node's reporter *)

inFlight == \E r \in reports : r.waited

(* The lines that can be read; what is torn is skipped.                    *)
LinesOf(list) == {list[i] : i \in 1 .. Len(list)} \ {Torn}
Shorter(a, b) == IF a <= b THEN a ELSE b

(* A file that is shorter than the mark is read from its start.            *)
SliceFrom == IF mark > Len(journal) THEN 0 ELSE mark
SliceThrough == Shorter(SliceFrom + SliceLines, Len(journal))
readJournalSlice == SubSeq(journal, SliceFrom + 1, SliceThrough)

Slice ==
  [lines |-> LinesOf(readJournalSlice), through |-> SliceThrough, wiring |-> wiring,
   file |-> IF SliceFrom = 0 \/ markFile = file THEN file ELSE Skipped,
   left |-> LinesOf(readJournalSlice), fresh |-> {}, stage |-> "lines", waited |-> TRUE]

Replace(r, new) == reports' = (reports \ {r}) \cup new

(* Mutant: the mark is set when the report is sent.                        *)
ReportNowHopeful ==
  /\ ~inFlight
  /\ reports' = reports \cup {Slice}
  /\ mark' = SliceThrough /\ markFile' = Slice.file
  /\ UNCHANGED <<journal, lastLine, half, file, wiring, faultRows, told, counted, trouble>>

(* At start, at each interval, and when the hooks' watcher has found a     *)
(* change; nothing while a report is awaited.                              *)
ReportNow ==
  /\ ~inFlight
  /\ reports' = reports \cup {Slice}
  /\ UNCHANGED <<journal, lastLine, half, file, mark, markFile, wiring, faultRows, told, counted, trouble>>

(* The mark is set by an answer that says how many lines were taken, if    *)
(* there were any.                                                         *)
Acknowledged(r) ==
  /\ r.waited /\ r.stage = "done"
  /\ Replace(r, {})
  /\ IF r.lines # {} THEN mark' = r.through /\ markFile' = r.file ELSE UNCHANGED <<mark, markFile>>
  /\ UNCHANGED <<journal, lastLine, half, file, wiring, faultRows, told, counted, trouble>>

(* The request fails, the answer takes too long, or the node dies: nothing *)
(* is queued, and central may be at work on it still.                      *)
GivenUp(r) ==
  /\ r.waited /\ Trouble
  /\ Replace(r, {}) \/ Replace(r, {[r EXCEPT !.waited = FALSE]})
  /\ UNCHANGED <<journal, lastLine, half, file, mark, markFile, wiring, faultRows, told, counted>>

-----------------------------------------------------------------------------
(* Central, where each statement commits by itself *)

(* ingestFaultJournal: line by line, in their order.  One that is there    *)
(* already is left.  One that the database refuses ends the request, and   *)
(* what follows it is not done.                                            *)
IngestLine(r) ==
  /\ r.stage = "lines"
  /\ \E line \in r.left :
       /\ \A other \in r.left : line <= other
       /\ IF line \in Unstorable
          THEN Replace(r, {}) /\ UNCHANGED faultRows
          ELSE /\ faultRows' = faultRows \cup {line}
               /\ Replace(r, {[r EXCEPT !.left = @ \ {line}, !.fresh = @ \cup ({line} \ faultRows)]})
  /\ UNCHANGED <<journal, lastLine, half, file, mark, markFile, wiring, told, counted, trouble>>

(* Mutant: the roster's row is inserted, and never updated.                *)
UpsertOnce(r) ==
  /\ r.stage = "lines" /\ r.left = {}
  /\ told' = IF told = 0 THEN r.wiring ELSE told
  /\ Replace(r, {[r EXCEPT !.stage = "count"]})
  /\ UNCHANGED <<journal, lastLine, half, file, mark, markFile, wiring, faultRows, counted, trouble>>

(* The report that comes last is the one the roster shows.                 *)
UpsertRoster(r) ==
  /\ r.stage = "lines" /\ r.left = {}
  /\ told' = r.wiring
  /\ Replace(r, {[r EXCEPT !.stage = "count"]})
  /\ UNCHANGED <<journal, lastLine, half, file, mark, markFile, wiring, faultRows, counted, trouble>>

CountLines(r) ==
  /\ r.stage = "count"
  /\ counted' = counted + Cardinality(r.fresh)
  /\ Replace(r, IF r.waited THEN {[r EXCEPT !.stage = "done"]} ELSE {})
  /\ UNCHANGED <<journal, lastLine, half, file, mark, markFile, wiring, faultRows, told, trouble>>

-----------------------------------------------------------------------------
Reporting ==
  ReportNow \/ \E r \in reports : Acknowledged(r) \/ IngestLine(r) \/ UpsertRoster(r) \/ CountLines(r)

HealthNext ==
  \/ Change \/ JournalFault \/ TearLine \/ ReplaceJournal
  \/ Reporting
  \/ \E r \in reports : GivenUp(r)

(* The reporter's interval goes on for as long as the node runs, and       *)
(* central works on what it has.                                           *)
HealthSpec == HealthInit /\ [][HealthNext]_healthVars /\ WF_healthVars(Reporting)

-----------------------------------------------------------------------------
(* Properties *)

(* "THE CURSOR ADVANCES ONLY ON AN ACK THAT UNDERSTOOD THE JOURNAL, and    *)
(* only past what central actually took" (nodeHealth.js): whatever was     *)
(* lost, late, torn or sent twice, central has every line of the file that *)
(* the mark has passed, unless a new file outgrew the old one's mark       *)
(* before it was looked at.  It does not count a line twice.               *)
EvidenceKept ==
  /\ markFile = file /\ mark <= Len(journal) => LinesOf(SubSeq(journal, 1, mark)) \subseteq faultRows
  /\ counted <= Cardinality(faultRows)

(* "Current state, last-write-wins" (central/store.js): once the machine   *)
(* stays as it is, the roster comes to show it and keeps on doing so, in   *)
(* spite of reports that were given up and arrive late; and all lines that *)
(* are whole come to be at central.  A line that central cannot store      *)
(* stops both.                                                             *)
Ahead == LinesOf(SubSeq(journal, SliceFrom + 1, Len(journal)))
ReportsArrive ==
  <>[](Ahead \cap Unstorable # {} \/ (told = wiring /\ (markFile = file => LinesOf(journal) \subseteq faultRows)))
=============================================================================
