---------------------------- MODULE Reconciliation ---------------------------
(***************************************************************************)
(* The comparison between a node's account of its audit trail and          *)
(* central's copy: the script server/central/shadow-compare.js reads the   *)
(* node's database, one statement at a time and beside a running server,   *)
(* and central's reconcile (server/central/queries.js) gives a verdict.    *)
(***************************************************************************)
EXTENDS UsageStream

VARIABLES
  asking,   \* what has been read so far, by the script and then by central
  report,   \* the script's report: chain head, queue length, event count
  stream,   \* what central has read: its event count, the ledger's gaps
  verdict   \* central's verdict on the report, when it has given one

compareVars == <<asking, report, stream, verdict>>

NoHead == <<>>
NoReport == [head |-> NoHead, pending |-> 0, events |-> 0]
NoStream == [events |-> 0, gaps |-> {}]

-----------------------------------------------------------------------------
(* nodeReport *)

Started == {i \in Lives : chain[i] # <<>>}

(* The first of the node's chain heads, which are listed oldest life first.*)
ChainHead == IF Started = {} THEN NoHead ELSE <<Least(Started), chain[Least(Started)]>>

ReadHead ==
  /\ asking = "nothing"
  /\ report' = [NoReport EXCEPT !.head = ChainHead]
  /\ asking' = "head" /\ verdict' = "none" /\ stream' = NoStream
  /\ UNCHANGED vars

ReadQueue ==
  /\ asking = "head"
  /\ report' = [report EXCEPT !.pending = Cardinality(outbox)]
  /\ asking' = "queue"
  /\ UNCHANGED <<stream, verdict, vars>>

ReadCount ==
  /\ asking = "queue"
  /\ report' = [report EXCEPT !.events = Cardinality(Recorded)]
  /\ asking' = "count"
  /\ UNCHANGED <<stream, verdict, vars>>

-----------------------------------------------------------------------------
(* reconcile, with nodeStream and verifyNodeChain *)

Has(e) == central[e] # <<>>
Numbers(i) == {k[2] : k \in {l \in ledger : l[1] = i}}

(* A hole between two shipments of one life.                               *)
Gaps == {h \in Lives \X (1 .. MaxShipments) :
           h[2] \notin Numbers(h[1]) /\ \E m, o \in Numbers(h[1]) : m < h[2] /\ h[2] < o}

(* The rows of one life in the order of their seq; where seq is not dense  *)
(* (or repeats) something is missing, where it is, the hashes must link.   *)
MissingLinks == {e \in Events : \/ Len(central[e]) > 1
                                \/ /\ Has(e) /\ e[2] > 1 /\ ~Has(<<e[1], e[2] - 1>>)
                                   /\ \E n \in 1 .. e[2] - 1 : Has(<<e[1], n>>)}
Unlinked == {e \in Events : /\ Has(e) /\ e[2] > 1 /\ Has(<<e[1], e[2] - 1>>)
                            /\ LET prev == central[<<e[1], e[2] - 1>>]
                               IN  prev[Len(prev)] # SubSeq(central[e][1], 1, e[2] - 1)}

(* The newest life's last row.                                             *)
CentralHead ==
  LET i == Greatest({e[1] : e \in {f \in Events : Has(f)}})
      n == Greatest({e[2] : e \in {f \in Events : f[1] = i /\ Has(f)}})
  IN  <<i, central[<<i, n>>][Len(central[<<i, n>>])]>>

ReadEvents ==
  /\ asking = "count"
  /\ stream' = [stream EXCEPT !.events = Cardinality(RowsHeld)]
  /\ asking' = "events"
  /\ UNCHANGED <<report, verdict, vars>>

ReadGaps ==
  /\ asking = "events"
  /\ stream' = [stream EXCEPT !.gaps = Gaps]
  /\ asking' = "gaps"
  /\ UNCHANGED <<report, verdict, vars>>

Behind == report.events - stream.events
HeadsDiffer == report.head # NoHead /\ RowsHeld # {} /\ report.head # CentralHead

(* Mutant: the chain heads not compared.                                   *)
VerdictByCount ==
  IF stream.gaps # {} THEN IF Unlinked # {} THEN "divergent" ELSE "gap"
  ELSE IF MissingLinks \cup Unlinked # {} \/ Behind < 0 THEN "divergent"
  ELSE IF Behind = 0 THEN "match"
  ELSE IF Behind <= report.pending THEN "lagging" ELSE "divergent"

Verdict ==
  IF stream.gaps # {} THEN IF Unlinked # {} THEN "divergent" ELSE "gap"
  ELSE IF MissingLinks \cup Unlinked # {} \/ Behind < 0 THEN "divergent"
  ELSE IF Behind = 0 THEN IF HeadsDiffer THEN "divergent" ELSE "match"
  ELSE IF Behind <= report.pending THEN "lagging" ELSE "divergent"

Reconcile ==
  /\ asking = "gaps"
  /\ verdict' = Verdict
  /\ asking' = "nothing"
  /\ UNCHANGED <<report, stream, vars>>

-----------------------------------------------------------------------------
RInit ==
  /\ Init /\ asking = "nothing"
  /\ report = NoReport /\ stream = NoStream /\ verdict = "none"

Compare == ReadHead \/ ReadQueue \/ ReadCount \/ ReadEvents \/ ReadGaps \/ Reconcile
RNext == Compare \/ (Next /\ UNCHANGED compareVars)

RSafety == RInit /\ [][RNext]_<<vars, compareVars>>

-----------------------------------------------------------------------------
(* Properties *)

Judged == asking = "gaps" /\ asking' = "nothing"

(* A match is worth what the go/no-go of phase 4 takes it for: central has *)
(* every event of the reported chain, saying what the node said when it    *)
(* reported, or a correction made since.                                   *)
MatchMeansSame ==
  [][Judged /\ verdict' = "match" /\ report.head # NoHead =>
       \A n \in 1 .. Len(report.head[2]) :
         LET e == <<report.head[1], n>>
         IN  Has(e) /\ central[e][1][n] \in {report.head[2][n], "final"}]_compareVars

(* A gap is reported only if the node did drop shipments.                  *)
GapIsTrim == verdict = "gap" => trimmed # {}

(* Only this pipeline writes the two copies here, so central never calls   *)
(* them divergent ("written by something other than this pipeline") when   *)
(* the node is quiet: all is delivered, and the report says what the node  *)
(* would still say.                                                        *)
Quiet ==
  /\ outbox = {} /\ delayed = {}
  /\ stream = [events |-> Cardinality(RowsHeld), gaps |-> Gaps]
  /\ report = [head |-> ChainHead, pending |-> 0, events |-> Cardinality(Recorded)]
QuietNeverDivergent == [][Judged /\ Quiet => verdict' # "divergent"]_compareVars
=============================================================================
