-------------------------------- MODULE Alerts -------------------------------
(***************************************************************************)
(* Alerts at both ends: a node counts its own calls as they are recorded,  *)
(* central counts what has arrived, and a key of rule, scope and window is *)
(* to make one alert of a breach that both have seen.  server/alerts/      *)
(* rules.js, nodeEngine.js and nodeShipper.js, server/central/             *)
(* alertEngine.js and the alert tables of server/store.js.  There is one   *)
(* rule of each scope, which matches the calls that are modelled, and one  *)
(* subject.                                                                *)
(***************************************************************************)
EXTENDS Integers, Sequences, FiniteSets

CONSTANTS
  Nodes,
  Fleet,           \* the scope of the rule that counts all nodes
  Window, Stride, Cooldown,   \* of the rules, in ticks
  Threshold,       \* [{"node", "fleet"} -> Nat]
  MaxTime,         \* bound: ticks
  MaxCalls,        \* bound: calls
  MaxFaults        \* bound: node restarts, lost answers, shipments trimmed, alerts refused

ASSUME AlertsAssumption ==
  /\ Fleet \notin Nodes /\ IsFiniteSet(Nodes)
  /\ Stride \in Nat \ {0} /\ Window \in Nat /\ Stride <= Window /\ Cooldown \in Nat
  /\ Threshold \in [{"node", "fleet"} -> Nat \ {0}]
  /\ {MaxTime, MaxCalls, MaxFaults} \subseteq Nat

VARIABLES
  time,
  seen,       \* when each node recorded its calls, in order
  came,       \* when central received them, in order; Never for what the queue dropped
  nodeEngine, \* each node's engine: down, idle, scheduled in this tick or before
  nodeAlerts, \* the alerts table of each node
  post,       \* a node's alerts on their way: what central has still to store
  rows,       \* the alerts table of central
  refused,    \* alerts that central listed as rejected
  sweep,      \* central's sweep under way: its time, and what it has still to look at
  swept,      \* when central last swept, to the end
  faults

alertVars == <<time, seen, came, nodeEngine, nodeAlerts, post, rows, refused, sweep, swept, faults>>

Never == -(Window + 1)    \* before any window
NoPost == [keys |-> {}, left |-> {}, step |-> "none"]
NoSweep == [at |-> Never, left |-> {}, clear |-> {}]
Scopes == Nodes \cup {Fleet}
NodesOf(scope) == IF scope = Fleet THEN Nodes ELSE {scope}
ThresholdOf(scope) == IF scope = Fleet THEN Threshold["fleet"] ELSE Threshold["node"]

AlertsInit ==
  /\ time = 0
  /\ seen = [n \in Nodes |-> <<>>] /\ came = [n \in Nodes |-> <<>>]
  /\ nodeEngine = [n \in Nodes |-> "due"]
  /\ nodeAlerts = [n \in Nodes |-> {}] /\ post = [n \in Nodes |-> NoPost]
  /\ rows = {} /\ refused = {}
  /\ sweep = NoSweep /\ swept = Never
  /\ faults = 0

-----------------------------------------------------------------------------
(* Windows and keys, which both ends compute                               *)

(* Mutant: the window ends where the bucket begins.                        *)
windowBefore(at) == (at \div Stride) * Stride - Window

(* The window that closes at the end of the bucket of the present time.    *)
windowFor(at) == (at \div Stride + 1) * Stride - Window

InWindow(at, start) == start <= at /\ at < start + Window
Count(times, start) == Cardinality({i \in DOMAIN times : InWindow(times[i], start)})

(* The rows of a scope in a table of calls: each by its node and number.   *)
RowsOf(table, scope) == UNION {{n} \X DOMAIN table[n] : n \in NodesOf(scope)}

Recent(firedAt, at) == at - firedAt < Cooldown

-----------------------------------------------------------------------------
(* A node                                                                  *)

Up(n) == nodeEngine[n] # "down"

(* A call is recorded, and an evaluation scheduled if none is.             *)
RecordCall(n) ==
  /\ Up(n) /\ Cardinality(RowsOf(seen, Fleet)) < MaxCalls
  /\ seen' = [seen EXCEPT ![n] = Append(@, time)]
  /\ nodeEngine' = [nodeEngine EXCEPT ![n] = IF @ = "idle" THEN "scheduled" ELSE @]
  /\ UNCHANGED <<time, came, nodeAlerts, post, rows, refused, sweep, swept, faults>>

Cool(n) == \E a \in nodeAlerts[n] : Recent(a.at, time)

Breach(n) == Count(seen[n], windowFor(time)) >= Threshold["node"]

recordAlert(n) ==
  nodeAlerts' = [nodeAlerts EXCEPT ![n] =
    IF \E a \in @ : a.window = windowFor(time) THEN @
    ELSE @ \cup {[window |-> windowFor(time), at |-> time, synced |-> FALSE]}]

(* When the wait that a call began is over, and at any time by a timer.    *)
evaluateNow(n) ==
  /\ Up(n)
  /\ nodeEngine' = [nodeEngine EXCEPT ![n] = "idle"]
  /\ IF Breach(n) /\ ~Cool(n) THEN recordAlert(n) ELSE UNCHANGED nodeAlerts
  /\ UNCHANGED <<time, seen, came, post, rows, refused, sweep, swept, faults>>

(* The usage shipper delivers the oldest calls, or has dropped them.       *)
ShipCall(n) ==
  /\ Len(came[n]) < Len(seen[n])
  /\ came' = [came EXCEPT ![n] = Append(@, time)]
  /\ UNCHANGED <<time, seen, nodeEngine, nodeAlerts, post, rows, refused, sweep, swept, faults>>

TrimCall(n) ==
  /\ Len(came[n]) < Len(seen[n]) /\ faults < MaxFaults
  /\ faults' = faults + 1
  /\ came' = [came EXCEPT ![n] = Append(@, Never)]
  /\ UNCHANGED <<time, seen, nodeEngine, nodeAlerts, post, rows, refused, sweep, swept>>

(* After every evaluation, and once a minute: what is not synced is posted,*)
(* unless a post is under way.                                             *)
shipAlertsNow(n) ==
  LET pending == {a.window : a \in {b \in nodeAlerts[n] : ~b.synced}}
  IN  /\ Up(n) /\ post[n] = NoPost /\ pending # {}
      /\ post' = [post EXCEPT ![n] = [keys |-> pending, left |-> pending, step |-> "sent"]]
      /\ UNCHANGED <<time, seen, came, nodeEngine, nodeAlerts, rows, refused, sweep, swept, faults>>

FiredAt(n, w) == (CHOOSE a \in nodeAlerts[n] : a.window = w).at

Row(scope, w, by, at) == [scope |-> scope, window |-> w, by |-> by, at |-> at, peer |-> FALSE]
Keyed(scope, w) == {r \in rows : r.scope = scope /\ r.window = w}

(* Whoever comes first has the row; the other end leaves its count on it.  *)
upsertAlert(scope, w, by, at) ==
  rows' = IF Keyed(scope, w) = {} THEN rows \cup {Row(scope, w, by, at)}
          ELSE {IF r \in Keyed(scope, w) /\ r.by # by THEN [r EXCEPT !.peer = TRUE] ELSE r : r \in rows}

(* Central stores them one by one, each in a statement of its own.         *)
ingestNodeAlerts(n, w) ==
  /\ w \in post[n].left
  /\ post' = [post EXCEPT ![n].left = @ \ {w}]
  /\ upsertAlert(n, w, "node", FiredAt(n, w))
  /\ UNCHANGED <<time, seen, came, nodeEngine, nodeAlerts, refused, sweep, swept, faults>>

(* One of them cannot be stored: it is listed as rejected, and the rest go on. *)
RejectAlert(n, w) ==
  /\ w \in post[n].left /\ faults < MaxFaults
  /\ faults' = faults + 1
  /\ post' = [post EXCEPT ![n].left = @ \ {w}]
  /\ refused' = refused \cup {<<n, w>>}
  /\ UNCHANGED <<time, seen, came, nodeEngine, nodeAlerts, rows, sweep, swept>>

Answered(n) == post[n].keys # {} /\ post[n].left = {}

(* Mutant: what the answer counts is not waited for.                       *)
markSentSynced(n) ==
  /\ post[n].step = "sent"
  /\ nodeAlerts' = [nodeAlerts EXCEPT ![n] = {[a EXCEPT !.synced = @ \/ a.window \in post[n].keys] : a \in @}]
  /\ post' = [post EXCEPT ![n] = NoPost]
  /\ UNCHANGED <<time, seen, came, nodeEngine, rows, refused, sweep, swept, faults>>

(* Any answer of 200 marks all that was posted.                            *)
markAlertsSynced(n) ==
  /\ Answered(n) /\ post[n].step = "sent"
  /\ nodeAlerts' = [nodeAlerts EXCEPT ![n] = {[a EXCEPT !.synced = @ \/ a.window \in post[n].keys] : a \in @}]
  /\ post' = [post EXCEPT ![n] = NoPost]
  /\ UNCHANGED <<time, seen, came, nodeEngine, rows, refused, sweep, swept, faults>>

(* The answer is lost, or the node's process ends: the request may go on.  *)
LoseAnswer(n) ==
  /\ post[n].step = "sent" /\ faults < MaxFaults
  /\ faults' = faults + 1
  /\ \/ post' = [post EXCEPT ![n] = NoPost]
     \/ post' = [post EXCEPT ![n].step = "unheard"]
  /\ UNCHANGED <<time, seen, came, nodeEngine, nodeAlerts, rows, refused, sweep, swept>>

EndUnheard(n) ==
  /\ Answered(n) /\ post[n].step = "unheard"
  /\ post' = [post EXCEPT ![n] = NoPost]
  /\ UNCHANGED <<time, seen, came, nodeEngine, nodeAlerts, rows, refused, sweep, swept, faults>>

StopNode(n) ==
  /\ Up(n) /\ faults < MaxFaults
  /\ faults' = faults + 1
  /\ nodeEngine' = [nodeEngine EXCEPT ![n] = "down"]
  /\ post' = [post EXCEPT ![n].step = IF @ = "sent" THEN "unheard" ELSE @]
  /\ UNCHANGED <<time, seen, came, nodeAlerts, rows, refused, sweep, swept>>

(* It evaluates at once when it starts again.                              *)
StartNode(n) ==
  /\ ~Up(n)
  /\ nodeEngine' = [nodeEngine EXCEPT ![n] = "due"]
  /\ UNCHANGED <<time, seen, came, nodeAlerts, post, rows, refused, sweep, swept, faults>>

-----------------------------------------------------------------------------
(* Central                                                                 *)

Arrived(scope, start) == Cardinality({c \in RowsOf(came, scope) : InWindow(came[c[1]][c[2]], start)})

(* A sweep in every stride: first the breaches of the open window.         *)
SweepDue == swept = Never \/ time >= swept + Stride

breachesFor ==
  /\ SweepDue /\ sweep = NoSweep
  /\ LET found == {s \in Scopes : Arrived(s, windowFor(time)) >= ThresholdOf(s)}
     IN  IF found = {} THEN swept' = time /\ UNCHANGED sweep
         ELSE sweep' = [at |-> time, left |-> found, clear |-> {}] /\ UNCHANGED swept
  /\ UNCHANGED <<time, seen, came, nodeEngine, nodeAlerts, post, rows, refused, faults>>

CoolAtCentral(s) == \E r \in rows : r.scope = s /\ Recent(r.at, sweep.at)

Done(s) ==
  IF sweep.left = {s} THEN sweep' = NoSweep /\ swept' = sweep.at
  ELSE sweep' = [sweep EXCEPT !.left = @ \ {s}, !.clear = {}] /\ UNCHANGED swept

(* Then, breach by breach, when it last fired, and the insert.             *)
lastFiredAt(s) ==
  /\ s \in sweep.left /\ sweep.clear = {}
  /\ IF CoolAtCentral(s) THEN Done(s) ELSE sweep' = [sweep EXCEPT !.clear = {s}] /\ UNCHANGED swept
  /\ UNCHANGED <<time, seen, came, nodeEngine, nodeAlerts, post, rows, refused, faults>>

FireAtCentral(s) ==
  /\ s \in sweep.clear
  /\ upsertAlert(s, windowFor(sweep.at), "central", sweep.at)
  /\ Done(s)
  /\ UNCHANGED <<time, seen, came, nodeEngine, nodeAlerts, post, refused, faults>>

(* Timers are punctual: no tick passes over a sweep that is due, nor over  *)
(* an evaluation that was scheduled before it.                             *)
Tick ==
  /\ time < MaxTime
  /\ \A n \in Nodes : nodeEngine[n] # "due"
  /\ sweep = NoSweep /\ ~SweepDue
  /\ time' = time + 1
  /\ nodeEngine' = [n \in Nodes |-> IF nodeEngine[n] = "scheduled" THEN "due" ELSE nodeEngine[n]]
  /\ UNCHANGED <<seen, came, nodeAlerts, post, rows, refused, sweep, swept, faults>>

Deliver(n) ==
  shipAlertsNow(n) \/ markAlertsSynced(n) \/ EndUnheard(n) \/ \E w \in post[n].left : ingestNodeAlerts(n, w)

NodeStep(n) ==
  \/ RecordCall(n) \/ evaluateNow(n) \/ ShipCall(n) \/ TrimCall(n) \/ Deliver(n)
  \/ LoseAnswer(n) \/ StopNode(n) \/ StartNode(n)
  \/ \E w \in post[n].left : RejectAlert(n, w)

CentralStep == breachesFor \/ \E s \in Scopes : lastFiredAt(s) \/ FireAtCentral(s)

AlertsNext == Tick \/ CentralStep \/ \E n \in Nodes : NodeStep(n)

AlertsSpec == AlertsInit /\ [][AlertsNext]_alertVars

-----------------------------------------------------------------------------
(* Properties *)

Stamps == {Never} \cup 0 .. MaxTime
Windows == (-Window) .. MaxTime

AlertsTypeOK ==
  /\ time \in 0 .. MaxTime /\ faults \in 0 .. MaxFaults
  /\ \A n \in Nodes : Len(came[n]) <= Len(seen[n])
  /\ nodeEngine \in [Nodes -> {"down", "idle", "scheduled", "due"}]
  /\ nodeAlerts \in [Nodes -> SUBSET [window : Windows, at : Stamps, synced : BOOLEAN]]
  /\ \A n \in Nodes : post[n].left \subseteq post[n].keys
  /\ rows \subseteq [scope : Scopes, window : Windows, by : {"node", "central"}, at : Stamps, peer : BOOLEAN]
  /\ sweep.left \subseteq Scopes /\ sweep.clear \subseteq sweep.left /\ swept \in Stamps

(* How many fall within the ticks from one to another.                     *)
Between(times, from, to) == Cardinality({i \in DOMAIN times : from <= times[i] /\ times[i] <= to})

(* "overlapping windows cover every straddle" (rules.js): calls that reach *)
(* the threshold within a window less a stride have been alerted of on     *)
(* their node, across its restarts, as soon as it has evaluated.           *)
NodeCatches ==
  \A n \in Nodes : nodeEngine[n] = "idle" =>
    (Between(seen[n], time - (Window - Stride), time) >= Threshold["node"] =>
       \E a \in nodeAlerts[n] : Recent(a.at, time - (Window - Stride)))

(* "a node whose service was stopped ... never evaluated anything, while   *)
(* its events shipped normally" (alertEngine.js): what reaches the         *)
(* threshold at central within as much time is in its table after the      *)
(* next sweep, whoever fired it.                                           *)
CentralCatches ==
  \A s \in Scopes : swept # Never =>
    LET within == {c \in RowsOf(came, s) : LET at == came[c[1]][c[2]] IN swept - (Window - Stride) <= at /\ at < swept}
    IN  Cardinality(within) >= ThresholdOf(s) => \E r \in rows : r.scope = s /\ Recent(r.at, swept)

(* No burst escapes both ends, however it falls on their windows.          *)
BurstCaught == NodeCatches /\ CentralCatches

(* An alert that a node takes as delivered is in central's table under the *)
(* node's key, or central has said that it would not have it.              *)
SyncedIsAtCentral ==
  \A n \in Nodes : \A a \in nodeAlerts[n] : a.synced => Keyed(n, a.window) # {} \/ <<n, a.window>> \in refused

(* Refuted (README, section 5).                                            *)
(* "a breach seen from both sides fires once" (rules.js).                  *)
FiresOnce ==
  \A r, q \in rows : r.scope = q.scope /\ r # q => ~(Recent(r.at, q.at) /\ Recent(q.at, r.at))
=============================================================================
