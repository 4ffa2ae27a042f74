------------------------------ MODULE Supervisor -----------------------------
(***************************************************************************)
(* server/supervisor.js: the process that holds the node's port, restarts  *)
(* the backend behind it, and parks the requests that arrive meanwhile.    *)
(***************************************************************************)
EXTENDS Naturals, FiniteSets

CONSTANTS
  Requests,   \* requests that hooks send
  Writes,     \* those of them that are not GET, HEAD or OPTIONS
  Oversized,  \* those whose body is too large to be kept for a replay
  MaxExits    \* bound: exits of the backend, a shutdown's apart

ASSUME SupervisorAssumption ==
  Writes \subseteq Requests /\ Oversized \subseteq Requests /\ MaxExits \in Nat

VARIABLES
  child,        \* the backend process: none, starting, up, or told to stop
  ready,        \* what the supervisor believes of it
  intentional,  \* an exit is expected, by a restart or a shutdown
  stopping,     \* the supervisor was told to stop
  timers,       \* delayed starts under way
  exits,
  req           \* each request: where it is, how often the backend has run it

superVars == <<child, ready, intentional, stopping, timers, exits, req>>

SuperInit ==
  /\ child = "starting" /\ ready = FALSE /\ intentional = FALSE /\ stopping = FALSE
  /\ timers = 0 /\ exits = 0
  /\ req = [r \in Requests |-> [step |-> "idle", runs |-> 0]]

At(r, step) == req[r].step = step
Moves(r, step) == req' = [req EXCEPT ![r].step = step]
Process == <<child, intentional, stopping, timers, exits>>

-----------------------------------------------------------------------------
(* The backend                                                             *)

Listen ==
  /\ child = "starting"
  /\ child' = "up"
  /\ UNCHANGED <<ready, intentional, stopping, timers, exits, req>>

(* A probe is answered, maybe by a backend that has gone when it is read.  *)
MarkReady ==
  /\ ~ready /\ child # "starting"
  /\ ready' = TRUE
  /\ UNCHANGED <<Process, req>>

(* With the backend go its connections.                                    *)
Broken ==
  [r \in Requests |-> [req[r] EXCEPT !.step = CASE @ = "open" -> "reset" [] @ \in {"sent", "run"} -> "cut" [] OTHER -> @]]

(* Mutant: the mark of an expected exit is not taken back.                 *)
ExitKeepsIntent ==
  /\ child # "none" /\ (child = "dying" \/ exits < MaxExits)
  /\ exits' = exits + 1 /\ ready' = FALSE /\ req' = Broken
  /\ child' = (IF child = "dying" /\ ~stopping THEN "starting" ELSE "none")
  /\ timers' = (IF stopping \/ intentional THEN timers ELSE timers + 1)
  /\ UNCHANGED <<intentional, stopping>>

(* onChildExit, and stopChild's own listener: whoever waits for the exit   *)
(* starts the next backend at once; after a crash a timer does.            *)
OnChildExit ==
  /\ child # "none" /\ (child = "dying" \/ exits < MaxExits)
  /\ exits' = exits + 1 /\ ready' = FALSE /\ req' = Broken
  /\ child' = (IF child = "dying" /\ ~stopping THEN "starting" ELSE "none")
  /\ timers' = (IF stopping \/ intentional THEN timers ELSE timers + 1)
  /\ intentional' = FALSE
  /\ UNCHANGED stopping

(* spawnChild, when the backoff is over: not if somebody was faster.       *)
SpawnChild ==
  /\ timers > 0
  /\ timers' = timers - 1
  /\ IF child = "none" /\ ~stopping THEN child' = "starting" /\ ready' = FALSE ELSE UNCHANGED <<child, ready>>
  /\ UNCHANGED <<intentional, stopping, exits, req>>

(* The control request.                                                    *)
Restart ==
  /\ ~stopping /\ exits < MaxExits
  /\ IF child = "none" THEN child' = "starting" /\ ready' = FALSE /\ UNCHANGED intentional
                       ELSE child' = "dying" /\ intentional' = TRUE /\ UNCHANGED ready
  /\ UNCHANGED <<stopping, timers, exits, req>>

Shutdown ==
  /\ ~stopping
  /\ stopping' = TRUE
  /\ IF child = "none" THEN UNCHANGED <<child, intentional>> ELSE child' = "dying" /\ intentional' = TRUE
  /\ UNCHANGED <<ready, timers, exits, req>>

-----------------------------------------------------------------------------
(* A request: handle, attempt                                              *)

Arrive(r) ==
  /\ At(r, "idle")
  /\ Moves(r, IF ready THEN "trying" ELSE "parked")
  /\ UNCHANGED <<Process, ready>>

Release(r) ==
  /\ At(r, "parked") /\ ready
  /\ Moves(r, "trying")
  /\ UNCHANGED <<Process, ready>>

(* The parking window ends: 503.                                           *)
ParkExpires(r) ==
  /\ At(r, "parked")
  /\ Moves(r, "failed")
  /\ UNCHANGED <<Process, ready>>

Connect(r) ==
  /\ At(r, "trying")
  /\ \/ child \in {"up", "dying"} /\ Moves(r, "open")
     \/ child # "up" /\ Moves(r, "reset")
  /\ UNCHANGED <<Process, ready>>

(* The whole body is on its way.                                           *)
Send(r) ==
  /\ At(r, "open")
  /\ Moves(r, "sent")
  /\ UNCHANGED <<Process, ready>>

Run(r) ==
  /\ At(r, "sent")
  /\ req' = [req EXCEPT ![r] = [step |-> "run", runs |-> @.runs + 1]]
  /\ UNCHANGED <<Process, ready>>

Reply(r) ==
  /\ At(r, "run")
  /\ Moves(r, "answered")
  /\ UNCHANGED <<Process, ready>>

(* Mutant: every broken connection is worth another attempt.               *)
AttemptFailedReplay(r) ==
  /\ req[r].step \in {"reset", "cut"}
  /\ ready' = FALSE
  /\ Moves(r, IF r \notin Oversized THEN "parked" ELSE "failed")
  /\ UNCHANGED Process

(* The proxy's error: markDown, and another attempt if the body was kept   *)
(* and the backend cannot have had all of it, or may have it twice.        *)
AttemptFailed(r) ==
  /\ req[r].step \in {"reset", "cut"}
  /\ ready' = FALSE
  /\ Moves(r, IF r \notin Oversized /\ (At(r, "reset") \/ r \notin Writes) THEN "parked" ELSE "failed")
  /\ UNCHANGED Process

Proxy(r) ==
  \/ Arrive(r) \/ Release(r) \/ ParkExpires(r) \/ Connect(r) \/ Send(r) \/ Run(r) \/ Reply(r) \/ AttemptFailed(r)

SuperNext ==
  \/ Listen \/ MarkReady \/ OnChildExit \/ SpawnChild \/ Restart \/ Shutdown
  \/ \E r \in Requests : Proxy(r)

(* The operating system starts and ends processes (SIGKILL after SIGTERM), *)
(* timers fire, and a backend that listens answers its probe.              *)
SuperFairness ==
  /\ WF_superVars(Listen) /\ WF_superVars(child = "up" /\ MarkReady) /\ WF_superVars(SpawnChild)
  /\ WF_superVars(child = "dying" /\ OnChildExit)

SuperSpec == SuperInit /\ [][SuperNext]_superVars /\ SuperFairness

-----------------------------------------------------------------------------
(* Properties *)

SuperTypeOK ==
  /\ child \in {"none", "starting", "up", "dying"}
  /\ ready \in BOOLEAN /\ intentional \in BOOLEAN /\ stopping \in BOOLEAN
  /\ timers \in 0 .. MaxExits /\ exits \in 0 .. MaxExits + 1
  /\ req \in [Requests -> [step : {"idle", "parked", "trying", "open", "sent", "run", "reset", "cut",
                                   "answered", "failed"}, runs : 0 .. MaxExits + 2]]

(* A call that changes something is carried out once at most, however      *)
(* often the backend goes away under it: replaying it would record one     *)
(* governed call twice.                                                    *)
WriteRunsOnce == \A r \in Writes : req[r].runs <= 1

(* Unless it was told to stop, the supervisor always gets a backend up     *)
(* again and sends it requests, after a crash, a restart, or a crash in    *)
(* the middle of a restart or of the wait after another.                   *)
BackendReturns == (child \in {"none", "dying"}) ~> ((child = "up" /\ ready) \/ stopping)
=============================================================================
