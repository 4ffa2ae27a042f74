-------------------------- MODULE EnforcementWindows --------------------------
(***************************************************************************)
(* The two windows in which a node is more lenient than its policy: the    *)
(* enforcement pause (server/enforcementPause.js), which lets denied calls *)
(* through, and the maintenance lease (server/maintenance.js), which       *)
(* softens faults; and the parameters that bound them: the node's profile  *)
(* at central, and the environment of the node's server, each of which may *)
(* only narrow (server/policy/nodeConfig.js).  What a window does to a     *)
(* call is HookDecision's subject.                                         *)
(***************************************************************************)
EXTENDS Integers, FiniteSets

CONSTANTS
  Absent, Null, Junk,  \* not said; JSON's null; what cannot be parsed
  Profiles,    \* what central may say to the node
  Floors,      \* what the server's environment may say
  PauseAsks,   \* [tolerate, minutes]: what is asked for, at the API or at boot
  LeaseAsks,
  Jumps,       \* minutes that pass at once
  MaxMinutes,  \* bound: minutes in all
  MaxBehind    \* bound: minutes by which the clock is set back

RiskTiers == {"read_only", "mutating", "destructive"}
LeasableTiers == {"read_only", "mutating"}    \* LEASABLE_TIERS
Numbers == {"pauseMax", "pauseDefault", "leaseMax"}
TierLists == {"pauseTiers", "leaseTiers"}
Keys == Numbers \cup TierLists \cup {"allowPause"}

ValuesOf(key) == IF key \in Numbers THEN Int ELSE IF key \in TierLists THEN SUBSET RiskTiers ELSE BOOLEAN

ASSUME WindowsAssumption ==
  /\ Absent # Null /\ Absent # Junk /\ Null # Junk
  /\ \A odd \in {Absent, Null, Junk} : odd \notin Int /\ odd \notin BOOLEAN /\ \A tiers \in SUBSET RiskTiers : odd # tiers
  /\ \A side \in Profiles \cup Floors :
       /\ DOMAIN side \subseteq Keys
       /\ \A key \in DOMAIN side : side[key] \in {Null, Junk} \/ side[key] \in ValuesOf(key)
  /\ \A ask \in PauseAsks \cup LeaseAsks : ask.minutes \in {Absent, Junk} \/ ask.minutes \in Int
  /\ Jumps \subseteq Nat \ {0} /\ {MaxMinutes, MaxBehind} \subseteq Nat

VARIABLES
  lever,    \* which of the two this is about: neither looks at the other
  copy,     \* the node's copy of its profile, in the deny-list file
  floor,    \* the environment of the node's server, read when it started
  serving,  \* whether that runs
  window,   \* hook-enforcement-pause.json or hook-grace-lease.json
  minute,   \* that have passed
  behind    \* by how much the clock is behind them

windowVars == <<lever, copy, floor, serving, window, minute, behind>>

SaysNothing == <<>>      \* says nothing
Now == minute - behind
Lesser(a, b) == IF a <= b THEN a ELSE b
Greater(a, b) == IF a >= b THEN a ELSE b

-----------------------------------------------------------------------------
(* nodeConfig.js *)

Fallback ==
  [allowPause |-> TRUE, pauseMax |-> 30, pauseDefault |-> 15, pauseTiers |-> RiskTiers,
   leaseMax |-> 60, leaseTiers |-> LeasableTiers]

(* null is the number 0; a list that makes no sense names no tier.         *)
Parse(key, raw) ==
  IF raw = Null THEN (IF key \in Numbers THEN 0 ELSE Absent)
  ELSE IF raw = Junk THEN (IF key \in TierLists THEN {} ELSE Absent)
  ELSE raw

Says(side, key) == IF key \in DOMAIN side THEN Parse(key, side[key]) ELSE Absent

(* Mutant: a local list of tiers replaces central's.                       *)
NarrowByList(key, central, local) ==
  IF central = Absent \/ (local # Absent /\ key \in TierLists) THEN local
  ELSE IF local = Absent THEN central
  ELSE IF key \in Numbers THEN Lesser(central, local)
  ELSE central /\ local

Narrow(key, central, local) ==
  IF central = Absent THEN local
  ELSE IF local = Absent THEN central
  ELSE IF key \in Numbers THEN Lesser(central, local)
  ELSE IF key \in TierLists THEN central \cap local
  ELSE central /\ local

Value(key, env) ==
  LET merged == Narrow(key, Says(copy, key), Says(env, key))
  IN  IF merged = Absent THEN Fallback[key] ELSE merged

-----------------------------------------------------------------------------
(* A window: its file, and (for the properties) when and under what it was *)
(* written.                                                                *)

NoWindow == [until |-> -1, tolerate |-> {}, at |-> 0, lag |-> 0, sides |-> {}]

Window(tolerate, minutes, env) ==
  [until |-> Now + minutes, tolerate |-> tolerate, at |-> minute, lag |-> behind, sides |-> {copy, env}]

(* readEnforcementPause and readGraceLease: of one that has expired, and of*)
(* one without tiers, nothing is left.                                     *)
InForce == window.until > Now /\ window.tolerate # {}

WindowsInit ==
  /\ lever \in {"pause", "lease"}
  /\ copy = SaysNothing /\ floor = SaysNothing /\ serving = FALSE
  /\ window = NoWindow
  /\ minute = MaxBehind /\ behind = 0

-----------------------------------------------------------------------------
(* The node's copy of what central says.  A profile may be edited or       *)
(* deleted, or the node put into another, between any two polls.           *)

(* Every answer to a poll has the block.                                   *)
SaveDenyList(says) ==
  /\ serving /\ copy' = says
  /\ UNCHANGED <<lever, floor, serving, window, minute, behind>>

(* The file is gone, or signed under a token that has been replaced.       *)
LoseDenyList ==
  /\ copy' = SaysNothing
  /\ UNCHANGED <<lever, floor, serving, window, minute, behind>>

-----------------------------------------------------------------------------
(* The node's server *)

(* Two ceilings, then a minimum: the fleet's ceiling may be below it.      *)
PauseLength(asked, env) ==
  LET ceiling == Lesser(30, Value("pauseMax", env))
      given == IF asked = Absent THEN Lesser(Value("pauseDefault", env), ceiling) ELSE asked
  IN  Lesser(Greater(given, 5), ceiling)

(* A tier that is not allowed refuses the pause, as does a duration that   *)
(* cannot be read; a duration that is too long is cut.                     *)
PauseAllowed(ask, env) ==
  /\ ask.tolerate # {} /\ ask.minutes # Junk
  /\ Value("allowPause", env)
  /\ ask.tolerate \subseteq Value("pauseTiers", env)

BeginEnforcementPause(ask, env) ==
  window' = IF PauseAllowed(ask, env) THEN Window(ask.tolerate, PauseLength(ask.minutes, env), env) ELSE window

PausePosted(ask) ==
  /\ lever = "pause" /\ serving
  /\ BeginEnforcementPause(ask, floor)
  /\ UNCHANGED <<lever, copy, floor, serving, minute, behind>>

(* A list that is none stands for every tier that a lease may name here.   *)
BeginGrace(ask) ==
  LET leasable == LeasableTiers \cap Value("leaseTiers", floor)
      requested == IF ask.tolerate = Junk THEN leasable ELSE ask.tolerate
      given == IF ask.minutes \in {Absent, Junk, 0} THEN 15 ELSE ask.minutes
      ceiling == Lesser(60, Value("leaseMax", floor))
  IN  /\ lever = "lease" /\ serving
      /\ requested \subseteq leasable
      /\ ask.tolerate # {}
      /\ window' = Window(requested, Lesser(Greater(given, 1), ceiling), floor)
      /\ UNCHANGED <<lever, copy, floor, serving, minute, behind>>

(* endEnforcementPause, endGrace: the file is removed.                     *)
EndWindow ==
  /\ serving /\ window' = NoWindow
  /\ UNCHANGED <<lever, copy, floor, serving, minute, behind>>

(* WINDROW_DISABLE_DENIALS asks once more at every start.                  *)
Boot(env, ask) ==
  /\ ~serving /\ serving' = TRUE
  /\ floor' = env
  /\ IF lever = "pause" /\ ask # Absent THEN BeginEnforcementPause(ask, env) ELSE UNCHANGED window
  /\ UNCHANGED <<lever, copy, minute, behind>>

Stop ==
  /\ serving /\ serving' = FALSE
  /\ UNCHANGED <<lever, copy, floor, window, minute, behind>>

-----------------------------------------------------------------------------
Pass(minutes) ==
  /\ minute + minutes <= MaxMinutes /\ minute' = minute + minutes
  /\ UNCHANGED <<lever, copy, floor, serving, window, behind>>

SetClock(lag) ==
  /\ behind' = lag
  /\ UNCHANGED <<lever, copy, floor, serving, window, minute>>

WindowsNext ==
  \/ \E says \in Profiles : SaveDenyList(says)
  \/ LoseDenyList
  \/ \E ask \in PauseAsks : PausePosted(ask)
  \/ \E ask \in LeaseAsks : BeginGrace(ask)
  \/ EndWindow \/ Stop
  \/ \E env \in Floors, ask \in PauseAsks \cup {Absent} : Boot(env, ask)
  \/ \E minutes \in Jumps : Pass(minutes)
  \/ \E lag \in 0 .. MaxBehind : SetClock(lag)

-----------------------------------------------------------------------------
(* Properties *)

(* What the code allows at most, and what one side allows, if it says so.  *)
Bounds ==
  IF lever = "pause" THEN [tiers |-> "pauseTiers", minutes |-> "pauseMax", most |-> 30, all |-> RiskTiers]
                     ELSE [tiers |-> "leaseTiers", minutes |-> "leaseMax", most |-> 60, all |-> LeasableTiers]
Said(side, key, unsaid) == IF Says(side, key) = Absent THEN unsaid ELSE Says(side, key)

(* "THE ENV VAR IS A FLOOR, NOT AN OVERRIDE" (nodeConfig.js), "TIME-BOXED" *)
(* (enforcementPause.js): whatever central's profile and the environment   *)
(* said at the time, in whatever order they came to be changed, a window   *)
(* that is in force keeps within the tiers and the minutes that each of    *)
(* them allowed, and within the code's own; none is in force that one of   *)
(* them forbade.  A clock that is set back makes it longer by as much.     *)
WindowsBounded ==
  InForce =>
    \A side \in window.sides :
      /\ minute - window.at < Lesser(Bounds.most, Said(side, Bounds.minutes, Bounds.most)) + Greater(0, behind - window.lag)
      /\ window.tolerate \subseteq Bounds.all \cap Said(side, Bounds.tiers, Bounds.all)
      /\ lever = "pause" => Said(side, "allowPause", TRUE)
=============================================================================
