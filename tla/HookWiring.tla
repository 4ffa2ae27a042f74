------------------------------ MODULE HookWiring ------------------------------
(***************************************************************************)
(* The entries in the backends' own configuration files by which the hooks *)
(* are called at all: the watcher that puts them back when they go missing *)
(* (server/hookWatcher.js), checkAndRepair and the operations of an        *)
(* administrator (server/providers.js).  The files belong to other         *)
(* programs and to people, who write them at any time; of what else is in  *)
(* them there is nothing here.                                             *)
(***************************************************************************)
EXTENDS Naturals, Sequences

CONSTANTS
  Adapters,    \* that can be installed, in the order of the registry
  MaxEdits,    \* bound: writes by others
  MaxDeaths    \* bound: times the server dies

ASSUME WiringAssumption == {Len(Adapters), MaxEdits, MaxDeaths} \subseteq Nat

Backends == {Adapters[i] : i \in 1 .. Len(Adapters)}

VARIABLES
  config,         \* each backend's file: bare (or none at all), wired, or unreadable
  everInstalled,  \* as the server remembers, in its store
  tampers,        \* the log: backends found without their entries
  check,          \* a check under way
  scheduled,      \* whether the debounce timer runs
  watcher,        \* whether the server runs
  wanted,         \* backends that somebody has wired, for the properties
  mended,         \* backends whose file came to be readable in the middle of a repair
  edits, deaths

wiringVars == <<config, everInstalled, tampers, check, scheduled, watcher, wanted, mended, edits, deaths>>

NoCheck == [on |-> FALSE, at |-> 1, repair |-> FALSE, ever |-> {}, installed |-> {}, tampered |-> {}]

WiringInit ==
  /\ config = [b \in Backends |-> "bare"]
  /\ everInstalled = {} /\ tampers = {}
  /\ check = NoCheck /\ scheduled = FALSE /\ watcher = FALSE
  /\ wanted = {} /\ mended = {}
  /\ edits = 0 /\ deaths = 0

(* fs.watch tells of a write, or does not.                                 *)
Told == scheduled' \in IF watcher THEN {scheduled, TRUE} ELSE {scheduled}

-----------------------------------------------------------------------------
(* Others *)

Edit(b, content) ==
  /\ edits < MaxEdits /\ edits' = edits + 1
  /\ config' = [config EXCEPT ![b] = content] /\ content # config[b]
  /\ wanted' = IF content = "wired" THEN wanted \cup {b} ELSE wanted
  /\ mended' = IF check.repair /\ Adapters[check.at] = b /\ config[b] = "unreadable" THEN mended \cup {b} ELSE mended
  /\ Told
  /\ UNCHANGED <<everInstalled, tampers, check, watcher, deaths>>

-----------------------------------------------------------------------------
(* The administrator's routes, which a check does not interleave with: the *)
(* server has one thread.  Both throw when the file cannot be read.        *)

InstallProvider(b) ==
  /\ watcher /\ ~check.on /\ config[b] = "bare"
  /\ config' = [config EXCEPT ![b] = "wired"]
  /\ wanted' = wanted \cup {b}
  /\ Told
  /\ UNCHANGED <<everInstalled, tampers, check, watcher, mended, edits, deaths>>

(* What was installed once is not forgotten by this.                       *)
UninstallProvider(b) ==
  /\ watcher /\ ~check.on /\ config[b] = "wired"
  /\ edits < MaxEdits /\ edits' = edits + 1
  /\ config' = [config EXCEPT ![b] = "bare"]
  /\ Told
  /\ UNCHANGED <<everInstalled, tampers, check, watcher, wanted, mended, deaths>>

-----------------------------------------------------------------------------
(* runCheck: at start, when the debounce timer fires, and at each interval *)
(* of the fallback.                                                        *)

(* Mutant: only when a watch has told of a write.                          *)
StartCheckTold ==
  /\ watcher /\ ~check.on /\ scheduled
  /\ check' = [NoCheck EXCEPT !.on = TRUE, !.ever = everInstalled]
  /\ scheduled' = FALSE
  /\ UNCHANGED <<config, everInstalled, tampers, watcher, wanted, mended, edits, deaths>>

StartCheck ==
  /\ watcher /\ ~check.on
  /\ check' = [NoCheck EXCEPT !.on = TRUE, !.ever = everInstalled]
  /\ scheduled' = FALSE
  /\ UNCHANGED <<config, everInstalled, tampers, watcher, wanted, mended, edits, deaths>>

Looking == check.on /\ ~check.repair /\ check.at <= Len(Adapters)

(* Mutant: a backend that was never installed is repaired too.             *)
DetectAny ==
  LET b == Adapters[check.at]
  IN  /\ Looking
      /\ check' = IF config[b] = "wired"
                  THEN [check EXCEPT !.at = @ + 1, !.installed = @ \cup {b}]
                  ELSE [check EXCEPT !.repair = TRUE]
      /\ UNCHANGED <<config, everInstalled, tampers, scheduled, watcher, wanted, mended, edits, deaths>>

Detect ==
  LET b == Adapters[check.at]
      tampered == config[b] = "unreadable" \/ (b \in check.ever /\ config[b] = "bare")
  IN  /\ Looking
      /\ check' = IF config[b] = "wired" THEN [check EXCEPT !.at = @ + 1, !.installed = @ \cup {b}]
                  ELSE IF tampered THEN [check EXCEPT !.repair = TRUE]
                  ELSE [check EXCEPT !.at = @ + 1]
      /\ UNCHANGED <<config, everInstalled, tampers, scheduled, watcher, wanted, mended, edits, deaths>>

(* install reads the file anew.  If it cannot, it throws, and with it ends *)
(* the whole check: what it has found and repaired so far goes unrecorded, *)
(* and the backends that come later are not looked at.                     *)
Repair ==
  LET b == Adapters[check.at]
  IN  /\ check.on /\ check.repair
      /\ IF config[b] = "unreadable"
         THEN check' = NoCheck /\ UNCHANGED <<config, scheduled>>
         ELSE /\ config' = [config EXCEPT ![b] = "wired"]
              /\ check' = [check EXCEPT !.at = @ + 1, !.repair = FALSE,
                                        !.installed = @ \cup {b}, !.tampered = @ \cup {b}]
              /\ Told
      /\ UNCHANGED <<everInstalled, tampers, watcher, wanted, mended, edits, deaths>>

(* setHookIntegrity, and onTamper.                                         *)
Remember ==
  /\ check.on /\ check.at > Len(Adapters)
  /\ everInstalled' = check.ever \cup check.installed
  /\ tampers' = tampers \cup check.tampered
  /\ check' = NoCheck
  /\ UNCHANGED <<config, scheduled, watcher, wanted, mended, edits, deaths>>

-----------------------------------------------------------------------------
StartHookWatcher ==
  /\ ~watcher /\ watcher' = TRUE
  /\ UNCHANGED <<config, everInstalled, tampers, check, scheduled, wanted, mended, edits, deaths>>

(* The file is written in place: a server that dies meanwhile leaves it    *)
(* empty, or cut short.                                                    *)
Die ==
  /\ watcher /\ watcher' = FALSE
  /\ deaths < MaxDeaths /\ deaths' = deaths + 1
  /\ \/ UNCHANGED config
     \/ /\ check.repair /\ config[Adapters[check.at]] # "unreadable"
        /\ \E left \in {"bare", "unreadable"} : config' = [config EXCEPT ![Adapters[check.at]] = left]
  /\ check' = NoCheck /\ scheduled' = FALSE
  /\ UNCHANGED <<everInstalled, tampers, wanted, mended, edits>>

Watching == StartHookWatcher \/ StartCheck \/ Detect \/ Repair \/ Remember

WiringNext ==
  \/ \E b \in Backends, content \in {"bare", "wired", "unreadable"} : Edit(b, content)
  \/ \E b \in Backends : InstallProvider(b) \/ UninstallProvider(b)
  \/ Watching \/ Die

(* The supervisor starts the server again, and the fallback's interval     *)
(* goes on for as long as it runs.                                         *)
WiringSpec == WiringInit /\ [][WiringNext]_wiringVars /\ WF_wiringVars(Watching)

-----------------------------------------------------------------------------
(* Properties *)

(* "re-runs install for any that used to be present and now aren't"        *)
(* (providers.js): once the others leave the files alone, each backend     *)
(* that is remembered as installed is wired and stays so, whatever was     *)
(* missed by a watch or cut short by a crash; unless its own file, or that *)
(* of a backend before it in the registry, cannot be read.                 *)
WiringRestored ==
  <>[](\A i \in 1 .. Len(Adapters) :
         \/ Adapters[i] \in everInstalled => config[Adapters[i]] = "wired"
         \/ \E j \in 1 .. i : config[Adapters[j]] = "unreadable")

(* "Deliberately does not install an adapter nobody asked to install in    *)
(* the first place" (providers.js): who is wired or remembered was wired by*)
(* somebody, unless a file that could not be read was put right just       *)
(* before the repair.  A backend in the log was remembered.                *)
NobodyForced ==
  /\ \A b \in Backends : config[b] = "wired" \/ b \in everInstalled => b \in wanted \cup mended
  /\ tampers \subseteq everInstalled
=============================================================================
