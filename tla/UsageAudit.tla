------------------------------ MODULE UsageAudit -----------------------------
(***************************************************************************)
(* The audit row of a governed call.  /invoke answers the PreToolUse hook  *)
(* and inserts the row afterwards; the hook leaves a pending file; after   *)
(* the tool has run, a PostToolUse hook in another process claims the file *)
(* and corrects the row.  Calls of one session with the same tool and the  *)
(* same input share a file.  server/hooks/lib.js, server/app.js.           *)
(***************************************************************************)
EXTENDS Naturals, FiniteSets, Functions

CONSTANTS
  Calls,       \* the governed calls
  Inputs,      \* what identifies a call to its hooks: session, tool, input
  InputOf,     \* [Calls -> Inputs]
  MaxCrashes   \* bound: crashes of the server

ASSUME AuditAssumption == InputOf \in [Calls -> Inputs] /\ MaxCrashes \in Nat

VARIABLES
  calls,    \* where each call is, how it was let through, what its Post claimed
  rows,     \* the audit row of each call's event
  files,    \* the pending file of each key: the call whose event it names
  consents, \* the approval that records a human's yes for the event of a call
  crashes

auditVars == <<calls, rows, files, consents, crashes>>

Nobody == "nobody"
Ways == {"none", "granted", "paused", "asked", "denied", "unheard", "ungoverned"}
Steps == {"idle", "answered", "prompt", "running", "claiming", "posting", "consenting", "deciding", "blocked", "done"}
Outcomes == {"none", "ok", "error", "denied", "approved"}

NoRow == [outcome |-> "none", stored |-> FALSE, corrected |-> FALSE]
NoFile == [of |-> Nobody, ask |-> FALSE]

AuditInit ==
  /\ calls = [c \in Calls |-> [step |-> "idle", way |-> "none", ran |-> FALSE, failed |-> FALSE, claim |-> NoFile]]
  /\ rows = [c \in Calls |-> NoRow]
  /\ files = [i \in Inputs |-> NoFile]
  /\ consents = [c \in Calls |-> "none"]
  /\ crashes = 0

(* Mutant: the key is of the session and the tool, without the input.      *)
SessionKey(c) == CHOOSE i \in Inputs : TRUE

PendingKey(c) == InputOf[c]

CallAt(c, s) == calls[c].step = s
Goes(c, s) == calls' = [calls EXCEPT ![c].step = s]

(* The hook's process ends, and what it read goes with it.                 *)
Ends(c) == calls' = [calls EXCEPT ![c].step = "done", ![c].claim = NoFile]

-----------------------------------------------------------------------------
(* PreToolUse                                                              *)

RecordInvoke(c, allowed) ==
  /\ CallAt(c, "idle")
  /\ Goes(c, "answered")
  /\ rows' = [rows EXCEPT ![c].outcome = IF allowed THEN "ok" ELSE "denied"]
  /\ UNCHANGED <<files, consents, crashes>>

(* The insert follows the answer, and other requests may come between.     *)
RecordUsageEvent(c) ==
  /\ rows[c].outcome # "none" /\ ~rows[c].stored
  /\ rows' = [rows EXCEPT ![c].stored = TRUE]
  /\ UNCHANGED <<calls, files, consents, crashes>>

(* The hook got no answer, and the call is allowed all the same: a read, or*)
(* a lease, or a pause.  No file; a row if governance did decide, and its  *)
(* answer was lost.                                                        *)
RunUnrecorded(c) ==
  /\ calls[c].step \in {"idle", "answered"}
  /\ calls' = [calls EXCEPT ![c].step = "running", ![c].way = "ungoverned", ![c].ran = TRUE]
  /\ UNCHANGED <<rows, files, consents, crashes>>

WritePending(c, ask) == files' = [files EXCEPT ![PendingKey(c)] = [of |-> c, ask |-> ask]]

Allow(c) ==
  /\ CallAt(c, "answered")
  /\ \/ rows[c].outcome = "ok" /\ calls' = [calls EXCEPT ![c].step = "running", ![c].way = "granted", ![c].ran = TRUE]
     \/ rows[c].outcome = "denied" /\ calls' = [calls EXCEPT ![c].step = "running", ![c].way = "paused", ![c].ran = TRUE]
  /\ WritePending(c, FALSE)
  /\ UNCHANGED <<rows, consents, crashes>>

Ask(c) ==
  /\ CallAt(c, "answered") /\ rows[c].outcome = "denied"
  /\ calls' = [calls EXCEPT ![c].step = "prompt", ![c].way = "asked"]
  /\ WritePending(c, TRUE)
  /\ UNCHANGED <<rows, consents, crashes>>

Block(c, way) ==
  /\ calls' = [calls EXCEPT ![c].step = "blocked", ![c].way = way]
  /\ UNCHANGED <<files, rows, consents, crashes>>

Deny(c) == CallAt(c, "answered") /\ rows[c].outcome = "denied" /\ Block(c, "denied")

(* The answer is lost, or comes after the hook's deadline: denied.         *)
AnswerUnheard(c) == CallAt(c, "answered") /\ Block(c, "unheard")

-----------------------------------------------------------------------------
(* The human at the prompt                                                 *)

SayYes(c) ==
  /\ CallAt(c, "prompt")
  /\ calls' = [calls EXCEPT ![c].step = "running", ![c].ran = TRUE]
  /\ UNCHANGED <<rows, files, consents, crashes>>

SayNo(c) == CallAt(c, "prompt") /\ Block(c, "asked")

-----------------------------------------------------------------------------
(* PostToolUse, when the tool has ended: read the file, unlink it, correct *)
(* the row it names.  Each is a step, and the unlink fails if somebody     *)
(* else's came first.                                                      *)

ReadPending(c, failed) ==
  /\ CallAt(c, "running")
  /\ LET file == files[PendingKey(c)]
     IN  calls' = [calls EXCEPT ![c].step = IF file = NoFile THEN "done" ELSE "claiming",
                                ![c].claim = file, ![c].failed = failed]
  /\ UNCHANGED <<rows, files, consents, crashes>>

ClearPending(c) ==
  /\ CallAt(c, "claiming")
  /\ IF files[PendingKey(c)] = NoFile THEN Ends(c) ELSE Goes(c, "posting")
  /\ files' = [files EXCEPT ![PendingKey(c)] = NoFile]
  /\ UNCHANGED <<rows, consents, crashes>>

Claimed(c) == calls[c].claim.of

(* A row may be corrected once, inside the window.                         *)
Correctable(e, outcome) == rows[e].stored /\ ~rows[e].corrected /\ rows[e].outcome = outcome

Corrected(e, outcome) == rows' = [rows EXCEPT ![e].outcome = outcome, ![e].corrected = TRUE]

PatchUsage(c) ==
  /\ CallAt(c, "posting") /\ ~calls[c].claim.ask
  /\ IF Correctable(Claimed(c), "ok")
     THEN Corrected(Claimed(c), IF calls[c].failed THEN "error" ELSE "ok")
     ELSE UNCHANGED rows
  /\ Ends(c)
  /\ UNCHANGED <<files, consents, crashes>>

ApproveConsent(c) ==
  /\ CallAt(c, "posting") /\ calls[c].claim.ask
  /\ IF Correctable(Claimed(c), "denied")
     THEN Corrected(Claimed(c), "approved") /\ Goes(c, "consenting")
     ELSE UNCHANGED rows /\ Ends(c)
  /\ UNCHANGED <<files, consents, crashes>>

(* The approval is written to the authority for policy, in two requests.   *)
InsertConsent(c) ==
  /\ CallAt(c, "consenting")
  /\ consents' = [consents EXCEPT ![Claimed(c)] = "pending"]
  /\ Goes(c, "deciding")
  /\ UNCHANGED <<rows, files, crashes>>

DecideConsent(c) ==
  /\ CallAt(c, "deciding")
  /\ consents' = [consents EXCEPT ![Claimed(c)] = "approved"]
  /\ Ends(c)
  /\ UNCHANGED <<rows, files, crashes>>

(* The hook dies, the window has passed, or the request fails: nobody tries*)
(* again.                                                                  *)
GiveUp(c) ==
  /\ calls[c].step \in {"running", "claiming", "posting", "consenting", "deciding"}
  /\ Ends(c)
  /\ UNCHANGED <<rows, files, consents, crashes>>

(* Rows that were answered and not yet inserted are lost.                  *)
Crash ==
  /\ crashes < MaxCrashes
  /\ crashes' = crashes + 1
  /\ rows' = [c \in Calls |-> IF rows[c].stored THEN rows[c] ELSE NoRow]
  /\ calls' = [c \in Calls |-> IF calls[c].step \in {"consenting", "deciding"}
                             THEN [calls[c] EXCEPT !.step = "done", !.claim = NoFile] ELSE calls[c]]
  /\ UNCHANGED <<files, consents>>

Pre(c) ==
  \/ \E allowed \in BOOLEAN : RecordInvoke(c, allowed)
  \/ RecordUsageEvent(c) \/ RunUnrecorded(c) \/ Allow(c) \/ Ask(c) \/ Deny(c) \/ AnswerUnheard(c)

Post(c) ==
  \/ \E failed \in BOOLEAN : ReadPending(c, failed)
  \/ ClearPending(c) \/ PatchUsage(c) \/ ApproveConsent(c)
  \/ InsertConsent(c) \/ DecideConsent(c) \/ GiveUp(c)

Human(c) == SayYes(c) \/ SayNo(c)

AuditNext == Crash \/ \E c \in Calls : Pre(c) \/ Post(c) \/ Human(c)

AuditSpec == AuditInit /\ [][AuditNext]_auditVars

-----------------------------------------------------------------------------
(* Properties *)

AuditTypeOK ==
  /\ calls \in [Calls -> [step : Steps, way : Ways, ran : BOOLEAN, failed : BOOLEAN,
                          claim : [of : Calls \cup {Nobody}, ask : BOOLEAN]]]
  /\ rows \in [Calls -> [outcome : Outcomes, stored : BOOLEAN, corrected : BOOLEAN]]
  /\ files \in [Inputs -> [of : Calls \cup {Nobody}, ask : BOOLEAN]]
  /\ consents \in [Calls -> {"none", "pending", "approved"}]
  /\ crashes \in 0 .. MaxCrashes
  /\ \A c \in Calls : rows[c].corrected => rows[c].outcome \in {"ok", "error", "approved"}

(* A row that says a human approved is of a call that a human was asked    *)
(* about, and never of one that was plainly denied, paused or unheard.     *)
ApprovedWasAsked == \A c \in Calls : rows[c].outcome = "approved" => calls[c].way = "asked"

(* What a corrected row says was so of a call with the row's own key, that *)
(* ran: its tool failed or not, or a human let it through.  Calls that look*)
(* alike may have each other's, but no two rows tell of the same call.     *)
TellsOf(c, d) ==
  /\ InputOf[c] = InputOf[d] /\ calls[d].ran
  /\ rows[c].outcome = "approved" \/ (rows[c].outcome = "error" <=> calls[d].failed)
CorrectedRows == {c \in Calls : rows[c].corrected}
RowsTellOfRuns == \E teller \in Injection(CorrectedRows, Calls) : \A c \in CorrectedRows : TellsOf(c, teller[c])

(* So while no other call looks like it, a call's row tells what became of *)
(* it: corrected only after it ran, to what the tool said or the human.    *)
Alone(c) == \A d \in Calls \ {c} : InputOf[d] # InputOf[c] \/ CallAt(d, "idle")
OwnRowTrue == \A c \in Calls : Alone(c) /\ rows[c].corrected => TellsOf(c, c)

(* Refuted (README, section 5).                                            *)
(* "so PostToolUse corrects the row with the real outcome instead of       *)
(* leaving the audit trail claiming a call was blocked when it was not"    *)
(* (lib.js, of a call let through by a pause): a PATCH that is taken for a *)
(* stored row, never corrected, of a call that ran, corrects it.           *)
PatchCorrects ==
  [][\A c \in Calls : PatchUsage(c) =>
       LET e == Claimed(c) IN rows[e].stored /\ calls[e].ran => rows'[e].corrected]_auditVars
=============================================================================
