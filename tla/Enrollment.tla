------------------------------ MODULE Enrollment -----------------------------
(***************************************************************************)
(* How a machine becomes a node and stays one: enrollment tokens, the      *)
(* certificates central issues, its roster, and the renewal loop of the    *)
(* machine.  server/enrollment/routes.js runs between reads and writes of  *)
(* server/central/enrollmentStore.js; server/enrollment/renewal.js and     *)
(* client.js ask, and keep the key and the certificate in two files.       *)
(***************************************************************************)
EXTENDS Naturals, FiniteSets

CONSTANTS
  Machines,
  NodeIds,     \* the names of nodes
  Tokens,      \* the enrollment tokens that an admin has minted, of scope node
  MaxUses,     \* [Tokens -> Nat \ {0}]
  EnvToken,    \* [Machines -> Tokens \cup {NoToken}]: the join token in its environment
  OwnName,     \* [Machines -> NodeIds \cup {NoName}]: the name it is configured with
  NoToken, NoName,
  MaxCerts,    \* bound: certificates issued
  MaxFaults    \* bound: lost requests and crashes

Serials == 1 .. MaxCerts

ASSUME EnrollAssumption ==
  /\ MaxUses \in [Tokens -> Nat \ {0}] /\ NoToken \notin Tokens
  /\ EnvToken \in [Machines -> Tokens \cup {NoToken}]
  /\ OwnName \in [Machines -> NodeIds \cup {NoName}] /\ NoName \notin NodeIds
  /\ MaxCerts \in Nat /\ MaxFaults \in Nat

VARIABLES
  tokens,   \* uses so far; revoked or expired
  roster,   \* central's row of each node: enrolled, revoked, certificate
  issued,   \* how many certificates the CA has signed
  certs,    \* what each of them says, and the token it was signed for
  aged,     \* the certificates that are close to their end, or past it
  disk,     \* each machine's key file and certificate file, by serial
  request,  \* each machine's enrollment under way
  faults

enrollVars == <<tokens, roster, issued, certs, aged, disk, request, faults>>

NoCert == [node |-> NoName, token |-> NoToken]
NoRequest == [step |-> "idle", token |-> NoToken, proven |-> NoName, claim |-> NoName, node |-> NoName,
              serial |-> 0, barred |-> FALSE, taken |-> FALSE]

EnrollInit ==
  /\ tokens = [t \in Tokens |-> [uses |-> 0, dead |-> FALSE]]
  /\ roster = [n \in NodeIds |-> [enrolled |-> FALSE, revoked |-> FALSE, serial |-> 0]]
  /\ issued = 0 /\ certs = [s \in Serials |-> NoCert] /\ aged = {}
  /\ disk = [m \in Machines |-> [key |-> 0, cert |-> 0]]
  /\ request = [m \in Machines |-> NoRequest]
  /\ faults = 0

On(m, step) == request[m].step = step
Goes(m, r) == request' = [request EXCEPT ![m] = r]
To(m, step) == Goes(m, [request[m] EXCEPT !.step = step])

(* Every refusal ends the request; the machine tries again another day.    *)
Refuse(m) == Goes(m, NoRequest) /\ UNCHANGED <<tokens, issued, certs>>

-----------------------------------------------------------------------------
(* The machine asks: checkOnce, enroll                                     *)

NodeOf(s) == IF s = 0 THEN NoName ELSE certs[s].node

(* The signature of the old key proves the old certificate's name, if the  *)
(* two files belong together.                                              *)
Proof(m) == IF disk[m].key = disk[m].cert THEN NodeOf(disk[m].cert) ELSE NoName

CurrentNodeId(m) == IF OwnName[m] # NoName THEN OwnName[m] ELSE NodeOf(disk[m].cert)

Named(m) == IF Proof(m) # NoName THEN Proof(m) ELSE CurrentNodeId(m)

Enroll(m, t) ==
  LET known == Named(m) # NoName /\ roster[Named(m)].enrolled
  IN  /\ On(m, "idle") /\ issued < MaxCerts
      /\ Goes(m, [NoRequest EXCEPT
           !.step = "sent", !.token = t, !.proven = Proof(m), !.claim = CurrentNodeId(m),
           !.barred = known /\ roster[Named(m)].revoked,
           !.taken = known /\ Proof(m) = NoName /\ t # NoToken /\ MaxUses[t] = 1])
      /\ UNCHANGED <<tokens, roster, issued, certs, aged, disk, faults>>

(* The daily pass: join with the token in the environment, or renew, and   *)
(* send that token along if there is one.                                  *)
CheckOnce(m) ==
  /\ \/ disk[m].cert = 0 /\ EnvToken[m] # NoToken
     \/ disk[m].cert \in aged
  /\ Enroll(m, EnvToken[m])

(* scripts/enroll.js, with a token an admin gave.                          *)
EnrollByHand(m, t) == disk[m].cert = 0 /\ Enroll(m, t)

-----------------------------------------------------------------------------
(* Central, from await to await                                            *)

(* Signing follows the read or the UPDATE before it without a pause.       *)
Issue(m, n) ==
  /\ issued < MaxCerts
  /\ issued' = issued + 1
  /\ certs' = [certs EXCEPT ![issued + 1] = [node |-> n, token |-> request[m].token]]
  /\ Goes(m, [request[m] EXCEPT !.step = "issued", !.node = n, !.serial = issued + 1])

(* Mutant: an expired certificate proves nothing.                          *)
RenewUnexpired(m) ==
  /\ On(m, "sent") /\ request[m].token = NoToken
  /\ LET n == request[m].proven
     IN  IF n # NoName /\ disk[m].cert \notin aged /\ roster[n].enrolled /\ ~roster[n].revoked
         THEN Issue(m, n) /\ UNCHANGED tokens ELSE Refuse(m)
  /\ UNCHANGED <<roster, aged, disk, faults>>

(* Without a token: a proof, of a node in the roster, not revoked.         *)
Renew(m) ==
  /\ On(m, "sent") /\ request[m].token = NoToken
  /\ LET n == request[m].proven
     IN  IF n # NoName /\ roster[n].enrolled /\ ~roster[n].revoked
         THEN Issue(m, n) /\ UNCHANGED tokens ELSE Refuse(m)
  /\ UNCHANGED <<roster, aged, disk, faults>>

Spendable(t) == tokens[t].uses < MaxUses[t] /\ ~tokens[t].dead

FindToken(m) ==
  /\ On(m, "sent") /\ request[m].token # NoToken
  /\ IF Spendable(request[m].token) THEN To(m, "admitted") /\ UNCHANGED <<tokens, issued, certs>> ELSE Refuse(m)
  /\ UNCHANGED <<roster, aged, disk, faults>>

Claimed(m) == IF request[m].proven # NoName THEN request[m].proven ELSE request[m].claim

(* The name that a request is for, while central has yet to look at its    *)
(* row.                                                                    *)
Destined(m) ==
  IF request[m].step \in {"chosen", "issued"} THEN request[m].node
  ELSE IF request[m].step \in {"sent", "admitted"} THEN Claimed(m) ELSE NoName

(* A random name is nobody's.                                              *)
Unheard(n) ==
  /\ ~roster[n].enrolled
  /\ \A m \in Machines : n \notin {OwnName[m], request[m].claim, request[m].node}

Choose(m, n) == Goes(m, [request[m] EXCEPT !.step = "chosen", !.node = n]) /\ UNCHANGED <<tokens, issued, certs>>

(* The name it proves, else the one it claims, else a random one; not a    *)
(* revoked node's, and an enrolled node's only with proof or a token of    *)
(* more than one use.                                                      *)
ClaimNode(m) ==
  /\ On(m, "admitted")
  /\ LET n == Claimed(m)
     IN  IF n = NoName THEN \E x \in NodeIds : Unheard(x) /\ Choose(m, x)
         ELSE IF roster[n].revoked THEN Refuse(m)
         ELSE IF roster[n].enrolled /\ request[m].proven = NoName /\ MaxUses[request[m].token] = 1 THEN Refuse(m)
         ELSE Choose(m, n)
  /\ UNCHANGED <<roster, aged, disk, faults>>

(* Mutant: the check was made when the token was found.                    *)
ConsumeFound(m) ==
  /\ On(m, "chosen")
  /\ tokens' = [tokens EXCEPT ![request[m].token].uses = @ + 1]
  /\ Issue(m, request[m].node)
  /\ UNCHANGED <<roster, aged, disk, faults>>

(* One guarded UPDATE: the loser of a race is refused.                     *)
ConsumeEnrollmentToken(m) ==
  /\ On(m, "chosen")
  /\ LET t == request[m].token
     IN  IF Spendable(t)
         THEN tokens' = [tokens EXCEPT ![t].uses = @ + 1] /\ Issue(m, request[m].node)
         ELSE Refuse(m)
  /\ UNCHANGED <<roster, aged, disk, faults>>

(* The key in the request will not do: the token stays spent.              *)
IssueFails(m) ==
  /\ On(m, "chosen") /\ Spendable(request[m].token)
  /\ tokens' = [tokens EXCEPT ![request[m].token].uses = @ + 1]
  /\ Goes(m, NoRequest)
  /\ UNCHANGED <<roster, issued, certs, aged, disk, faults>>

(* Mutant: the upsert without the look; the name was checked when chosen.  *)
CheckNothing(m) ==
  /\ On(m, "issued")
  /\ To(m, "checked")
  /\ UNCHANGED <<tokens, issued, certs, roster, aged, disk, faults>>

(* registerNode looks for a revocation, then upserts the row.              *)
CheckRow(m) ==
  /\ On(m, "issued")
  /\ IF roster[request[m].node].revoked THEN Refuse(m) ELSE To(m, "checked") /\ UNCHANGED <<tokens, issued, certs>>
  /\ UNCHANGED <<roster, aged, disk, faults>>

RegisterNode(m) ==
  /\ On(m, "checked")
  /\ roster' = [roster EXCEPT ![request[m].node].enrolled = TRUE, ![request[m].node].serial = request[m].serial]
  /\ To(m, "answered")
  /\ UNCHANGED <<tokens, issued, certs, aged, disk, faults>>

-----------------------------------------------------------------------------
(* The machine keeps what it got: the key file, then the certificate file. *)

SaveKey(m) ==
  /\ On(m, "answered")
  /\ disk' = [disk EXCEPT ![m].key = request[m].serial]
  /\ To(m, "keyed")
  /\ UNCHANGED <<tokens, roster, issued, certs, aged, faults>>

SaveCert(m) ==
  /\ On(m, "keyed")
  /\ disk' = [disk EXCEPT ![m].cert = request[m].serial]
  /\ Goes(m, NoRequest)
  /\ UNCHANGED <<tokens, roster, issued, certs, aged, faults>>

(* Central or the machine stops, or the connection breaks.                 *)
Lose(m) ==
  /\ ~On(m, "idle") /\ faults < MaxFaults
  /\ faults' = faults + 1
  /\ Goes(m, NoRequest)
  /\ UNCHANGED <<tokens, roster, issued, certs, aged, disk>>

(* A machine is installed anew: its configured name is all that it keeps.  *)
Rebuild(m) ==
  /\ On(m, "idle") /\ disk[m].cert # 0 /\ faults < MaxFaults
  /\ faults' = faults + 1
  /\ disk' = [disk EXCEPT ![m] = [key |-> 0, cert |-> 0]]
  /\ UNCHANGED <<tokens, roster, issued, certs, aged, request>>

-----------------------------------------------------------------------------
(* An administrator, and time                                              *)

RevokeToken(t) ==
  /\ ~tokens[t].dead
  /\ tokens' = [tokens EXCEPT ![t].dead = TRUE]
  /\ UNCHANGED <<roster, issued, certs, aged, disk, request, faults>>

(* It keeps out whoever is on the way to the name, until central has looked*)
(* at the row for the last time.                                           *)
RevokeNode(n) ==
  /\ roster[n].enrolled /\ ~roster[n].revoked
  /\ roster' = [roster EXCEPT ![n].revoked = TRUE]
  /\ request' = [m \in Machines |-> IF Destined(m) = n THEN [request[m] EXCEPT !.barred = TRUE] ELSE request[m]]
  /\ UNCHANGED <<tokens, issued, certs, aged, disk, faults>>

Age(s) ==
  /\ s \in (1 .. issued) \ aged
  /\ aged' = aged \cup {s}
  /\ UNCHANGED <<tokens, roster, issued, certs, disk, request, faults>>

Serve(m) ==
  \/ Renew(m) \/ FindToken(m) \/ ClaimNode(m) \/ ConsumeEnrollmentToken(m) \/ CheckRow(m) \/ RegisterNode(m)

Keep(m) == SaveKey(m) \/ SaveCert(m)

EnrollNext ==
  \/ \E m \in Machines : CheckOnce(m) \/ Serve(m) \/ IssueFails(m) \/ Keep(m) \/ Lose(m) \/ Rebuild(m)
  \/ \E t \in Tokens : RevokeToken(t) \/ \E m \in Machines : EnrollByHand(m, t)
  \/ \E n \in NodeIds : RevokeNode(n)
  \/ \E s \in Serials : Age(s)

EnrollSafety == EnrollInit /\ [][EnrollNext]_enrollVars

(* A check a day, and requests that are answered unless they are lost.     *)
EnrollSpec ==
  EnrollSafety /\ \A m \in Machines : WF_enrollVars(CheckOnce(m)) /\ WF_enrollVars(Serve(m)) /\ WF_enrollVars(Keep(m))

-----------------------------------------------------------------------------
(* Properties *)

EnrollTypeOK ==
  /\ tokens \in [Tokens -> [uses : Nat, dead : BOOLEAN]]
  /\ \A t \in Tokens : tokens[t].uses <= MaxUses[t]
  /\ roster \in [NodeIds -> [enrolled : BOOLEAN, revoked : BOOLEAN, serial : 0 .. MaxCerts]]
  /\ issued \in 0 .. MaxCerts
  /\ certs \in [Serials -> [node : NodeIds \cup {NoName}, token : Tokens \cup {NoToken}]]
  /\ aged \subseteq 1 .. issued
  /\ disk \in [Machines -> [key : 0 .. MaxCerts, cert : 0 .. MaxCerts]]
  /\ request \in [Machines -> [step : {"idle", "sent", "admitted", "chosen", "issued", "checked", "answered", "keyed"},
                               token : Tokens \cup {NoToken}, proven : NodeIds \cup {NoName},
                               claim : NodeIds \cup {NoName}, node : NodeIds \cup {NoName},
                               serial : 0 .. MaxCerts, barred : BOOLEAN, taken : BOOLEAN]]
  /\ faults \in 0 .. MaxFaults

(* However many machines race for one token, no more certificates are      *)
(* signed for it than its uses: "a ceiling of N is still N races that must *)
(* produce exactly N certificates" (enrollmentStore.js).                   *)
CertsBy(t) == {s \in 1 .. issued : certs[s].token = t}
WithinUses == \A t \in Tokens : Cardinality(CertsBy(t)) <= MaxUses[t]

Served(m) == request[m].step \in {"answered", "keyed"}

(* A machine whose name was revoked before it asked, or while it was being *)
(* served and central had yet to look at the row, gets no certificate,     *)
(* under that name or another, whatever token or proof it brings; and with *)
(* a single-use token and no proof nobody becomes a node that was enrolled *)
(* before he asked.                                                        *)
KeptOut == \A m \in Machines : request[m].barred \/ request[m].taken => ~Served(m)

(* "A node that already holds a certificate needs neither: it renews       *)
(* against its own current one, automatically" (docs/setup.md): one whose  *)
(* two files belong together and whose certificate nears its end gets      *)
(* another, unless it is revoked.                                          *)
Due(m) ==
  disk[m].key = disk[m].cert /\ disk[m].cert \in aged /\ issued < MaxCerts
Settled(m) ==
  \/ disk[m].cert \notin aged \/ disk[m].key # disk[m].cert \/ issued = MaxCerts
  \/ \E n \in NodeIds : n = NodeOf(disk[m].cert) /\ roster[n].revoked
RenewsItself == \A m \in Machines : Due(m) ~> Settled(m)

(* The same of the machines that carry no join token in their environment. *)
RenewsWithoutToken == \A m \in Machines : EnvToken[m] = NoToken => (Due(m) ~> Settled(m))
=============================================================================
