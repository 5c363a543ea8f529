----------------------------- MODULE PolicyFile -----------------------------
(***************************************************************************)
(* policy.json, the enforcement modes: webui's PUT /api/policy rewrites    *)
(* it, a scanning program (icap-server or tls-proxy, both with             *)
(* icap-server/policy/config.go) loads it, or writes the default where     *)
(* there is none, and polls it.                                            *)
(*                                                                         *)
(* os.WriteFile truncates before it writes, and nothing serialises the     *)
(* writers. The module follows one scanning program; of the other one it   *)
(* has the write of the default, the only thing it does to the file.       *)
(* Requests that do not validate are left out: they change nothing.        *)
(***************************************************************************)
EXTENDS Naturals, FiniteSets

CONSTANTS Service,   \* names of AI services
          Put,       \* PUT requests (a bound)
          Offered,   \* the policies they may carry
          Torn,      \* policy.json truncated or half written: does not parse
          Absent     \* there is no policy.json

VARIABLES
  policyFile,  \* the policy in policy.json, or Torn, or Absent
  (* webui *)
  ppc,         \* where each request is
  wanted,      \* the policy it carries
  spoilt,      \* requests whose file another one wrote after they truncated
  putAnswer,   \* what its admin saw
  (* the scanning program, and the other one *)
  lpc,         \* "down", "default" (found no file) or "poll"
  policy,      \* Config.data (the default while there is no program)
  otherSaw,    \* the other program found no file and will write one
  (* history *)
  putBefore,   \* the requests answered when this one began
  defaulted    \* the requests that had written when a default was

putVars    == <<ppc, wanted, putAnswer, putBefore>>
loadVars   == <<lpc, policy>>
policyVars == <<policyFile, ppc, wanted, spoilt, putAnswer, lpc, policy,
                otherSaw, putBefore, defaulted>>
-----------------------------------------------------------------------------
Mode  == {"monitor", "warn", "block", "mask"}
Unset == "unset"

Policy == [global : Mode, services : [Service -> Mode \cup {Unset}]]

ASSUME OfferedAssumption == Offered \subseteq Policy

(* What Load makes where there is no file.                                 *)
DefaultPolicy == [global |-> "monitor", services |-> [s \in Service |-> Unset]]

(* GetMode: the entry of the service, or else the global mode.             *)
GetMode(p, s) == IF p.services[s] = Unset THEN p.global ELSE p.services[s]

PolicyInit ==
  /\ policyFile = Absent
  /\ ppc = [u \in Put |-> "idle"]
  /\ wanted = [u \in Put |-> DefaultPolicy]
  /\ spoilt = {}
  /\ putAnswer = [u \in Put |-> "none"]
  /\ lpc = "down"
  /\ policy = DefaultPolicy
  /\ otherSaw = FALSE
  /\ putBefore = [u \in Put |-> {}]
  /\ defaulted = {}

Parses == policyFile \notin {Torn, Absent}
-----------------------------------------------------------------------------
(* webui: handlePolicy.                                                    *)

BeginPut(u, p) ==
  /\ ppc[u] = "idle"
  /\ ppc' = [ppc EXCEPT ![u] = "open"]
  /\ wanted' = [wanted EXCEPT ![u] = p]
  /\ putBefore' = [putBefore EXCEPT ![u] = {v \in Put : ppc[v] = "done"}]
  /\ UNCHANGED <<policyFile, spoilt, putAnswer, loadVars, otherSaw, defaulted>>

(* os.WriteFile: O_TRUNC ...                                               *)
OpenPolicy(u) ==
  /\ ppc[u] = "open"
  /\ ppc' = [ppc EXCEPT ![u] = "fill"]
  /\ policyFile' = Torn
  /\ UNCHANGED <<wanted, spoilt, putAnswer, putBefore, loadVars, otherSaw,
                 defaulted>>

AnswerPut(u, status) ==
  /\ ppc' = [ppc EXCEPT ![u] = "done"]
  /\ putAnswer' = [putAnswer EXCEPT ![u] = status]

(* Those that truncated and have not written yet.                          *)
Opened == {u \in Put : ppc[u] = "fill"}

(* ... and the bytes, over longer ones that another one may have written.  *)
FillPolicy(u) ==
  /\ ppc[u] = "fill"
  /\ AnswerPut(u, "ok")
  /\ policyFile' \in {wanted[u]} \cup (IF u \in spoilt THEN {Torn} ELSE {})
  /\ spoilt' = (spoilt \cup Opened) \ {u}
  /\ UNCHANGED <<wanted, putBefore, loadVars, otherSaw, defaulted>>

(* Variant: the handler ignores the error of os.WriteFile.                 *)
FailPutIgnored(u) ==
  /\ ppc[u] \in {"open", "fill"}
  /\ AnswerPut(u, "ok")
  /\ IF ppc[u] = "fill"
     THEN /\ policyFile' \in {policyFile, Torn}
          /\ spoilt' = (spoilt \cup Opened) \ {u}
     ELSE UNCHANGED <<policyFile, spoilt>>
  /\ UNCHANGED <<wanted, putBefore, loadVars, otherSaw, defaulted>>

(* The open fails, or the write does, or webui stops.                      *)
FailPut(u) ==
  /\ ppc[u] \in {"open", "fill"}
  /\ AnswerPut(u, "failed")
  /\ IF ppc[u] = "fill"
     THEN /\ policyFile' \in {policyFile, Torn}
          /\ spoilt' = (spoilt \cup Opened) \ {u}
     ELSE UNCHANGED <<policyFile, spoilt>>
  /\ UNCHANGED <<wanted, putBefore, loadVars, otherSaw, defaulted>>
-----------------------------------------------------------------------------
(* The scanning programs: policy.Config.                                   *)

(* writeFile of Load; its error is a warning.                              *)
WriteDefault ==
  \/ /\ policyFile' \in {DefaultPolicy, Torn}
     /\ spoilt' = spoilt \cup Opened
     /\ defaulted' = defaulted \cup {u \in Put : ppc[u] = "done"}
  \/ UNCHANGED <<policyFile, spoilt, defaulted>>

(* Load: os.ReadFile finds a policy or nothing. main gives up on a file    *)
(* that does not parse, so the program stays down.                         *)
LoadPolicy ==
  /\ lpc = "down"
  /\ policyFile # Torn
  /\ IF policyFile = Absent
     THEN /\ lpc' = "default"
          /\ policy' = DefaultPolicy
     ELSE /\ lpc' = "poll"
          /\ policy' = policyFile
  /\ UNCHANGED <<policyFile, putVars, spoilt, otherSaw, defaulted>>

LoadWritesDefault ==
  /\ lpc = "default"
  /\ lpc' = "poll"
  /\ WriteDefault
  /\ UNCHANGED <<putVars, policy, otherSaw>>

(* The other program starts as well.                                       *)
OtherLoads ==
  /\ policyFile = Absent
  /\ ~ otherSaw
  /\ otherSaw' = TRUE
  /\ UNCHANGED <<policyFile, putVars, spoilt, loadVars, defaulted>>

OtherWritesDefault ==
  /\ otherSaw
  /\ otherSaw' = FALSE
  /\ WriteDefault
  /\ UNCHANGED <<putVars, loadVars>>

(* Variant: a policy counts as unchanged if its global mode is.            *)
ReloadPolicyByGlobal ==
  /\ lpc = "poll"
  /\ Parses
  /\ policyFile.global # policy.global
  /\ policy' = policyFile
  /\ UNCHANGED <<policyFile, putVars, spoilt, lpc, otherSaw, defaulted>>

(* StartReloader: a tick reads the file; nothing changes if there is none  *)
(* or it does not parse. Nobody else writes c.data, so reading and         *)
(* assigning are one step.                                                 *)
ReloadPolicy ==
  /\ lpc = "poll"
  /\ Parses
  /\ policy' = policyFile
  /\ UNCHANGED <<policyFile, putVars, spoilt, lpc, otherSaw, defaulted>>

StopPolicy ==
  /\ lpc # "down"
  /\ lpc' = "down"
  /\ policy' = DefaultPolicy
  /\ UNCHANGED <<policyFile, putVars, spoilt, otherSaw, defaulted>>
-----------------------------------------------------------------------------
PutStep(u) ==
  \/ \E p \in Offered : BeginPut(u, p)
  \/ OpenPolicy(u) \/ FillPolicy(u) \/ FailPut(u)

(* The steps that leave the mode in force as it is.                        *)
PolicyFileStep ==
  \/ \E u \in Put : PutStep(u)
  \/ LoadPolicy \/ LoadWritesDefault \/ OtherLoads \/ OtherWritesDefault

PolicyTypeOK ==
  /\ policyFile \in Policy \cup {Torn, Absent}
  /\ ppc \in [Put -> {"idle", "open", "fill", "done"}]
  /\ wanted \in [Put -> Policy]
  /\ spoilt \subseteq Put
  /\ putAnswer \in [Put -> {"none", "ok", "failed"}]
  /\ lpc \in {"down", "default", "poll"}
  /\ policy \in Policy
  /\ otherSaw \in BOOLEAN
  /\ putBefore \in [Put -> SUBSET Put]
  /\ defaulted \subseteq Put

(* A policy that PUT acknowledged is what policy.json says whenever it     *)
(* parses, until a request that had not ended when this one began writes   *)
(* another. Only the default that a scanning program writes at its first   *)
(* start, having found no file, can undo it.                               *)
AcknowledgedPolicyStays ==
  \A u \in Put :
    putAnswer[u] = "ok" /\ Parses =>
       \/ u \in defaulted
       \/ \E v \in Put : /\ ppc[v] = "done"
                         /\ v \notin putBefore[u]
                         /\ policyFile = wanted[v]

(* StartReloader: once policy.json no longer changes, the policy in force  *)
(* is what it says, as long as it can be read.                             *)
PolicyComesIntoForce ==
  <>[](lpc # "poll" \/ ~ Parses \/ policy = policyFile)
=============================================================================
