-------------------------- MODULE EnforcementProofs -------------------------
(***************************************************************************)
(* Theorems about Enforcement, for every number of requests and PUTs and   *)
(* every set of services, rules, bodies, policies and rule files.          *)
(***************************************************************************)
EXTENDS Enforcement, TLAPS

LEMMA DefaultIsPolicy == DefaultPolicy \in Policy
  BY DEF DefaultPolicy, Policy, Mode, Unset

LEMMA GetModeType == ASSUME NEW p \in Policy, NEW s \in Service
                     PROVE  GetMode(p, s) \in Mode
  BY DEF GetMode, Policy, Unset

(* A step on policy.json keeps the types of PolicyFile.                    *)
LEMMA PolicyFileTypes ==
  ASSUME PolicyTypeOK, PolicyFileStep
  PROVE  PolicyTypeOK'
<1> USE DefaultIsPolicy DEF PolicyTypeOK, putVars, loadVars, AnswerPut, Opened
<1>1. ASSUME NEW u \in Put, NEW p \in Offered, BeginPut(u, p)
      PROVE  PolicyTypeOK'
  BY <1>1, OfferedAssumption DEF BeginPut
<1>2. ASSUME NEW u \in Put, OpenPolicy(u) PROVE PolicyTypeOK'
  BY <1>2 DEF OpenPolicy
<1>3. ASSUME NEW u \in Put, FillPolicy(u) PROVE PolicyTypeOK'
  BY <1>3 DEF FillPolicy
<1>4. ASSUME NEW u \in Put, FailPut(u) PROVE PolicyTypeOK'
  BY <1>4 DEF FailPut
<1>5. CASE LoadPolicy
  BY <1>5 DEF LoadPolicy
<1>6. CASE LoadWritesDefault
  BY <1>6 DEF LoadWritesDefault, WriteDefault
<1>7. CASE OtherLoads
  BY <1>7 DEF OtherLoads
<1>8. CASE OtherWritesDefault
  BY <1>8 DEF OtherWritesDefault, WriteDefault
<1> QED
  BY <1>1, <1>2, <1>3, <1>4, <1>5, <1>6, <1>7, <1>8 DEF PolicyFileStep, PutStep

LEMMA ReloadAndStopTypes ==
  ASSUME PolicyTypeOK, ReloadPolicy \/ StopPolicy
  PROVE  PolicyTypeOK'
  BY DefaultIsPolicy
  DEF PolicyTypeOK, ReloadPolicy, StopPolicy, Parses, putVars

LEMMA StartRulesType == StartRules \in RuleSet
  BY InForceAssumption DEF StartRules

LEMMA EscalatedType ==
  ASSUME NEW m \in Mode, NEW b, NEW t
  PROVE  Escalated(m, b, t) \in Mode
  BY DEF Escalated, Mode
-----------------------------------------------------------------------------
(* The types of what belongs to the handlers.                              *)
HandlerTypes ==
  /\ hpc \in [Request -> {"idle", "detect", "mode", "log", "act", "mask", "done"}]
  /\ body \in [Request -> Body]
  /\ hits \in [Request -> SUBSET Rule]
  /\ mode \in [Request -> Mode]
  /\ entry \in [Request -> {"none", "lost", "passed", "blocked", "masked",
                            "monitored", "warned"}]
  /\ toMask \in [Request -> SUBSET Part]
  /\ content \in [Request -> [Part -> SUBSET Rule]]
  /\ left \in [Request -> Outcomes]

LEMMA InitTypes == Init => TypeOK
<1> SUFFICES ASSUME Init PROVE TypeOK
  OBVIOUS
<1>1. PolicyTypeOK
  BY DefaultIsPolicy DEF Init, PolicyInit, PolicyTypeOK
<1>2. (CHOOSE b \in Seen : TRUE) \in Body
  BY SeenAssumption
<1>3. HandlerTypes
  BY <1>2 DEF Init, HandlerTypes, Mode, Outcomes
<1> QED
  BY <1>1, <1>3, StartRulesType
     DEF Init, TypeOK, HandlerTypes, RuleSet, Mode

(* A step of a handler keeps the types.                                    *)
LEMMA RequestTypes ==
  ASSUME TypeOK, NEW q \in Request, RequestStep(q)
  PROVE  TypeOK'
<1> USE DEF TypeOK, At, GoTo, Leave, Outcomes, historyVars, handlerVars
<1>p. UNCHANGED policyVars => PolicyTypeOK'
  BY DEF PolicyTypeOK, policyVars
<1>1. CASE ArriveUnserved(q)
  BY <1>1, <1>p DEF ArriveUnserved, Unserved
<1>2. ASSUME NEW b \in Seen, Arrive(q, b) PROVE TypeOK'
  <2>1. b \in Body /\ b.service \in Service /\ b.found \in [Part -> SUBSET Rule]
    BY SeenAssumption DEF Body
  <2>2. GetMode(policy, b.service) \in Mode
    BY <2>1, GetModeType DEF PolicyTypeOK
  <2> QED
    BY <1>2, <1>p, <2>1, <2>2 DEF Arrive
<1>3. CASE Detect(q)
  <2>1. Matches(body[q], rules.detect) \subseteq Rule
    BY DEF Matches, RuleSet
  <2> QED
    BY <1>3, <1>p, <2>1 DEF Detect
<1>4. CASE DetectNothing(q)
  BY <1>4, <1>p DEF DetectNothing
<1>5. CASE ChooseMode(q)
  <2>1. GetMode(policy, body[q].service) \in Mode
    BY GetModeType DEF PolicyTypeOK, Body
  <2>2. Escalated(GetMode(policy, body[q].service), body[q], Triggered(q)) \in Mode
    BY <2>1, EscalatedType
  <2> QED
    BY <1>5, <1>p, <2>2 DEF ChooseMode
<1>6. CASE WriteLog(q)
  <2>1. Action(mode[q], Triggered(q))
          \in {"passed", "blocked", "masked", "monitored", "warned"}
    BY DEF Action
  <2>2. PICK a \in {Action(mode[q], Triggered(q)), "lost"} :
          entry' = [entry EXCEPT ![q] = a]
    BY <1>6 DEF WriteLog
  <2>3. entry' \in [Request -> {"none", "lost", "passed", "blocked", "masked",
                                "monitored", "warned"}]
    BY <2>1, <2>2
  <2> QED
    BY <1>6, <1>p, <2>3 DEF WriteLog
<1>7. CASE PassOn(q)
  BY <1>7, <1>p DEF PassOn
<1>8. CASE Block(q)
  BY <1>8, <1>p DEF Block
<1>9. CASE Warn(q)
  <2>1. PICK channels \in SUBSET (IF Notifies(q) THEN Channel ELSE {}) :
          alerts' = [alerts EXCEPT ![q] = channels]
    BY <1>9 DEF Warn
  <2>2. alerts' \in [Request -> SUBSET Channel]
    BY <2>1
  <2> QED
    BY <1>9, <1>p, <2>2 DEF Warn
<1>10. CASE BeginMask(q)
  <2>1. body[q].reached \subseteq Part
    BY DEF Body
  <2> QED
    BY <1>10, <1>p, <2>1 DEF BeginMask
<1>11. ASSUME NEW p \in Part, MaskPart(q, p) PROVE TypeOK'
  BY <1>11, <1>p DEF MaskPart
<1>12. CASE SendMasked(q)
  BY <1>12, <1>p DEF SendMasked
<1>13. CASE SlackSends(q)
  BY <1>13, <1>p DEF SlackSends
<1>14. CASE EmailSends(q)
  BY <1>14, ReloadAndStopTypes, StartRulesType DEF EmailSends, Stop, Unserved, InHand
<1> QED
  BY <1>1, <1>2, <1>3, <1>4, <1>5, <1>6, <1>7, <1>8, <1>9, <1>10, <1>11, <1>12,
     <1>13, <1>14
  DEF RequestStep, HandlerStep

LEMMA NextTypes ==
  ASSUME TypeOK, [Next]_allVars
  PROVE  TypeOK'
<1>1. CASE FileStep
  BY <1>1, PolicyFileTypes
     DEF TypeOK, FileStep, enforceVars, handlerVars, historyVars
<1>2. CASE Reload
  <2>1. PolicyTypeOK'
    BY <1>2, ReloadAndStopTypes DEF Reload, TypeOK
  <2>2. \A q \in Request : GetMode(policy', body[q].service) \in Mode
    BY <2>1, GetModeType DEF TypeOK, PolicyTypeOK, Body
  <2> QED
    BY <1>2, <2>1, <2>2 DEF Reload, TypeOK, handlerVars
<1>3. ASSUME NEW q \in Request, RequestStep(q) PROVE TypeOK'
  BY <1>3, RequestTypes
<1>4. ASSUME NEW r \in InForce, ReplaceRules(r) PROVE TypeOK'
  <2>1. PolicyTypeOK'
    BY <1>4 DEF ReplaceRules, TypeOK, PolicyTypeOK, policyVars
  <2>2. r \in RuleSet
    BY InForceAssumption
  <2> QED
    BY <1>4, <2>1, <2>2 DEF ReplaceRules, TypeOK, handlerVars, RuleSet
<1>5. CASE Stop /\ UNCHANGED panicked
  BY <1>5, ReloadAndStopTypes, StartRulesType
     DEF Stop, TypeOK, Unserved, Outcomes, InHand
<1>6. CASE UNCHANGED allVars
  BY <1>6 DEF allVars, policyVars, enforceVars, handlerVars, historyVars, TypeOK,
              PolicyTypeOK
<1> QED
  BY <1>1, <1>2, <1>3, <1>4, <1>5, <1>6 DEF Next

(* Every reachable state is well typed: the policy file and the loaded     *)
(* policy, the handlers of ServeREQMOD and interceptTLS, the alerts.       *)
THEOREM TypeCorrect == Spec => []TypeOK
<1>1. Init => TypeOK
  BY InitTypes
<1>2. TypeOK /\ [Next]_allVars => TypeOK'
  BY NextTypes
<1> QED
  BY <1>1, <1>2, PTL DEF Spec
-----------------------------------------------------------------------------
(* The inductive invariant: what a handler knows at each place.            *)

Working == {"detect", "mode", "log", "act", "mask"}

(* While a request is in hand, what is in force is among what has been.    *)
ConfigurationOK(q) ==
  hpc[q] \in Working =>
    /\ GetMode(policy, body[q].service) \in modes[q]
    /\ always[q].detect \subseteq rules.detect
    /\ always[q].mask \subseteq rules.mask

UnansweredOK(q) ==
  /\ hpc[q] # "done" => left[q] = "none" /\ q \notin cut
  /\ hpc[q] \in {"idle", "detect", "mode", "log"} => entry[q] = "none"

DetectedOK(q) ==
  hpc[q] \in {"mode", "log", "act", "mask"} =>
    Matches(body[q], always[q].detect) \subseteq hits[q]

ChosenOK(q) ==
  hpc[q] \in {"log", "act", "mask"} =>
    \E m \in modes[q] : mode[q] = Escalated(m, body[q], Triggered(q))

LoggedOK(q) ==
  hpc[q] \in {"act", "mask"} =>
    entry[q] \in {Action(mode[q], Triggered(q)), "lost"}

MaskedOK(q) ==
  hpc[q] = "mask" =>
    /\ Triggered(q) /\ mode[q] = "mask"
    /\ \A p \in body[q].reached \ toMask[q] :
         content[q][p] \cap always[q].mask = {}

(* AnsweredAsLogged and SteadyConfigurationIsEnforced, of one request.     *)
AnswerFits(q) ==
  hpc[q] = "done" =>
    /\ entry[q] \notin {"none", "lost"} /\ q \notin cut
          => left[q] = Shown(entry[q])
    /\ left[q] \in {"refused", "masked"} => entry[q] # "none"

Hit(q) == /\ ~ body[q].blank
          /\ Matches(body[q], always[q].detect) # {} \/ body[q].named

Enforced(q) ==
  left[q] \in {"passed on", "refused", "masked"} /\ q \notin cut =>
    /\ Hit(q) /\ modes[q] = {"block"} => left[q] = "refused"
    /\ Hit(q) /\ modes[q] = {"mask"} =>
         IF body[q].upload
         THEN left[q] = "refused"
         ELSE /\ left[q] = "masked"
              /\ \A p \in body[q].reached :
                   content[q][p] \cap always[q].mask = {}
    /\ left[q] = "refused" => \/ "block" \in modes[q]
                              \/ "mask" \in modes[q] /\ body[q].upload
    /\ left[q] = "masked" => "mask" \in modes[q] /\ ~ body[q].upload

HandlerOK(q) ==
  /\ ConfigurationOK(q) /\ UnansweredOK(q) /\ DetectedOK(q)
  /\ ChosenOK(q) /\ LoggedOK(q) /\ MaskedOK(q)
  /\ AnswerFits(q) /\ Enforced(q)

(* No handler works while the program does not serve.                      *)
Served == ~ Serving => \A q \in Request : hpc[q] \notin Working

Inv == TypeOK /\ Served /\ \A q \in Request : HandlerOK(q)

(* A step that leaves a request, its handler and what is in force alone.   *)
Untouched(q) ==
  /\ policy' = policy /\ rules' = rules
  /\ hpc'[q] = hpc[q] /\ body'[q] = body[q] /\ hits'[q] = hits[q]
  /\ mode'[q] = mode[q] /\ entry'[q] = entry[q] /\ toMask'[q] = toMask[q]
  /\ content'[q] = content[q] /\ left'[q] = left[q]
  /\ always'[q] = always[q] /\ modes'[q] = modes[q]
  /\ q \in cut' <=> q \in cut

LEMMA UntouchedKeeps ==
  ASSUME NEW q \in Request, HandlerOK(q), Untouched(q)
  PROVE  HandlerOK(q)'
<1> USE DEF HandlerOK, Untouched
<1>1. ConfigurationOK(q)' /\ UnansweredOK(q)'
  BY DEF ConfigurationOK, UnansweredOK, GetMode
<1>2. DetectedOK(q)' /\ ChosenOK(q)' /\ LoggedOK(q)'
  BY DEF DetectedOK, ChosenOK, LoggedOK, Triggered
<1>3. MaskedOK(q)' /\ AnswerFits(q)' /\ Enforced(q)'
  BY DEF MaskedOK, AnswerFits, Enforced, Hit, Triggered
<1> QED
  BY <1>1, <1>2, <1>3

LEMMA InitInv == Init => Inv
<1>1. Init => Served
  BY DEF Init, Served, Working
<1> SUFFICES ASSUME Init, NEW q \in Request PROVE HandlerOK(q)
  BY <1>1, InitTypes DEF Inv
<1> QED
  BY DEF Init, HandlerOK, ConfigurationOK, UnansweredOK, DetectedOK, ChosenOK,
         LoggedOK, MaskedOK, AnswerFits, Enforced, Working

(* Stopping cuts every handler that works and touches no other request.    *)
LEMMA StopKeeps ==
  ASSUME TypeOK, Stop, NEW q \in Request, HandlerOK(q)
  PROVE  HandlerOK(q)'
<1> USE DEF TypeOK, HandlerOK
<1>1. CASE hpc[q] \in Working
  <2>1. /\ hpc'[q] = "done" /\ left'[q] \in {"unscanned", "broken"} /\ q \in cut'
    BY <1>1 DEF Stop, InHand, Unserved, Working
  <2> QED
    BY <2>1 DEF ConfigurationOK, UnansweredOK, DetectedOK, ChosenOK, LoggedOK,
                MaskedOK, AnswerFits, Enforced, Working
<1>2. CASE hpc[q] \notin Working
  <2>1. /\ hpc'[q] = hpc[q] /\ left'[q] = left[q] /\ (q \in cut' <=> q \in cut)
        /\ UNCHANGED <<body, hits, mode, entry, content, always, modes>>
    BY <1>2 DEF Stop, InHand, Working
  <2>2. ConfigurationOK(q)' /\ DetectedOK(q)' /\ ChosenOK(q)' /\ LoggedOK(q)'
        /\ MaskedOK(q)'
    BY <1>2, <2>1 DEF ConfigurationOK, DetectedOK, ChosenOK, LoggedOK, MaskedOK,
                      Working
  <2>3. UnansweredOK(q)' /\ AnswerFits(q)' /\ Enforced(q)'
    BY <2>1 DEF UnansweredOK, AnswerFits, Enforced, Hit
  <2> QED
    BY <2>2, <2>3
<1> QED
  BY <1>1, <1>2

(* Another policy in force is one more mode that was; fewer rules stay in  *)
(* force throughout.                                                       *)
LEMMA ReloadKeeps ==
  ASSUME TypeOK, Reload, NEW q \in Request, HandlerOK(q)
  PROVE  HandlerOK(q)'
<1> USE DEF TypeOK, HandlerOK, Reload, handlerVars
<1>1. modes[q] \subseteq modes'[q]
  OBVIOUS
<1>2. ConfigurationOK(q)' /\ ChosenOK(q)'
  BY <1>1 DEF ConfigurationOK, ChosenOK, InHand, Working, Triggered
<1>3. UnansweredOK(q)' /\ DetectedOK(q)' /\ LoggedOK(q)' /\ MaskedOK(q)'
  BY DEF UnansweredOK, DetectedOK, LoggedOK, MaskedOK, Triggered
<1>4. AnswerFits(q)'
  BY DEF AnswerFits
<1>5. Enforced(q)'
  <2>1. CASE left[q] \in {"passed on", "refused", "masked"}
    <3>1. modes'[q] = modes[q]
      BY <2>1 DEF UnansweredOK, InHand
    <3> QED
      BY <3>1 DEF Enforced, Hit
  <2>2. CASE left[q] \notin {"passed on", "refused", "masked"}
    BY <2>2 DEF Enforced
  <2> QED
    BY <2>1, <2>2
<1> QED
  BY <1>2, <1>3, <1>4, <1>5

LEMMA ReplaceRulesKeeps ==
  ASSUME TypeOK, NEW r \in InForce, ReplaceRules(r),
         NEW q \in Request, HandlerOK(q)
  PROVE  HandlerOK(q)'
<1> USE DEF TypeOK, HandlerOK, ReplaceRules, handlerVars
<1>0. UNCHANGED policy
  BY DEF policyVars
<1>1. /\ always'[q].detect \subseteq always[q].detect
      /\ always'[q].mask \subseteq always[q].mask
  BY DEF InHand
<1>2. ConfigurationOK(q)'
  BY <1>0 DEF ConfigurationOK, InHand, Working, GetMode
<1>3. Matches(body[q], always'[q].detect) \subseteq Matches(body[q], always[q].detect)
  BY <1>1 DEF Matches
<1>4. DetectedOK(q)'
  BY <1>3 DEF DetectedOK
<1>5. UnansweredOK(q)' /\ ChosenOK(q)' /\ LoggedOK(q)' /\ AnswerFits(q)'
  BY DEF UnansweredOK, ChosenOK, LoggedOK, AnswerFits, Triggered
<1>6. MaskedOK(q)'
  BY <1>1 DEF MaskedOK, Triggered
<1>7. Enforced(q)'
  <2>1. CASE left[q] \in {"passed on", "refused", "masked"}
    <3>1. always'[q] = always[q]
      BY <2>1 DEF UnansweredOK, InHand
    <3> QED
      BY <3>1 DEF Enforced, Hit
  <2>2. CASE left[q] \notin {"passed on", "refused", "masked"}
    BY <2>2 DEF Enforced
  <2> QED
    BY <2>1, <2>2
<1> QED
  BY <1>2, <1>4, <1>5, <1>6, <1>7

(* A request's step touches no other request, unless its alert stops all.  *)
LEMMA OthersUntouched ==
  ASSUME TypeOK, NEW q \in Request, RequestStep(q), ~ EmailSends(q),
         NEW o \in Request \ {q}
  PROVE  Untouched(o)
<1> USE DEF TypeOK, Untouched, Leave, GoTo, policyVars, historyVars, handlerVars
<1>1. CASE ArriveUnserved(q)
  BY <1>1 DEF ArriveUnserved
<1>2. ASSUME NEW b \in Seen, Arrive(q, b) PROVE Untouched(o)
  BY <1>2 DEF Arrive
<1>3. CASE Detect(q) \/ DetectNothing(q)
  BY <1>3 DEF Detect, DetectNothing
<1>4. CASE ChooseMode(q)
  BY <1>4 DEF ChooseMode
<1>5. CASE WriteLog(q)
  <2>1. entry'[o] = entry[o]
    BY <1>5 DEF WriteLog
  <2> QED
    BY <1>5, <2>1 DEF WriteLog
<1>6. CASE PassOn(q) \/ Block(q)
  BY <1>6 DEF PassOn, Block
<1>7. CASE Warn(q)
  BY <1>7 DEF Warn
<1>8. CASE BeginMask(q) \/ SendMasked(q)
  BY <1>8 DEF BeginMask, SendMasked
<1>9. ASSUME NEW p \in Part, MaskPart(q, p) PROVE Untouched(o)
  BY <1>9 DEF MaskPart
<1>10. CASE SlackSends(q)
  BY <1>10 DEF SlackSends
<1> QED
  BY <1>1, <1>2, <1>3, <1>4, <1>5, <1>6, <1>7, <1>8, <1>9, <1>10
     DEF RequestStep, HandlerStep

(* What follows from the invariant where a handler answers.                *)
LEMMA WhatWasFound ==
  ASSUME TypeOK, NEW q \in Request, HandlerOK(q),
         hpc[q] \in {"mode", "log", "act", "mask"}, Hit(q)
  PROVE  Triggered(q)
  BY DEF HandlerOK, DetectedOK, Hit, Triggered

LEMMA WhatWasChosen ==
  ASSUME TypeOK, NEW q \in Request, HandlerOK(q), hpc[q] \in {"act", "mask"},
         Triggered(q)
  PROVE  \E m \in modes[q] :
            mode[q] = IF body[q].upload /\ m = "mask" THEN "block" ELSE m
  BY DEF HandlerOK, ChosenOK, Escalated

(* A request's own step.                                                   *)
LEMMA OwnStepKeeps ==
  ASSUME TypeOK, NEW q \in Request, HandlerOK(q), RequestStep(q), ~ EmailSends(q)
  PROVE  HandlerOK(q)'
<1> USE DEF TypeOK, HandlerOK, At, Leave, GoTo, policyVars, historyVars, handlerVars
<1>a. DEFINE Others == /\ ConfigurationOK(q)' /\ UnansweredOK(q)' /\ DetectedOK(q)'
                       /\ ChosenOK(q)' /\ LoggedOK(q)' /\ MaskedOK(q)'
<1>d. ASSUME hpc'[q] = "done" PROVE Others
  BY <1>d DEF ConfigurationOK, UnansweredOK, DetectedOK, ChosenOK, LoggedOK,
              MaskedOK, Working
<1>n. ASSUME hpc'[q] # "done", UNCHANGED left, hpc[q] # "done"
      PROVE  AnswerFits(q)' /\ Enforced(q)'
  BY <1>n DEF AnswerFits, Enforced, UnansweredOK
<1>1. CASE ArriveUnserved(q)
  <2>1. hpc'[q] = "done" /\ left'[q] \in {"unscanned", "broken"}
        /\ entry'[q] = "none"
    BY <1>1 DEF ArriveUnserved, UnansweredOK, Unserved
  <2>2. AnswerFits(q)' /\ Enforced(q)'
    BY <2>1 DEF AnswerFits, Enforced
  <2> QED
    BY <1>d, <2>1, <2>2
<1>2. ASSUME NEW b \in Seen, Arrive(q, b) PROVE HandlerOK(q)'
  <2>1. /\ hpc[q] = "idle" /\ hpc'[q] = "detect" /\ body'[q] = b
        /\ always'[q] = rules /\ modes'[q] = {GetMode(policy, b.service)}
        /\ UNCHANGED <<policy, rules, left, entry, cut>>
    BY <1>2, SeenAssumption DEF Arrive
  <2>2. ConfigurationOK(q)' /\ UnansweredOK(q)'
    BY <2>1 DEF ConfigurationOK, UnansweredOK, GetMode, Working
  <2>3. DetectedOK(q)' /\ ChosenOK(q)' /\ LoggedOK(q)' /\ MaskedOK(q)'
    BY <2>1 DEF DetectedOK, ChosenOK, LoggedOK, MaskedOK
  <2> QED
    BY <1>n, <2>1, <2>2, <2>3
<1>3. CASE Detect(q)
  <2>1. /\ hpc[q] = "detect" /\ hpc'[q] = "mode"
        /\ hits'[q] = Matches(body[q], rules.detect)
        /\ UNCHANGED <<policy, rules, body, left, entry, cut, always, modes>>
    BY <1>3 DEF Detect
  <2>2. ConfigurationOK(q)' /\ UnansweredOK(q)'
    BY <2>1 DEF ConfigurationOK, UnansweredOK, GetMode, Working
  <2>3. DetectedOK(q)'
    BY <2>1 DEF DetectedOK, ConfigurationOK, Working, Matches
  <2>4. ChosenOK(q)' /\ LoggedOK(q)' /\ MaskedOK(q)'
    BY <2>1 DEF ChosenOK, LoggedOK, MaskedOK
  <2> QED
    BY <1>n, <2>1, <2>2, <2>3, <2>4
<1>4. CASE DetectNothing(q)
  <2>1. /\ hpc[q] = "detect" /\ hpc'[q] = "done" /\ left'[q] = "passed on"
        /\ UNCHANGED <<body, entry, cut, always, modes, content>>
        /\ body[q].blank
    BY <1>4 DEF DetectNothing
  <2>3. ~ Hit(q)'
    BY <2>1 DEF Hit
  <2>4. AnswerFits(q)' /\ Enforced(q)'
    BY <2>1, <2>3 DEF AnswerFits, Enforced, UnansweredOK
  <2> QED
    BY <1>d, <2>1, <2>4
<1>5. CASE ChooseMode(q)
  <2>1. /\ hpc[q] = "mode" /\ hpc'[q] = "log"
        /\ mode'[q] = Escalated(GetMode(policy, body[q].service), body[q],
                                Triggered(q))
        /\ UNCHANGED <<policy, rules, body, hits, left, entry, cut, always, modes>>
    BY <1>5 DEF ChooseMode
  <2>2. ConfigurationOK(q)' /\ UnansweredOK(q)' /\ DetectedOK(q)'
    BY <2>1 DEF ConfigurationOK, UnansweredOK, DetectedOK, GetMode, Working
  <2>3. GetMode(policy, body[q].service) \in modes'[q]
    BY <2>1 DEF ConfigurationOK, Working
  <2>4. Triggered(q)' <=> Triggered(q)
    BY <2>1 DEF Triggered
  <2>5. ChosenOK(q)'
    BY <2>1, <2>3, <2>4 DEF ChosenOK, Escalated
  <2>6. LoggedOK(q)' /\ MaskedOK(q)'
    BY <2>1 DEF LoggedOK, MaskedOK
  <2> QED
    BY <1>n, <2>1, <2>2, <2>5, <2>6
<1>6. CASE WriteLog(q)
  <2>1. PICK a \in {Action(mode[q], Triggered(q)), "lost"} :
          entry' = [entry EXCEPT ![q] = a]
    BY <1>6 DEF WriteLog
  <2>2. /\ hpc[q] = "log" /\ hpc'[q] = "act" /\ entry'[q] = a
        /\ UNCHANGED <<policy, rules, body, hits, mode, left, cut, always, modes>>
    BY <1>6, <2>1 DEF WriteLog
  <2>3. Triggered(q)' <=> Triggered(q)
    BY <2>2 DEF Triggered
  <2>4. ConfigurationOK(q)' /\ UnansweredOK(q)' /\ DetectedOK(q)'
    BY <2>2 DEF ConfigurationOK, UnansweredOK, DetectedOK, GetMode, Working
  <2>5. ChosenOK(q)' /\ LoggedOK(q)' /\ MaskedOK(q)'
    BY <2>1, <2>2, <2>3 DEF ChosenOK, LoggedOK, MaskedOK, Escalated, Action
  <2> QED
    BY <1>n, <2>2, <2>4, <2>5
<1>7. CASE PassOn(q) \/ Warn(q)
  <2>1. /\ hpc[q] = "act" /\ hpc'[q] = "done" /\ left'[q] = "passed on"
        /\ UNCHANGED <<body, hits, mode, entry, cut, always, modes, content>>
        /\ ~ Triggered(q) \/ mode[q] \in {"monitor", "warn"}
    BY <1>7 DEF PassOn, Warn
  <2>a. entry[q] \in {Action(mode[q], Triggered(q)), "lost"}
    BY <2>1 DEF LoggedOK
  <2>b. Action(mode[q], Triggered(q)) \in {"passed", "monitored", "warned"}
    <3>1. CASE ~ Triggered(q)
      BY <3>1 DEF Action
    <3>2. CASE Triggered(q) /\ mode[q] = "monitor"
      BY <3>2 DEF Action
    <3>3. CASE Triggered(q) /\ mode[q] = "warn"
      BY <3>3 DEF Action
    <3> QED
      BY <2>1, <3>1, <3>2, <3>3
  <2>2. AnswerFits(q)'
    BY <2>1, <2>a, <2>b DEF AnswerFits, Shown
  <2>3. ASSUME Hit(q), modes[q] = {"block"} \/ modes[q] = {"mask"} PROVE FALSE
    BY <2>1, <2>3, WhatWasFound, WhatWasChosen
  <2>4. Hit(q)' <=> Hit(q)
    BY <2>1 DEF Hit
  <2>5. Enforced(q)'
    BY <2>1, <2>3, <2>4 DEF Enforced
  <2> QED
    BY <1>d, <2>1, <2>2, <2>5
<1>8. CASE Block(q)
  <2>1. /\ hpc[q] = "act" /\ hpc'[q] = "done" /\ left'[q] = "refused"
        /\ UNCHANGED <<body, hits, mode, entry, cut, always, modes, content>>
        /\ Triggered(q) /\ mode[q] = "block"
    BY <1>8 DEF Block
  <2>2. entry[q] \in {"blocked", "lost"}
    BY <2>1 DEF LoggedOK, Action
  <2>3. AnswerFits(q)'
    BY <2>1, <2>2 DEF AnswerFits, Shown
  <2>4. PICK m \in modes[q] :
          mode[q] = IF body[q].upload /\ m = "mask" THEN "block" ELSE m
    BY <2>1, WhatWasChosen
  <2>5. Enforced(q)'
    BY <2>1, <2>4 DEF Enforced
  <2> QED
    BY <1>d, <2>1, <2>3, <2>5
<1>9. CASE BeginMask(q)
  <2>1. /\ hpc[q] = "act" /\ hpc'[q] = "mask"
        /\ toMask'[q] = body[q].reached
        /\ UNCHANGED <<policy, rules, body, hits, mode, entry, left, cut, always,
                       modes, content>>
        /\ Triggered(q) /\ mode[q] = "mask"
    BY <1>9 DEF BeginMask
  <2>2. Triggered(q)' <=> Triggered(q)
    BY <2>1 DEF Triggered
  <2>3. ConfigurationOK(q)' /\ UnansweredOK(q)' /\ DetectedOK(q)'
    BY <2>1 DEF ConfigurationOK, UnansweredOK, DetectedOK, GetMode, Working
  <2>4. ChosenOK(q)' /\ LoggedOK(q)' /\ MaskedOK(q)'
    BY <2>1, <2>2 DEF ChosenOK, LoggedOK, MaskedOK, Escalated, Action
  <2> QED
    BY <1>n, <2>1, <2>3, <2>4
<1>10. ASSUME NEW p \in Part, MaskPart(q, p) PROVE HandlerOK(q)'
  <2>1. /\ hpc[q] = "mask" /\ hpc'[q] = "mask" /\ toMask'[q] = toMask[q] \ {p}
        /\ content'[q] = [content[q] EXCEPT ![p] = @ \ rules.mask]
        /\ UNCHANGED <<policy, rules, body, hits, mode, entry, left, cut, always,
                       modes>>
    BY <1>10 DEF MaskPart
  <2>2. Triggered(q)' <=> Triggered(q)
    BY <2>1 DEF Triggered
  <2>3. ConfigurationOK(q)' /\ UnansweredOK(q)' /\ DetectedOK(q)'
    BY <2>1 DEF ConfigurationOK, UnansweredOK, DetectedOK, GetMode, Working
  <2>4. ChosenOK(q)' /\ LoggedOK(q)'
    BY <2>1, <2>2 DEF ChosenOK, LoggedOK, Escalated, Action
  <2>5. always[q].mask \subseteq rules.mask
    BY <2>1 DEF ConfigurationOK, Working
  <2>6. \A o \in body[q].reached \ toMask'[q] :
           content'[q][o] \cap always[q].mask = {}
    <3> SUFFICES ASSUME NEW o \in body[q].reached \ toMask'[q]
                 PROVE  content'[q][o] \cap always[q].mask = {}
      OBVIOUS
    <3>1. content[q] \in [Part -> SUBSET Rule] /\ o \in Part
      BY DEF Body
    <3>2. CASE o = p
      BY <2>1, <2>5, <3>1, <3>2
    <3>3. CASE o # p
      BY <2>1, <3>1, <3>3 DEF MaskedOK
    <3> QED
      BY <3>2, <3>3
  <2>7. MaskedOK(q)'
    BY <2>1, <2>2, <2>6 DEF MaskedOK
  <2> QED
    BY <1>n, <2>1, <2>3, <2>4, <2>7
<1>11. CASE SendMasked(q)
  <2>1. /\ hpc[q] = "mask" /\ hpc'[q] = "done" /\ left'[q] = "masked"
        /\ UNCHANGED <<body, hits, mode, entry, cut, always, modes, content>>
        /\ toMask[q] = {}
    BY <1>11 DEF SendMasked
  <2>2. Triggered(q) /\ mode[q] = "mask"
        /\ \A p \in body[q].reached : content[q][p] \cap always[q].mask = {}
    BY <2>1 DEF MaskedOK
  <2>3. entry[q] \in {"masked", "lost"}
    BY <2>1, <2>2 DEF LoggedOK, Action
  <2>4. AnswerFits(q)'
    BY <2>1, <2>3 DEF AnswerFits, Shown
  <2>5. PICK m \in modes[q] :
          mode[q] = IF body[q].upload /\ m = "mask" THEN "block" ELSE m
    BY <2>1, <2>2, WhatWasChosen
  <2>6. m = "mask" /\ ~ body[q].upload
    BY <2>2, <2>5
  <2>7. Enforced(q)'
    BY <2>1, <2>2, <2>5, <2>6 DEF Enforced
  <2> QED
    BY <1>d, <2>1, <2>4, <2>7
<1>12. CASE SlackSends(q)
  BY <1>12, UntouchedKeeps DEF SlackSends, Untouched
<1> QED
  BY <1>1, <1>2, <1>3, <1>4, <1>5, <1>6, <1>7, <1>8, <1>9, <1>10, <1>11, <1>12
     DEF RequestStep, HandlerStep

(* Only a step of the program's own ends its service, and that step cuts   *)
(* every handler.                                                          *)
LEMMA ServedKeeps ==
  ASSUME TypeOK, Served, Next
  PROVE  Served'
<1> USE DEF TypeOK, Served, Serving
<1>1. CASE FileStep
  <2>1. UNCHANGED hpc
    BY <1>1 DEF FileStep, enforceVars, handlerVars
  <2>2. PolicyFileStep
    BY <1>1 DEF FileStep
  <2>3. ASSUME NEW u \in Put, PutStep(u) PROVE lpc' = lpc
    BY <2>3 DEF PutStep, BeginPut, OpenPolicy, FillPolicy, FailPut, loadVars
  <2>4. LoadPolicy \/ LoadWritesDefault => lpc # "poll"
    BY DEF LoadPolicy, LoadWritesDefault
  <2>5. OtherLoads \/ OtherWritesDefault => lpc' = lpc
    BY DEF OtherLoads, OtherWritesDefault, loadVars
  <2>6. lpc' # "poll" => lpc # "poll"
    BY <2>2, <2>3, <2>4, <2>5 DEF PolicyFileStep
  <2> QED
    BY <2>1, <2>6
<1>2. CASE Reload
  BY <1>2 DEF Reload, ReloadPolicy, handlerVars
<1>3. ASSUME NEW q \in Request, RequestStep(q), ~ EmailSends(q) PROVE Served'
  <2>1. \A o \in Request \ {q} : Untouched(o)
    BY <1>3, OthersUntouched
  <2>2. /\ UNCHANGED lpc
        /\ hpc'[q] \in Working => lpc = "poll" \/ hpc[q] \in Working
    <3> USE DEF At, Leave, GoTo, policyVars, handlerVars, Working
    <3>1. CASE ArriveUnserved(q) \/ SlackSends(q)
      BY <3>1 DEF ArriveUnserved, SlackSends
    <3>2. ASSUME NEW b \in Seen, Arrive(q, b)
          PROVE  UNCHANGED lpc /\ lpc = "poll"
      BY <3>2 DEF Arrive
    <3>3. CASE Detect(q) \/ DetectNothing(q) \/ ChooseMode(q) \/ WriteLog(q)
      BY <3>3 DEF Detect, DetectNothing, ChooseMode, WriteLog
    <3>4. CASE PassOn(q) \/ Block(q) \/ Warn(q) \/ BeginMask(q) \/ SendMasked(q)
      BY <3>4 DEF PassOn, Block, Warn, BeginMask, SendMasked
    <3>5. ASSUME NEW p \in Part, MaskPart(q, p)
          PROVE  UNCHANGED lpc /\ hpc[q] \in Working
      BY <3>5 DEF MaskPart
    <3> QED
      BY <1>3, <3>1, <3>2, <3>3, <3>4, <3>5 DEF RequestStep, HandlerStep
  <2> QED
    BY <2>1, <2>2 DEF Untouched
<1>4. ASSUME NEW r \in InForce, ReplaceRules(r) PROVE Served'
  BY <1>4 DEF ReplaceRules, policyVars, handlerVars
<1>5. CASE Stop
  <2>1. \A q \in Request : hpc'[q] \notin Working
    BY <1>5 DEF Stop, InHand, Working
  <2> QED
    BY <2>1
<1> QED
  BY <1>1, <1>2, <1>3, <1>4, <1>5 DEF Next, EmailSends

LEMMA NextInv ==
  ASSUME Inv, [Next]_allVars
  PROVE  Inv'
<1>i. TypeOK /\ Served /\ \A o \in Request : HandlerOK(o)
  BY DEF Inv
<1>0. TypeOK'
  BY <1>i, NextTypes
<1>s. Served'
  <2>1. UNCHANGED allVars => Served'
    BY <1>i DEF Served, Serving, allVars, policyVars, enforceVars, handlerVars
  <2> QED
    BY <1>i, <2>1, ServedKeeps
<1> SUFFICES ASSUME NEW o \in Request PROVE HandlerOK(o)'
  BY <1>0, <1>s DEF Inv
<1>1. CASE FileStep
  <2>1. UNCHANGED enforceVars
    BY <1>1 DEF FileStep
  <2>2. CASE UNCHANGED policy
    <3>1. Untouched(o)
      BY <2>1, <2>2 DEF Untouched, enforceVars, handlerVars, historyVars
    <3> QED
      BY <1>i, <3>1, UntouchedKeeps
  <2>3. CASE ~ UNCHANGED policy
    <3>1. ~ Serving
      <4>1. ASSUME NEW u \in Put, PutStep(u) PROVE UNCHANGED policy
        BY <4>1 DEF PutStep, BeginPut, OpenPolicy, FillPolicy, FailPut, loadVars
      <4>2. LoadWritesDefault \/ OtherLoads \/ OtherWritesDefault => UNCHANGED policy
        BY DEF LoadWritesDefault, OtherLoads, OtherWritesDefault, loadVars
      <4> QED
        BY <1>1, <2>3, <4>1, <4>2 DEF FileStep, PolicyFileStep, LoadPolicy, Serving
    <3>2. hpc[o] \notin Working
      BY <1>i, <3>1 DEF Served
    <3> USE DEF HandlerOK, enforceVars, handlerVars, historyVars
    <3>3. ConfigurationOK(o)' /\ UnansweredOK(o)' /\ DetectedOK(o)'
      BY <1>i, <2>1, <3>2 DEF ConfigurationOK, UnansweredOK, DetectedOK
    <3>4. ChosenOK(o)' /\ LoggedOK(o)' /\ MaskedOK(o)'
      BY <1>i, <2>1, <3>2 DEF ChosenOK, LoggedOK, MaskedOK, Triggered
    <3>5. AnswerFits(o)' /\ Enforced(o)'
      BY <1>i, <2>1 DEF AnswerFits, Enforced, Hit
    <3> QED
      BY <3>3, <3>4, <3>5
  <2> QED
    BY <2>2, <2>3
<1>2. CASE Reload
  BY <1>2, <1>i, ReloadKeeps
<1>3. ASSUME NEW q \in Request, RequestStep(q) PROVE HandlerOK(o)'
  <2>1. CASE EmailSends(q)
    BY <1>i, <2>1, StopKeeps DEF EmailSends
  <2>2. CASE ~ EmailSends(q) /\ o = q
    BY <1>3, <1>i, <2>2, OwnStepKeeps
  <2>3. CASE ~ EmailSends(q) /\ o # q
    BY <1>3, <1>i, <2>3, OthersUntouched, UntouchedKeeps
  <2> QED
    BY <2>1, <2>2, <2>3
<1>4. ASSUME NEW r \in InForce, ReplaceRules(r) PROVE HandlerOK(o)'
  BY <1>4, <1>i, ReplaceRulesKeeps
<1>5. CASE Stop
  BY <1>5, <1>i, StopKeeps
<1>6. CASE UNCHANGED allVars
  <2>1. Untouched(o)
    BY <1>6 DEF Untouched, allVars, policyVars, enforceVars, handlerVars, historyVars
  <2> QED
    BY <1>i, <2>1, UntouchedKeeps
<1> QED
  BY <1>1, <1>2, <1>3, <1>4, <1>5, <1>6 DEF Next

LEMMA InvHolds == Spec => []Inv
<1>1. Init => Inv
  BY InitInv
<1>2. Inv /\ [Next]_allVars => Inv'
  BY NextInv
<1> QED
  BY <1>1, <1>2, PTL DEF Spec

(* ServeREQMOD and interceptTLS write the log entry before they answer,    *)
(* from the mode they then act on: whatever is reloaded or stops in        *)
(* between, an entry never says what did not become of the request.        *)
THEOREM AnsweredAsLoggedHolds == Spec => []AnsweredAsLogged
<1>1. Inv => AnsweredAsLogged
  BY DEF Inv, HandlerOK, AnswerFits, AnsweredAsLogged
<1> QED
  BY <1>1, InvHolds, PTL

(* Detect, GetMode and applyMaskPatterns each take the configuration in    *)
(* force at their own time; what was in force all along is applied.        *)
THEOREM SteadyConfigurationHolds == Spec => []SteadyConfigurationIsEnforced
<1>1. Inv => SteadyConfigurationIsEnforced
  BY DEF Inv, HandlerOK, Enforced, Hit, SteadyConfigurationIsEnforced
<1> QED
  BY <1>1, InvHolds, PTL
-----------------------------------------------------------------------------
(* The policy file: a request ends before it can be in putBefore, so the   *)
(* one that writes is in no putBefore of those that were acknowledged.     *)
PolicyKept ==
  /\ PolicyTypeOK
  /\ \A u \in Put : putAnswer[u] = "ok" => ppc[u] = "done"
  /\ \A u, v \in Put : v \in putBefore[u] => ppc[v] = "done"
  /\ AcknowledgedPolicyStays

LEMMA InitPolicyKept == Init => PolicyKept
<1> SUFFICES ASSUME Init PROVE PolicyKept
  OBVIOUS
<1>1. PolicyTypeOK
  BY InitTypes DEF TypeOK
<1> QED
  BY <1>1 DEF Init, PolicyInit, PolicyKept, AcknowledgedPolicyStays

(* Steps that leave the file and the requests alone.                       *)
LEMMA PolicyUntouched ==
  ASSUME PolicyKept, PolicyTypeOK', UNCHANGED <<policyFile, putVars, defaulted>>
  PROVE  PolicyKept'
BY DEF PolicyKept, AcknowledgedPolicyStays, Parses, putVars

(* The file gets a policy that is not from a request, or none that parses. *)
LEMMA DefaultKeepsPolicy ==
  ASSUME PolicyKept, PolicyTypeOK', UNCHANGED putVars, WriteDefault
  PROVE  PolicyKept'
<1> USE DEF putVars, WriteDefault
<1>1. CASE UNCHANGED <<policyFile, spoilt, defaulted>>
  BY <1>1, PolicyUntouched
<1>2. CASE defaulted' = defaulted \cup {u \in Put : ppc[u] = "done"}
  BY <1>2 DEF PolicyKept, AcknowledgedPolicyStays
<1> QED
  BY <1>1, <1>2

(* The end of a request, whatever it left in the file.                     *)
LEMMA AnswerKeepsPolicy ==
  ASSUME PolicyKept, PolicyTypeOK', NEW u \in Put, ppc[u] \in {"open", "fill"},
         NEW status, AnswerPut(u, status), UNCHANGED <<wanted, putBefore, defaulted>>,
         \/ policyFile' \in {wanted[u], Torn}
         \/ status # "ok" /\ policyFile' = policyFile
  PROVE  PolicyKept'
<1> USE DEF AnswerPut
<1>1. /\ ppc'[u] = "done" /\ putAnswer'[u] = status
      /\ \A v \in Put \ {u} : ppc'[v] = ppc[v] /\ putAnswer'[v] = putAnswer[v]
  BY DEF PolicyKept, PolicyTypeOK
<1>2. \A v \in Put : u \notin putBefore[v]
  BY DEF PolicyKept
<1>3. AcknowledgedPolicyStays'
  <2> SUFFICES ASSUME NEW v \in Put, putAnswer'[v] = "ok", Parses', v \notin defaulted
               PROVE  \E w \in Put : /\ ppc'[w] = "done" /\ w \notin putBefore[v]
                                     /\ policyFile' = wanted[w]
    BY DEF AcknowledgedPolicyStays
  <2>1. CASE policyFile' = wanted[u]
    BY <1>1, <1>2, <2>1
  <2>2. CASE status # "ok" /\ policyFile' = policyFile
    <3>1. putAnswer[v] = "ok" /\ Parses
      BY <1>1, <2>2 DEF Parses
    <3>2. PICK w \in Put : /\ ppc[w] = "done" /\ w \notin putBefore[v]
                           /\ policyFile = wanted[w]
      BY <3>1 DEF PolicyKept, AcknowledgedPolicyStays
    <3> QED
      BY <1>1, <2>2, <3>2
  <2> QED
    BY <2>1, <2>2 DEF Parses
<1> QED
  BY <1>1, <1>3 DEF PolicyKept

LEMMA PutKeepsPolicy ==
  ASSUME PolicyKept, PolicyTypeOK', NEW u \in Put, PutStep(u)
  PROVE  PolicyKept'
<1>1. ASSUME NEW p \in Offered, BeginPut(u, p) PROVE PolicyKept'
  <2> USE DEF BeginPut
  <2>1. ppc[u] = "idle" /\ ppc'[u] = "open" /\ putAnswer[u] # "ok"
    BY <1>1 DEF PolicyKept, PolicyTypeOK
  <2>2. \A v \in Put \ {u} : /\ ppc'[v] = ppc[v] /\ wanted'[v] = wanted[v]
                             /\ putBefore'[v] = putBefore[v]
    BY <1>1 DEF PolicyKept, PolicyTypeOK
  <2>3. putBefore'[u] = {v \in Put : ppc[v] = "done"}
    BY <1>1 DEF PolicyKept, PolicyTypeOK
  <2>4. AcknowledgedPolicyStays'
    BY <1>1, <2>1, <2>2 DEF PolicyKept, AcknowledgedPolicyStays, Parses
  <2> QED
    BY <1>1, <2>1, <2>2, <2>3, <2>4 DEF PolicyKept
<1>2. CASE OpenPolicy(u)
  <2> USE DEF OpenPolicy
  <2>1. /\ ppc[u] = "open" /\ ppc'[u] = "fill" /\ ~ Parses'
        /\ \A v \in Put \ {u} : ppc'[v] = ppc[v]
    BY <1>2 DEF PolicyKept, PolicyTypeOK, Parses
  <2> QED
    BY <1>2, <2>1 DEF PolicyKept, AcknowledgedPolicyStays
<1>3. CASE FillPolicy(u)
  BY <1>3, AnswerKeepsPolicy DEF FillPolicy
<1>4. CASE FailPut(u)
  BY <1>4, AnswerKeepsPolicy DEF FailPut
<1> QED
  BY <1>1, <1>2, <1>3, <1>4 DEF PutStep

LEMMA NextPolicyKept == TypeOK /\ PolicyKept /\ [Next]_allVars => PolicyKept'
<1> SUFFICES ASSUME TypeOK, PolicyKept, [Next]_allVars PROVE PolicyKept'
  OBVIOUS
<1>t. PolicyTypeOK'
  BY NextTypes DEF TypeOK
<1>1. CASE FileStep
  <2>1. ASSUME NEW u \in Put, PutStep(u) PROVE PolicyKept'
    BY <1>t, <2>1, PutKeepsPolicy
  <2>2. CASE LoadPolicy \/ OtherLoads
    BY <1>t, <2>2, PolicyUntouched DEF LoadPolicy, OtherLoads
  <2>3. CASE LoadWritesDefault \/ OtherWritesDefault
    BY <1>t, <2>3, DefaultKeepsPolicy DEF LoadWritesDefault, OtherWritesDefault
  <2> QED
    BY <1>1, <2>1, <2>2, <2>3 DEF FileStep, PolicyFileStep
<1>2. CASE Reload
  BY <1>t, <1>2, PolicyUntouched DEF Reload, ReloadPolicy
<1>3. ASSUME NEW q \in Request, RequestStep(q) PROVE PolicyKept'
  <2>1. UNCHANGED <<policyFile, putVars, defaulted>>
    <3> USE DEF policyVars, putVars
    <3>1. CASE ArriveUnserved(q) \/ \E b \in Seen : Arrive(q, b)
      BY <3>1 DEF ArriveUnserved, Arrive
    <3>2. CASE Detect(q) \/ DetectNothing(q) \/ ChooseMode(q) \/ WriteLog(q)
      BY <3>2 DEF Detect, DetectNothing, ChooseMode, WriteLog
    <3>3. CASE PassOn(q) \/ Block(q) \/ Warn(q)
      BY <3>3 DEF PassOn, Block, Warn, Leave
    <3>4. CASE BeginMask(q) \/ (\E p \in Part : MaskPart(q, p)) \/ SendMasked(q)
      BY <3>4 DEF BeginMask, MaskPart, SendMasked, Leave
    <3>5. CASE SlackSends(q) \/ EmailSends(q)
      BY <3>5 DEF SlackSends, EmailSends, Stop, StopPolicy
    <3> QED
      BY <1>3, <3>1, <3>2, <3>3, <3>4, <3>5 DEF RequestStep, HandlerStep
  <2> QED
    BY <1>t, <2>1, PolicyUntouched
<1>4. ASSUME NEW r \in InForce, ReplaceRules(r) PROVE PolicyKept'
  BY <1>t, <1>4, PolicyUntouched DEF ReplaceRules, policyVars, putVars
<1>5. CASE Stop
  BY <1>t, <1>5, PolicyUntouched DEF Stop, StopPolicy
<1>6. CASE UNCHANGED allVars
  BY <1>t, <1>6, PolicyUntouched DEF allVars, policyVars, putVars
<1> QED
  BY <1>1, <1>2, <1>3, <1>4, <1>5, <1>6 DEF Next

(* A policy that handlePolicy acknowledged is lost only to a request that  *)
(* had not ended before it began, or to Load's default.                    *)
THEOREM AcknowledgedPolicyStaysHolds == Spec => []AcknowledgedPolicyStays
<1>1. PolicyKept => AcknowledgedPolicyStays
  BY DEF PolicyKept
<1> QED
  BY <1>1, InitPolicyKept, NextPolicyKept, TypeCorrect, PTL DEF Spec
=============================================================================
