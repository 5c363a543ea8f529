---------------------------- MODULE Enforcement -----------------------------
(***************************************************************************)
(* What becomes of a request to an AI service: icap-server's ServeREQMOD   *)
(* (icap-server/icap/handler.go) and tls-proxy's interceptTLS              *)
(* (tls-proxy/main.go), which detect, choose the mode, log, and pass,      *)
(* mask, refuse or alert. Both use icap-server/detection, policy and       *)
(* notification; a behaviour of this module follows one of the programs.   *)
(*                                                                         *)
(* While a request is handled the rules and the policy in force may be     *)
(* replaced, and the program may stop: squid then lets the request pass    *)
(* unscanned (bypass=1), a connection through tls-proxy breaks.            *)
(*                                                                         *)
(* A body is what the rules find in it, whether any text can be extracted  *)
(* from it, and what masking reaches of it. Regular expressions and the    *)
(* formats of the services, which decide this, are left out; so are a      *)
(* pattern that spans two strings of a body and the identity of the user.  *)
(***************************************************************************)
EXTENDS PolicyFile

CONSTANTS Rule,     \* rule ids
          Severe,   \* those of high or critical severity
          Request,  \* requests to AI services (a bound)
          Seen,     \* the bodies they may have
          InForce   \* the rules that may be in force

VARIABLES
  program,   \* the program the behaviour follows
  rules,     \* activeStore.rules
  hpc,       \* where each request's handler is
  body,      \* what the rules find in the request
  hits,      \* the rules that matched: result.RuleMatches
  mode,      \* the mode the handler acts on
  entry,     \* the action in the log entry, "none", or "lost" (write failed)
  toMask,    \* the strings of the body that are not masked yet
  content,   \* what the rules would find in the body that goes on
  left,      \* what became of the request
  alerts,    \* the channels an alert is on its way to
  (* history *)
  always,    \* the rules in force ever since the request came
  modes,     \* the modes in force for its service since then
  cut,       \* the program stopped under the handler
  panicked   \* a goroutine that sends an alert ended the program

handlerVars == <<hpc, body, hits, mode, entry, toMask, content, left>>
historyVars == <<always, modes, cut, panicked>>
enforceVars == <<program, rules, handlerVars, alerts, historyVars>>
allVars     == <<policyVars, enforceVars>>
-----------------------------------------------------------------------------
Program == {"icap-server", "tls-proxy"}
Channel == {"slack", "email"}

(* The strings of a body: the text Detect extracts, and the rest, such as  *)
(* earlier turns of the conversation.                                      *)
Part == {"prompt", "rest"}

(* found: the rules whose pattern is in the string; quiet: those that the  *)
(* context of the match in the prompt suppresses; upload: multipart or an  *)
(* opaque attachment; named: a sensitive file name, or that attachment;    *)
(* blank: the service's rule fails to extract a prompt, or an empty one;   *)
(* reached: the strings masking sees as the rules do - of a Gemini form    *)
(* those of f.req only, of JSON the values and not the names.              *)
Body == [service : Service, found : [Part -> SUBSET Rule],
         quiet : SUBSET Rule, upload : BOOLEAN, named : BOOLEAN,
         blank : BOOLEAN, reached : SUBSET Part]

(* The rules in force, and those of them with MaskBody.                    *)
RuleSet == [detect : SUBSET Rule, mask : SUBSET Rule]

ASSUME SeenAssumption == Seen \subseteq Body /\ Seen # {}
ASSUME InForceAssumption == InForce \subseteq RuleSet /\ InForce # {}

Outcomes == {"none", "passed on", "refused", "masked", "unscanned", "broken"}

Triggered(q) == hits[q] # {} \/ body[q].named

(* Detect: alertRule.match over the prompt.                                *)
Matches(b, detect) == (b.found["prompt"] \cap detect) \ b.quiet

(* An upload cannot be masked: mask becomes block.                         *)
Escalated(m, b, triggered) ==
  IF b.upload /\ triggered /\ m = "mask" THEN "block" ELSE m

(* entry.Action.                                                           *)
Action(m, triggered) ==
  IF ~ triggered THEN "passed"
  ELSE CASE m = "block"   -> "blocked"
         [] m = "mask"    -> "masked"
         [] m = "monitor" -> "monitored"
         [] OTHER         -> "warned"

Serving == lpc = "poll"

(* The rules while there is no program; ReplaceRules stands for the load   *)
(* of the start as well.                                                   *)
StartRules == CHOOSE r \in InForce : TRUE

(* The requests a handler works on.                                        *)
InHand == {q \in Request : hpc[q] \notin {"idle", "done"}}

Init ==
  /\ PolicyInit
  /\ program \in Program
  /\ rules = StartRules
  /\ hpc = [q \in Request |-> "idle"]
  /\ body = [q \in Request |-> CHOOSE b \in Seen : TRUE]
  /\ hits = [q \in Request |-> {}]
  /\ mode = [q \in Request |-> "warn"]
  /\ entry = [q \in Request |-> "none"]
  /\ toMask = [q \in Request |-> {}]
  /\ content = [q \in Request |-> [p \in Part |-> {}]]
  /\ left = [q \in Request |-> "none"]
  /\ alerts = [q \in Request |-> {}]
  /\ always = [q \in Request |-> [detect |-> {}, mask |-> {}]]
  /\ modes = [q \in Request |-> {}]
  /\ cut = {}
  /\ panicked = FALSE
-----------------------------------------------------------------------------
(* A handler runs, between a request's arrival and its reply.              *)
At(q, place) == hpc[q] = place

GoTo(q, place) == hpc' = [hpc EXCEPT ![q] = place]

Leave(q, outcome) ==
  /\ hpc' = [hpc EXCEPT ![q] = "done"]
  /\ left' = [left EXCEPT ![q] = outcome]

(* What squid, or the client's connection, does without the program.       *)
Unserved == IF program = "icap-server" THEN "unscanned" ELSE "broken"

ArriveUnserved(q) ==
  /\ At(q, "idle")
  /\ ~ Serving
  /\ Leave(q, Unserved)
  /\ UNCHANGED <<policyVars, program, rules, body, hits, mode, entry, toMask,
                 content, alerts, historyVars>>

Arrive(q, b) ==
  /\ At(q, "idle")
  /\ Serving
  /\ GoTo(q, "detect")
  /\ body' = [body EXCEPT ![q] = b]
  /\ content' = [content EXCEPT ![q] = b.found]
  /\ always' = [always EXCEPT ![q] = rules]
  /\ modes' = [modes EXCEPT ![q] = {GetMode(policy, b.service)}]
  /\ UNCHANGED <<policyVars, program, rules, hits, mode, entry, toMask, left,
                 alerts, cut, panicked>>

(* Detect, with a copy of ActiveRules.                                     *)
Detect(q) ==
  /\ At(q, "detect")
  /\ ~ body[q].blank
  /\ GoTo(q, "mode")
  /\ hits' = [hits EXCEPT ![q] = Matches(body[q], rules.detect)]
  /\ UNCHANGED <<policyVars, program, rules, body, mode, entry, toMask, content,
                 left, alerts, historyVars>>

(* Not an AI request, or no prompt in it: Detect returns before it looks   *)
(* at file names, and the request passes without an entry. Only an upload  *)
(* to a path without a rule of its own is screened without a prompt; it    *)
(* is not blank if its name is sensitive.                                  *)
DetectNothing(q) ==
  /\ At(q, "detect")
  /\ body[q].blank
  /\ Leave(q, "passed on")
  /\ UNCHANGED <<policyVars, program, rules, body, hits, mode, entry, toMask,
                 content, alerts, historyVars>>

(* policy.GetMode and the escalation of uploads.                           *)
ChooseMode(q) ==
  /\ At(q, "mode")
  /\ GoTo(q, "log")
  /\ mode' = [mode EXCEPT ![q] = Escalated(GetMode(policy, body[q].service),
                                           body[q], Triggered(q))]
  /\ UNCHANGED <<policyVars, program, rules, body, hits, entry, toMask, content,
                 left, alerts, historyVars>>

(* Variant: the entry has the mode without the escalation.                 *)
WriteLogUnescalated(q) ==
  /\ At(q, "log")
  /\ GoTo(q, "act")
  /\ \E a \in {Action(GetMode(policy, body[q].service), Triggered(q)), "lost"} :
        entry' = [entry EXCEPT ![q] = a]
  /\ UNCHANGED <<policyVars, program, rules, body, hits, mode, toMask, content,
                 left, alerts, historyVars>>

(* Logger.Write; its error is only printed.                                *)
WriteLog(q) ==
  /\ At(q, "log")
  /\ GoTo(q, "act")
  /\ \E a \in {Action(mode[q], Triggered(q)), "lost"} :
        entry' = [entry EXCEPT ![q] = a]
  /\ UNCHANGED <<policyVars, program, rules, body, hits, mode, toMask, content,
                 left, alerts, historyVars>>

(* WriteNoModification, or the original body to the service.               *)
PassOn(q) ==
  /\ At(q, "act")
  /\ ~ Triggered(q) \/ mode[q] = "monitor"
  /\ Leave(q, "passed on")
  /\ UNCHANGED <<policyVars, program, rules, body, hits, mode, entry, toMask,
                 content, alerts, historyVars>>

(* WriteBlock, or 403.                                                     *)
Block(q) ==
  /\ At(q, "act")
  /\ Triggered(q) /\ mode[q] = "block"
  /\ Leave(q, "refused")
  /\ UNCHANGED <<policyVars, program, rules, body, hits, mode, entry, toMask,
                 content, alerts, historyVars>>

(* shouldNotify; tls-proxy does not ask.                                   *)
Notifies(q) ==
  program = "tls-proxy" \/ hits[q] \cap Severe # {} \/ body[q].named

(* Notifier.Send starts a goroutine for each channel in the configuration, *)
(* which is reloaded and may have any; then the request passes.            *)
Warn(q) ==
  /\ At(q, "act")
  /\ Triggered(q) /\ mode[q] = "warn"
  /\ \E channels \in SUBSET (IF Notifies(q) THEN Channel ELSE {}) :
        alerts' = [alerts EXCEPT ![q] = channels]
  /\ Leave(q, "passed on")
  /\ UNCHANGED <<policyVars, program, rules, body, hits, mode, entry, toMask,
                 content, historyVars>>

BeginMask(q) ==
  /\ At(q, "act")
  /\ Triggered(q) /\ mode[q] = "mask"
  /\ GoTo(q, "mask")
  /\ toMask' = [toMask EXCEPT ![q] = body[q].reached]
  /\ UNCHANGED <<policyVars, program, rules, body, hits, mode, entry, content,
                 left, alerts, historyVars>>

(* Variant: only what matched is masked.                                   *)
MaskHits(q, p) ==
  /\ At(q, "mask")
  /\ p \in toMask[q]
  /\ toMask' = [toMask EXCEPT ![q] = @ \ {p}]
  /\ content' = [content EXCEPT ![q][p] = @ \ (hits[q] \cap rules.mask)]
  /\ UNCHANGED <<policyVars, program, rules, hpc, body, hits, mode, entry, left,
                 alerts, historyVars>>

(* applyMaskPatterns of one string that masking reaches, with the rules in *)
(* force by then.                                                          *)
MaskPart(q, p) ==
  /\ At(q, "mask")
  /\ p \in toMask[q]
  /\ toMask' = [toMask EXCEPT ![q] = @ \ {p}]
  /\ content' = [content EXCEPT ![q][p] = @ \ rules.mask]
  /\ UNCHANGED <<policyVars, program, rules, hpc, body, hits, mode, entry, left,
                 alerts, historyVars>>

(* WriteMasked, or the masked body to the service.                         *)
SendMasked(q) ==
  /\ At(q, "mask")
  /\ toMask[q] = {}
  /\ Leave(q, "masked")
  /\ UNCHANGED <<policyVars, program, rules, body, hits, mode, entry, toMask,
                 content, alerts, historyVars>>
-----------------------------------------------------------------------------
(* What happens around the handlers.                                       *)

(* sendSlackURL: delivered, or an error that is printed.                   *)
SlackSends(q) ==
  /\ "slack" \in alerts[q]
  /\ alerts' = [alerts EXCEPT ![q] = @ \ {"slack"}]
  /\ UNCHANGED <<policyVars, program, rules, handlerVars, historyVars>>

(* SetActiveRules of the reloader.                                         *)
ReplaceRules(r) ==
  /\ Serving
  /\ r # rules
  /\ rules' = r
  /\ always' = [q \in Request |->
                  IF q \in InHand
                  THEN [detect |-> always[q].detect \cap r.detect,
                        mask   |-> always[q].mask \cap r.mask]
                  ELSE always[q]]
  /\ UNCHANGED <<policyVars, program, handlerVars, alerts, modes, cut,
                 panicked>>

Reload ==
  /\ ReloadPolicy
  /\ modes' = [q \in Request |->
                 IF q \in InHand
                 THEN modes[q] \cup {GetMode(policy', body[q].service)}
                 ELSE modes[q]]
  /\ UNCHANGED <<program, rules, handlerVars, alerts, always, cut, panicked>>

(* The process ends under its handlers, by a signal or a panic.            *)
Stop ==
  /\ StopPolicy
  /\ rules' = StartRules
  /\ hpc' = [q \in Request |-> IF q \in InHand THEN "done" ELSE hpc[q]]
  /\ left' = [q \in Request |-> IF q \in InHand THEN Unserved ELSE left[q]]
  /\ cut' = cut \cup InHand
  /\ alerts' = [q \in Request |-> {}]
  /\ UNCHANGED <<program, body, hits, mode, entry, toMask, content, always,
                 modes>>

(* sendEmail uses n.email, which NewDynamicNotifier leaves nil, and not    *)
(* the sender that Send found: the goroutine panics.                       *)
EmailSends(q) ==
  /\ "email" \in alerts[q]
  /\ Stop
  /\ panicked' = TRUE

FileStep ==
  /\ PolicyFileStep
  /\ UNCHANGED enforceVars

HandlerStep(q) ==
  \/ Detect(q) \/ DetectNothing(q) \/ ChooseMode(q) \/ WriteLog(q)
  \/ PassOn(q) \/ Block(q) \/ Warn(q)
  \/ BeginMask(q) \/ (\E p \in Part : MaskPart(q, p)) \/ SendMasked(q)

RequestStep(q) ==
  \/ ArriveUnserved(q)
  \/ \E b \in Seen : Arrive(q, b)
  \/ HandlerStep(q)
  \/ SlackSends(q) \/ EmailSends(q)

Next ==
  \/ FileStep
  \/ Reload
  \/ \E q \in Request : RequestStep(q)
  \/ \E r \in InForce : ReplaceRules(r)
  \/ Stop /\ UNCHANGED panicked

(* The goroutine of StartReloader runs as long as the program.             *)
Spec == Init /\ [][Next]_allVars /\ WF_allVars(Reload)
-----------------------------------------------------------------------------
(* Types of the policy, the rules and the handlers.                        *)
TypeOK ==
  /\ PolicyTypeOK
  /\ program \in Program
  /\ rules \in RuleSet
  /\ hpc \in [Request -> {"idle", "detect", "mode", "log", "act", "mask", "done"}]
  /\ body \in [Request -> Body]
  /\ hits \in [Request -> SUBSET Rule]
  /\ mode \in [Request -> Mode]
  /\ entry \in [Request -> {"none", "lost", "passed", "blocked", "masked",
                            "monitored", "warned"}]
  /\ toMask \in [Request -> SUBSET Part]
  /\ content \in [Request -> [Part -> SUBSET Rule]]
  /\ left \in [Request -> Outcomes]
  /\ alerts \in [Request -> SUBSET Channel]
  /\ always \in [Request -> RuleSet]
  /\ modes \in [Request -> SUBSET Mode]
  /\ cut \subseteq Request
  /\ panicked \in BOOLEAN

(* How a logged action shows on the wire.                                  *)
Shown(action) ==
  CASE action = "blocked" -> "refused"
    [] action = "masked"  -> "masked"
    [] OTHER              -> "passed on"

(* ServeREQMOD and interceptTLS: the log entry says what became of the     *)
(* request, unless its write failed or the program stopped between the     *)
(* entry and the reply; and nothing is refused or masked without an entry. *)
AnsweredAsLogged ==
  \A q \in Request :
    hpc[q] = "done" =>
      /\ entry[q] \notin {"none", "lost"} /\ q \notin cut
            => left[q] = Shown(entry[q])
      /\ left[q] \in {"refused", "masked"} => entry[q] # "none"

(* The mode and the rules in force for as long as a request was handled    *)
(* are applied to it, whatever else was reloaded meanwhile: under block a  *)
(* match is refused, under mask an upload is refused and another body      *)
(* goes on without what a masking rule finds in any string that masking    *)
(* reaches; and nothing is refused or masked that no mode asked for.       *)
(* Detection, choice and masking read the configuration at different       *)
(* times. A body without a prompt is no match, whatever its file name.     *)
SteadyConfigurationIsEnforced ==
  \A q \in Request :
    LET hit == /\ ~ body[q].blank
               /\ Matches(body[q], always[q].detect) # {} \/ body[q].named
    IN  left[q] \in {"passed on", "refused", "masked"} /\ q \notin cut =>
          /\ hit /\ modes[q] = {"block"} => left[q] = "refused"
          /\ hit /\ modes[q] = {"mask"} =>
               IF body[q].upload
               THEN left[q] = "refused"
               ELSE /\ left[q] = "masked"
                    /\ \A p \in body[q].reached :
                         content[q][p] \cap always[q].mask = {}
          /\ left[q] = "refused" => \/ "block" \in modes[q]
                                    \/ "mask" \in modes[q] /\ body[q].upload
          /\ left[q] = "masked" => "mask" \in modes[q] /\ ~ body[q].upload

(* detector.go:86-87: "Check uploaded filenames against known sensitive    *)
(* patterns regardless of content. This catches cases where the file type  *)
(* is encrypted or otherwise unreadable": an upload with such a name is    *)
(* refused if block was the mode all along.                                *)
SensitiveNameIsRefused ==
  \A q \in Request :
    (/\ left[q] \in {"passed on", "refused", "masked"} /\ q \notin cut
     /\ body[q].upload /\ body[q].named /\ modes[q] = {"block"})
    => left[q] = "refused"

(* Notifier.Send "dispatches an alert for entry to all configured channels *)
(* asynchronously": doing so does not end the program that scans.          *)
AlertsDoNotEndTheProgram == ~ panicked
=============================================================================
