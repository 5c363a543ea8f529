----------------------------- MODULE RulesFile ------------------------------
(***************************************************************************)
(* rules.json, the detection rules: webui's handlers rewrite it, and       *)
(* icap-server's reloader puts it in force (webui/handler.go,              *)
(* icap-server/detection/rules_store.go, rules_reloader.go, main.go).      *)
(*                                                                         *)
(* A handler reads the file, changes its copy and rewrites the file with   *)
(* os.WriteFile, which truncates it first; no lock covers any of this, in  *)
(* webui or between the programs. The reloader stats the file, compares    *)
(* the modification time with the last one it loaded, reads the file and   *)
(* replaces the active rules. Each of these is a step.                     *)
(*                                                                         *)
(* Patterns, severities and descriptions are left out. A rule has what     *)
(* other parts look at: is it enabled, does it mask, does it have a        *)
(* replacement text (mask_replacement), which webui's RuleEntry lacks.     *)
(***************************************************************************)
EXTENDS Naturals, FiniteSets

CONSTANTS Rule,      \* rule ids
          Builtin,   \* ids of the rules the programs come with
          Edit,      \* requests to /api/rules and below (a bound)
          Torn,      \* rules.json truncated or half written: does not parse
          Absent     \* there is no rules.json

ASSUME RulesAssumption == Builtin \subseteq Rule /\ Builtin # {}

VARIABLES
  rulesFile,  \* the entries of rules.json, or Torn, or Absent
  (* webui *)
  epc,        \* where each request is
  edit,       \* what it asks for
  content,    \* what it is going to write
  spoilt,     \* requests whose file another request wrote after they truncated
  answer,     \* what its admin saw
  (* icap-server *)
  rpc,        \* where its start, and then its reloader, is
  active,     \* activeStore.rules
  loaded,     \* the entries it has just read
  newer,      \* the file's modification time is after lastMod
  newerStat,  \* ... and after the one the reloader's stat saw
  (* history *)
  before,     \* the requests answered when this one began
  missed,     \* the file was rewritten within the clock tick of the last load
  seeded      \* requests answered between the two calls of SeedRulesFile

editVars   == <<epc, edit, content, answer, before>>
icapVars   == <<rpc, active, loaded, seeded>>
timeVars   == <<newer, newerStat, missed>>
rulesVars  == <<rulesFile, epc, edit, content, spoilt, answer, rpc, active,
                loaded, newer, newerStat, before, missed, seeded>>
-----------------------------------------------------------------------------
Entry == [id : Rule, enabled : BOOLEAN, masks : BOOLEAN, repl : BOOLEAN]
Kinds == {"add", "update", "remove", "reset"}

ASSUME NoEntriesAssumption ==
  Torn # Absent /\ \A entries \in SUBSET Entry : entries \notin {Torn, Absent}

(* builtinRules and DefaultEntries.                                        *)
Defaults ==
  {[id |-> r, enabled |-> TRUE, masks |-> TRUE, repl |-> TRUE] : r \in Builtin}

Ids(entries) == {x.id : x \in entries}

(* Variant: the replacement is no field of what is written.                *)
MirrorWithoutField(entry) ==
  [id |-> entry.id, enabled |-> entry.enabled, masks |-> entry.masks]

(* What webui's RuleEntry keeps of an entry, as read and as decoded from a *)
(* request body: mask_replacement is no field of it.                       *)
Mirror(entry) == [entry EXCEPT !.repl = FALSE]

MirrorAll(entries) == {Mirror(x) : x \in entries}

(* EntriesToAlertRules: patterns compile, as the handlers check them.      *)
Compiled(entries) == {x \in entries : x.enabled}

(* webui: readRules of a file that parses, or of none.                     *)
WebuiRead == IF rulesFile = Absent THEN {} ELSE MirrorAll(rulesFile)

Init ==
  /\ rulesFile = Absent
  /\ epc = [e \in Edit |-> "idle"]
  /\ edit = [e \in Edit |-> [kind |-> "reset", entry |-> CHOOSE x \in Entry : TRUE]]
  /\ content = [e \in Edit |-> {}]
  /\ spoilt = {}
  /\ answer = [e \in Edit |-> "none"]
  /\ rpc = "down"
  /\ active = {}
  /\ loaded = {}
  /\ newer = TRUE
  /\ newerStat = FALSE
  /\ before = [e \in Edit |-> {}]
  /\ missed = FALSE
  /\ seeded = {}
-----------------------------------------------------------------------------
(* The file changes. Its modification time moves on, or stays if the       *)
(* file system's clock has not ticked since the last change.               *)
Touch ==
  \/ newer' = TRUE /\ newerStat' = TRUE /\ missed' = FALSE
  \/ /\ UNCHANGED <<newer, newerStat>>
     /\ missed' = (missed \/ ~ newer)

Answer(e, status) ==
  /\ epc' = [epc EXCEPT ![e] = "done"]
  /\ answer' = [answer EXCEPT ![e] = status]

(* Variant: an update keeps only the entry it changed.                     *)
AppliedUpdateAlone(kind, x, entries) ==
  CASE kind = "add"    -> entries \cup {x}
    [] kind = "update" -> {x}
    [] kind = "remove" -> {y \in entries : y.id # x.id}

(* The changed list of POST, PUT and DELETE.                               *)
Applied(kind, x, entries) ==
  CASE kind = "add"    -> entries \cup {x}
    [] kind = "update" -> {y \in entries : y.id # x.id} \cup {x}
    [] kind = "remove" -> {y \in entries : y.id # x.id}

(* Variant: POST does not look for the id.                                 *)
AcceptableAnyId(kind, x, entries) == kind = "add" \/ x.id \in Ids(entries)

(* "already exists", "rule not found".                                     *)
Acceptable(kind, x, entries) == (kind = "add") <=> (x.id \notin Ids(entries))

(* The requests that were acknowledged.                                    *)
Answered == {f \in Edit : answer[f] = "ok"}

(* POST, PUT, DELETE: readRules and the change of the copy, ...            *)
BeginEdit(e, kind, x) ==
  /\ epc[e] = "idle"
  /\ kind # "reset"
  /\ rulesFile # Torn
  /\ Acceptable(kind, x, WebuiRead)
  /\ epc' = [epc EXCEPT ![e] = "open"]
  /\ edit' = [edit EXCEPT ![e] = [kind |-> kind, entry |-> x]]
  /\ content' = [content EXCEPT ![e] = Applied(kind, x, WebuiRead)]
  /\ before' = [before EXCEPT ![e] = Answered]
  /\ UNCHANGED <<rulesFile, spoilt, answer, icapVars, timeVars>>

(* ... or 400, 404, and 500 for a file that does not parse.                *)
RefuseEdit(e, kind, x) ==
  /\ epc[e] = "idle"
  /\ kind # "reset"
  /\ rulesFile # Torn => ~ Acceptable(kind, x, WebuiRead)
  /\ Answer(e, "refused")
  /\ UNCHANGED <<rulesFile, edit, content, spoilt, before, icapVars, timeVars>>

(* POST /api/rules/reset reads nothing.                                    *)
BeginReset(e) ==
  /\ epc[e] = "idle"
  /\ epc' = [epc EXCEPT ![e] = "open"]
  /\ edit' = [edit EXCEPT ![e].kind = "reset"]
  /\ content' = [content EXCEPT ![e] = MirrorAll(Defaults)]
  /\ before' = [before EXCEPT ![e] = Answered]
  /\ UNCHANGED <<rulesFile, spoilt, answer, icapVars, timeVars>>

(* os.WriteFile opens the file with O_TRUNC ...                            *)
OpenRules(e) ==
  /\ epc[e] = "open"
  /\ epc' = [epc EXCEPT ![e] = "fill"]
  /\ rulesFile' = Torn
  /\ Touch
  /\ UNCHANGED <<edit, content, spoilt, answer, before, icapVars>>

(* Others that have the file open will write over these bytes.             *)
Overlapped(e) == {f \in Edit \ {e} : epc[f] = "fill"}

(* ... and writes at its start. If another request wrote since, what is    *)
(* longer of that remains behind.                                          *)
FillRules(e) ==
  /\ epc[e] = "fill"
  /\ Answer(e, "ok")
  /\ rulesFile' \in {content[e]} \cup (IF e \in spoilt THEN {Torn} ELSE {})
  /\ spoilt' = (spoilt \cup Overlapped(e)) \ {e}
  /\ Touch
  /\ UNCHANGED <<edit, content, before, icapVars>>

(* The open fails, which leaves the file alone; or the write after the     *)
(* truncation does, or webui stops.                                        *)
FailRules(e) ==
  \/ /\ epc[e] = "open"
     /\ Answer(e, "refused")
     /\ UNCHANGED <<rulesFile, spoilt, timeVars, edit, content, before, icapVars>>
  \/ /\ epc[e] = "fill"
     /\ Answer(e, "failed")
     /\ rulesFile' \in {rulesFile, Torn}
     /\ spoilt' = (spoilt \cup Overlapped(e)) \ {e}
     /\ Touch
     /\ UNCHANGED <<edit, content, before, icapVars>>
-----------------------------------------------------------------------------
(* icap-server.                                                            *)

(* It stops, by a signal or a panic, between any two steps.                *)
StopIcap ==
  /\ rpc # "down"
  /\ rpc' = "down"
  /\ active' = {}
  /\ loaded' = {}
  /\ UNCHANGED <<rulesFile, editVars, spoilt, timeVars, seeded>>

(* main: SeedRulesFile's os.Stat finds a file or none.                     *)
StartIcap ==
  /\ rpc = "down"
  /\ rpc' = IF rulesFile = Absent THEN "seed" ELSE "start"
  /\ UNCHANGED <<rulesFile, editVars, spoilt, active, loaded, timeVars, seeded>>

(* SaveRulesFile of the defaults, which looks no further; its error is a   *)
(* warning.                                                                *)
SeedRules ==
  /\ rpc = "seed"
  /\ rpc' = "start"
  /\ \/ /\ rulesFile' \in {Torn, Defaults}
        /\ spoilt' = spoilt \cup {e \in Edit : epc[e] = "fill"}
        /\ seeded' = Answered
     \/ UNCHANGED <<rulesFile, spoilt, seeded>>
  /\ UNCHANGED <<editVars, active, loaded, timeVars>>

(* main: LoadRulesFile, or the built-in rules if that fails. The reloader  *)
(* begins with lastMod = 0.                                                *)
LoadAtStart ==
  /\ rpc = "start"
  /\ rpc' = "wait"
  /\ active' = Compiled(IF rulesFile \in {Absent, Torn} THEN Defaults
                                                        ELSE rulesFile)
  /\ newer' = TRUE
  /\ newerStat' = FALSE
  /\ missed' = FALSE
  /\ UNCHANGED <<rulesFile, editVars, spoilt, loaded, seeded>>

(* A tick of StartRulesReloader: os.Stat, with a newer time.               *)
StatRules ==
  /\ rpc = "wait"
  /\ rulesFile # Absent
  /\ newer
  /\ rpc' = "read"
  /\ newerStat' = FALSE
  /\ UNCHANGED <<rulesFile, editVars, spoilt, active, loaded, seeded, newer, missed>>

(* Variant: a file that does not parse counts as one without rules.        *)
LoadRulesTornAsEmpty ==
  /\ rpc = "read"
  /\ rpc' = "set"
  /\ loaded' = IF rulesFile = Torn THEN {} ELSE rulesFile
  /\ UNCHANGED <<rulesFile, editVars, spoilt, active, seeded, timeVars>>

(* LoadRulesFile ...                                                       *)
LoadRules ==
  /\ rpc = "read"
  /\ rulesFile # Torn
  /\ rpc' = "set"
  /\ loaded' = rulesFile
  /\ UNCHANGED <<rulesFile, editVars, spoilt, active, seeded, timeVars>>

(* ... or its error: lastMod stays, so the next tick tries again.          *)
LoadFails ==
  /\ rpc = "read"
  /\ rulesFile = Torn
  /\ rpc' = "wait"
  /\ UNCHANGED <<rulesFile, editVars, spoilt, active, loaded, seeded, timeVars>>

(* Variant: lastMod is the time of the loading.                            *)
SetActiveTimeNow ==
  /\ rpc = "set"
  /\ rpc' = "wait"
  /\ active' = Compiled(loaded)
  /\ loaded' = {}
  /\ newer' = FALSE
  /\ missed' = (~ newerStat /\ rulesFile # loaded)
  /\ UNCHANGED <<rulesFile, editVars, spoilt, seeded, newerStat>>

(* SetActiveRules and lastMod, which is the time of the stat.              *)
SetActive ==
  /\ rpc = "set"
  /\ rpc' = "wait"
  /\ active' = Compiled(loaded)
  /\ loaded' = {}
  /\ newer' = newerStat
  /\ missed' = (~ newerStat /\ rulesFile # loaded)
  /\ UNCHANGED <<rulesFile, editVars, spoilt, seeded, newerStat>>
-----------------------------------------------------------------------------
(* A rule as a request's body can describe it.                             *)
Described == {Mirror(x) : x \in Entry}

EditStep(e) ==
  \/ \E kind \in Kinds, x \in Described :
        BeginEdit(e, kind, x) \/ RefuseEdit(e, kind, x)
  \/ BeginReset(e) \/ OpenRules(e) \/ FillRules(e) \/ FailRules(e)

ReloadStep == StatRules \/ LoadRules \/ LoadFails \/ SetActive

IcapStep == StopIcap \/ StartIcap \/ SeedRules \/ LoadAtStart \/ ReloadStep

Next == (\E e \in Edit : EditStep(e)) \/ IcapStep

(* The reloader's goroutine and its ticker run as long as icap-server.     *)
Spec == Init /\ [][Next]_rulesVars /\ WF_rulesVars(ReloadStep)
-----------------------------------------------------------------------------
(* Types of the file, the requests and the reloader.                       *)
TypeOK ==
  /\ rulesFile \in (SUBSET Entry) \cup {Torn, Absent}
  /\ epc \in [Edit -> {"idle", "open", "fill", "done"}]
  /\ edit \in [Edit -> [kind : Kinds, entry : Entry]]
  /\ content \in [Edit -> SUBSET Entry]
  /\ spoilt \subseteq Edit
  /\ answer \in [Edit -> {"none", "ok", "refused", "failed"}]
  /\ rpc \in {"down", "seed", "start", "wait", "read", "set"}
  /\ active \subseteq Entry
  /\ loaded \subseteq Entry
  /\ newer \in BOOLEAN
  /\ newerStat \in BOOLEAN
  /\ before \in [Edit -> SUBSET Edit]
  /\ missed \in BOOLEAN
  /\ seeded \subseteq Edit

Running == rpc \in {"wait", "read", "set"}

UniqueIds(entries) == \A x, y \in entries : x.id = y.id => x = y

(* validateNewRule checks the id against a copy that may be old, and still *)
(* no id has two entries, in the file or in force: a handler writes its    *)
(* copy or loses to another.                                               *)
OneEntryPerId ==
  /\ rulesFile \notin {Torn, Absent} => UniqueIds(rulesFile)
  /\ UniqueIds(active)

(* Request f has truncated the file, whatever came of it.                  *)
Rewrote(f) == epc[f] = "fill" \/ answer[f] \in {"ok", "failed"}

(* What is in force was written as a whole by a request, or is what the    *)
(* programs come with: the reloader never acts on a half-written file.     *)
WholeRulesInForce ==
  Running =>
     \/ active = Compiled(Defaults)
     \/ \E e \in Edit : Rewrote(e) /\ active = Compiled(content[e])

Overlap(e, f) == /\ e # f /\ Rewrote(f)
                 /\ e \notin before[f] /\ f \notin before[e]

(* A later request that changes the rule of e, or all rules.               *)
Replaces(f, e) == /\ Rewrote(f) /\ e \in before[f]
                  /\ \/ edit[f].kind = "reset"
                     \/ edit[f].entry.id = edit[e].entry.id

(* A rule that POST or PUT acknowledged is in every later file that        *)
(* parses, until a later request changes that rule or resets all; only a   *)
(* request that overlapped it, between reading and writing, can undo it,   *)
(* or the first start of icap-server.                                      *)
AcknowledgedRuleStays ==
  \A e \in Edit :
    (/\ answer[e] = "ok" /\ edit[e].kind \in {"add", "update"}
     /\ rulesFile # Torn)
    => \/ edit[e].entry \in rulesFile
       \/ e \in seeded
       \/ \E f \in Edit : Overlap(e, f) \/ Replaces(f, e)

(* StartRulesReloader: once nobody rewrites it any more, the rules of a    *)
(* file that parses come into force and stay, unless its last change fell  *)
(* into the clock tick of the load before.                                 *)
FileComesIntoForce ==
  <>[](\/ ~ Running \/ rulesFile \in {Torn, Absent} \/ missed
       \/ active = Compiled(rulesFile))
=============================================================================
