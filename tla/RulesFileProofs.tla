--------------------------- MODULE RulesFileProofs --------------------------
(***************************************************************************)
(* Proofs about RulesFile for every set of ids and requests. What must not *)
(* get lost is in three places: in the file, in the copy of a handler that *)
(* has not written yet, and in what icap-server has read. The invariant    *)
(* says of each place what the properties say of the file.                 *)
(***************************************************************************)
EXTENDS RulesFile, TLAPS

Writing(e) == epc[e] \in {"open", "fill"}
Present    == rulesFile \notin {Torn, Absent}

(* Only ended requests are in the histories, and only they have answers.   *)
RequestInv ==
  /\ \A e \in Edit : answer[e] # "none" => epc[e] = "done"
  /\ \A e \in Edit : before[e] \subseteq Answered
  /\ seeded \subseteq Answered

(* A file that was there stays; the reloader reads only one that is there. *)
PresentInv ==
  /\ rulesFile = Absent => \A e \in Edit : ~ Rewrote(e)
  /\ rpc = "read" => rulesFile # Absent

UniqueInv ==
  /\ Present => UniqueIds(rulesFile)
  /\ \A e \in Edit : Writing(e) => UniqueIds(content[e])
  /\ UniqueIds(loaded) /\ UniqueIds(active)

(* Written as a whole by a request, or what the programs come with.        *)
Whole(entries) ==
  \/ entries = Defaults
  \/ \E e \in Edit : Rewrote(e) /\ entries = content[e]

WholeInv ==
  /\ Present => Whole(rulesFile)
  /\ rpc = "set" => Whole(loaded)
  /\ WholeRulesInForce

(* The rule of a request is in its own copy.                               *)
OwnInv ==
  \A e \in Edit :
    edit[e].kind \in {"add", "update"} /\ (Writing(e) \/ answer[e] = "ok") =>
      /\ Mirror(edit[e].entry) = edit[e].entry
      /\ Writing(e) => edit[e].entry \in content[e]

Acked(e) == answer[e] = "ok" /\ edit[e].kind \in {"add", "update"}

Excused(e) ==
  e \in seeded \/ \E f \in Edit : Overlap(e, f) \/ Replaces(f, e)

(* The rule of e is in the file, and in the copy of every handler that     *)
(* will not be an excuse once it writes.                                   *)
Kept(e) ==
  /\ rulesFile # Torn => edit[e].entry \in rulesFile
  /\ \A f \in Edit :
       Writing(f) => \/ edit[e].entry \in content[f]
                     \/ /\ epc[f] = "open"
                        /\ \/ e \notin before[f]
                           \/ edit[f].kind = "reset"
                           \/ edit[f].entry.id = edit[e].entry.id

AckInv == \A e \in Edit : Acked(e) => Excused(e) \/ Kept(e)

IInv == /\ TypeOK /\ RequestInv /\ PresentInv /\ UniqueInv /\ WholeInv
        /\ OwnInv /\ AckInv
-----------------------------------------------------------------------------
(* The operators on lists of entries.                                      *)
LEMMA MirrorType ==
  ASSUME NEW x \in Entry
  PROVE  Mirror(x) \in Entry /\ Mirror(x).id = x.id /\ Mirror(Mirror(x)) = Mirror(x)
BY DEF Mirror, Entry

LEMMA MirrorAllProperties ==
  ASSUME NEW S \in SUBSET Entry
  PROVE  /\ MirrorAll(S) \in SUBSET Entry
         /\ UniqueIds(S) => UniqueIds(MirrorAll(S))
         /\ \A x \in S : Mirror(x) = x => x \in MirrorAll(S)
BY MirrorType DEF MirrorAll, UniqueIds

LEMMA DefaultsProperties == Defaults \in SUBSET Entry /\ UniqueIds(Defaults)
<1> DEFINE builtin(r) == [id |-> r, enabled |-> TRUE, masks |-> TRUE, repl |-> TRUE]
<1>1. \A r \in Builtin : builtin(r) \in Entry /\ builtin(r).id = r
  BY RulesAssumption DEF Entry
<1>2. Defaults = {builtin(r) : r \in Builtin}
  BY DEF Defaults
<1> HIDE DEF builtin
<1> QED
  BY <1>1, <1>2 DEF UniqueIds

LEMMA WebuiReadProperties ==
  ASSUME TypeOK, UniqueInv, rulesFile # Torn
  PROVE  /\ WebuiRead \in SUBSET Entry /\ UniqueIds(WebuiRead)
         /\ Present => \A x \in rulesFile : Mirror(x) = x => x \in WebuiRead
<1>1. CASE rulesFile = Absent
  BY <1>1 DEF WebuiRead, UniqueIds, Present
<1>2. CASE rulesFile # Absent
  BY <1>2, MirrorAllProperties DEF WebuiRead, TypeOK, UniqueInv, Present
<1> QED
  BY <1>1, <1>2

LEMMA AppliedProperties ==
  ASSUME NEW kind \in Kinds \ {"reset"}, NEW x \in Entry,
         NEW S \in SUBSET Entry, UniqueIds(S), Acceptable(kind, x, S)
  PROVE  /\ Applied(kind, x, S) \in SUBSET Entry
         /\ UniqueIds(Applied(kind, x, S))
         /\ kind \in {"add", "update"} => x \in Applied(kind, x, S)
         /\ \A y \in S : y.id # x.id => y \in Applied(kind, x, S)
<1>1. CASE kind = "add"
  BY <1>1 DEF Applied, UniqueIds, Acceptable, Ids
<1>2. CASE kind = "update"
  BY <1>2 DEF Applied, UniqueIds
<1>3. CASE kind = "remove"
  BY <1>3 DEF Applied, UniqueIds
<1> QED
  BY <1>1, <1>2, <1>3 DEF Kinds

LEMMA CompiledProperties ==
  ASSUME NEW S \in SUBSET Entry
  PROVE  Compiled(S) \in SUBSET Entry /\ (UniqueIds(S) => UniqueIds(Compiled(S)))
BY DEF Compiled, UniqueIds
-----------------------------------------------------------------------------
(* Histories only grow: what a step never takes back.                      *)
Grows ==
  /\ \A f \in Edit : Rewrote(f) =>
        Rewrote(f)' /\ content'[f] = content[f] /\ edit'[f] = edit[f]
  /\ \A f \in Edit : epc[f] # "idle" => before'[f] = before[f] /\ edit'[f] = edit[f]
  /\ Answered \subseteq Answered'
  /\ seeded \subseteq seeded'

LEMMA GrowsKeeps ==
  ASSUME IInv, Grows
  PROVE  /\ \A S : Whole(S) => Whole(S)'
         /\ \A e \in Edit : Acked(e) /\ Excused(e) => Excused(e)'
<1>1. ASSUME NEW S, Whole(S) PROVE Whole(S)'
  BY <1>1 DEF Whole, Grows
<1>2. ASSUME NEW e \in Edit, Acked(e), Excused(e) PROVE Excused(e)'
  <2>1. epc[e] # "idle"
    BY <1>2 DEF Acked, IInv, RequestInv
  <2>2. \A f \in Edit : Rewrote(f) => epc[f] # "idle"
    BY DEF Rewrote, IInv, RequestInv
  <2>3. \A f \in Edit : Overlap(e, f) => Overlap(e, f)'
    BY <2>1, <2>2 DEF Overlap, Grows
  <2>4. \A f \in Edit : Replaces(f, e) => Replaces(f, e)'
    BY <2>1, <2>2 DEF Replaces, Grows
  <2> QED
    BY <1>2, <2>3, <2>4 DEF Excused, Grows
<1> QED
  BY <1>1, <1>2

(* Steps of icap-server that leave the file alone leave all that belongs   *)
(* to webui alone.                                                         *)
LEMMA WebuiUntouched ==
  ASSUME IInv, UNCHANGED <<rulesFile, editVars, spoilt>>, seeded' = seeded
  PROVE  RequestInv' /\ OwnInv' /\ AckInv' /\ Grows /\ (Present => Present')
         /\ \A e \in Edit : Rewrote(e)' = Rewrote(e)
<1> USE DEF editVars
<1>1. \A e \in Edit : Rewrote(e)' = Rewrote(e) /\ Writing(e)' = Writing(e)
  BY DEF Rewrote, Writing
<1>2. Answered' = Answered
  BY DEF Answered
<1>3. RequestInv' /\ OwnInv'
  BY <1>1, <1>2 DEF IInv, RequestInv, OwnInv
<1>4. \A e, f \in Edit : /\ Overlap(e, f)' = Overlap(e, f)
                         /\ Replaces(f, e)' = Replaces(f, e)
  BY <1>1 DEF Overlap, Replaces
<1>5. \A e \in Edit : Acked(e)' = Acked(e) /\ Excused(e)' = Excused(e) /\ Kept(e)' = Kept(e)
  BY <1>1, <1>4 DEF Acked, Excused, Kept
<1>6. AckInv'
  BY <1>5 DEF IInv, AckInv
<1>7. Grows /\ (Present => Present')
  BY <1>1, <1>2 DEF Grows, Present
<1> QED
  BY <1>1, <1>3, <1>6, <1>7
-----------------------------------------------------------------------------
LEMMA InitIInv == Init => IInv
<1> SUFFICES ASSUME Init PROVE IInv
  OBVIOUS
<1> USE DEF Init
<1> DEFINE some == CHOOSE x \in Entry : TRUE
<1>1. some \in Entry
  <2>1. \E x : x \in Entry
    <3>1. PICK r \in Rule : TRUE
      BY RulesAssumption
    <3>2. [id |-> r, enabled |-> TRUE, masks |-> TRUE, repl |-> TRUE] \in Entry
      BY DEF Entry
    <3> QED
      BY <3>2
  <2> QED
    BY <2>1
<1>2. TypeOK
  <2> HIDE DEF some
  <2> QED
    BY <1>1 DEF TypeOK, Kinds
<1>3. RequestInv /\ PresentInv
  BY DEF RequestInv, PresentInv, Answered, Rewrote
<1>4. UniqueInv
  BY DEF UniqueInv, UniqueIds, Present, Writing
<1>5. WholeInv
  BY DEF WholeInv, Present, WholeRulesInForce, Running
<1>6. OwnInv /\ AckInv
  BY DEF OwnInv, AckInv, Acked
<1> QED
  BY <1>2, <1>3, <1>4, <1>5, <1>6 DEF IInv

(* A request that has not begun is in nobody's history, and nothing that   *)
(* was acknowledged depends on it.                                         *)
LEMMA BeginStep ==
  ASSUME IInv, NEW e \in Edit, epc[e] = "idle",
         NEW kind \in Kinds, NEW x \in Entry, NEW S \in SUBSET Entry, UniqueIds(S),
         epc' = [epc EXCEPT ![e] = "open"],
         edit' = [edit EXCEPT ![e] = [kind |-> kind, entry |-> x]],
         content' = [content EXCEPT ![e] = S],
         before' = [before EXCEPT ![e] = Answered],
         UNCHANGED <<rulesFile, spoilt, answer, icapVars, timeVars>>,
         kind \in {"add", "update"} => Mirror(x) = x /\ x \in S,
         kind = "reset" \/ \A f \in Edit :
            Acked(f) /\ Kept(f) => x.id = edit[f].entry.id \/ edit[f].entry \in S
  PROVE  IInv'
<1> USE DEF icapVars, timeVars
<1>1. TypeOK'
  BY DEF IInv, TypeOK, Answered
<1>2. /\ answer[e] = "none" /\ ~ Rewrote(e)
      /\ Answered' = Answered
      /\ \A f \in Edit : Rewrote(f)' = Rewrote(f)
  BY DEF IInv, TypeOK, RequestInv, Rewrote, Answered
<1>3. Grows
  BY <1>2 DEF Grows, IInv, TypeOK
<1>4. RequestInv'
  BY <1>2 DEF IInv, TypeOK, RequestInv
<1>5. PresentInv'
  BY <1>2 DEF IInv, PresentInv
<1>6. UniqueInv'
  BY DEF IInv, TypeOK, UniqueInv, Present, Writing
<1>7. WholeInv'
  <2>1. Present' = Present /\ \A T : Whole(T) => Whole(T)'
    BY <1>3, GrowsKeeps DEF Present
  <2>2. WholeRulesInForce'
    BY <1>2, <1>3 DEF IInv, WholeInv, WholeRulesInForce, Running, Grows
  <2> QED
    BY <2>1, <2>2 DEF IInv, WholeInv
<1>8. OwnInv'
  BY <1>2 DEF IInv, TypeOK, OwnInv, Writing
<1>9. ASSUME NEW f \in Edit, Acked(f)' PROVE (Excused(f) \/ Kept(f))'
  <2>1. f # e /\ Acked(f) /\ edit'[f] = edit[f] /\ edit[f].entry \in Entry
    BY <1>2, <1>9 DEF Acked, IInv, TypeOK
  <2>2. CASE Excused(f)
    BY <1>3, <2>1, <2>2, GrowsKeeps
  <2>3. CASE Kept(f)
    <3>1. rulesFile' # Torn => edit'[f].entry \in rulesFile'
      BY <2>1, <2>3 DEF Kept
    <3>2. /\ epc'[e] = "open"
          /\ edit'[e].kind = kind /\ edit'[e].entry = x /\ content'[e] = S
      BY DEF IInv, TypeOK
    <3>3. \A g \in Edit \ {e} :
            /\ epc'[g] = epc[g] /\ content'[g] = content[g]
            /\ before'[g] = before[g] /\ edit'[g] = edit[g]
      BY DEF IInv, TypeOK
    <3>4. ASSUME NEW g \in Edit, Writing(g)'
          PROVE  \/ edit'[f].entry \in content'[g]
                 \/ /\ epc'[g] = "open"
                    /\ \/ f \notin before'[g]
                       \/ edit'[g].kind = "reset"
                       \/ edit'[g].entry.id = edit'[f].entry.id
      <4>1. CASE g = e
        BY <2>1, <2>3, <3>2, <4>1
      <4>2. CASE g # e
        BY <2>1, <2>3, <3>3, <3>4, <4>2 DEF Kept, Writing
      <4> QED
        BY <4>1, <4>2
    <3> QED
      BY <3>1, <3>4 DEF Kept
  <2> QED
    BY <2>1, <2>2, <2>3 DEF IInv, AckInv
<1> QED
  BY <1>1, <1>4, <1>5, <1>6, <1>7, <1>8, <1>9 DEF IInv, AckInv

LEMMA BeginEditStep ==
  ASSUME IInv, NEW e \in Edit, NEW kind \in Kinds, NEW x \in Described,
         BeginEdit(e, kind, x)
  PROVE  IInv'
<1> DEFINE S == Applied(kind, x, WebuiRead)
<1>1. x \in Entry /\ Mirror(x) = x
  BY MirrorType DEF Described
<1>2. /\ epc[e] = "idle" /\ kind \in Kinds \ {"reset"} /\ rulesFile # Torn
      /\ Acceptable(kind, x, WebuiRead)
  BY DEF BeginEdit
<1>3. /\ WebuiRead \in SUBSET Entry /\ UniqueIds(WebuiRead)
      /\ Present => \A y \in rulesFile : Mirror(y) = y => y \in WebuiRead
  BY <1>2, WebuiReadProperties DEF IInv
<1>4. /\ S \in SUBSET Entry /\ UniqueIds(S)
      /\ kind \in {"add", "update"} => x \in S
      /\ \A y \in WebuiRead : y.id # x.id => y \in S
  BY <1>1, <1>2, <1>3, AppliedProperties
<1>5. ASSUME NEW f \in Edit, Acked(f), Kept(f)
      PROVE  x.id = edit[f].entry.id \/ edit[f].entry \in S
  <2>1. edit[f].entry \in rulesFile
    BY <1>2, <1>5 DEF Kept
  <2>2. Present
    BY <1>2, <1>5 DEF Acked, Rewrote, IInv, PresentInv, Present
  <2>3. Mirror(edit[f].entry) = edit[f].entry
    BY <1>5 DEF Acked, IInv, OwnInv
  <2> HIDE DEF S
  <2> QED
    BY <1>3, <1>4, <2>1, <2>2, <2>3
<1>6. /\ epc' = [epc EXCEPT ![e] = "open"]
      /\ edit' = [edit EXCEPT ![e] = [kind |-> kind, entry |-> x]]
      /\ content' = [content EXCEPT ![e] = S]
      /\ before' = [before EXCEPT ![e] = Answered]
      /\ UNCHANGED <<rulesFile, spoilt, answer, icapVars, timeVars>>
  BY DEF BeginEdit
<1> HIDE DEF S
<1>7. kind = "reset" \/ \A f \in Edit :
         Acked(f) /\ Kept(f) => x.id = edit[f].entry.id \/ edit[f].entry \in S
  BY <1>5
<1>8. kind \in {"add", "update"} => Mirror(x) = x /\ x \in S
  BY <1>1, <1>4
<1>9. epc[e] = "idle" /\ x \in Entry /\ S \in SUBSET Entry /\ UniqueIds(S)
  BY <1>1, <1>2, <1>4
<1> QED
  BY <1>6, <1>7, <1>8, <1>9, BeginStep

LEMMA BeginResetStep ==
  ASSUME IInv, NEW e \in Edit, BeginReset(e)
  PROVE  IInv'
<1>1. /\ MirrorAll(Defaults) \in SUBSET Entry
      /\ UniqueIds(MirrorAll(Defaults))
  BY DefaultsProperties, MirrorAllProperties
<1>2. edit' = [edit EXCEPT ![e] = [kind |-> "reset", entry |-> edit[e].entry]]
      /\ edit[e].entry \in Entry
  <2>1. edit[e] \in [kind : Kinds, entry : Entry]
    BY DEF IInv, TypeOK
  <2>2. [edit[e] EXCEPT !.kind = "reset"] = [kind |-> "reset", entry |-> edit[e].entry]
        /\ edit[e].entry \in Entry
    BY <2>1
  <2>3. edit' = [edit EXCEPT ![e] = [edit[e] EXCEPT !.kind = "reset"]]
    BY DEF BeginReset
  <2> QED
    BY <2>2, <2>3
<1>3. /\ epc[e] = "idle"
      /\ epc' = [epc EXCEPT ![e] = "open"]
      /\ content' = [content EXCEPT ![e] = MirrorAll(Defaults)]
      /\ before' = [before EXCEPT ![e] = Answered]
      /\ UNCHANGED <<rulesFile, spoilt, answer, icapVars, timeVars>>
  BY DEF BeginReset
<1>4. "reset" \in Kinds /\ "reset" \notin {"add", "update"}
  BY DEF Kinds
<1> QED
  BY <1>1, <1>2, <1>3, <1>4, BeginStep
(* A request that ends without having touched the file.                    *)
LEMMA RefusedStep ==
  ASSUME IInv, NEW e \in Edit, epc[e] # "done", ~ Rewrote(e), Answer(e, "refused"),
         UNCHANGED <<rulesFile, edit, content, spoilt, before, icapVars, timeVars>>
  PROVE  IInv'
<1> USE DEF icapVars, timeVars, Answer
<1>1. TypeOK'
  BY DEF IInv, TypeOK
<1>2. /\ Answered' = Answered /\ answer[e] = "none"
      /\ \A f \in Edit : Rewrote(f)' = Rewrote(f)
      /\ \A f \in Edit : Writing(f)' => Writing(f) /\ epc'[f] = epc[f]
      /\ \A f \in Edit : answer'[f] = "ok" <=> answer[f] = "ok"
  BY DEF IInv, TypeOK, RequestInv, Rewrote, Answered, Writing
<1>3. Grows
  BY <1>2 DEF Grows
<1>4. RequestInv'
  BY <1>2 DEF IInv, TypeOK, RequestInv
<1>5. PresentInv'
  BY <1>2 DEF IInv, PresentInv
<1>6. UniqueInv'
  BY <1>2 DEF IInv, UniqueInv, Present
<1>7. WholeInv'
  BY <1>2 DEF IInv, WholeInv, Present, Whole, WholeRulesInForce, Running
<1>8. OwnInv'
  BY <1>2 DEF IInv, OwnInv
<1>9. ASSUME NEW f \in Edit, Acked(f)' PROVE (Excused(f) \/ Kept(f))'
  <2>1. Acked(f)
    BY <1>2, <1>9 DEF Acked
  <2>2. CASE Excused(f)
    BY <1>3, <2>1, <2>2, GrowsKeeps
  <2>3. CASE Kept(f)
    BY <1>2, <2>3 DEF Kept
  <2> QED
    BY <2>1, <2>2, <2>3 DEF IInv, AckInv
<1> QED
  BY <1>1, <1>4, <1>5, <1>6, <1>7, <1>8, <1>9 DEF IInv, AckInv

LEMMA RefuseEditStep ==
  ASSUME IInv, NEW e \in Edit, NEW kind, NEW x, RefuseEdit(e, kind, x)
  PROVE  IInv'
<1>1. epc[e] # "done" /\ ~ Rewrote(e)
  BY DEF RefuseEdit, Rewrote, IInv, RequestInv
<1> QED
  BY <1>1, RefusedStep DEF RefuseEdit

(* The handler truncates the file: from here on it is an overlap for every *)
(* acknowledged request it began before.                                   *)
LEMMA OpenRulesStep ==
  ASSUME IInv, NEW e \in Edit, OpenRules(e)
  PROVE  IInv'
<1> USE DEF OpenRules, icapVars
<1>0. newer' \in BOOLEAN /\ newerStat' \in BOOLEAN /\ missed' \in BOOLEAN
  BY DEF Touch, IInv, TypeOK
<1>1. TypeOK'
  BY <1>0 DEF IInv, TypeOK
<1>2. /\ Answered' = Answered
      /\ \A f \in Edit : Rewrote(f)' <=> f = e \/ Rewrote(f)
      /\ \A f \in Edit : Writing(f)' = Writing(f)
      /\ ~ Present' /\ rulesFile' # Absent
  BY NoEntriesAssumption DEF IInv, TypeOK, Rewrote, Answered, Writing, Present
<1>3. Grows
  BY <1>2 DEF Grows
<1>4. RequestInv'
  BY <1>2 DEF IInv, TypeOK, RequestInv
<1>5. PresentInv' /\ UniqueInv'
  BY <1>2 DEF IInv, PresentInv, UniqueInv
<1>6. WholeInv'
  <2>1. rpc' = "set" => Whole(loaded)'
    BY <1>3, GrowsKeeps DEF IInv, WholeInv
  <2>2. WholeRulesInForce'
    BY <1>2 DEF IInv, WholeInv, WholeRulesInForce, Running
  <2> QED
    BY <1>2, <2>1, <2>2 DEF WholeInv
<1>7. OwnInv'
  BY <1>2 DEF IInv, OwnInv
<1>8. ASSUME NEW f \in Edit, Acked(f)' PROVE (Excused(f) \/ Kept(f))'
  <2>1. Acked(f) /\ f # e
    BY <1>8 DEF Acked, IInv, RequestInv
  <2>2. CASE Excused(f)
    BY <1>3, <2>1, <2>2, GrowsKeeps
  <2>3. CASE Kept(f)
    <3>1. CASE edit[f].entry \in content[e]
      BY <1>2, <2>3, <3>1 DEF Kept, IInv, TypeOK
    <3>2. CASE f \notin before[e]
      <4>1. e \notin before[f]
        BY DEF IInv, RequestInv, Answered
      <4>2. Overlap(f, e)'
        BY <1>2, <2>1, <3>2, <4>1 DEF Overlap
      <4> QED
        BY <4>2 DEF Excused
    <3>3. CASE /\ f \in before[e]
               /\ edit[e].kind = "reset" \/ edit[e].entry.id = edit[f].entry.id
      <4>1. Replaces(e, f)'
        BY <1>2, <3>3 DEF Replaces
      <4> QED
        BY <4>1 DEF Excused
    <3> QED
      BY <2>3, <3>1, <3>2, <3>3 DEF Kept, Writing
  <2> QED
    BY <2>1, <2>2, <2>3 DEF IInv, AckInv
<1> QED
  BY <1>1, <1>4, <1>5, <1>6, <1>7, <1>8 DEF IInv, AckInv

(* The handler writes its copy, or less, over whatever is in the file.     *)
LEMMA WrittenStep ==
  ASSUME IInv, NEW e \in Edit, epc[e] = "fill",
         NEW status \in {"ok", "failed"}, Answer(e, status),
         rulesFile' \in {content[e], rulesFile, Torn},
         status = "ok" => rulesFile' \in {content[e], Torn},
         spoilt' \subseteq Edit, Touch,
         UNCHANGED <<edit, content, before, icapVars>>
  PROVE  IInv'
<1> USE DEF icapVars, Answer
<1>0. newer' \in BOOLEAN /\ newerStat' \in BOOLEAN /\ missed' \in BOOLEAN
  BY DEF Touch, IInv, TypeOK
<1>1. TypeOK'
  BY <1>0 DEF IInv, TypeOK
<1>2. /\ Answered \subseteq Answered' /\ Answered' \subseteq Answered \cup {e}
      /\ \A f \in Edit : Rewrote(f)' = Rewrote(f)
      /\ \A f \in Edit : Writing(f)' => Writing(f) /\ f # e /\ epc'[f] = epc[f]
  <2>1. /\ epc'[e] = "done" /\ answer'[e] = status /\ answer[e] = "none"
        /\ \A f \in Edit \ {e} : epc'[f] = epc[f] /\ answer'[f] = answer[f]
    BY DEF IInv, TypeOK, RequestInv
  <2>2. \A f \in Edit : Rewrote(f)' = Rewrote(f)
    BY <2>1 DEF Rewrote
  <2> QED
    BY <2>1, <2>2 DEF Answered, Writing
<1>3. Rewrote(e) /\ rulesFile # Absent /\ rulesFile' # Absent /\ answer[e] = "none"
  BY NoEntriesAssumption DEF Rewrote, IInv, TypeOK, PresentInv, RequestInv
<1>4. Grows
  BY <1>2 DEF Grows
<1>5. RequestInv'
  <2>1. \A f \in Edit : answer'[f] # "none" => epc'[f] = "done"
    BY DEF IInv, TypeOK, RequestInv
  <2>2. \A f \in Edit : before'[f] \subseteq Answered'
    BY <1>2 DEF IInv, RequestInv
  <2> QED
    BY <1>2, <2>1, <2>2 DEF IInv, RequestInv
<1>6. PresentInv'
  BY <1>2, <1>3 DEF IInv, PresentInv
<1>7. UniqueInv'
  BY <1>2 DEF IInv, UniqueInv, Present, Writing
<1>8. WholeInv'
  <2>1. Present' => Whole(rulesFile)'
    BY <1>2, <1>3 DEF IInv, WholeInv, Present, Whole
  <2>2. rpc' = "set" => Whole(loaded)'
    BY <1>4, GrowsKeeps DEF IInv, WholeInv
  <2>3. WholeRulesInForce'
    BY <1>2 DEF IInv, WholeInv, WholeRulesInForce, Running
  <2> QED
    BY <2>1, <2>2, <2>3 DEF WholeInv
<1>9. OwnInv'
  <2>1. \A f \in Edit :
           (Writing(f) \/ answer[f] = "ok")' => Writing(f) \/ answer[f] = "ok"
    BY <1>2 DEF IInv, TypeOK, Writing
  <2> QED
    BY <1>2, <2>1 DEF IInv, OwnInv
<1>10. ASSUME NEW f \in Edit, Acked(f)' PROVE (Excused(f) \/ Kept(f))'
  <2>1. CASE f = e
    <3>1. status = "ok" /\ edit[e].kind \in {"add", "update"}
      BY <1>10, <2>1 DEF Acked, IInv, TypeOK
    <3>2. edit[e].entry \in content[e]
      BY <3>1 DEF IInv, OwnInv, Writing
    <3>3. ASSUME NEW g \in Edit, Writing(g)', epc[g] = "fill" PROVE Overlap(e, g)'
      <4>1. g # e /\ e \notin before[g] /\ g \notin before[e]
        BY <1>2, <3>3 DEF IInv, RequestInv, Answered
      <4> QED
        BY <1>2, <3>3, <4>1 DEF Overlap, Rewrote
    <3>4. CASE \E g \in Edit : Writing(g)' /\ epc[g] = "fill"
      BY <2>1, <3>3, <3>4 DEF Excused
    <3>5. CASE \A g \in Edit : Writing(g)' => epc[g] = "open"
      <4>1. \A g \in Edit : e \notin before[g]
        BY DEF IInv, RequestInv, Answered
      <4> QED
        BY <1>2, <2>1, <3>1, <3>2, <3>5, <4>1 DEF Kept
    <3> QED
      BY <1>2, <3>4, <3>5 DEF Writing
  <2>2. CASE f # e
    <3>1. Acked(f)
      BY <1>10, <2>2 DEF Acked, IInv, TypeOK
    <3>2. CASE Excused(f)
      BY <1>4, <3>1, <3>2, GrowsKeeps
    <3>3. CASE Kept(f)
      <4>1. edit[f].entry \in content[e]
        BY <3>3 DEF Kept, Writing
      <4> QED
        BY <1>2, <3>3, <4>1 DEF Kept
    <3> QED
      BY <3>1, <3>2, <3>3 DEF IInv, AckInv
  <2> QED
    BY <2>1, <2>2
<1> QED
  BY <1>1, <1>5, <1>6, <1>7, <1>8, <1>9, <1>10 DEF IInv, AckInv

LEMMA FillRulesStep ==
  ASSUME IInv, NEW e \in Edit, FillRules(e)
  PROVE  IInv'
<1>1. (spoilt \cup Overlapped(e)) \ {e} \subseteq Edit
  BY DEF Overlapped, IInv, TypeOK
<1>2. /\ epc[e] = "fill" /\ Answer(e, "ok") /\ Touch
      /\ rulesFile' \in {content[e], Torn}
      /\ spoilt' \subseteq Edit
      /\ UNCHANGED <<edit, content, before, icapVars>>
  BY <1>1 DEF FillRules
<1> QED
  BY <1>2, WrittenStep

LEMMA FailRulesStep ==
  ASSUME IInv, NEW e \in Edit, FailRules(e)
  PROVE  IInv'
<1>1. CASE epc[e] = "open"
  <2>1. epc[e] # "done" /\ ~ Rewrote(e)
    BY <1>1 DEF Rewrote, IInv, RequestInv
  <2>2. /\ Answer(e, "refused")
        /\ UNCHANGED <<rulesFile, edit, content, spoilt, before, icapVars, timeVars>>
    BY <1>1 DEF FailRules
  <2> QED
    BY <2>1, <2>2, RefusedStep
<1>2. CASE epc[e] = "fill"
  <2>1. (spoilt \cup Overlapped(e)) \ {e} \subseteq Edit
    BY DEF Overlapped, IInv, TypeOK
  <2>2. /\ Answer(e, "failed") /\ Touch
        /\ rulesFile' \in {rulesFile, Torn}
        /\ spoilt' \subseteq Edit
        /\ UNCHANGED <<edit, content, before, icapVars>>
    BY <1>2, <2>1 DEF FailRules
  <2> QED
    BY <1>2, <2>2, WrittenStep
<1> QED
  BY <1>1, <1>2 DEF FailRules
-----------------------------------------------------------------------------
(* icap-server.                                                            *)

(* SeedRulesFile saw no file; what was acknowledged since is in seeded.    *)
LEMMA SeedRulesStep == IInv /\ SeedRules => IInv'
<1> SUFFICES ASSUME IInv, SeedRules PROVE IInv'
  OBVIOUS
<1> USE DEF SeedRules, editVars, timeVars
<1>1. CASE UNCHANGED <<rulesFile, spoilt, seeded>>
  <2>1. /\ RequestInv' /\ OwnInv' /\ AckInv' /\ Grows
        /\ \A e \in Edit : Rewrote(e)' = Rewrote(e)
    BY <1>1, WebuiUntouched
  <2>2. TypeOK' /\ UniqueInv'
    BY <1>1 DEF IInv, TypeOK, UniqueInv, Present, Writing
  <2>3. PresentInv'
    BY <1>1, <2>1 DEF IInv, PresentInv
  <2>4. WholeInv'
    <3>1. Present' = Present /\ \A S : Whole(S) => Whole(S)'
      BY <1>1, <2>1, GrowsKeeps DEF Present
    <3> QED
      BY <1>1, <3>1 DEF IInv, WholeInv, WholeRulesInForce, Running
  <2> QED
    BY <2>1, <2>2, <2>3, <2>4 DEF IInv
<1>2. CASE rulesFile' \in {Torn, Defaults} /\ seeded' = Answered
           /\ spoilt' = spoilt \cup {e \in Edit : epc[e] = "fill"}
  <2>1. /\ \A e \in Edit : Rewrote(e)' = Rewrote(e) /\ Writing(e)' = Writing(e)
        /\ Answered' = Answered
    BY DEF Rewrote, Writing, Answered
  <2>2. TypeOK'
    BY <1>2, DefaultsProperties DEF IInv, TypeOK, Answered
  <2>3. RequestInv' /\ OwnInv'
    BY <1>2, <2>1 DEF IInv, RequestInv, OwnInv
  <2>4. PresentInv'
    BY <1>2, DefaultsProperties, NoEntriesAssumption DEF IInv, PresentInv
  <2>5. UniqueInv'
    BY <1>2, <2>1, DefaultsProperties DEF IInv, UniqueInv, Present
  <2>6. WholeInv'
    BY <1>2, <2>1 DEF IInv, WholeInv, Present, Whole, WholeRulesInForce, Running
  <2>7. \A e \in Edit : Acked(e)' => Excused(e)'
    BY <1>2 DEF Acked, Excused, Answered
  <2> QED
    BY <2>2, <2>3, <2>4, <2>5, <2>6, <2>7 DEF IInv, AckInv
<1> QED
  BY <1>1, <1>2

(* What icap-server reads is what the file holds.                          *)
LEMMA ReadsOnlyStep ==
  ASSUME IInv,
         \/ StopIcap \/ StartIcap \/ LoadAtStart \/ StatRules
         \/ LoadRules \/ LoadFails \/ SetActive \/ UNCHANGED rulesVars
  PROVE  IInv'
<1> USE DEF StopIcap, StartIcap, LoadAtStart, StatRules, LoadRules, LoadFails,
            SetActive, timeVars
<1>1. UNCHANGED <<rulesFile, editVars, spoilt>> /\ seeded' = seeded
  BY DEF rulesVars, editVars
<1>2. /\ RequestInv' /\ OwnInv' /\ AckInv' /\ Grows
      /\ \A e \in Edit : Rewrote(e)' = Rewrote(e)
  BY <1>1, WebuiUntouched
<1>3. Present' = Present /\ \A e \in Edit : Writing(e)' = Writing(e)
      /\ content' = content
  BY <1>1 DEF Present, Writing, editVars
<1>4. \A S : Whole(S) => Whole(S)'
  BY <1>2, GrowsKeeps
<1> DEFINE read == IF rulesFile \in {Absent, Torn} THEN Defaults ELSE rulesFile
<1>5. read \in SUBSET Entry /\ UniqueIds(read) /\ Whole(read)
  BY DefaultsProperties DEF IInv, TypeOK, UniqueInv, WholeInv, Present, Whole
<1>6. rpc = "read" /\ rulesFile # Torn => read = rulesFile
  BY DEF IInv, PresentInv
<1>7. /\ rulesFile \in (SUBSET Entry) \cup {Torn, Absent}
      /\ edit \in [Edit -> [kind : Kinds, entry : Entry]]
      /\ content \in [Edit -> SUBSET Entry]
      /\ rpc \in {"down", "seed", "start", "wait", "read", "set"}
      /\ loaded \in SUBSET Entry /\ active \in SUBSET Entry
      /\ UniqueIds(loaded) /\ UniqueIds(active)
  BY DEF IInv, TypeOK, UniqueInv
<1>8. /\ Compiled(read) \in SUBSET Entry /\ UniqueIds(Compiled(read))
      /\ Compiled(loaded) \in SUBSET Entry /\ UniqueIds(Compiled(loaded))
      /\ UniqueIds({})
  BY <1>5, <1>7, CompiledProperties DEF UniqueIds
<1> HIDE DEF read
<1>9. /\ active' \in {{}, active, Compiled(read), Compiled(loaded)}
      /\ loaded' \in {{}, loaded, read}
  BY <1>6 DEF read, rulesVars
<1>10. TypeOK'
  <2>1. /\ rpc' \in {"down", "seed", "start", "wait", "read", "set"}
        /\ newer' \in BOOLEAN /\ newerStat' \in BOOLEAN /\ missed' \in BOOLEAN
    BY DEF IInv, TypeOK, rulesVars
  <2> QED
    BY <1>1, <1>5, <1>7, <1>8, <1>9, <2>1 DEF IInv, TypeOK, editVars
<1>11. PresentInv'
  BY <1>1, <1>2 DEF IInv, PresentInv, rulesVars
<1>12. UniqueInv'
  BY <1>1, <1>3, <1>5, <1>7, <1>8, <1>9 DEF IInv, UniqueInv
<1>13. rpc' = "set" => Whole(loaded)'
  BY <1>4, <1>5, <1>6 DEF IInv, WholeInv, rulesVars
<1>14. WholeRulesInForce'
  <2>1. \A S : Whole(S) =>
          \/ Compiled(S) = Compiled(Defaults)
          \/ \E e \in Edit : Rewrote(e)' /\ Compiled(S) = Compiled(content'[e])
    BY <1>2, <1>3 DEF Whole
  <2>2. \/ ~ Running'
        \/ active' = active /\ Running
        \/ active' = Compiled(read)
        \/ active' = Compiled(loaded) /\ Whole(loaded)
    BY DEF Running, IInv, WholeInv, rulesVars, read
  <2> QED
    BY <1>2, <1>3, <1>5, <2>1, <2>2 DEF IInv, WholeInv, WholeRulesInForce
<1>15. WholeInv'
  BY <1>1, <1>3, <1>4, <1>13, <1>14 DEF IInv, WholeInv
<1> QED
  BY <1>2, <1>10, <1>11, <1>12, <1>15 DEF IInv

LEMMA NextIInv == IInv /\ [Next]_rulesVars => IInv'
<1> SUFFICES ASSUME IInv, [Next]_rulesVars PROVE IInv'
  OBVIOUS
<1>1. ASSUME NEW e \in Edit, NEW kind \in Kinds, NEW x \in Described,
             BeginEdit(e, kind, x) \/ RefuseEdit(e, kind, x)
      PROVE  IInv'
  BY <1>1, BeginEditStep, RefuseEditStep
<1>2. ASSUME NEW e \in Edit,
             BeginReset(e) \/ OpenRules(e) \/ FillRules(e) \/ FailRules(e)
      PROVE  IInv'
  BY <1>2, BeginResetStep, OpenRulesStep, FillRulesStep, FailRulesStep
<1>3. CASE SeedRules
  BY <1>3, SeedRulesStep
<1>4. CASE \/ StopIcap \/ StartIcap \/ LoadAtStart \/ StatRules
           \/ LoadRules \/ LoadFails \/ SetActive \/ UNCHANGED rulesVars
  BY <1>4, ReadsOnlyStep
<1> QED
  BY <1>1, <1>2, <1>3, <1>4 DEF Next, EditStep, IcapStep, ReloadStep

THEOREM Invariance == Spec => []IInv
BY InitIInv, NextIInv, PTL DEF Spec
-----------------------------------------------------------------------------
LEMMA PropertiesFollow ==
  IInv => TypeOK /\ OneEntryPerId /\ WholeRulesInForce /\ AcknowledgedRuleStays
BY DEF IInv, UniqueInv, Present, OneEntryPerId, WholeInv, AckInv, Acked, Excused,
       Kept, AcknowledgedRuleStays

(* The state of the rules API and of the reloader keeps its types.         *)
THEOREM TypeCorrect == Spec => []TypeOK
BY Invariance, PropertiesFollow, PTL

(* However requests overlap, no id gets two entries (handler.go            *)
(* validateNewRule).                                                       *)
THEOREM OneEntryPerIdHolds == Spec => []OneEntryPerId
BY Invariance, PropertiesFollow, PTL

(* The reloader never puts half a file in force (rules_reloader.go).       *)
THEOREM WholeRulesInForceHolds == Spec => []WholeRulesInForce
BY Invariance, PropertiesFollow, PTL

(* Only an overlapping request, a later one on the same rule, or the first *)
(* start of icap-server undoes an acknowledged rule (handler.go writeRules,*)
(* rules_store.go SeedRulesFile).                                          *)
THEOREM AcknowledgedRuleStaysHolds == Spec => []AcknowledgedRuleStays
BY Invariance, PropertiesFollow, PTL
=============================================================================
