------------------------------- MODULE RcFile -------------------------------
(* The block the connect agent manages in a shell's rc file                   *)
(* (connect/envvars/unix.go): install writes it, uninstall removes it, the    *)
(* monitor (connect/monitor/monitor.go) puts it back, and the user edits the  *)
(* same file. The programs are separate processes without a lock.             *)
(*                                                                            *)
(* A file is the sequence of its lines: lines of the user, blank lines, and   *)
(* the lines of a block, of which the variables a configuration sets are one. *)
(* One file stands for the list of candidates, which are rewritten one after  *)
(* the other and independently. They are not checked independently: the check *)
(* returns on the first one that cannot be read. The "generated" line is left *)
(* out: it is excluded from comparisons, and it makes every Apply change the  *)
(* file.                                                                      *)
EXTENDS Naturals, Sequences, FiniteSets, SequencesExt

CONSTANTS
    Line,    \* lines of the user
    Config,  \* configurations, which are also the lines that set them
    Start, End, Blank,  \* the markers, an empty line
    None,    \* no file, no block
    MaxCommands, \* bound of the commands run
    MaxEdits \* bound of the user's edits and of the kills

ASSUME BoundsAssumption == MaxCommands \in Nat /\ MaxEdits \in Nat
\* What the user writes is no line of a block.
ASSUME LinesAssumption ==
    /\ Line \intersect (Config \union {Start, End, Blank}) = {}
    /\ Config \intersect {Start, End, Blank} = {}
    /\ Start # End /\ Start # Blank /\ End # Blank

Process == {"monitor", "command"}

VARIABLES
    rc,       \* the rc file
    tmp,      \* the sibling file it is rewritten through
    config,   \* config.json
    unreadable, \* another candidate exists and cannot be read
    pc,       \* where a process is
    loaded,   \* the configuration it has loaded; None to remove the block
    next,     \* what it is about to write
    fd,       \* the file its os.WriteFile has open
    commands, edits,
    safe,     \* history: lines added while no process was rewriting
    broken,   \* history: the user has deleted a marker
    raced     \* history: two processes were rewriting at the same time

process == <<pc, loaded, next, fd>>
history == <<safe, broken, raced>>
outside == <<config, unreadable>>
vars    == <<rc, tmp, outside, process, commands, edits, history>>

Lines == Line \union Config \union {Start, End, Blank}

ASSUME NoneAssumption == None \notin Config /\ None \notin Seq(Lines)

TypeOK ==
    /\ rc \in Seq(Lines) /\ tmp \in Seq(Lines) \union {None}
    /\ config \in Config /\ unreadable \in BOOLEAN
    /\ pc \in [Process -> {"down", "check", "read", "open", "write", "rename"}]
    /\ loaded \in [Process -> Config \union {None}]
    /\ next \in [Process -> Seq(Lines)]
    /\ fd \in [Process -> {"none", "tmp", "rc", "unlinked"}]
    /\ commands \in Nat /\ edits \in Nat
    /\ safe \in Seq(Line) /\ broken \in BOOLEAN /\ raced \in BOOLEAN

Init ==
    /\ rc = <<>> /\ tmp = None
    /\ config \in Config /\ unreadable \in BOOLEAN
    /\ pc = [p \in Process |-> "down"]
    /\ loaded = [p \in Process |-> None]
    /\ next = [p \in Process |-> <<>>]
    /\ fd = [p \in Process |-> "none"]
    /\ commands = 0 /\ edits = 0
    /\ safe = <<>> /\ broken = FALSE /\ raced = FALSE

-----------------------------------------------------------------------------
(* The text operations.                                                       *)

Block(v) == <<Start, v, End>>

\* blockRegexp at position i: from a start marker to the next end marker.
Ends(s, i) == {j \in i + 1..Len(s) : s[j] = End}
Opens(s, i) == s[i] = Start /\ Ends(s, i) # {}

\* Whether the leftmost, shortest, non-overlapping matches cover line i: no end
\* marker is between it and a start marker before it.
Covered(s, i) ==
    \E j \in 1..i : Opens(s, j) /\ \A k \in j..i - 1 : s[k] # End

\* stripBlock: of the lines not covered, line i is the k-th if k of them are
\* among the first i.
Kept(s) == {i \in DOMAIN s : ~Covered(s, i)}
KeptLine(s, k) == CHOOSE i \in Kept(s) : Cardinality(Kept(s) \intersect 1..i) = k
Strip(s) == [k \in 1..Cardinality(Kept(s)) |-> s[KeptLine(s, k)]]

\* blockRegexp.FindString: the first match.
FirstBlock(s) ==
    IF \A i \in DOMAIN s : ~Opens(s, i) THEN <<>>
    ELSE LET i == CHOOSE i \in DOMAIN s :
                    Opens(s, i) /\ \A k \in 1..i - 1 : ~Opens(s, k)
             j == CHOOSE j \in Ends(s, i) : \A k \in Ends(s, i) : j <= k
         IN  SubSeq(s, i, j)

\* Variant: the previous block is not removed.
RewrittenAppends(s, v) ==
    IF v = None THEN Strip(s) ELSE s \o <<Blank>> \o Block(v)

\* What rewriteFile makes of a file.
Rewritten(s, v) ==
    IF v = None THEN Strip(s) ELSE Strip(s) \o <<Blank>> \o Block(v)

\* os.WriteFile onto a file that another process may have written to since it
\* was truncated.
Overlay(s, old) == s \o SubSeq(old, Len(s) + 1, Len(old))

-----------------------------------------------------------------------------
(* rewriteFile, in the steps another process can come between.                *)

Rewriting(p) == pc[p] \in {"read", "open", "write", "rename"}

\* The monitor goes on, a command is done.
Finish(p) ==
    pc' = [pc EXCEPT ![p] = IF p = "monitor" THEN "check" ELSE "down"]

\* The caller begins to rewrite the file for the configuration loaded.
Begin(p, v) ==
    /\ pc' = [pc EXCEPT ![p] = "read"]
    /\ loaded' = [loaded EXCEPT ![p] = v]
    /\ raced' = (raced \/ \E q \in Process \ {p} : Rewriting(q))

ReadRc(p) ==
    /\ pc[p] = "read"
    /\ LET s == Rewritten(rc, loaded[p])
       IN  IF s = rc /\ loaded[p] = None THEN Finish(p) /\ UNCHANGED next
           ELSE /\ next' = [next EXCEPT ![p] = s]
                /\ pc' = [pc EXCEPT ![p] = "open"]
    /\ UNCHANGED <<rc, tmp, outside, loaded, fd, commands, edits, history>>

\* Variant: the rc file itself is truncated and rewritten.
OpenRc(p) ==
    /\ pc[p] = "open"
    /\ rc' = <<>>
    /\ fd' = [fd EXCEPT ![p] = "rc"]
    /\ pc' = [pc EXCEPT ![p] = "write"]
    /\ UNCHANGED <<tmp, outside, loaded, next, commands, edits, history>>

OpenTmp(p) ==
    /\ pc[p] = "open"
    /\ tmp' = <<>>
    /\ fd' = [fd EXCEPT ![p] = "tmp"]
    /\ pc' = [pc EXCEPT ![p] = "write"]
    /\ UNCHANGED <<rc, outside, loaded, next, commands, edits, history>>

\* The file opened may have been renamed by the other process meanwhile.
WriteTmp(p) ==
    /\ pc[p] = "write"
    /\ tmp' = IF fd[p] = "tmp" THEN Overlay(next[p], tmp) ELSE tmp
    /\ rc' = IF fd[p] = "rc" THEN Overlay(next[p], rc) ELSE rc
    /\ fd' = [fd EXCEPT ![p] = "none"]
    /\ next' = [next EXCEPT ![p] = <<>>]
    /\ pc' = [pc EXCEPT ![p] = "rename"]
    /\ UNCHANGED <<outside, loaded, commands, edits, history>>

\* Without a tmp file the rename fails, and the error is reported.
Rename(p) ==
    /\ pc[p] = "rename"
    /\ rc' = IF tmp = None THEN rc ELSE tmp
    /\ tmp' = None
    /\ fd' = IF tmp = None THEN fd
             ELSE [q \in Process |-> CASE fd[q] = "tmp" -> "rc"
                                       [] fd[q] = "rc" -> "unlinked"
                                       [] OTHER -> fd[q]]
    /\ Finish(p)
    /\ UNCHANGED <<outside, loaded, next, commands, edits, history>>

Rewrite(p) == ReadRc(p) \/ OpenTmp(p) \/ WriteTmp(p) \/ Rename(p)

-----------------------------------------------------------------------------
(* The programs.                                                              *)

\* The operator changes config.json ...
Configure(v) ==
    /\ config # v /\ commands < MaxCommands
    /\ commands' = commands + 1
    /\ config' = v
    /\ UNCHANGED <<rc, tmp, unreadable, process, edits, history>>

\* ... and runs install or uninstall.
Command(v) ==
    /\ pc["command"] = "down" /\ commands < MaxCommands
    /\ commands' = commands + 1
    /\ Begin("command", v)
    /\ UNCHANGED <<rc, tmp, outside, next, fd, edits, safe, broken>>

Install   == Command(config)
Uninstall == Command(None)

\* The monitor loads its configuration once.
MonitorStarts ==
    /\ pc["monitor"] = "down"
    /\ pc' = [pc EXCEPT !["monitor"] = "check"]
    /\ loaded' = [loaded EXCEPT !["monitor"] = config]
    /\ UNCHANGED <<rc, tmp, outside, next, fd, commands, edits, history>>

\* External: the permissions of another candidate change.
Permit ==
    /\ unreadable' = ~unreadable
    /\ UNCHANGED <<rc, tmp, config, process, commands, edits, history>>

\* CheckIntegrity finds the block missing or different: Apply. It returns an
\* error, and nothing is recovered, while any candidate cannot be read.
InForce(v) == FirstBlock(rc) = Block(v)

\* Variant: any block will do.
CheckMissing ==
    /\ pc["monitor"] = "check" /\ ~unreadable
    /\ FirstBlock(rc) = <<>>
    /\ Begin("monitor", loaded["monitor"])
    /\ UNCHANGED <<rc, tmp, outside, next, fd, commands, edits, safe, broken>>

CheckAndRecover ==
    /\ pc["monitor"] = "check" /\ ~unreadable
    /\ ~InForce(loaded["monitor"])
    /\ Begin("monitor", loaded["monitor"])
    /\ UNCHANGED <<rc, tmp, outside, next, fd, commands, edits, safe, broken>>

\* A process is killed.
Killed(p) ==
    /\ pc[p] # "down" /\ edits < MaxEdits
    /\ edits' = edits + 1
    /\ pc' = [pc EXCEPT ![p] = "down"]
    /\ fd' = [fd EXCEPT ![p] = "none"]
    /\ next' = [next EXCEPT ![p] = <<>>]
    /\ UNCHANGED <<rc, tmp, outside, loaded, commands, history>>

-----------------------------------------------------------------------------
(* The user.                                                                  *)

\* Adds a line at the end of the file.
AddLine(u) ==
    /\ \A i \in DOMAIN rc : rc[i] # u
    /\ ~Contains(safe, u)
    /\ rc' = Append(rc, u)
    /\ safe' = IF \E p \in Process : Rewriting(p) THEN safe ELSE Append(safe, u)
    /\ edits' = edits + 1 /\ edits < MaxEdits
    /\ UNCHANGED <<tmp, outside, process, commands, broken, raced>>

\* Deletes a marker, or the whole block.
DeleteMarker(i) ==
    /\ edits < MaxEdits /\ edits' = edits + 1
    /\ rc[i] \in {Start, End}
    /\ rc' = RemoveAt(rc, i)
    /\ broken' = TRUE
    /\ UNCHANGED <<tmp, outside, process, commands, safe, raced>>

DeleteBlock ==
    /\ edits < MaxEdits /\ edits' = edits + 1
    /\ FirstBlock(rc) # <<>>
    /\ rc' = Strip(rc)
    /\ UNCHANGED <<tmp, outside, process, commands, history>>

User ==
    \/ \E u \in Line : AddLine(u)
    \/ \E i \in DOMAIN rc : DeleteMarker(i)
    \/ DeleteBlock

-----------------------------------------------------------------------------
Next ==
    \/ \E p \in Process : Rewrite(p) \/ Killed(p)
    \/ \E v \in Config : Configure(v)
    \/ Install \/ Uninstall \/ MonitorStarts \/ CheckAndRecover \/ Permit
    \/ User

\* A process that runs goes on; the monitor has its ticker.
Fairness ==
    /\ \A p \in Process : WF_vars(Rewrite(p))
    /\ WF_vars(CheckAndRecover)

Spec == Init /\ [][Next]_vars /\ Fairness

-----------------------------------------------------------------------------
\* The lines t are in s, each of them once and in their order.
Keeps(s, t) ==
    /\ \A i \in DOMAIN t : \E k \in DOMAIN s : s[k] = t[i]
    /\ \A k, l \in DOMAIN s, i, j \in DOMAIN t :
          s[k] = t[i] /\ s[l] = t[j] => (k < l <=> i < j)

\* s has no line of a block, or the three lines of one, together.
BlockAt(s, a) ==
    /\ s[a] = Start /\ s[a + 1] \in Config /\ s[a + 2] = End
    /\ \A i \in DOMAIN s \ a..a + 2 : s[i] \in Line \union {Blank}

Whole(s) ==
    \/ \A i \in DOMAIN s : s[i] \in Line \union {Blank}
    \/ \E a \in 1..Len(s) - 2 : BlockAt(s, a)

\* The lines the user added stay in the file, in their order, through every
\* install, uninstall, recovery and kill - unless a line was added between the
\* read and the rename of a rewrite, a marker was deleted by hand (the next
\* match may then cover lines of the user), or two processes rewrote the file
\* at the same time through the one tmp file.
LinesStay == ~broken /\ ~raced => Keeps(rc, safe)

\* Under the same conditions the file never has a second block or a part of
\* one, and nothing comes between the lines of its block, whoever wrote it last.
OneBlock == ~broken /\ ~raced => Whole(rc)

\* A monitor that stays up has the block of the configuration it loaded put
\* back in the end, for good, whatever the user and the commands did to the
\* file, deleted markers and races included - when all the candidates come to be
\* readable: one that is not keeps the others from being recovered.
MonitorRestores ==
    <>[](pc["monitor"] # "down" /\ ~unreadable) => <>[]InForce(loaded["monitor"])
=============================================================================
