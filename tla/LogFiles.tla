------------------------------ MODULE LogFiles ------------------------------
(* The prompt log: icap-server and tls-proxy append to files of one directory *)
(* (icap-server/storage/logger.go), webui removes old files                   *)
(* (webui/logsettings.go) and reads the rest (webui/handler.go).              *)
(*                                                                            *)
(* A file is named by the clock value at which it was opened, so two programs *)
(* that open one at the same time share it. The clock is as fine as the names *)
(* need and as coarse as the retention allows; a removed name is never opened *)
(* again, because only files older than the present clock value are removed.  *)
(* An entry is a model value with a size; Long entries are longer than the    *)
(* line buffer of the reader. An entry whose write failed was not             *)
(* acknowledged; what is left of it is a piece of a line at the end of a      *)
(* file, to which the next entry is appended.                                 *)
EXTENDS Naturals, FiniteSets

CONSTANTS
    Program,  \* the programs that log
    Entry,    \* log entries
    Long,     \* those longer than the reader's line buffer (1 MB)
    None,     \* no file, not written
    Torn,     \* a settings.json that was truncated and not yet written
    Size,     \* size of an entry
    MaxSize,  \* defaultMaxSize
    MaxFiles, \* maxLogFiles
    MaxDays,  \* the largest retention
    MaxTime,  \* bound of the clock
    MaxStarts,  \* bound of the starts of the programs
    MaxFailures \* bound of the writes and rotations that fail

ASSUME EntryAssumption == Long \subseteq Entry /\ Size \in [Entry -> Nat \ {0}]
ASSUME NoneAssumption == {None, Torn} \intersect Nat = {}
ASSUME BoundsAssumption ==
    /\ {MaxSize, MaxFiles, MaxDays, MaxTime} \subseteq Nat \ {0}
    /\ {MaxStarts, MaxFailures} \subseteq Nat

Time == 0..MaxTime
Days == 1..MaxDays

VARIABLES
    clock,
    names,    \* the files in the directory
    mtime,    \* time of the last write to a file of the directory
    open,     \* the file a program's Logger has open
    closed,   \* ... whose handle a failed rotation has closed
    written,  \* Logger.written
    stored,   \* the file an entry was written to
    at,       \* when Write acknowledged it
    ragged,   \* the files that end in a piece of a line
    merged,   \* the entries that stand behind such a piece, on its line
    overlong, \* the files with a line longer than the reader's buffer
    days,     \* LogSettingsStore.settings.RetentionDays
    saved,    \* settings.json
    walk,     \* RunLogCleanup: the names its run has still to look at
    cutoff,   \* its cutoff, None between runs
    doomed,   \* a file it found to be old
    seen,     \* ... and the time of its last write that it found
    orphaned, \* history: files removed while they were in use
    shortest, \* history: the shortest retention since an entry was acknowledged
    starts,   \* starts of the programs
    failures  \* writes and rotations that failed

lines    == <<stored, at, ragged, merged, overlong>>
logs     == <<names, mtime, lines>>
loggers  == <<open, closed, written>>
settings == <<days, saved>>
cleanup  == <<walk, cutoff, doomed, seen>>
history  == <<orphaned, shortest>>
counts   == <<starts, failures>>
vars     == <<clock, logs, loggers, settings, cleanup, history, counts>>

TypeOK ==
    /\ clock \in Time
    /\ names \subseteq Time /\ mtime \in [Time -> Time]
    /\ open \in [Program -> Time \union {None}]
    /\ closed \in [Program -> BOOLEAN]
    /\ written \in [Program -> Nat]
    /\ stored \in [Entry -> Time \union {None}]
    /\ at \in [Entry -> Time \union {None}]
    /\ ragged \subseteq Time /\ merged \subseteq Entry /\ overlong \subseteq Time
    /\ days \in Days \union {None} /\ saved \in Days \union {Torn}
    /\ walk \subseteq Time
    /\ cutoff \in Time \union {None} /\ doomed \in Time \union {None}
    /\ seen \in Time \union {None}
    /\ orphaned \subseteq Time
    /\ shortest \in [Entry -> Days]
    /\ starts \in Nat /\ failures \in Nat

\* days is None while webui does not run.
Init ==
    /\ clock = 0
    /\ names = {} /\ mtime = [f \in Time |-> 0]
    /\ open = [p \in Program |-> None]
    /\ closed = [p \in Program |-> FALSE]
    /\ written = [p \in Program |-> 0]
    /\ stored = [e \in Entry |-> None] /\ at = [e \in Entry |-> None]
    /\ ragged = {} /\ merged = {} /\ overlong = {}
    /\ days = None /\ saved = MaxDays
    /\ walk = {} /\ cutoff = None /\ doomed = None /\ seen = None
    /\ orphaned = {} /\ shortest = [e \in Entry |-> MaxDays]
    /\ starts = 0 /\ failures = 0

-----------------------------------------------------------------------------
(* Logger.                                                                    *)

\* open: creates the file or appends to the one of that name.
Opened(f) ==
    /\ names' = names \union {f}
    /\ mtime' = [mtime EXCEPT ![f] = IF f \in names THEN @ ELSE clock]

\* NewLogger. When it fails the program exits, which changes nothing.
NewLogger(p) ==
    /\ open[p] = None
    /\ starts < MaxStarts
    /\ starts' = starts + 1
    /\ Opened(clock)
    /\ open' = [open EXCEPT ![p] = clock]
    /\ UNCHANGED <<clock, lines, closed, written, settings, cleanup, history,
                   failures>>

Exit(p) ==
    /\ open[p] # None
    /\ open' = [open EXCEPT ![p] = None]
    /\ closed' = [closed EXCEPT ![p] = FALSE]
    /\ written' = [written EXCEPT ![p] = 0]
    /\ UNCHANGED <<clock, logs, settings, cleanup, history, counts>>

Full(p, e) == written[p] + Size[e] > MaxSize

\* What a line of file f may come to when an entry is added: a Long entry that
\* is written whole is too long for the reader in any case, a piece of one, or
\* any entry behind a piece, may be.
Lengthened(e, f, whole) ==
    overlong' \in
        CASE e \in Long /\ whole        -> {overlong \union {f}}
          [] e \in Long \/ f \in ragged -> {overlong, overlong \union {f}}
          [] OTHER                      -> {overlong}

\* The entry goes to file f, of which n bytes are written by this Logger.
Append(p, e, f, n) ==
    /\ stored' = [stored EXCEPT ![e] = f]
    /\ at' = [at EXCEPT ![e] = clock]
    /\ shortest' = [shortest EXCEPT ![e] = IF days = None THEN MaxDays ELSE days]
    /\ written' = [written EXCEPT ![p] = n + Size[e]]
    /\ merged' = IF f \in ragged THEN merged \union {e} ELSE merged
    /\ ragged' = ragged \ {f}
    /\ Lengthened(e, f, TRUE)
    /\ UNCHANGED failures

\* A part of the entry goes to the file, and then the write fails.
AppendPiece(p, e, f, n) ==
    /\ \E k \in 0..Size[e] - 1 : written' = [written EXCEPT ![p] = n + k]
    /\ ragged' = ragged \union {f}
    /\ Lengthened(e, f, FALSE)
    /\ UNCHANGED <<stored, at, merged, shortest>>

\* The write fails before it wrote anything.
AppendNothing(p, n) ==
    /\ written' = [written EXCEPT ![p] = n]
    /\ UNCHANGED <<lines, shortest>>

Failure == failures < MaxFailures /\ failures' = failures + 1

\* Write, up to the write to the file.
Unwritten(p, e) == open[p] # None /\ at[e] = None

InPlace(p, e) ==
    /\ Unwritten(p, e) /\ ~Full(p, e) /\ ~closed[p]
    /\ UNCHANGED <<clock, names, open, closed, settings, cleanup, orphaned, starts>>

Touch(f) == mtime' = IF f \in names THEN [mtime EXCEPT ![f] = clock] ELSE mtime

Write(p, e) ==
    /\ InPlace(p, e)
    /\ Append(p, e, open[p], written[p]) /\ Touch(open[p])

WriteFails(p, e) ==
    /\ InPlace(p, e) /\ Failure
    /\ \/ AppendPiece(p, e, open[p], written[p]) /\ Touch(open[p])
       \/ AppendNothing(p, written[p]) /\ UNCHANGED mtime

\* Write with a rotation. An entry larger than MaxSize is written all the same.
Rotate(p, e) ==
    /\ Unwritten(p, e) /\ Full(p, e)
    /\ names' = names \union {clock}
    /\ mtime' = [mtime EXCEPT ![clock] = clock]
    /\ open' = [open EXCEPT ![p] = clock]
    /\ closed' = [closed EXCEPT ![p] = FALSE]
    /\ UNCHANGED <<clock, settings, cleanup, orphaned, starts>>

RotateAndWrite(p, e) == Rotate(p, e) /\ Append(p, e, clock, 0)

RotateAndWriteFails(p, e) ==
    /\ Rotate(p, e) /\ Failure
    /\ AppendPiece(p, e, clock, 0) \/ AppendNothing(p, 0)

\* rotate closes the file and cannot open the next one; the entry is refused.
\* So is every entry that would fit, until one that does not rotates again.
RotateFails(p, e) ==
    /\ Unwritten(p, e) /\ Full(p, e)
    /\ Failure
    /\ closed' = [closed EXCEPT ![p] = TRUE]
    /\ UNCHANGED <<clock, logs, open, written, settings, cleanup, history, starts>>

Tick ==
    /\ clock < MaxTime
    /\ clock' = clock + 1
    /\ UNCHANGED <<logs, loggers, settings, cleanup, history, counts>>

-----------------------------------------------------------------------------
(* webui: LogSettingsStore and RunLogCleanup.                                 *)

Shortened(d) ==
    [e \in Entry |-> IF at[e] # None /\ d < shortest[e] THEN d ELSE shortest[e]]

WebuiStarts ==
    /\ days = None /\ saved # Torn
    /\ days' = saved
    /\ shortest' = Shortened(saved)
    /\ UNCHANGED <<clock, logs, loggers, saved, cleanup, orphaned, counts>>

WebuiStops ==
    /\ days # None
    /\ days' = None
    /\ walk' = {} /\ cutoff' = None /\ doomed' = None /\ seen' = None
    /\ UNCHANGED <<clock, logs, loggers, saved, history, counts>>

Clamp(d) == IF d < 1 THEN 1 ELSE IF d > MaxDays THEN MaxDays ELSE d

\* Set: memory first, then the file, which may fail or be left truncated.
Set(d) ==
    /\ days # None
    /\ days' = Clamp(d)
    /\ saved' \in {saved, Clamp(d), Torn}
    /\ shortest' = Shortened(Clamp(d))
    /\ UNCHANGED <<clock, logs, loggers, cleanup, orphaned, counts>>

\* A run of the cleanup, at the start and every six hours: the cutoff and the
\* names. Nothing is older than a cutoff before time 0.
CleanBegins ==
    /\ days # None /\ cutoff = None
    /\ clock >= days
    /\ cutoff' = clock - days
    /\ walk' = names
    /\ UNCHANGED <<clock, logs, loggers, settings, doomed, seen, history,
                   counts>>

\* Glob gives the names in their order.
NextFile(f) == f \in walk /\ \A g \in walk : f <= g

\* Variant: the age is taken from the name.
CleanStatsByName(f) ==
    /\ NextFile(f) /\ doomed = None
    /\ walk' = walk \ {f}
    /\ IF f \in names /\ f < cutoff
       THEN doomed' = f /\ seen' = mtime[f]
       ELSE UNCHANGED <<doomed, seen>>
    /\ UNCHANGED <<clock, logs, loggers, settings, cutoff, history, counts>>

CleanStats(f) ==
    /\ NextFile(f) /\ doomed = None
    /\ walk' = walk \ {f}
    /\ IF f \in names /\ mtime[f] < cutoff
       THEN doomed' = f /\ seen' = mtime[f]
       ELSE UNCHANGED <<doomed, seen>>
    /\ UNCHANGED <<clock, logs, loggers, settings, cutoff, history, counts>>

\* A program has the file open, or has written to it since the stat.
InUse(f) == (\E p \in Program : open[p] = f) \/ mtime[f] # seen

\* The remove succeeds; one that fails leaves the file to the next run.
CleanRemoves ==
    /\ doomed # None
    /\ names' = names \ {doomed}
    /\ mtime' = [mtime EXCEPT ![doomed] = 0]
    /\ orphaned' = IF InUse(doomed) THEN orphaned \union {doomed} ELSE orphaned
    /\ doomed' = None /\ seen' = None
    /\ UNCHANGED <<clock, lines, loggers, settings, walk, cutoff, shortest,
                   counts>>

\* Variant: the cleanup runs once per process.
CleanEndsForGood ==
    /\ cutoff # None /\ walk = {} /\ doomed = None
    /\ UNCHANGED <<clock, logs, loggers, settings, cleanup, history, counts>>

CleanEnds ==
    /\ cutoff # None /\ walk = {} /\ doomed = None
    /\ cutoff' = None
    /\ UNCHANGED <<clock, logs, loggers, settings, walk, doomed, seen, history,
                   counts>>

-----------------------------------------------------------------------------
(* What GET /api/logs has to show: readAllLogs and parseJSONL.                *)

In(f) == {e \in Entry : stored[e] = f}

\* The files readAllLogs reads, most recent names first.
Newer(f) == {g \in names : g > f}
Read == {f \in names : Cardinality(Newer(f)) < MaxFiles}

\* A line that is not one JSON object is skipped. The scanner stops at a line
\* that is too long, and the file is skipped.
Parsed(f) == IF f \in overlong THEN {} ELSE In(f) \ merged

Shown == UNION {Parsed(f) : f \in Read}

-----------------------------------------------------------------------------
Next ==
    \/ \E p \in Program : NewLogger(p) \/ Exit(p)
    \/ \E p \in Program, e \in Entry :
          \/ Write(p, e) \/ WriteFails(p, e)
          \/ RotateAndWrite(p, e) \/ RotateAndWriteFails(p, e)
          \/ RotateFails(p, e)
    \/ Tick
    \/ WebuiStarts \/ WebuiStops \/ CleanBegins \/ CleanRemoves \/ CleanEnds
    \/ \E d \in 0..MaxDays + 1 : Set(d)
    \/ \E f \in Time : CleanStats(f)

\* webui is restarted when it stops, time passes, the cleanup has its ticker
\* and its run goes on. A webui that stops again and again never gets to it.
Fairness ==
    /\ WF_vars(Tick)
    /\ WF_vars(WebuiStarts)
    /\ WF_vars(CleanBegins) /\ WF_vars(CleanRemoves) /\ WF_vars(CleanEnds)
    /\ WF_vars(\E f \in Time : CleanStats(f))

Spec == Init /\ [][Next]_vars /\ Fairness

-----------------------------------------------------------------------------
\* What Write acknowledged is shown until it is older than the shortest
\* retention that was in force since - however writes, failed writes, rotations,
\* restarts, changed settings and cleanups interleave, except that: the file was
\* removed while it was in use, the entry was appended to the piece of another
\* one whose write had failed, a line of the file is longer than the reader's
\* buffer, or there are MaxFiles files with later names.
EntriesAccountedFor ==
    \A e \in Entry :
        at[e] # None =>
            \/ e \in Shown
            \/ at[e] + shortest[e] < clock
            \/ stored[e] \in orphaned
            \/ e \in merged
            \/ stored[e] \in overlong
            \/ Cardinality(Newer(stored[e])) >= MaxFiles

\* A file nobody has written to for longer than the largest retention is
\* removed in the end, when webui comes to stay up and removes succeed; a
\* settings.json that was left truncated keeps webui from starting. A file that
\* is opened later than the bound says is not old before the clock ends.
Old(f) == f \in names /\ mtime[f] + MaxDays < clock

OldFilesGo ==
    <>[](days # None) =>
        \A f \in {t \in Time : t + MaxDays < MaxTime} : Old(f) ~> ~Old(f)

\* An entry that is not older than any retention since it was acknowledged is
\* in a file of the directory: design_doc.md has the cleanup remove the files
\* that exceed the retention. The code also removes a file that a program has
\* open and writes to after the stat, and then loses what is written to it.
YoungEntriesStay ==
    \A e \in Entry :
        (at[e] # None /\ clock <= at[e] + shortest[e]) => stored[e] \in names

\* The log is "JSON Lines": every acknowledged record stands on a line of its
\* own (logger.go Logger). A write that failed half way leaves a line that the
\* next record is appended to, and parseJSONL skips both.
RecordsAreLines ==
    \A e \in Entry : at[e] # None => e \notin merged

\* The cap on the files read keeps the latest data (handler.go readAllLogs):
\* of two entries in files of the directory the later one is read if the
\* earlier one is. Names give the time a file was opened, not written.
CapKeepsLatest ==
    \A d, e \in Entry :
        (/\ at[d] # None /\ at[e] # None /\ at[d] < at[e]
         /\ stored[e] \in names /\ stored[d] \in Read)
        => stored[e] \in Read
=============================================================================
