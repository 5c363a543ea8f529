--------------------------- MODULE LogFilesProofs ---------------------------
(* Proofs about LogFiles for every set of programs and entries, every size of *)
(* files and entries, every retention and cap, and any number of failures.    *)
(*                                                                            *)
(* The argument: a file of the directory was last written to when its latest  *)
(* entry was, or after; so a file that is removed as old, and was not in use, *)
(* has only entries from before the cutoff; and an entry from before the      *)
(* cutoff of a run is older than the shortest retention of its time, because  *)
(* the retention that the run took was in force while the entry was there.    *)
EXTENDS LogFiles, FiniteSetTheorems, TLAPS

\* An acknowledged entry has a file and lies in the past.
PastInv ==
    \A e \in Entry :
        /\ at[e] = None <=> stored[e] = None
        /\ at[e] # None => at[e] <= clock

\* The time of a file is not before that of its entries.
TimesInv ==
    \A e \in Entry :
        at[e] # None /\ stored[e] \in names => at[e] <= mtime[stored[e]]

\* An open file that is not in the directory was removed while in use.
OpenInv ==
    \A p \in Program :
        open[p] # None => open[p] \in names \/ open[p] \in orphaned

\* The retention in force is one of those an entry has lived through.
ShortInv ==
    days # None => \A e \in Entry : at[e] # None => shortest[e] <= days

\* What lies before the cutoff of a run is older than its shortest retention,
\* and the file the run is about to remove was found to lie before it.
CutoffInv ==
    /\ cutoff # None =>
          /\ cutoff <= clock
          /\ \A e \in Entry :
                at[e] # None /\ at[e] < cutoff => at[e] + shortest[e] < clock
    /\ doomed # None => cutoff # None /\ seen # None /\ seen < cutoff
    /\ walk # {} => cutoff # None

KeptInv ==
    \A e \in Entry :
        at[e] # None =>
            \/ stored[e] \in names
            \/ stored[e] \in orphaned
            \/ at[e] + shortest[e] < clock

IInv ==
    TypeOK /\ PastInv /\ TimesInv /\ OpenInv /\ ShortInv /\ CutoffInv /\ KeptInv

-----------------------------------------------------------------------------
LEMMA InitIInv == Init => IInv
<1> SUFFICES ASSUME Init PROVE IInv
  OBVIOUS
<1>1. TypeOK
  BY BoundsAssumption DEF Init, TypeOK, Time, Days
<1>2. PastInv /\ TimesInv /\ OpenInv /\ ShortInv /\ CutoffInv /\ KeptInv
  BY DEF Init, PastInv, TimesInv, OpenInv, ShortInv, CutoffInv, KeptInv
<1> QED BY <1>1, <1>2 DEF IInv

\* Adding a line gives a set of files again.
LEMMA LengthenedType ==
    ASSUME TypeOK, NEW e \in Entry, NEW f \in Time, NEW w \in BOOLEAN,
           Lengthened(e, f, w)
    PROVE  overlong' \subseteq Time
BY DEF TypeOK, Lengthened

\* Retentions stay retentions.
LEMMA ShortenedType ==
    ASSUME TypeOK, NEW d \in Days
    PROVE  /\ Shortened(d) \in [Entry -> Days]
           /\ \A e \in Entry : Shortened(d)[e] <= shortest[e]
           /\ \A e \in Entry : at[e] # None => Shortened(d)[e] <= d
BY BoundsAssumption DEF TypeOK, Days, Shortened

LEMMA ClampType == ASSUME NEW d \in 0..MaxDays + 1 PROVE Clamp(d) \in Days
BY BoundsAssumption DEF Clamp, Days

LEMMA TypePreserved == TypeOK /\ [Next]_vars => TypeOK'
<1> SUFFICES ASSUME TypeOK, [Next]_vars PROVE TypeOK'
  OBVIOUS
<1> USE BoundsAssumption, NoneAssumption, EntryAssumption
        DEF TypeOK, Time, logs, lines, loggers, settings, cleanup, history, counts
<1>1. ASSUME NEW p \in Program, NewLogger(p) PROVE TypeOK'
  <2>1. names' \subseteq Time /\ mtime' \in [Time -> Time]
    BY <1>1 DEF NewLogger, Opened
  <2>2. open' \in [Program -> Time \union {None}] /\ starts' \in Nat
    BY <1>1 DEF NewLogger
  <2> QED BY <1>1, <2>1, <2>2 DEF NewLogger
<1>2. ASSUME NEW p \in Program, Exit(p) PROVE TypeOK'
  BY <1>2 DEF Exit
<1>3. ASSUME NEW p \in Program, NEW e \in Entry, Write(p, e) PROVE TypeOK'
  <2>1. open[p] \in Time
    BY <1>3 DEF Write, InPlace, Unwritten
  <2>2. written[p] + Size[e] \in Nat
    OBVIOUS
  <2>3. overlong' \subseteq Time
    BY <1>3, <2>1, LengthenedType DEF Write, Append
  <2>4. (IF days = None THEN MaxDays ELSE days) \in Days
    BY DEF Days
  <2> QED BY <1>3, <2>1, <2>2, <2>3, <2>4 DEF Write, InPlace, Append, Touch
<1>4. ASSUME NEW p \in Program, NEW e \in Entry, WriteFails(p, e) PROVE TypeOK'
  <2>1. open[p] \in Time
    BY <1>4 DEF WriteFails, InPlace, Unwritten
  <2>2. failures' \in Nat
    BY <1>4 DEF WriteFails, Failure
  <2>3. CASE AppendPiece(p, e, open[p], written[p]) /\ Touch(open[p])
    <3>1. PICK k \in 0..Size[e] - 1 :
             written' = [written EXCEPT ![p] = written[p] + k]
      BY <2>3 DEF AppendPiece
    <3>2. written[p] + k \in Nat
      OBVIOUS
    <3>3. overlong' \subseteq Time
      BY <2>1, <2>3, LengthenedType DEF AppendPiece
    <3> QED BY <1>4, <2>1, <2>2, <2>3, <3>1, <3>2, <3>3
            DEF WriteFails, InPlace, AppendPiece, Touch
  <2>4. CASE AppendNothing(p, written[p]) /\ UNCHANGED mtime
    BY <1>4, <2>2, <2>4 DEF WriteFails, InPlace, AppendNothing
  <2> QED BY <1>4, <2>3, <2>4 DEF WriteFails
<1>5. ASSUME NEW p \in Program, NEW e \in Entry, RotateAndWrite(p, e)
      PROVE  TypeOK'
  <2>1. 0 + Size[e] \in Nat
    OBVIOUS
  <2>2. overlong' \subseteq Time
    BY <1>5, LengthenedType DEF RotateAndWrite, Append
  <2>3. (IF days = None THEN MaxDays ELSE days) \in Days
    BY DEF Days
  <2> QED BY <1>5, <2>1, <2>2, <2>3 DEF RotateAndWrite, Rotate, Append
<1>6. ASSUME NEW p \in Program, NEW e \in Entry, RotateAndWriteFails(p, e)
      PROVE  TypeOK'
  <2>1. failures' \in Nat
    BY <1>6 DEF RotateAndWriteFails, Failure
  <2>2. CASE AppendPiece(p, e, clock, 0)
    <3>1. PICK k \in 0..Size[e] - 1 : written' = [written EXCEPT ![p] = 0 + k]
      BY <2>2 DEF AppendPiece
    <3>2. 0 + k \in Nat
      OBVIOUS
    <3>3. overlong' \subseteq Time
      BY <2>2, LengthenedType DEF AppendPiece
    <3> QED BY <1>6, <2>1, <2>2, <3>1, <3>2, <3>3
            DEF RotateAndWriteFails, Rotate, AppendPiece
  <2>3. CASE AppendNothing(p, 0)
    BY <1>6, <2>1, <2>3 DEF RotateAndWriteFails, Rotate, AppendNothing
  <2> QED BY <1>6, <2>2, <2>3 DEF RotateAndWriteFails
<1>7. ASSUME NEW p \in Program, NEW e \in Entry, RotateFails(p, e)
      PROVE  TypeOK'
  <2>1. failures' \in Nat
    BY <1>7 DEF RotateFails, Failure
  <2>2. closed' \in [Program -> BOOLEAN]
    BY <1>7 DEF RotateFails
  <2>3. UNCHANGED <<clock, logs, open, written, settings, cleanup, history, starts>>
    BY <1>7 DEF RotateFails
  <2> QED BY <2>1, <2>2, <2>3, SMTT(90)
<1>8. CASE Tick
  BY <1>8, SMTT(60) DEF Tick
<1>9. CASE WebuiStarts
  <2>1. saved \in Days
    BY <1>9 DEF WebuiStarts
  <2> QED BY <1>9, <2>1, ShortenedType DEF WebuiStarts
<1>10. CASE WebuiStops
  BY <1>10 DEF WebuiStops
<1>11. ASSUME NEW d \in 0..MaxDays + 1, Set(d) PROVE TypeOK'
  BY <1>11, ClampType, ShortenedType DEF Set
<1>12. CASE CleanBegins
  <2>1. clock \in 0..MaxTime /\ days \in 1..MaxDays /\ days <= clock
    BY <1>12 DEF CleanBegins, Days
  <2>2. clock - days \in 0..MaxTime
    BY <2>1
  <2> QED BY <1>12, <2>2 DEF CleanBegins
<1>13. ASSUME NEW f \in Time, CleanStats(f) PROVE TypeOK'
  BY <1>13 DEF CleanStats
<1>14. CASE CleanRemoves
  BY <1>14 DEF CleanRemoves
<1>15. CASE CleanEnds
  BY <1>15 DEF CleanEnds
<1>16. CASE UNCHANGED vars
  BY <1>16 DEF vars
<1> QED BY <1>1, <1>2, <1>3, <1>4, <1>5, <1>6, <1>7, <1>8, <1>9, <1>10, <1>11,
        <1>12, <1>13, <1>14, <1>15, <1>16 DEF Next

LEMMA FilesPreserved == IInv /\ [Next]_vars => (PastInv /\ TimesInv /\ OpenInv)'
<1> DEFINE Goal == PastInv /\ TimesInv /\ OpenInv
<1> SUFFICES ASSUME IInv, [Next]_vars PROVE Goal'
  OBVIOUS
<1> USE BoundsAssumption, NoneAssumption, EntryAssumption
        DEF IInv, TypeOK, Time, Days, PastInv, TimesInv, OpenInv,
            logs, lines, loggers, settings, cleanup, history, counts
<1>1. ASSUME NEW p \in Program, NewLogger(p) PROVE Goal'
  BY <1>1 DEF NewLogger, Opened
<1>2. ASSUME NEW p \in Program, Exit(p) PROVE Goal'
  BY <1>2 DEF Exit
<1>3. ASSUME NEW p \in Program, NEW e \in Entry, Write(p, e) PROVE Goal'
  <2>1. /\ open[p] \in Time /\ at' = [at EXCEPT ![e] = clock]
        /\ stored' = [stored EXCEPT ![e] = open[p]]
        /\ UNCHANGED <<clock, names, open, orphaned>>
        /\ Touch(open[p])
    BY <1>3 DEF Write, InPlace, Unwritten, Append
  <2>2. OpenInv'
    BY <2>1
  <2>3. PastInv'
    <3>1. clock \in Nat /\ None \notin Nat
      OBVIOUS
    <3> QED BY <2>1, <3>1
  <2>4. TimesInv'
    <3> SUFFICES ASSUME NEW d \in Entry, at'[d] # None, stored'[d] \in names
                 PROVE  at'[d] <= mtime'[stored'[d]]
      BY <2>1
    <3>1. CASE d = e
      BY <2>1, <3>1 DEF Touch
    <3>2. CASE d # e
      BY <2>1, <3>2 DEF Touch
    <3> QED BY <3>1, <3>2
  <2> QED BY <2>2, <2>3, <2>4
<1>4. ASSUME NEW p \in Program, NEW e \in Entry, WriteFails(p, e) PROVE Goal'
  <2>1. /\ open[p] \in Time
        /\ UNCHANGED <<clock, stored, at, names, open, orphaned>>
    BY <1>4 DEF WriteFails, InPlace, Unwritten, AppendPiece, AppendNothing
  <2>2. mtime' = mtime \/ mtime' = [mtime EXCEPT ![open[p]] = clock]
    BY <1>4 DEF WriteFails, Touch
  <2>3. PastInv' /\ OpenInv'
    BY <2>1
  <2>4. TimesInv'
    BY <2>1, <2>2
  <2> QED BY <2>3, <2>4
<1>5. ASSUME NEW p \in Program, NEW e \in Entry, RotateAndWrite(p, e)
      PROVE  Goal'
  BY <1>5, SMTT(60) DEF RotateAndWrite, Rotate, Append
<1>6. ASSUME NEW p \in Program, NEW e \in Entry, RotateAndWriteFails(p, e)
      PROVE  Goal'
  <2>1. UNCHANGED <<stored, at>> /\ Rotate(p, e)
    BY <1>6 DEF RotateAndWriteFails, AppendPiece, AppendNothing
  <2> QED BY <2>1 DEF Rotate
<1>7. ASSUME NEW p \in Program, NEW e \in Entry, RotateFails(p, e)
      PROVE  Goal'
  BY <1>7 DEF RotateFails
<1>8. CASE Tick
  BY <1>8 DEF Tick
<1>9. CASE WebuiStarts
  BY <1>9 DEF WebuiStarts
<1>10. CASE WebuiStops
  BY <1>10 DEF WebuiStops
<1>11. ASSUME NEW d \in 0..MaxDays + 1, Set(d) PROVE Goal'
  BY <1>11 DEF Set
<1>12. CASE CleanBegins
  BY <1>12 DEF CleanBegins
<1>13. ASSUME NEW f \in Time, CleanStats(f) PROVE Goal'
  BY <1>13 DEF CleanStats
<1>14. CASE CleanRemoves
  BY <1>14 DEF CleanRemoves, InUse
<1>15. CASE CleanEnds
  BY <1>15 DEF CleanEnds
<1>16. CASE UNCHANGED vars
  BY <1>16 DEF vars
<1> QED BY <1>1, <1>2, <1>3, <1>4, <1>5, <1>6, <1>7, <1>8, <1>9, <1>10, <1>11,
        <1>12, <1>13, <1>14, <1>15, <1>16 DEF Next

\* A new entry has the retention in force, and is not before any cutoff.
LEMMA AppendKeeps ==
    ASSUME IInv, NEW e \in Entry, NEW f \in Time,
           f \in names' \/ f \in orphaned, names \subseteq names',
           at' = [at EXCEPT ![e] = clock],
           stored' = [stored EXCEPT ![e] = f],
           shortest' = [shortest EXCEPT ![e] = IF days = None THEN MaxDays
                                                                ELSE days],
           UNCHANGED <<clock, days, cleanup, orphaned>>
    PROVE  (ShortInv /\ CutoffInv /\ KeptInv)'
<1> USE BoundsAssumption, NoneAssumption
        DEF IInv, TypeOK, Time, Days, cleanup
<1>1. ShortInv'
  <2> SUFFICES ASSUME days # None, NEW d \in Entry, at'[d] # None
               PROVE  shortest'[d] <= days
    BY DEF ShortInv
  <2>1. CASE d = e
    BY <2>1
  <2>2. CASE d # e
    BY <2>2 DEF ShortInv
  <2> QED BY <2>1, <2>2
<1>2. CutoffInv'
  <2>1. ASSUME cutoff # None, NEW d \in Entry, at'[d] # None, at'[d] < cutoff
        PROVE  at'[d] + shortest'[d] < clock
    <3>1. CASE d = e
      BY <2>1, <3>1 DEF CutoffInv
    <3>2. CASE d # e
      BY <2>1, <3>2 DEF CutoffInv
    <3> QED BY <3>1, <3>2
  <2> QED BY <2>1 DEF CutoffInv
<1>3. KeptInv'
  <2> SUFFICES ASSUME NEW d \in Entry, at'[d] # None
               PROVE  \/ stored'[d] \in names' \/ stored'[d] \in orphaned
                      \/ at'[d] + shortest'[d] < clock
    BY DEF KeptInv
  <2>1. CASE d = e
    BY <2>1
  <2>2. CASE d # e
    BY <2>2 DEF KeptInv
  <2> QED BY <2>1, <2>2
<1> QED BY <1>1, <1>2, <1>3

\* A step of a program that acknowledges nothing.
LEMMA FrameKeeps ==
    ASSUME IInv, names \subseteq names',
           UNCHANGED <<clock, stored, at, days, cleanup, history>>
    PROVE  (ShortInv /\ CutoffInv /\ KeptInv)'
BY DEF IInv, ShortInv, CutoffInv, KeptInv, cleanup, history

\* A retention comes into force.
LEMMA ShortenKeeps ==
    ASSUME IInv, NEW d \in Days, days' = d, shortest' = Shortened(d),
           UNCHANGED <<clock, logs, cleanup, orphaned>>
    PROVE  (ShortInv /\ CutoffInv /\ KeptInv)'
<1>1. /\ \A e \in Entry : shortest'[e] <= shortest[e]
      /\ \A e \in Entry : at[e] # None => shortest'[e] <= d
  BY ShortenedType DEF IInv
<1>2. \A e \in Entry : at[e] # None =>
         /\ at[e] \in Nat /\ shortest[e] \in Nat /\ shortest'[e] \in Nat
  <2>1. shortest' \in [Entry -> Days] /\ shortest \in [Entry -> Days]
    BY ShortenedType DEF IInv, TypeOK
  <2>2. \A e \in Entry : at[e] # None => at[e] \in Time
    BY DEF IInv, TypeOK
  <2>3. Time \subseteq Nat /\ Days \subseteq Nat
    BY BoundsAssumption DEF Time, Days
  <2> QED BY <2>1, <2>2, <2>3
<1>3. clock \in Nat
  BY DEF IInv, TypeOK, Time
<1>4. UNCHANGED <<clock, stored, at, names, cutoff, doomed, seen, walk, orphaned>>
  BY DEF logs, lines, cleanup
<1>5. ShortInv'
  BY <1>1, <1>4 DEF ShortInv
<1>6. \A e \in Entry :
         at[e] # None /\ at[e] + shortest[e] < clock
            => at[e] + shortest'[e] < clock
  BY <1>1, <1>2, <1>3
<1>7. CutoffInv' /\ KeptInv'
  BY <1>4, <1>6 DEF IInv, CutoffInv, KeptInv
<1> QED BY <1>5, <1>7

LEMMA RetentionPreserved ==
    IInv /\ [Next]_vars => (ShortInv /\ CutoffInv /\ KeptInv)'
<1> DEFINE Goal == ShortInv /\ CutoffInv /\ KeptInv
<1> SUFFICES ASSUME IInv, [Next]_vars PROVE Goal'
  OBVIOUS
<1> USE DEF loggers, settings, history, counts
<1>1. ASSUME NEW p \in Program, NewLogger(p) PROVE Goal'
  BY <1>1, FrameKeeps DEF NewLogger, Opened, lines
<1>2. ASSUME NEW p \in Program, Exit(p) PROVE Goal'
  BY <1>2, FrameKeeps DEF Exit, logs, lines
<1>3. ASSUME NEW p \in Program, NEW e \in Entry, Write(p, e) PROVE Goal'
  <2>1. open[p] \in Time /\ (open[p] \in names \/ open[p] \in orphaned)
    BY <1>3 DEF Write, InPlace, Unwritten, IInv, TypeOK, OpenInv
  <2>2. /\ at' = [at EXCEPT ![e] = clock]
        /\ stored' = [stored EXCEPT ![e] = open[p]]
        /\ shortest' = [shortest EXCEPT ![e] = IF days = None THEN MaxDays
                                                             ELSE days]
        /\ UNCHANGED <<clock, names, days, cleanup, orphaned>>
    BY <1>3 DEF Write, InPlace, Append
  <2> QED BY <2>1, <2>2, AppendKeeps
<1>4. ASSUME NEW p \in Program, NEW e \in Entry, WriteFails(p, e) PROVE Goal'
  <2>1. UNCHANGED <<names, clock, stored, at, days, cleanup, history>>
    BY <1>4 DEF WriteFails, InPlace, AppendPiece, AppendNothing, lines
  <2> QED BY <2>1, FrameKeeps
<1>5. ASSUME NEW p \in Program, NEW e \in Entry, RotateAndWrite(p, e)
      PROVE  Goal'
  <2>1. clock \in Time
    BY DEF IInv, TypeOK
  <2>2. /\ at' = [at EXCEPT ![e] = clock]
        /\ stored' = [stored EXCEPT ![e] = clock]
        /\ shortest' = [shortest EXCEPT ![e] = IF days = None THEN MaxDays
                                                             ELSE days]
        /\ names' = names \union {clock}
        /\ UNCHANGED <<clock, days, cleanup, orphaned>>
    BY <1>5 DEF RotateAndWrite, Rotate, Append
  <2> QED BY <2>1, <2>2, AppendKeeps
<1>6. ASSUME NEW p \in Program, NEW e \in Entry, RotateAndWriteFails(p, e)
      PROVE  Goal'
  <2>1. /\ names \subseteq names'
        /\ UNCHANGED <<clock, stored, at, days, cleanup, history>>
    BY <1>6 DEF RotateAndWriteFails, Rotate, AppendPiece, AppendNothing, lines
  <2> QED BY <2>1, FrameKeeps
<1>7. ASSUME NEW p \in Program, NEW e \in Entry, RotateFails(p, e)
      PROVE  Goal'
  BY <1>7, FrameKeeps DEF RotateFails, logs, lines
<1>8. CASE Tick
  BY <1>8, BoundsAssumption DEF Tick, logs, lines, cleanup, IInv, TypeOK, Time,
     Days, ShortInv, CutoffInv, KeptInv
<1>9. CASE WebuiStarts
  <2>1. saved \in Days
    BY <1>9 DEF WebuiStarts, IInv, TypeOK
  <2> QED BY <1>9, <2>1, ShortenKeeps DEF WebuiStarts
<1>10. CASE WebuiStops
  BY <1>10 DEF WebuiStops, logs, lines, IInv, ShortInv, CutoffInv, KeptInv
<1>11. ASSUME NEW d \in 0..MaxDays + 1, Set(d) PROVE Goal'
  BY <1>11, ClampType, ShortenKeeps DEF Set
<1>12. CASE CleanBegins
  <2>1. /\ clock \in Nat /\ days \in Nat /\ days # None /\ cutoff' = clock - days
        /\ clock - days <= clock /\ cutoff = None
    BY <1>12, BoundsAssumption DEF CleanBegins, IInv, TypeOK, Time, Days
  <2>2. UNCHANGED <<clock, stored, at, names, days, doomed, seen, history>>
    BY <1>12 DEF CleanBegins, logs, lines
  <2>3. doomed = None
    BY <2>1 DEF IInv, CutoffInv
  <2>4. ASSUME NEW e \in Entry, at[e] # None, at[e] < clock - days
        PROVE  at[e] + shortest[e] < clock
    <3>1. at[e] \in Nat /\ shortest[e] \in Nat /\ shortest[e] <= days
      BY <2>1, <2>4, BoundsAssumption DEF IInv, TypeOK, Time, Days, ShortInv
    <3> QED BY <2>1, <2>4, <3>1
  <2>5. cutoff' # None
    BY <2>1, NoneAssumption, <1>12 DEF CleanBegins
  <2>6. CutoffInv'
    BY <2>1, <2>2, <2>3, <2>4, <2>5 DEF CutoffInv
  <2>7. ShortInv' /\ KeptInv'
    BY <2>2 DEF IInv, ShortInv, KeptInv
  <2> QED BY <2>6, <2>7
<1>13. ASSUME NEW f \in Time, CleanStats(f) PROVE Goal'
  <2>1. /\ UNCHANGED <<clock, stored, at, names, days, cutoff, history>>
        /\ cutoff # None
    BY <1>13 DEF CleanStats, NextFile, logs, lines, IInv, CutoffInv
  <2>2. doomed' # None => seen' # None /\ seen' < cutoff
    BY <1>13, NoneAssumption DEF CleanStats, IInv, TypeOK, Time
  <2> QED BY <2>1, <2>2 DEF IInv, ShortInv, CutoffInv, KeptInv
<1>14. CASE CleanRemoves
  <2>1. /\ UNCHANGED <<clock, stored, at, days, cutoff, walk, shortest>>
        /\ doomed' = None /\ cutoff # None /\ seen < cutoff
    BY <1>14 DEF CleanRemoves, lines, IInv, CutoffInv
  <2>2. ShortInv' /\ CutoffInv'
    BY <2>1 DEF IInv, ShortInv, CutoffInv
  <2>3. ASSUME NEW e \in Entry, at[e] # None
        PROVE  \/ stored[e] \in names' \/ stored[e] \in orphaned'
               \/ at[e] + shortest[e] < clock
    <3>1. CASE stored[e] = doomed /\ doomed \in names /\ ~InUse(doomed)
      <4>1. at[e] <= mtime[doomed] /\ mtime[doomed] = seen
        BY <2>3, <3>1 DEF InUse, IInv, TimesInv
      <4>2. at[e] \in Nat /\ seen \in Nat /\ cutoff \in Nat
        BY <2>1, <2>3, <3>1, <4>1 DEF IInv, TypeOK, Time
      <4>3. at[e] < cutoff
        BY <2>1, <4>1, <4>2
      <4> QED BY <2>1, <2>3, <4>3 DEF IInv, CutoffInv
    <3>2. CASE stored[e] # doomed \/ doomed \notin names \/ InUse(doomed)
      BY <1>14, <2>3, <3>2 DEF CleanRemoves, IInv, KeptInv
    <3> QED BY <3>1, <3>2
  <2> QED BY <2>1, <2>2, <2>3 DEF KeptInv
<1>15. CASE CleanEnds
  BY <1>15 DEF CleanEnds, logs, lines, IInv, ShortInv, CutoffInv, KeptInv
<1>16. CASE UNCHANGED vars
  BY <1>16 DEF vars, logs, lines, cleanup, IInv, ShortInv, CutoffInv, KeptInv
<1> QED BY <1>1, <1>2, <1>3, <1>4, <1>5, <1>6, <1>7, <1>8, <1>9, <1>10, <1>11,
        <1>12, <1>13, <1>14, <1>15, <1>16 DEF Next

LEMMA IInvAlways == Spec => []IInv
<1>1. IInv /\ [Next]_vars => IInv'
  BY TypePreserved, FilesPreserved, RetentionPreserved DEF IInv
<1> QED BY InitIInv, <1>1, PTL DEF Spec

\* The files with later names can be counted.
LEMMA NewerCounted ==
    ASSUME TypeOK, NEW f
    PROVE  Cardinality(Newer(f)) \in Nat
<1>1. IsFiniteSet(0..MaxTime)
  <2>1. 0 \in Int /\ MaxTime \in Int
    BY BoundsAssumption
  <2> QED BY <2>1, FS_Interval
<1>2. Newer(f) \subseteq 0..MaxTime
  BY DEF TypeOK, Time, Newer
<1> QED BY <1>1, <1>2, FS_Subset, FS_CardinalityType

-----------------------------------------------------------------------------
\* Every reachable state of the loggers, the directory and webui is well typed.
THEOREM TypeCorrect == Spec => []TypeOK
<1>1. IInv => TypeOK
  BY DEF IInv
<1> QED BY <1>1, IInvAlways, PTL

\* An acknowledged entry is shown, too old, or hidden for one of four reasons.
THEOREM EntriesAccountedForHolds == Spec => []EntriesAccountedFor
<1>1. IInv => EntriesAccountedFor
  <2> SUFFICES ASSUME IInv, NEW e \in Entry, at[e] # None,
                      stored[e] \in names,
                      e \notin merged, stored[e] \notin overlong,
                      ~(Cardinality(Newer(stored[e])) >= MaxFiles)
               PROVE  e \in Shown
    BY DEF EntriesAccountedFor, IInv, KeptInv
  <2>1. Cardinality(Newer(stored[e])) \in Nat
    BY NewerCounted DEF IInv
  <2>2. stored[e] \in Read
    BY <2>1, BoundsAssumption DEF Read
  <2>3. e \in Parsed(stored[e])
    BY DEF Parsed, In
  <2> QED BY <2>2, <2>3 DEF Shown
<1> QED BY <1>1, IInvAlways, PTL
=============================================================================
