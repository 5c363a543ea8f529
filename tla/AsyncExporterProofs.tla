------------------------ MODULE AsyncExporterProofs -------------------------
(***************************************************************************)
(* Proofs about AsyncExporter for every number of entries and workers and  *)
(* every capacity of the channel. Where an entry is follows from a         *)
(* partition: Partition says that the places an entry can be in exclude    *)
(* one another, and the channel and the hands hold nothing twice.          *)
(***************************************************************************)
EXTENDS AsyncExporter, SequenceTheorems, FiniteSetTheorems, TLAPS

(* A worker in its post holds an entry, and no other worker does.          *)
HandInv ==
  /\ \A w \in Worker : wpc[w] = "post" <=> held[w] # Nothing
  /\ \A w, v \in Worker : held[w] = held[v] /\ held[w] # Nothing => w = v

(* Nothing is twice in the channel.                                        *)
QueueInv ==
  /\ Len(queue) <= QueueCap
  /\ \A i, j \in 1..Len(queue) : queue[i] = queue[j] => i = j

Apart ==
  /\ unsent \cap (dropped \cup Posted \cup failed \cup Queued \cup InHand) = {}
  /\ dropped \cap (Posted \cup failed \cup Queued \cup InHand) = {}
  /\ Posted \cap (failed \cup Queued \cup InHand) = {}
  /\ failed \cap (Queued \cup InHand) = {}
  /\ Queued \cap InHand = {}

Everywhere == unsent \cup dropped \cup Posted \cup failed \cup Queued \cup InHand

Partition ==
  process # "panicked" =>
    /\ \A e \in Entry : posted[e] <= 1
    /\ Apart
    /\ Entry = Everywhere

(* What Close relies on: the channel is closed exactly since it began, a   *)
(* worker that is done left an empty closed channel, and what was in the   *)
(* channel then is still there, in a hand, or through.                     *)
CloseInv ==
  /\ closed <=> process # "serving"
  /\ \A w \in Worker : wpc[w] = "done" => closed /\ queue = <<>>
  /\ waited \subseteq {w \in Worker : wpc[w] = "done"}
  /\ process = "exited" => waited = Worker
  /\ closed => inTime \subseteq Queued \cup InHand \cup Posted \cup failed

IInv == TypeOK /\ HandInv /\ QueueInv /\ Partition /\ CloseInv
-----------------------------------------------------------------------------
(* What the elements of a sequence become by Append and by Tail.           *)
LEMMA AppendElements ==
  ASSUME NEW S, NEW q \in Seq(S), NEW e \in S
  PROVE  /\ Append(q, e) \in Seq(S)
         /\ Len(Append(q, e)) = Len(q) + 1
         /\ {Append(q, e)[i] : i \in 1..Len(Append(q, e))}
              = {q[i] : i \in 1..Len(q)} \cup {e}
<1>1. /\ Append(q, e) \in Seq(S)
      /\ Len(Append(q, e)) = Len(q) + 1
      /\ Len(q) \in Nat
  OBVIOUS
<1>2. \A i \in 1..Len(q) : Append(q, e)[i] = q[i]
  OBVIOUS
<1>3. Append(q, e)[Len(q) + 1] = e
  OBVIOUS
<1>4. 1..(Len(q) + 1) = 1..Len(q) \cup {Len(q) + 1}
  BY <1>1
<1> QED
  BY <1>1, <1>2, <1>3, <1>4

LEMMA TailElements ==
  ASSUME NEW S, NEW q \in Seq(S), q # <<>>,
         \A i, j \in 1..Len(q) : q[i] = q[j] => i = j
  PROVE  /\ Head(q) \in S
         /\ Tail(q) \in Seq(S)
         /\ Len(Tail(q)) = Len(q) - 1
         /\ Head(q) \in {q[i] : i \in 1..Len(q)}
         /\ {Tail(q)[i] : i \in 1..Len(Tail(q))}
              = {q[i] : i \in 1..Len(q)} \ {Head(q)}
         /\ \A i, j \in 1..Len(Tail(q)) : Tail(q)[i] = Tail(q)[j] => i = j
<1>1. /\ Head(q) \in S /\ Tail(q) \in Seq(S)
      /\ Len(Tail(q)) = Len(q) - 1
      /\ \A i \in 1..Len(Tail(q)) : Tail(q)[i] = q[i + 1]
  BY HeadTailProperties
<1>2. Len(q) \in Nat \ {0} /\ Head(q) = q[1]
  BY EmptySeq
<1>3. \A i \in 1..Len(Tail(q)) : i + 1 \in 1..Len(q) /\ i + 1 # 1
  BY <1>1, <1>2
<1>4. \A i \in 1..Len(q) : i # 1 => i - 1 \in 1..Len(Tail(q)) /\ (i - 1) + 1 = i
  BY <1>1, <1>2
<1>5. {Tail(q)[i] : i \in 1..Len(Tail(q))} \subseteq {q[i] : i \in 1..Len(q)} \ {Head(q)}
  <2> SUFFICES ASSUME NEW i \in 1..Len(Tail(q))
               PROVE  Tail(q)[i] \in {q[k] : k \in 1..Len(q)} \ {q[1]}
    BY <1>2
  <2>1. i + 1 \in 1..Len(q) /\ i + 1 # 1 /\ 1 \in 1..Len(q)
    BY <1>2, <1>3
  <2> QED
    BY <1>1, <2>1
<1>6. {q[i] : i \in 1..Len(q)} \ {Head(q)} \subseteq {Tail(q)[i] : i \in 1..Len(Tail(q))}
  <2> SUFFICES ASSUME NEW i \in 1..Len(q), q[i] # q[1]
               PROVE  \E k \in 1..Len(Tail(q)) : q[i] = Tail(q)[k]
    BY <1>2
  <2>1. i - 1 \in 1..Len(Tail(q)) /\ (i - 1) + 1 = i
    BY <1>4
  <2> QED
    BY <1>1, <2>1
<1>7. \A i, j \in 1..Len(Tail(q)) : Tail(q)[i] = Tail(q)[j] => i = j
  <2> SUFFICES ASSUME NEW i \in 1..Len(Tail(q)), NEW j \in 1..Len(Tail(q)),
                      Tail(q)[i] = Tail(q)[j]
               PROVE  i = j
    OBVIOUS
  <2>1. i + 1 \in 1..Len(q) /\ j + 1 \in 1..Len(q)
    BY <1>3
  <2>2. i + 1 = j + 1
    BY <1>1, <2>1
  <2> QED
    BY <2>2
<1>8. Head(q) \in {q[i] : i \in 1..Len(q)}
  BY <1>2
<1> QED
  BY <1>1, <1>5, <1>6, <1>7, <1>8

(* What the hands hold, as a set, after one of them took or put an entry.  *)
LEMMA HandTakes ==
  ASSUME TypeOK, HandInv, NEW w \in Worker, wpc[w] = "receive",
         NEW e \in Entry, e \notin InHand,
         held' = [held EXCEPT ![w] = e]
  PROVE  /\ InHand' = InHand \cup {e}
         /\ \A v, u \in Worker :
               held'[v] = held'[u] /\ held'[v] # Nothing => v = u
<1>1. held[w] = Nothing /\ e # Nothing
  BY ExporterAssumption DEF HandInv
<1>2. \A v \in Worker : held'[v] = IF v = w THEN e ELSE held[v]
  BY DEF TypeOK
<1>3. \A v \in Worker : held[v] # e
  BY <1>1 DEF InHand
<1>4. InHand' = InHand \cup {e}
  BY <1>1, <1>2 DEF InHand
<1>5. \A v, u \in Worker : held'[v] = held'[u] /\ held'[v] # Nothing => v = u
  BY <1>1, <1>2, <1>3 DEF HandInv
<1> QED
  BY <1>4, <1>5

LEMMA HandPuts ==
  ASSUME TypeOK, HandInv, NEW w \in Worker, wpc[w] = "post",
         held' = [held EXCEPT ![w] = Nothing]
  PROVE  /\ held[w] \in Entry /\ held[w] \in InHand
         /\ InHand' = InHand \ {held[w]}
         /\ \A v, u \in Worker :
               held'[v] = held'[u] /\ held'[v] # Nothing => v = u
<1>1. held[w] \in Entry /\ held[w] \in InHand /\ held[w] # Nothing
  BY DEF HandInv, TypeOK, InHand
<1>2. \A v \in Worker : held'[v] = IF v = w THEN Nothing ELSE held[v]
  BY DEF TypeOK
<1>3. \A v \in Worker : v # w /\ held[v] # Nothing => held[v] # held[w]
  BY DEF HandInv
<1>4. InHand' = InHand \ {held[w]}
  BY <1>1, <1>2, <1>3 DEF InHand
<1>5. \A v, u \in Worker : held'[v] = held'[u] /\ held'[v] # Nothing => v = u
  BY <1>2 DEF HandInv
<1> QED
  BY <1>1, <1>4, <1>5

(* Actions that move no entry.                                             *)
LEMMA NothingMoves ==
  ASSUME IInv, UNCHANGED <<queue, held, unsent, dropped, posted, failed>>
  PROVE  /\ Apart' = Apart
         /\ (Entry = Everywhere)' = (Entry = Everywhere)
         /\ Queued' = Queued /\ InHand' = InHand /\ Posted' = Posted
         /\ QueueInv'
BY DEF Apart, Everywhere, Queued, InHand, Posted, IInv, QueueInv
-----------------------------------------------------------------------------
LEMMA InitIInv == Init => IInv
<1> SUFFICES ASSUME Init PROVE IInv
  OBVIOUS
<1> USE DEF Init
<1>1. TypeOK
  <2>1. queue \in Seq(Entry)
    BY EmptySeq
  <2> QED
    BY <2>1 DEF TypeOK
<1>2. Queued = {} /\ InHand = {} /\ Posted = {}
  BY DEF Queued, InHand, Posted
<1>3. HandInv /\ QueueInv
  BY ExporterAssumption DEF HandInv, QueueInv
<1>4. Partition
  BY <1>2 DEF Partition, Apart, Everywhere
<1>5. CloseInv
  BY DEF CloseInv
<1> QED
  BY <1>1, <1>3, <1>4, <1>5 DEF IInv

LEMMA SendStep ==
  ASSUME IInv, NEW e \in Entry, Send(e)
  PROVE  IInv'
<1> USE DEF Send, IInv, Alive
<1>1. e \in unsent /\ process # "panicked" /\ ~ closed
  OBVIOUS
<1>2. CASE Len(queue) < QueueCap /\ queue' = Append(queue, e) /\ UNCHANGED dropped
  <2>1. /\ queue' \in Seq(Entry)
        /\ Len(queue') = Len(queue) + 1
        /\ Queued' = Queued \cup {e}
    BY <1>2, AppendElements DEF TypeOK, Queued
  <2>2. InHand' = InHand /\ Posted' = Posted
    BY DEF InHand, Posted
  <2>3. TypeOK' /\ HandInv'
    BY <1>2, <2>1 DEF TypeOK, HandInv
  <2>4. QueueInv'
    <3>1. Len(queue') <= QueueCap
      BY <1>2, <2>1, ExporterAssumption DEF TypeOK
    <3>2. e \notin Queued
      BY <1>1 DEF Partition, Apart
    <3>3. \A i \in 1..Len(queue') :
             \/ i \in 1..Len(queue) /\ queue'[i] = queue[i] /\ queue'[i] # e
             \/ i = Len(queue) + 1 /\ queue'[i] = e
      BY <1>2, <2>1, <3>2 DEF TypeOK, Queued
    <3> QED
      BY <3>1, <3>3 DEF QueueInv
  <2>5. Partition'
    BY <1>1, <1>2, <2>1, <2>2 DEF Partition, Apart, Everywhere
  <2>6. CloseInv'
    BY <1>1 DEF CloseInv
  <2> QED
    BY <2>3, <2>4, <2>5, <2>6
<1>3. CASE dropped' = dropped \cup {e} /\ UNCHANGED queue
  <2>1. InHand' = InHand /\ Posted' = Posted /\ Queued' = Queued
    BY <1>3 DEF InHand, Posted, Queued
  <2>2. TypeOK' /\ HandInv' /\ QueueInv'
    BY <1>3 DEF TypeOK, HandInv, QueueInv
  <2>3. Partition'
    BY <1>1, <1>3, <2>1 DEF Partition, Apart, Everywhere
  <2>4. CloseInv'
    BY <1>1 DEF CloseInv
  <2> QED
    BY <2>2, <2>3, <2>4
<1> QED
  BY <1>2, <1>3

LEMMA SendOnClosedStep ==
  ASSUME IInv, NEW e \in Entry, SendOnClosed(e)
  PROVE  IInv'
<1> USE DEF SendOnClosed, IInv, entryVars
<1>1. InHand' = InHand /\ Posted' = Posted /\ Queued' = Queued
  BY DEF InHand, Posted, Queued
<1>2. TypeOK' /\ HandInv' /\ QueueInv' /\ Partition'
  BY DEF TypeOK, HandInv, QueueInv, Partition
<1>3. CloseInv'
  BY <1>1 DEF CloseInv
<1> QED
  BY <1>2, <1>3

LEMMA ReceiveStep ==
  ASSUME IInv, NEW w \in Worker, Receive(w)
  PROVE  IInv'
<1> USE DEF Receive, IInv, entryVars, Alive
<1> DEFINE h == Head(queue)
<1>1. /\ h \in Entry
      /\ queue' \in Seq(Entry) /\ Len(queue') = Len(queue) - 1
      /\ h \in Queued /\ Queued' = Queued \ {h}
      /\ \A i, j \in 1..Len(queue') : queue'[i] = queue'[j] => i = j
  <2>1. queue \in Seq(Entry) /\ queue # <<>> /\ queue' = Tail(queue)
    BY DEF TypeOK
  <2>2. \A i, j \in 1..Len(queue) : queue[i] = queue[j] => i = j
    BY DEF QueueInv
  <2>3. /\ h \in Entry
        /\ Tail(queue) \in Seq(Entry) /\ Len(Tail(queue)) = Len(queue) - 1
        /\ h \in {queue[i] : i \in 1..Len(queue)}
        /\ {Tail(queue)[i] : i \in 1..Len(Tail(queue))}
             = {queue[i] : i \in 1..Len(queue)} \ {h}
        /\ \A i, j \in 1..Len(Tail(queue)) :
              Tail(queue)[i] = Tail(queue)[j] => i = j
    <3> HIDE DEF Receive, IInv
    <3> QED
      BY <2>1, <2>2, TailElements
  <2>4. Queued = {queue[i] : i \in 1..Len(queue)}
    BY DEF Queued
  <2>5. Queued' = {Tail(queue)[i] : i \in 1..Len(Tail(queue))}
    <3> HIDE DEF Receive, IInv
    <3> QED
      BY <2>1 DEF Queued
  <2> HIDE DEF Receive, IInv, h
  <2> QED
    BY <2>1, <2>3, <2>4, <2>5
<1>2. h \notin InHand /\ process # "panicked"
  BY <1>1 DEF Partition, Apart
<1>3. /\ InHand' = InHand \cup {h}
      /\ \A v, u \in Worker : held'[v] = held'[u] /\ held'[v] # Nothing => v = u
  BY <1>1, <1>2, HandTakes
<1>4. Posted' = Posted
  BY DEF Posted
<1>5. TypeOK'
  BY <1>1 DEF TypeOK
<1>6. HandInv'
  BY <1>1, <1>3, ExporterAssumption DEF HandInv, TypeOK
<1>7. QueueInv'
  BY <1>1, ExporterAssumption DEF QueueInv, TypeOK
<1>8. Partition'
  BY <1>1, <1>2, <1>3, <1>4 DEF Partition, Apart, Everywhere
<1>9. CloseInv'
  <2>1. \A v \in Worker : wpc'[v] = "done" <=> wpc[v] = "done"
    BY DEF TypeOK
  <2>2. \A v \in Worker : wpc[v] # "done"
    BY DEF CloseInv
  <2> QED
    BY <1>1, <1>3, <1>4, <2>1, <2>2 DEF CloseInv
<1> QED
  BY <1>5, <1>6, <1>7, <1>8, <1>9

LEMMA PostStep ==
  ASSUME IInv, NEW w \in Worker, Post(w)
  PROVE  IInv'
<1> USE DEF Post, IInv, Alive
<1> DEFINE h == held[w]
<1>1. /\ h \in Entry /\ h \in InHand
      /\ InHand' = InHand \ {h}
      /\ \A v, u \in Worker : held'[v] = held'[u] /\ held'[v] # Nothing => v = u
  BY HandPuts
<1>2. process # "panicked" /\ h \notin Posted
  BY <1>1 DEF Partition, Apart
<1>3. Queued' = Queued
  BY DEF Queued
<1>4. HandInv' /\ QueueInv'
  BY <1>1, ExporterAssumption DEF HandInv, QueueInv, TypeOK
<1>5. \A v \in Worker : wpc'[v] = "done" <=> wpc[v] = "done"
  BY DEF TypeOK
<1>6. CASE posted' = [posted EXCEPT ![h] = @ + 1] /\ UNCHANGED failed
  <2>1. posted[h] = 0
    BY <1>1, <1>2 DEF Posted, TypeOK
  <2>2. \A e \in Entry : posted'[e] = IF e = h THEN 1 ELSE posted[e]
    BY <1>1, <1>6, <2>1 DEF TypeOK
  <2>3. Posted' = Posted \cup {h}
    BY <1>1, <2>2 DEF Posted
  <2>4. TypeOK'
    BY <1>1, <1>6 DEF TypeOK
  <2>5. Partition'
    BY <1>1, <1>2, <1>3, <1>6, <2>2, <2>3 DEF Partition, Apart, Everywhere
  <2>6. CloseInv'
    BY <1>1, <1>3, <1>5, <1>6, <2>3 DEF CloseInv
  <2> QED
    BY <1>4, <2>4, <2>5, <2>6
<1>7. CASE failed' = failed \cup {h} /\ UNCHANGED posted
  <2>1. Posted' = Posted
    BY <1>7 DEF Posted
  <2>2. TypeOK'
    BY <1>1, <1>7 DEF TypeOK
  <2>3. Partition'
    BY <1>1, <1>2, <1>3, <1>7, <2>1 DEF Partition, Apart, Everywhere
  <2>4. CloseInv'
    BY <1>1, <1>3, <1>5, <1>7, <2>1 DEF CloseInv
  <2> QED
    BY <1>4, <2>2, <2>3, <2>4
<1> QED
  BY <1>6, <1>7

LEMMA WorkerDoneStep ==
  ASSUME IInv, NEW w \in Worker, WorkerDone(w)
  PROVE  IInv'
<1> USE DEF WorkerDone, entryVars, Alive
<1>1. TypeOK' /\ HandInv'
  BY DEF IInv, TypeOK, HandInv
<1>2. QueueInv' /\ Partition'
  BY NothingMoves DEF IInv, Partition
<1>3. CloseInv'
  BY NothingMoves DEF IInv, CloseInv, TypeOK
<1> QED
  BY <1>1, <1>2, <1>3 DEF IInv

LEMMA BeginCloseStep == IInv /\ BeginClose => IInv'
<1> SUFFICES ASSUME IInv, BeginClose PROVE IInv'
  OBVIOUS
<1> USE DEF BeginClose
<1>1. Queued \subseteq Entry
  BY DEF IInv, TypeOK, Queued
<1>2. TypeOK' /\ HandInv'
  BY <1>1 DEF IInv, TypeOK, HandInv
<1>3. QueueInv' /\ Partition'
  BY NothingMoves DEF IInv, Partition
<1>4. CloseInv'
  BY NothingMoves DEF IInv, CloseInv
<1> QED
  BY <1>2, <1>3, <1>4 DEF IInv

LEMMA AwaitWorkerStep ==
  ASSUME IInv, NEW w \in Worker, AwaitWorker(w)
  PROVE  IInv'
<1> USE DEF AwaitWorker, entryVars
<1>1. TypeOK' /\ HandInv'
  BY DEF IInv, TypeOK, HandInv
<1>2. QueueInv' /\ Partition'
  BY NothingMoves DEF IInv, Partition
<1>3. CloseInv'
  BY NothingMoves DEF IInv, CloseInv
<1> QED
  BY <1>1, <1>2, <1>3 DEF IInv

(* Close counts its signals: as many as workers means every worker.        *)
LEMMA ExitStep == IInv /\ Exit => IInv'
<1> SUFFICES ASSUME IInv, Exit PROVE IInv'
  OBVIOUS
<1> USE DEF Exit, entryVars
<1>1. waited = Worker
  BY FS_Subset, ExporterAssumption DEF IInv, TypeOK
<1>2. TypeOK' /\ HandInv'
  BY DEF IInv, TypeOK, HandInv
<1>3. QueueInv' /\ Partition'
  BY NothingMoves DEF IInv, Partition
<1>4. CloseInv'
  BY <1>1, NothingMoves DEF IInv, CloseInv
<1> QED
  BY <1>2, <1>3, <1>4 DEF IInv

LEMMA NextIInv == IInv /\ [Next]_vars => IInv'
<1> SUFFICES ASSUME IInv, [Next]_vars PROVE IInv'
  OBVIOUS
<1>1. ASSUME NEW e \in Entry, Send(e) \/ SendOnClosed(e) PROVE IInv'
  BY <1>1, SendStep, SendOnClosedStep
<1>2. ASSUME NEW w \in Worker, WorkerStep(w) PROVE IInv'
  BY <1>2, ReceiveStep, PostStep, WorkerDoneStep DEF WorkerStep
<1>3. CASE BeginClose
  BY <1>3, BeginCloseStep
<1>4. CASE CloseStep
  BY <1>4, AwaitWorkerStep, ExitStep DEF CloseStep
<1>5. CASE UNCHANGED vars
  <2> USE <1>5 DEF vars, entryVars
  <2>1. TypeOK' /\ HandInv'
    BY DEF IInv, TypeOK, HandInv
  <2>2. QueueInv' /\ Partition' /\ CloseInv'
    BY NothingMoves DEF IInv, Partition, CloseInv
  <2> QED
    BY <2>1, <2>2 DEF IInv
<1> QED
  BY <1>1, <1>2, <1>3, <1>4, <1>5 DEF Next

THEOREM Invariance == Spec => []IInv
BY InitIInv, NextIInv, PTL DEF Spec
-----------------------------------------------------------------------------
LEMMA QueueCounted ==
  ASSUME TypeOK
  PROVE  /\ IsFiniteSet(Queued) /\ Cardinality(Queued) <= Len(queue)
         /\ QueueInv => Cardinality(Queued) = Len(queue)
<1>1. queue \in [1..Len(queue) -> Queued] /\ Len(queue) \in Nat
  BY LenProperties DEF TypeOK, Queued
<1>2. queue \in Surjection(1..Len(queue), Queued)
  BY <1>1 DEF Surjection, Queued
<1>3. IsFiniteSet(1..Len(queue)) /\ Cardinality(1..Len(queue)) = Len(queue)
  <2>1. Len(queue) \in Int /\ (1 > Len(queue) => Len(queue) = 0)
        /\ (~ (1 > Len(queue)) => Len(queue) - 1 + 1 = Len(queue))
    BY <1>1
  <2> QED
    BY <2>1, FS_Interval
<1>4. QueueInv => queue \in Injection(1..Len(queue), Queued)
  BY <1>1 DEF QueueInv, Injection, IsInjective
<1> QED
  BY <1>2, <1>3, <1>4, FS_Surjection

LEMMA HandsCounted ==
  ASSUME TypeOK
  PROVE  IsFiniteSet(InHand) /\ Cardinality(InHand) <= Cardinality(Worker)
<1> DEFINE hands == {held[w] : w \in Worker}
<1>1. held \in Surjection(Worker, hands)
  BY DEF Surjection, TypeOK
<1>2. IsFiniteSet(hands) /\ Cardinality(hands) <= Cardinality(Worker)
  BY <1>1, FS_Surjection, ExporterAssumption
<1>3. InHand \in SUBSET hands
  BY DEF InHand
<1>4. IsFiniteSet(InHand) /\ Cardinality(InHand) <= Cardinality(hands)
  BY <1>2, <1>3, FS_Subset
<1>5. /\ Cardinality(InHand) \in Nat /\ Cardinality(hands) \in Nat
      /\ Cardinality(Worker) \in Nat
  BY <1>2, <1>4, FS_CardinalityType, ExporterAssumption
<1> QED
  BY <1>2, <1>4, <1>5

LEMMA BoundFollows == IInv => PendingBounded
<1> SUFFICES ASSUME IInv PROVE PendingBounded
  OBVIOUS
<1>1. IsFiniteSet(Queued) /\ Cardinality(Queued) <= QueueCap
  BY QueueCounted, FS_CardinalityType, ExporterAssumption DEF IInv, QueueInv, TypeOK
<1>2. IsFiniteSet(InHand) /\ Cardinality(InHand) <= Cardinality(Worker)
  BY HandsCounted DEF IInv
<1>3. IsFiniteSet(Queued \cap InHand)
  BY <1>1, FS_Intersection
<1>4. /\ Cardinality(Queued) \in Nat /\ Cardinality(InHand) \in Nat
      /\ Cardinality(Queued \cap InHand) \in Nat /\ Cardinality(Worker) \in Nat
  BY <1>1, <1>2, <1>3, FS_CardinalityType, ExporterAssumption
<1>5. Cardinality(Queued \cup InHand)
        = Cardinality(Queued) + Cardinality(InHand) - Cardinality(Queued \cap InHand)
  BY <1>1, <1>2, FS_Union
<1> QED
  BY <1>1, <1>2, <1>4, <1>5, ExporterAssumption DEF PendingBounded

LEMMA DisjointSum ==
  ASSUME NEW S, NEW T, IsFiniteSet(S), IsFiniteSet(T), S \cap T = {}
  PROVE  /\ IsFiniteSet(S \cup T)
         /\ Cardinality(S \cup T) = Cardinality(S) + Cardinality(T)
         /\ Cardinality(S) \in Nat /\ Cardinality(T) \in Nat
BY FS_Union, FS_EmptySet, FS_CardinalityType

LEMMA ConservationFollows == IInv => EntriesConserved
<1> SUFFICES ASSUME IInv, process # "panicked" PROVE EntriesConserved
  BY DEF EntriesConserved
<1> DEFINE A == Queued \cup InHand
           B == failed \cup A
           C == Posted \cup B
           D == dropped \cup C
<1>1. Apart /\ Entry = Everywhere /\ \A e \in Entry : posted[e] <= 1
  BY DEF IInv, Partition
<1>2. IsFiniteSet(unsent) /\ IsFiniteSet(dropped) /\ IsFiniteSet(failed)
      /\ IsFiniteSet(Posted)
  BY FS_Subset, ExporterAssumption DEF IInv, TypeOK, Posted
<1>3. IsFiniteSet(Queued) /\ Cardinality(Queued) = Len(queue) /\ IsFiniteSet(InHand)
  BY QueueCounted, HandsCounted DEF IInv
<1>4. /\ Queued \cap InHand = {} /\ failed \cap A = {} /\ Posted \cap B = {}
      /\ dropped \cap C = {} /\ unsent \cap D = {}
  BY <1>1 DEF Apart
<1>5. Entry = unsent \cup D
  BY <1>1 DEF Everywhere
<1>6. /\ IsFiniteSet(A) /\ Cardinality(A) = Cardinality(Queued) + Cardinality(InHand)
      /\ Cardinality(Queued) \in Nat /\ Cardinality(InHand) \in Nat
  BY <1>3, <1>4, DisjointSum
<1>7. /\ IsFiniteSet(B) /\ Cardinality(B) = Cardinality(failed) + Cardinality(A)
      /\ Cardinality(failed) \in Nat
  <2> HIDE DEF A
  <2> QED
    BY <1>2, <1>4, <1>6, DisjointSum
<1>8. /\ IsFiniteSet(C) /\ Cardinality(C) = Cardinality(Posted) + Cardinality(B)
      /\ Cardinality(Posted) \in Nat
  <2> HIDE DEF B
  <2> QED
    BY <1>2, <1>4, <1>7, DisjointSum
<1>9. /\ IsFiniteSet(D) /\ Cardinality(D) = Cardinality(dropped) + Cardinality(C)
      /\ Cardinality(dropped) \in Nat
  <2> HIDE DEF C
  <2> QED
    BY <1>2, <1>4, <1>8, DisjointSum
<1>10. /\ Cardinality(Entry) = Cardinality(unsent) + Cardinality(D)
       /\ Cardinality(unsent) \in Nat
  <2> HIDE DEF D
  <2> QED
    BY <1>2, <1>4, <1>5, <1>9, DisjointSum
<1>11. Cardinality(Entry) =
         Cardinality(unsent) + Cardinality(dropped) + Cardinality(Posted)
         + Cardinality(failed) + Len(queue) + Cardinality(InHand)
  <2> HIDE DEF A, B, C, D
  <2>1. Cardinality(A) = Len(queue) + Cardinality(InHand) /\ Len(queue) \in Nat
    BY <1>3, <1>6
  <2>2. Cardinality(B) = Cardinality(failed) + Len(queue) + Cardinality(InHand)
    BY <1>6, <1>7, <2>1
  <2>3. Cardinality(C) = Cardinality(Posted) + Cardinality(failed) + Len(queue)
                         + Cardinality(InHand)
    BY <1>6, <1>7, <1>8, <2>1, <2>2
  <2> QED
    BY <1>6, <1>7, <1>8, <1>9, <1>10, <2>1, <2>3
<1> QED
  BY <1>1, <1>11 DEF EntriesConserved, Everywhere

LEMMA DrainFollows == IInv => CleanExitDrains
<1> SUFFICES ASSUME IInv, process = "exited"
             PROVE  Queued \cup InHand = {} /\ inTime \subseteq Posted \cup failed
  BY DEF CleanExitDrains
<1>1. \A w \in Worker : wpc[w] = "done"
  BY DEF IInv, CloseInv
<1>2. queue = <<>>
  BY <1>1, ExporterAssumption DEF IInv, CloseInv
<1>3. Queued = {} /\ InHand = {}
  BY <1>1, <1>2 DEF IInv, HandInv, Queued, InHand
<1> QED
  BY <1>3 DEF IInv, CloseInv

(***************************************************************************)
(* The results.                                                            *)
(***************************************************************************)
(* The state of the exporter (siem/async.go) stays within its types.       *)
THEOREM TypeCorrect == Spec => []TypeOK
BY Invariance, PTL DEF IInv

(* The channel and the workers' hands are the only memory the exporter     *)
(* takes, whatever the SIEM does (async.go Send).                          *)
THEOREM PendingBoundedHolds == Spec => []PendingBounded
BY Invariance, BoundFollows, PTL

(* Send, the workers and Close neither lose nor repeat an entry.           *)
THEOREM EntriesConservedHolds == Spec => []EntriesConserved
BY Invariance, ConservationFollows, PTL

(* When Close has returned, all it found in the channel is posted or       *)
(* failed (async.go Close).                                                *)
THEOREM CleanExitDrainsHolds == Spec => []CleanExitDrains
BY Invariance, DrainFollows, PTL
=============================================================================
