---------------------------- MODULE AsyncExporter ----------------------------
(***************************************************************************)
(* The SIEM exporter of icap-server (icap-server/siem/async.go), with the  *)
(* part of main.go and icap/handler.go that drives it.                     *)
(*                                                                         *)
(* ServeREQMOD calls Send from one goroutine per ICAP connection; Send     *)
(* puts the entry into a buffered channel or, if it is full, drops it.     *)
(* workerCount goroutines take entries out and post them. On SIGTERM main  *)
(* returns, which runs Close: it closes the channel and waits for every    *)
(* worker, while the server's goroutines go on serving. A send on a closed *)
(* channel panics, and a panic in a goroutine ends the process.            *)
(***************************************************************************)
EXTENDS Naturals, Sequences, FiniteSets

CONSTANTS Entry,      \* log entries to be sent (bounds the number of sends)
          Worker,     \* the goroutines newAsync starts
          QueueCap,   \* capacity of the channel
          Nothing     \* a worker holds no entry

ASSUME ExporterAssumption == /\ QueueCap \in Nat \ {0}
                             /\ IsFiniteSet(Worker) /\ Worker # {}
                             /\ IsFiniteSet(Entry)
                             /\ Nothing \notin Entry

VARIABLES
  queue,      \* the channel's buffer
  closed,     \* close(e.queue) was called
  process,    \* "serving", then "closing" in Close, then how it ended
  wpc,        \* where each worker is
  held,       \* the entry a worker took out of the channel
  waited,     \* workers whose done signal Close has received
  unsent,     \* entries ServeREQMOD has not sent yet
  dropped,    \* history: entries Send dropped
  posted,     \* history: how often an entry was posted successfully
  failed,     \* history: entries whose post failed
  inTime      \* history: entries in the channel when Close began

vars == <<queue, closed, process, wpc, held, waited, unsent, dropped, posted,
          failed, inTime>>

entryVars  == <<dropped, posted, failed, inTime>>
-----------------------------------------------------------------------------
Alive == process \in {"serving", "closing"}

Queued == {queue[i] : i \in 1..Len(queue)}

InHand == {held[w] : w \in Worker} \ {Nothing}

Init ==
  /\ queue = <<>>
  /\ closed = FALSE
  /\ process = "serving"
  /\ wpc = [w \in Worker |-> "receive"]
  /\ held = [w \in Worker |-> Nothing]
  /\ waited = {}
  /\ unsent = Entry
  /\ dropped = {}
  /\ posted = [e \in Entry |-> 0]
  /\ failed = {}
  /\ inTime = {}

(* Variant: an entry is queued whether or not there is room.               *)
SendUnbounded(e) ==
  /\ Alive /\ ~ closed
  /\ e \in unsent
  /\ unsent' = unsent \ {e}
  /\ queue' = Append(queue, e)
  /\ UNCHANGED <<closed, process, wpc, held, waited, entryVars>>

(* Send: the select takes the channel if there is room, else the default.  *)
Send(e) ==
  /\ Alive /\ ~ closed
  /\ e \in unsent
  /\ unsent' = unsent \ {e}
  /\ \/ /\ Len(queue) < QueueCap
        /\ queue' = Append(queue, e)
        /\ UNCHANGED dropped
     \/ /\ Len(queue) = QueueCap
        /\ dropped' = dropped \cup {e}
        /\ UNCHANGED queue
  /\ UNCHANGED <<closed, process, wpc, held, waited, posted, failed, inTime>>

(* Send after close(e.queue): the process is gone, with its queue.         *)
SendOnClosed(e) ==
  /\ Alive /\ closed
  /\ e \in unsent
  /\ unsent' = unsent \ {e}
  /\ process' = "panicked"
  /\ UNCHANGED <<queue, closed, wpc, held, waited, entryVars>>

(* Variant: the worker reads the head without taking it out.               *)
ReceiveKeeps(w) ==
  /\ Alive
  /\ wpc[w] = "receive"
  /\ queue # <<>>
  /\ held' = [held EXCEPT ![w] = Head(queue)]
  /\ wpc' = [wpc EXCEPT ![w] = "post"]
  /\ UNCHANGED <<queue, closed, process, waited, unsent, entryVars>>

(* for entry := range e.queue                                              *)
Receive(w) ==
  /\ Alive
  /\ wpc[w] = "receive"
  /\ queue # <<>>
  /\ held' = [held EXCEPT ![w] = Head(queue)]
  /\ queue' = Tail(queue)
  /\ wpc' = [wpc EXCEPT ![w] = "post"]
  /\ UNCHANGED <<closed, process, waited, unsent, entryVars>>

(* e.sender(entry), bounded by the HTTP client's 10 s timeout.             *)
Post(w) ==
  /\ Alive
  /\ wpc[w] = "post"
  /\ \/ /\ posted' = [posted EXCEPT ![held[w]] = @ + 1]
        /\ UNCHANGED failed
     \/ /\ failed' = failed \cup {held[w]}
        /\ UNCHANGED posted
  /\ held' = [held EXCEPT ![w] = Nothing]
  /\ wpc' = [wpc EXCEPT ![w] = "receive"]
  /\ UNCHANGED <<queue, closed, process, waited, unsent, dropped, inTime>>

(* Variant: the worker leaves when the channel is closed, empty or not.    *)
WorkerDoneEarly(w) ==
  /\ Alive
  /\ wpc[w] = "receive"
  /\ closed
  /\ wpc' = [wpc EXCEPT ![w] = "done"]
  /\ UNCHANGED <<queue, closed, process, held, waited, unsent, entryVars>>

(* The range loop ends when the channel is closed and empty; the deferred  *)
(* send on the unbuffered done channel waits for Close to receive it.      *)
WorkerDone(w) ==
  /\ Alive
  /\ wpc[w] = "receive"
  /\ queue = <<>> /\ closed
  /\ wpc' = [wpc EXCEPT ![w] = "done"]
  /\ UNCHANGED <<queue, closed, process, held, waited, unsent, entryVars>>

(* Variant: Close waits for the workers without closing the channel.       *)
BeginCloseOpen ==
  /\ process = "serving"
  /\ process' = "closing"
  /\ inTime' = Queued
  /\ UNCHANGED <<queue, closed, wpc, held, waited, unsent, dropped, posted,
                 failed>>

(* SIGTERM: main returns and its deferred Close closes the channel.        *)
BeginClose ==
  /\ process = "serving"
  /\ process' = "closing"
  /\ closed' = TRUE
  /\ inTime' = Queued
  /\ UNCHANGED <<queue, wpc, held, waited, unsent, dropped, posted, failed>>

(* <-e.done, once per worker                                               *)
AwaitWorker(w) ==
  /\ process = "closing"
  /\ wpc[w] = "done" /\ w \notin waited
  /\ waited' = waited \cup {w}
  /\ UNCHANGED <<queue, closed, process, wpc, held, unsent, entryVars>>

(* Close has its signals; main returns and the process exits.              *)
Exit ==
  /\ process = "closing"
  /\ Cardinality(waited) = Cardinality(Worker)
  /\ process' = "exited"
  /\ UNCHANGED <<queue, closed, wpc, held, waited, unsent, entryVars>>

WorkerStep(w) == Receive(w) \/ Post(w) \/ WorkerDone(w)

CloseStep == (\E w \in Worker : AwaitWorker(w)) \/ Exit

Next == \/ \E e \in Entry : Send(e) \/ SendOnClosed(e)
        \/ \E w \in Worker : WorkerStep(w)
        \/ BeginClose \/ CloseStep

(* Goroutines run, posts end by their timeout; nobody has to send, and     *)
(* nobody has to stop the server.                                          *)
Spec == /\ Init /\ [][Next]_vars
        /\ \A w \in Worker : WF_vars(WorkerStep(w))
        /\ WF_vars(CloseStep)
-----------------------------------------------------------------------------
(* Types of the exporter's state.                                          *)
TypeOK ==
  /\ queue \in Seq(Entry)
  /\ closed \in BOOLEAN
  /\ process \in {"serving", "closing", "exited", "panicked"}
  /\ wpc \in [Worker -> {"receive", "post", "done"}]
  /\ held \in [Worker -> Entry \cup {Nothing}]
  /\ waited \subseteq Worker
  /\ unsent \subseteq Entry
  /\ dropped \subseteq Entry
  /\ posted \in [Entry -> Nat]
  /\ failed \subseteq Entry
  /\ inTime \subseteq Entry

Posted == {e \in Entry : posted[e] > 0}

(* siem/exporter_test.go:109-114: beyond the channel's capacity only one   *)
(* entry per worker can be pending, so a SIEM that does not answer costs   *)
(* bounded memory.                                                         *)
PendingBounded ==
  Cardinality(Queued \cup InHand) <= QueueCap + Cardinality(Worker)

(* Unless the process panicked, every entry is in exactly one place: not   *)
(* sent yet, in the channel, in one worker's hand, posted once, failed or  *)
(* dropped. The workers neither lose nor repeat one.                       *)
EntriesConserved ==
  process # "panicked" =>
    /\ \A e \in Entry : posted[e] <= 1
    /\ Entry = unsent \cup dropped \cup Posted \cup failed \cup Queued \cup InHand
    /\ Cardinality(Entry) =
         Cardinality(unsent) + Cardinality(dropped) + Cardinality(Posted)
         + Cardinality(failed) + Len(queue) + Cardinality(InHand)

(* Close: when it returns, nothing is left in the channel or in a worker's *)
(* hand; what it had accepted was posted or failed.                        *)
CleanExitDrains ==
  process = "exited" => Queued \cup InHand = {} /\ inTime \subseteq Posted \cup failed

(* A shutdown ends: Close does not wait for a worker that waits for it.    *)
CloseReturns == process = "closing" ~> ~ Alive
-----------------------------------------------------------------------------
(* siem/exporter.go:21: "Close drains the queue and releases               *)
(* resources": however the process ends after Close began, what was in the *)
(* channel then was posted or failed.                                      *)
CloseDrains ==
  closed /\ ~ Alive => inTime \subseteq Posted \cup failed
=============================================================================
