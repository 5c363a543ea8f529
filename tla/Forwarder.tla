------------------------------ MODULE Forwarder -----------------------------
(* The connect agent's local proxy (connect/proxy/forwarder.go, started by    *)
(* connect/cmd/forward.go): the accept loop and its shutdown, one handler per *)
(* connection, and the two copiers of a splice.                               *)
(*                                                                            *)
(* A connection has two sides, the client and the upstream. Data is counted   *)
(* in chunks, what one read returns; the chunks of a side are numbered in     *)
(* the order they were sent, so counters say which of them went where. The    *)
(* peers are external: they send, end their stream (fin), go away altogether  *)
(* (gone), and read what they are sent or stop reading. A peer's socket takes *)
(* Room chunks before a write to it blocks.                                   *)
EXTENDS Naturals

CONSTANTS
    Conn,      \* connections
    FailClose, \* config.FailClose
    Room,      \* chunks a socket takes before a write blocks
    MaxSent    \* bound of the chunks a side sends

ASSUME FailCloseAssumption == FailClose \in BOOLEAN
ASSUME ProxyBoundsAssumption == Room \in Nat \ {0} /\ MaxSent \in Nat

Side == {"client", "up"}
Other(s) == IF s = "client" THEN "up" ELSE "client"

VARIABLES
    connPc,    \* where the handler of a connection is
    serve,     \* where ListenAndServe is
    cancelled, \* the context is cancelled
    listening, \* the listener is open
    upOpen,    \* the upstream socket of a connection is open
    sent,      \* chunks a peer has sent
    taken,     \* chunks read from the peer, by the handler or a copier
    lost,      \* ... of which the handler's bufio.Reader kept these for itself
    put,       \* chunks written to the other side
    pending,   \* chunks in the socket towards a peer that it has not read
    fin, gone, \* the peer has ended its stream; has gone away
    copier,    \* the copier that reads from a side
    deadline   \* the read deadline of a side's socket has passed

server    == <<serve, cancelled, listening>>
data      == <<sent, taken, lost, put, pending>>
peers     == <<fin, gone>>
copies    == <<copier, deadline>>
proxyVars == <<connPc, server, upOpen, data, peers, copies>>

States == {"idle", "queued", "request", "dial", "inner", "direct", "ack",
           "splice", "closed"}

ProxyTypeOK ==
    /\ connPc \in [Conn -> States]
    /\ serve \in {"accepting", "waiting", "returned"}
    /\ cancelled \in BOOLEAN /\ listening \in BOOLEAN
    /\ upOpen \in [Conn -> BOOLEAN]
    /\ sent \in [Conn -> [Side -> Nat]] /\ taken \in [Conn -> [Side -> Nat]]
    /\ lost \in [Conn -> [Side -> Nat]] /\ put \in [Conn -> [Side -> Nat]]
    /\ pending \in [Conn -> [Side -> 0..Room]]
    /\ fin \in [Conn -> [Side -> BOOLEAN]]
    /\ gone \in [Conn -> [Side -> BOOLEAN]]
    /\ copier \in [Conn -> [Side -> {"off", "read", "write", "ended"}]]
    /\ deadline \in [Conn -> [Side -> BOOLEAN]]

PerSide(v) == [c \in Conn |-> [s \in Side |-> v]]

ProxyInit ==
    /\ connPc = [c \in Conn |-> "idle"]
    /\ serve = "accepting" /\ cancelled = FALSE /\ listening = TRUE
    /\ upOpen = [c \in Conn |-> FALSE]
    /\ sent = PerSide(0) /\ taken = PerSide(0) /\ lost = PerSide(0)
    /\ put = PerSide(0) /\ pending = PerSide(0)
    /\ fin = PerSide(FALSE) /\ gone = PerSide(FALSE)
    /\ copier = PerSide("off") /\ deadline = PerSide(FALSE)

Handled(c) == connPc[c] \notin {"idle", "queued", "closed"}

-----------------------------------------------------------------------------
(* The peers.                                                                 *)

\* A client connects; the kernel queues the connection.
Connect(c) ==
    /\ connPc[c] = "idle" /\ listening
    /\ connPc' = [connPc EXCEPT ![c] = "queued"]
    /\ UNCHANGED <<server, upOpen, data, peers, copies>>

\* There is a peer on that side. An upstream sends nothing before its answer
\* to the inner CONNECT; a client may send ahead of the answer to its own.
Present(c, s) ==
    /\ ~gone[c][s]
    /\ IF s = "client" THEN connPc[c] = "queued" \/ Handled(c) ELSE upOpen[c]

PeerSends(c, s) ==
    /\ Present(c, s) /\ ~fin[c][s]
    /\ s = "up" => connPc[c] \in {"ack", "splice"}
    /\ sent[c][s] < MaxSent
    /\ sent' = [sent EXCEPT ![c][s] = @ + 1]
    /\ UNCHANGED <<connPc, server, upOpen, taken, lost, put, pending, peers, copies>>

PeerReads(c, s) ==
    /\ Present(c, s)
    /\ pending[c][s] > 0
    /\ pending' = [pending EXCEPT ![c][s] = @ - 1]
    /\ UNCHANGED <<connPc, server, upOpen, sent, taken, lost, put, peers, copies>>

PeerFins(c, s) ==
    /\ Present(c, s) /\ ~fin[c][s]
    /\ fin' = [fin EXCEPT ![c][s] = TRUE]
    /\ UNCHANGED <<connPc, server, upOpen, data, gone, copies>>

PeerGoes(c, s) ==
    /\ Present(c, s)
    /\ gone' = [gone EXCEPT ![c][s] = TRUE]
    /\ UNCHANGED <<connPc, server, upOpen, data, fin, copies>>

-----------------------------------------------------------------------------
(* ListenAndServe and Forward.                                                *)

\* SIGINT or SIGTERM: the goroutine of Forward cancels the context.
Cancel ==
    /\ ~cancelled
    /\ cancelled' = TRUE
    /\ UNCHANGED <<connPc, serve, listening, upOpen, data, peers, copies>>

\* The goroutine that waits for the context closes the listener; connections
\* nobody accepted are reset.
CloseListener ==
    /\ cancelled /\ listening
    /\ listening' = FALSE
    /\ connPc' = [c \in Conn |-> IF connPc[c] = "queued" THEN "closed" ELSE connPc[c]]
    /\ UNCHANGED <<serve, cancelled, upOpen, data, peers, copies>>

Accept(c) ==
    /\ serve = "accepting" /\ listening
    /\ connPc[c] = "queued"
    /\ connPc' = [connPc EXCEPT ![c] = "request"]
    /\ UNCHANGED <<server, upOpen, data, peers, copies>>

\* Accept fails on the closed listener: wg.Wait.
AcceptFails ==
    /\ serve = "accepting" /\ ~listening
    /\ serve' = "waiting"
    /\ UNCHANGED <<connPc, cancelled, listening, upOpen, data, peers, copies>>

\* Variant: the handlers are not waited for.
ReturnAtOnce ==
    /\ serve = "waiting"
    /\ serve' = "returned"
    /\ UNCHANGED <<connPc, cancelled, listening, upOpen, data, peers, copies>>

Return ==
    /\ serve = "waiting"
    /\ \A c \in Conn : ~Handled(c)
    /\ serve' = "returned"
    /\ UNCHANGED <<connPc, cancelled, listening, upOpen, data, peers, copies>>

-----------------------------------------------------------------------------
(* handle and dialUpstream.                                                   *)

\* The deferred closes.
Close(c) ==
    /\ connPc' = [connPc EXCEPT ![c] = "closed"]
    /\ upOpen' = [upOpen EXCEPT ![c] = FALSE]

\* What comes in one read with the head of a message stays in the
\* bufio.Reader, which is dropped: k chunks are lost.
DropBuffered(c, s, k) ==
    /\ taken' = [taken EXCEPT ![c][s] = @ + k]
    /\ lost' = [lost EXCEPT ![c][s] = @ + k]

\* A CONNECT was read ...
ReadConnect(c) ==
    /\ connPc[c] = "request"
    /\ \E k \in 0..sent[c]["client"] : DropBuffered(c, "client", k)
    /\ connPc' = [connPc EXCEPT ![c] = "dial"]
    /\ UNCHANGED <<server, upOpen, sent, put, pending, peers, copies>>

\* ... or another method (405), no request, or none within 30 seconds.
RequestFails(c) ==
    /\ connPc[c] = "request"
    /\ Close(c)
    /\ UNCHANGED <<server, data, peers, copies>>

\* TCP and TLS to the interceptor are up, the inner CONNECT is written.
DialSucceeds(c) ==
    /\ connPc[c] = "dial"
    /\ connPc' = [connPc EXCEPT ![c] = "inner"]
    /\ upOpen' = [upOpen EXCEPT ![c] = TRUE]
    /\ UNCHANGED <<server, data, peers, copies>>

\* dialUpstream has failed: 503, or the direct connection.
Fallback(c) ==
    /\ upOpen' = [upOpen EXCEPT ![c] = FALSE]
    /\ gone' = [gone EXCEPT ![c]["up"] = FALSE]
    /\ fin' = [fin EXCEPT ![c]["up"] = FALSE]
    /\ connPc' = [connPc EXCEPT ![c] = IF FailClose THEN "closed" ELSE "direct"]

\* The dial fails, as it does when the context is cancelled.
DialFails(c) ==
    /\ connPc[c] = "dial"
    /\ Fallback(c)
    /\ UNCHANGED <<server, data, copies>>

\* 200 to the inner CONNECT; an upstream whose origin speaks first may have
\* sent a chunk right behind it. The wait has neither deadline nor context.
InnerAnswered(c) ==
    /\ connPc[c] = "inner" /\ ~gone[c]["up"]
    /\ \E k \in {0, 1} :
          /\ k <= MaxSent
          /\ sent' = [sent EXCEPT ![c]["up"] = k]
          /\ DropBuffered(c, "up", k)
    /\ connPc' = [connPc EXCEPT ![c] = "ack"]
    /\ UNCHANGED <<server, upOpen, put, pending, peers, copies>>

\* Another status, or the upstream is gone.
InnerFails(c) ==
    /\ connPc[c] = "inner"
    /\ Fallback(c)
    /\ UNCHANGED <<server, data, copies>>

DirectDial(c) ==
    /\ connPc[c] = "direct"
    /\ \/ /\ connPc' = [connPc EXCEPT ![c] = "ack"]
          /\ upOpen' = [upOpen EXCEPT ![c] = TRUE]
       \/ Close(c)
    /\ UNCHANGED <<server, data, peers, copies>>

\* Variant: the deadline of the request read is not taken back.
AcknowledgeKeepsDeadline(c) ==
    /\ connPc[c] = "ack"
    /\ \/ /\ connPc' = [connPc EXCEPT ![c] = "splice"]
          /\ copier' = [copier EXCEPT ![c] = [s \in Side |-> "read"]]
          /\ deadline' = [deadline EXCEPT ![c]["client"] = TRUE]
          /\ UNCHANGED upOpen
       \/ gone[c]["client"] /\ Close(c) /\ UNCHANGED <<copier, deadline>>
    /\ UNCHANGED <<server, data, peers>>

\* 200 to the client, and the splice begins; the write may fail.
Acknowledge(c) ==
    /\ connPc[c] = "ack"
    /\ \/ /\ connPc' = [connPc EXCEPT ![c] = "splice"]
          /\ copier' = [copier EXCEPT ![c] = [s \in Side |-> "read"]]
          /\ UNCHANGED upOpen
       \/ gone[c]["client"] /\ Close(c) /\ UNCHANGED copier
    /\ UNCHANGED <<server, data, peers, deadline>>

-----------------------------------------------------------------------------
(* splice: one copier per side it reads from. A copier that ends sets the     *)
(* read deadline of the socket it wrote to, where the other copier reads.     *)

\* Variant: the other copier is left in its read.
EndCopierAlone(c, s) ==
    /\ copier' = [copier EXCEPT ![c][s] = "ended"]
    /\ UNCHANGED deadline

EndCopier(c, s) ==
    /\ copier' = [copier EXCEPT ![c][s] = "ended"]
    /\ deadline' = [deadline EXCEPT ![c][Other(s)] = TRUE]

CopierReads(c, s) ==
    /\ copier[c][s] = "read" /\ ~deadline[c][s]
    /\ taken[c][s] < sent[c][s]
    /\ taken' = [taken EXCEPT ![c][s] = @ + 1]
    /\ copier' = [copier EXCEPT ![c][s] = "write"]
    /\ UNCHANGED <<connPc, server, upOpen, sent, lost, put, pending, peers, deadline>>

\* End of stream, a reset, or the deadline.
CopierReadEnds(c, s) ==
    /\ copier[c][s] = "read"
    /\ \/ deadline[c][s]
       \/ fin[c][s] /\ taken[c][s] = sent[c][s]
       \/ gone[c][s]
    /\ EndCopier(c, s)
    /\ UNCHANGED <<connPc, server, upOpen, data, peers>>

CopierWrites(c, s) ==
    /\ copier[c][s] = "write"
    /\ pending[c][Other(s)] < Room
    /\ pending' = [pending EXCEPT ![c][Other(s)] = @ + 1]
    /\ put' = [put EXCEPT ![c][s] = @ + 1]
    /\ copier' = [copier EXCEPT ![c][s] = "read"]
    /\ UNCHANGED <<connPc, server, upOpen, sent, taken, lost, peers, deadline>>

CopierWriteFails(c, s) ==
    /\ copier[c][s] = "write"
    /\ gone[c][Other(s)]
    /\ EndCopier(c, s)
    /\ UNCHANGED <<connPc, server, upOpen, data, peers>>

\* wg.Wait of splice, and handle returns.
SpliceEnds(c) ==
    /\ connPc[c] = "splice"
    /\ \A s \in Side : copier[c][s] = "ended"
    /\ Close(c)
    /\ UNCHANGED <<server, data, peers, copies>>

-----------------------------------------------------------------------------
Peer(c, s) ==
    PeerSends(c, s) \/ PeerReads(c, s) \/ PeerFins(c, s) \/ PeerGoes(c, s)

Handler(c) ==
    \/ ReadConnect(c) \/ RequestFails(c) \/ DialSucceeds(c) \/ DialFails(c)
    \/ InnerAnswered(c) \/ InnerFails(c) \/ DirectDial(c)
    \/ Acknowledge(c) \/ SpliceEnds(c)

Copier(c, s) ==
    \/ CopierReads(c, s) \/ CopierReadEnds(c, s)
    \/ CopierWrites(c, s) \/ CopierWriteFails(c, s)

ProxyNext ==
    \/ Cancel \/ CloseListener \/ AcceptFails \/ Return
    \/ \E c \in Conn : Connect(c) \/ Accept(c) \/ Handler(c)
    \/ \E c \in Conn, s \in Side : Peer(c, s) \/ Copier(c, s)

\* What the scheduler and the deadlines in the code give. The dial ends by
\* itself only when the context is cancelled: the TLS handshake has no timeout
\* of its own. The answer to the inner CONNECT need never come.
ProxyFairness ==
    /\ WF_proxyVars(CloseListener) /\ WF_proxyVars(AcceptFails) /\ WF_proxyVars(Return)
    /\ \A c \in Conn :
        /\ WF_proxyVars(Accept(c))
        /\ WF_proxyVars(ReadConnect(c) \/ RequestFails(c))
        /\ WF_proxyVars(cancelled /\ (DialSucceeds(c) \/ DialFails(c)))
        /\ WF_proxyVars(gone[c]["up"] /\ InnerFails(c))
        /\ WF_proxyVars(DirectDial(c))
        /\ WF_proxyVars(Acknowledge(c))
        /\ WF_proxyVars(SpliceEnds(c))
        /\ \A s \in Side : WF_proxyVars(Copier(c, s))

ProxySpec == ProxyInit /\ [][ProxyNext]_proxyVars /\ ProxyFairness

-----------------------------------------------------------------------------
\* When ListenAndServe has returned - and the process may exit - no handler
\* runs, no copier holds a chunk and no upstream socket is open; this includes
\* connections that were accepted after the signal.
ReturnedIsQuiet ==
    serve = "returned" =>
        \A c \in Conn :
            /\ ~Handled(c) /\ ~upOpen[c]
            /\ \A s \in Side : copier[c][s] \in {"off", "ended"}

\* A splice ends because of its peers only: with both still there, one of them
\* has ended its stream, and everything it had sent since the splice began was
\* written to the other before the connection is closed.
EndedStreamIsDelivered ==
    \A c \in Conn :
        (/\ connPc[c] = "closed"
         /\ \A s \in Side : copier[c][s] = "ended" /\ ~gone[c][s])
        => \E s \in Side : fin[c][s] /\ lost[c][s] + put[c][s] = sent[c][s]

\* The peers of a connection let go of it: not for ever in a wait for the
\* answer to the inner CONNECT, and of a spliced connection one peer goes
\* while the other goes too or keeps reading.
LetGo(c) ==
    /\ [](connPc[c] = "inner" => <>(connPc[c] # "inner" \/ gone[c]["up"]))
    /\ [](connPc[c] = "splice" => <>(\E s \in Side : gone[c][s]))
    /\ \A s \in Side : []<>(pending[c][s] < Room \/ gone[c][s] \/ connPc[c] = "closed")

\* A shutdown comes to its end when the peers let go of their connections.
ShutdownReturns ==
    (\A c \in Conn : LetGo(c)) => (cancelled ~> serve = "returned")
=============================================================================
