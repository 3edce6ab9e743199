----------------------------- MODULE WebSocket -----------------------------
(***************************************************************************)
(* A WebSocket connection (wsocket): the framing state machine of          *)
(* connection.rs (CommonState), the opening handshake that client.rs and   *)
(* server.rs put in front of it, and the blocking stream of stream.rs that *)
(* drives one endpoint over a transport.  Two endpoints, each driven by    *)
(* one thread, talk over one FIFO byte stream in each direction.           *)
(*                                                                         *)
(* A frame is the unit of the model: the bytes of an incomplete frame wait *)
(* in rx_buf without effect until the rest arrives.  A payload is a serial *)
(* number of its sender, a message is the sequence of the payloads of its  *)
(* frames, and its size is their number.                                   *)
(***************************************************************************)
EXTENDS Naturals, Sequences

CONSTANTS
    AutoPong,        \* the endpoints whose config.auto_pong is set
    AutoCloseReply,  \* the endpoints whose config.auto_close_reply is set
    MaxMessageSize,  \* config.max_message_size, in payloads
    MaxPayloads,     \* bound: data frames the two applications send
    MaxPings,        \* bound: Ping and Pong frames the two applications send
    MayDrop          \* the endpoints whose application may drop its stream early

Peers == {"client", "server"}

ASSUME WebSocketConstants ==
    /\ AutoPong \subseteq Peers /\ AutoCloseReply \subseteq Peers /\ MayDrop \subseteq Peers
    /\ MaxMessageSize \in Nat \ {0} /\ MaxPayloads \in Nat /\ MaxPings \in Nat

VARIABLES
    conn,       \* the CommonState of each endpoint
    wire,       \* transport: the frames on their way to an endpoint
    up,         \* the endpoint's stream has not been dropped
    ended,      \* a read of the endpoint's stream has returned an error
    app,        \* application: payloads and pings sent, the message it is sending in fragments
    sent,       \* history: the data messages whose last frame was queued
    delivered,  \* history: the data messages put into the message queue
    initiated   \* history: the endpoint's Close was sent before it received one

vars == <<conn, wire, up, ended, app, sent, delivered, initiated>>

Other(p) == IF p = "client" THEN "server" ELSE "client"

Opcodes == {"request", "response", "reject", "data", "cont", "ping", "pong", "close"}
Frame(op) == [op |-> op, fin |-> TRUE, payload |-> 0]
DataFrame(op, fin, n) == [op |-> op, fin |-> fin, payload |-> n]

\* connect_with_config queues the upgrade request.
Init ==
    /\ conn = [p \in Peers |->
                [state |-> "Connecting", rx |-> <<>>, messages |-> <<>>, fragment |-> <<>>,
                 tx |-> IF p = "client" THEN <<Frame("request")>> ELSE <<>>,
                 localClose |-> FALSE, peerClose |-> FALSE, error |-> FALSE]]
    /\ wire = [p \in Peers |-> <<>>]
    /\ up = [p \in Peers |-> TRUE]
    /\ ended = [p \in Peers |-> FALSE]
    /\ app = [p \in Peers |-> [payloads |-> 0, pings |-> 0, partial |-> <<>>]]
    /\ sent = [p \in Peers |-> <<>>]
    /\ delivered = [p \in Peers |-> <<>>]
    /\ initiated = [p \in Peers |-> FALSE]
-----------------------------------------------------------------------------
(* The handlers of CommonState: an endpoint to its next value.              *)

Queue(c, f) == [c EXCEPT !.tx = Append(@, f)]
Push(c, kind, body) == [c EXCEPT !.messages = Append(@, [kind |-> kind, body |-> body])]

\* Mutant: a continuation is not refused after Close.
RefusesStartOnly(c, f) == c.state = "Closed" \/ (c.localClose /\ f.op = "data")

\* send_frame: nothing on a closed connection, no data once Close was sent.
Refuses(c, f) == c.state = "Closed" \/ (c.localClose /\ f.op \in {"data", "cont"})

\* close(): the closing handshake starts, or is answered, or there was no connection yet.
Closed(c) ==
    CASE c.localClose \/ c.state = "Closed" -> c
      [] ~ c.localClose /\ c.state = "Connecting" -> [c EXCEPT !.state = "Closed"]
      [] OTHER -> [Queue(c, Frame("close"))
                     EXCEPT !.localClose = TRUE,
                            !.state = IF c.peerClose THEN "Closed" ELSE "Closing"]

\* Mutant: the connection is failed without a Close frame.
FailedSilently(c) == [c EXCEPT !.state = "Closed", !.error = TRUE]

\* fail(): every error a frame can raise has a close code.
Failed(c) == [Closed(c) EXCEPT !.state = "Closed", !.error = TRUE]

Deliver(c, message) ==
    IF Len(message) > MaxMessageSize THEN Failed(c) ELSE Push(c, "data", message)

\* A new message inside a fragmented one is an error; after a Close in either
\* direction it is dropped.
DataStart(c, f) ==
    CASE c.fragment # <<>> -> Failed(c)
      [] c.fragment = <<>> /\ (c.peerClose \/ c.localClose) -> c
      [] OTHER -> IF f.fin THEN Deliver(c, <<f.payload>>)
                           ELSE [c EXCEPT !.fragment = <<f.payload>>]

\* Mutant: the last fragment is delivered without the ones before it.
ContinuationAlone(c, f) ==
    CASE c.fragment = <<>> -> Failed(c)
      [] c.fragment # <<>> /\ Len(c.fragment) >= MaxMessageSize -> Failed(c)
      [] OTHER -> IF f.fin THEN Deliver([c EXCEPT !.fragment = <<>>], <<f.payload>>)
                           ELSE [c EXCEPT !.fragment = Append(@, f.payload)]

\* append_fragment checks the limit before it appends.
Continuation(c, f) ==
    CASE c.fragment = <<>> -> Failed(c)
      [] c.fragment # <<>> /\ Len(c.fragment) >= MaxMessageSize -> Failed(c)
      [] OTHER -> IF f.fin
                  THEN Deliver([c EXCEPT !.fragment = <<>>], Append(c.fragment, f.payload))
                  ELSE [c EXCEPT !.fragment = Append(@, f.payload)]

Ping(c, p) ==
    Push(IF p \in AutoPong /\ ~ c.localClose THEN Queue(c, Frame("pong")) ELSE c, "ping", <<>>)

\* Mutant: the answer to the endpoint's own Close is not surfaced.
PeerCloseUnlessOurs(c, p) ==
    LET seen == [IF c.peerClose \/ c.localClose THEN c ELSE Push(c, "close", <<>>)
                   EXCEPT !.peerClose = TRUE]
        replied == IF ~ c.localClose /\ p \in AutoCloseReply
                   THEN [Queue(seen, Frame("close")) EXCEPT !.localClose = TRUE]
                   ELSE seen
    IN  [replied EXCEPT !.state = IF replied.localClose THEN "Closed" ELSE "Closing"]

\* handle_close: the first Close is surfaced, and answered unless it is an answer.
PeerClose(c, p) ==
    LET seen == [IF c.peerClose THEN c ELSE Push(c, "close", <<>>) EXCEPT !.peerClose = TRUE]
        replied == IF ~ c.localClose /\ p \in AutoCloseReply
                   THEN [Queue(seen, Frame("close")) EXCEPT !.localClose = TRUE]
                   ELSE seen
    IN  [replied EXCEPT !.state = IF replied.localClose THEN "Closed" ELSE "Closing"]

\* handle_frame, and the fail() of process_frames on its error.
Handled(c, p, f) ==
    CASE f.op = "data"  -> DataStart(c, f)
      [] f.op = "cont"  -> Continuation(c, f)
      [] f.op = "ping"  -> Ping(c, p)
      [] f.op = "pong"  -> Push(c, "pong", <<>>)
      [] f.op = "close" -> PeerClose(c, p)
-----------------------------------------------------------------------------
(* The driver: one thread per endpoint, between calls or inside process().  *)

InProcess(p) == conn[p].rx # <<>> /\ conn[p].state # "Closed"
Idle(p) == up[p] /\ ~ InProcess(p)

\* take_write and write_all: what is written to a dropped stream is lost.
Written(p, frames) ==
    wire' = IF up[Other(p)] THEN [wire EXCEPT ![Other(p)] = @ \o frames] ELSE wire

\* conn[p] becomes c, and flush_ws empties its tx_buf.
Flushed(p, c) ==
    /\ conn' = [conn EXCEPT ![p] = [c EXCEPT !.tx = <<>>]]
    /\ Written(p, c.tx)

\* The calls that leave tx_buf alone.
Kept(p, c) ==
    /\ conn' = [conn EXCEPT ![p] = c]
    /\ UNCHANGED wire

\* Write::flush, and the flush_ws that starts every round of a read.
Flush(p) ==
    /\ Idle(p) /\ conn[p].tx # <<>>
    /\ Flushed(p, conn[p])
    /\ UNCHANGED <<up, ended, app, sent, delivered, initiated>>

\* A read of the transport returns n frames; feed() refuses them when closed.
\* fill_app_rx reads the transport when no message is pending and tx_buf is flushed.
Receive(p, n) ==
    /\ Idle(p) /\ ~ conn[p].error /\ conn[p].messages = <<>> /\ conn[p].tx = <<>>
    /\ wire' = [wire EXCEPT ![p] = SubSeq(@, n + 1, Len(@))]
    /\ IF conn[p].state = "Closed"
       THEN ended' = [ended EXCEPT ![p] = TRUE] /\ UNCHANGED conn
       ELSE /\ conn' = [conn EXCEPT ![p].rx = SubSeq(wire[p], 1, n)]
            /\ UNCHANGED ended
    /\ UNCHANGED <<up, app, sent, delivered, initiated>>

\* The endpoint after this frame is c.  process() goes on with the next frame; it
\* returns when there is none or the connection is closed, and then the stream flushes,
\* unless process() failed: the error skips the flush.
Processed(p, c, fails) ==
    IF (c.rx = <<>> \/ c.state = "Closed") /\ ~ fails THEN Flushed(p, c) ELSE Kept(p, c)

Consumed(p) == [conn[p] EXCEPT !.rx = Tail(@)]

\* process_frames, one frame; its error is the error of the read.
ProcessFrame(p) ==
    /\ up[p] /\ InProcess(p) /\ conn[p].state \in {"Open", "Closing"}
    /\ LET c == Handled(Consumed(p), p, Head(conn[p].rx))
           last == c.messages[Len(c.messages)]
       IN  /\ Processed(p, c, c.error)
           /\ delivered' = IF c.messages # conn[p].messages /\ last.kind = "data"
                           THEN [delivered EXCEPT ![p] = Append(@, last.body)]
                           ELSE delivered
           /\ ended' = [ended EXCEPT ![p] = @ \/ c.error]
    /\ UNCHANGED <<up, app, sent, initiated>>

\* process_handshake of the server: the request is accepted.
AcceptRequest(p) ==
    /\ up[p] /\ InProcess(p) /\ conn[p].state = "Connecting"
    /\ Head(conn[p].rx).op = "request"
    /\ Processed(p, [Queue(Consumed(p), Frame("response")) EXCEPT !.state = "Open"], FALSE)
    /\ UNCHANGED <<up, ended, app, sent, delivered, initiated>>

\* The request is refused, with a response only when its version is the reason.
RejectRequest(p) ==
    /\ up[p] /\ InProcess(p) /\ conn[p].state = "Connecting"
    /\ Head(conn[p].rx).op = "request"
    /\ \E c \in {Consumed(p), Queue(Consumed(p), Frame("reject"))} :
           Processed(p, [c EXCEPT !.state = "Closed"], TRUE)
    /\ ended' = [ended EXCEPT ![p] = TRUE]
    /\ UNCHANGED <<up, app, sent, delivered, initiated>>

\* process_handshake of the client: a valid response, or a refusal.
HandshakeResponse(p) ==
    /\ up[p] /\ InProcess(p) /\ conn[p].state = "Connecting"
    /\ \/ /\ Head(conn[p].rx).op = "response"
          /\ Processed(p, [Consumed(p) EXCEPT !.state = "Open"], FALSE)
          /\ UNCHANGED ended
       \/ /\ Head(conn[p].rx).op = "reject"
          /\ Processed(p, [Consumed(p) EXCEPT !.state = "Closed"], TRUE)
          /\ ended' = [ended EXCEPT ![p] = TRUE]
    /\ UNCHANGED <<up, app, sent, delivered, initiated>>

\* read: the next message; Ping and Pong are skipped, Close ends the stream.
ReadMessage(p) ==
    /\ Idle(p) /\ ~ conn[p].error /\ conn[p].messages # <<>>
    /\ conn' = [conn EXCEPT ![p].messages = Tail(@)]
    /\ ended' = [ended EXCEPT ![p] = @ \/ Head(conn[p].messages).kind = "close"]
    /\ UNCHANGED <<wire, up, app, sent, delivered, initiated>>

\* read: the transport has ended.  The sticky error ended the read it arose in.
ReadFails(p) ==
    /\ Idle(p) /\ ~ ended[p] /\ conn[p].messages = <<>> /\ conn[p].tx = <<>>
    /\ wire[p] = <<>> /\ ~ up[Other(p)]
    /\ ended' = [ended EXCEPT ![p] = TRUE]
    /\ UNCHANGED <<conn, wire, up, app, sent, delivered, initiated>>
-----------------------------------------------------------------------------
(* The application.                                                         *)

Payloads == app["client"].payloads + app["server"].payloads
Pings == app["client"].pings + app["server"].pings

\* write: one message in one frame, flushed at once.
Write(p) ==
    /\ Idle(p) /\ conn[p].state = "Open" /\ ~ conn[p].localClose
    /\ app[p].partial = <<>> /\ Payloads < MaxPayloads
    /\ LET n == app[p].payloads + 1
       IN  /\ Flushed(p, Queue(conn[p], DataFrame("data", TRUE, n)))
           /\ app' = [app EXCEPT ![p].payloads = n]
           /\ sent' = [sent EXCEPT ![p] = Append(@, <<n>>)]
    /\ UNCHANGED <<up, ended, delivered, initiated>>

\* send_frame with the first, a middle or the last fragment of a message: queued only.
\* send_frame does not ask for an open connection; the application is assumed to, and to
\* send control frames by the other calls.
WriteFragment(p, fin) ==
    /\ Idle(p) /\ conn[p].state # "Connecting" /\ Payloads < MaxPayloads
    /\ fin => app[p].partial # <<>>
    /\ LET n == app[p].payloads + 1
           f == DataFrame(IF app[p].partial = <<>> THEN "data" ELSE "cont", fin, n)
           message == Append(app[p].partial, n)
       IN  /\ ~ Refuses(conn[p], f)
           /\ Kept(p, Queue(conn[p], f))
           /\ app' = [app EXCEPT ![p].payloads = n, ![p].partial = IF fin THEN <<>> ELSE message]
           /\ sent' = IF fin THEN [sent EXCEPT ![p] = Append(@, message)] ELSE sent
    /\ UNCHANGED <<up, ended, delivered, initiated>>

\* send_ping and send_pong: an unsolicited Pong may follow a Close.
SendControl(p, op) ==
    /\ Idle(p) /\ conn[p].state \in {"Open", "Closing"} /\ Pings < MaxPings
    /\ op = "ping" => ~ conn[p].localClose
    /\ Kept(p, Queue(conn[p], Frame(op)))
    /\ app' = [app EXCEPT ![p].pings = @ + 1]
    /\ UNCHANGED <<up, ended, sent, delivered, initiated>>

\* WebSocketStream::close
Close(p) ==
    /\ Idle(p) /\ (conn[p].tx # <<>> \/ Closed(conn[p]) # conn[p])
    /\ Flushed(p, Closed(conn[p]))
    /\ initiated' = [initiated EXCEPT ![p] =
                       @ \/ (Closed(conn[p]).localClose /\ ~ conn[p].localClose /\ ~ conn[p].peerClose)]
    /\ UNCHANGED <<up, ended, app, sent, delivered>>

\* The stream and its transport are dropped: for good reason after an error, or early.
Drop(p) ==
    /\ Idle(p) /\ (ended[p] \/ p \in MayDrop)
    /\ up' = [up EXCEPT ![p] = FALSE]
    /\ wire' = [wire EXCEPT ![p] = <<>>]
    /\ UNCHANGED <<conn, ended, app, sent, delivered, initiated>>

Process(p) == ProcessFrame(p) \/ AcceptRequest(p) \/ RejectRequest(p) \/ HandshakeResponse(p)
Read(p) == \/ \E n \in 1..Len(wire[p]) : Receive(p, n)
           \/ ReadMessage(p)
           \/ ReadFails(p)

Next ==
    \E p \in Peers :
        \/ Process(p)
        \/ Read(p)
        \/ Flush(p)
        \/ Write(p)
        \/ \E fin \in BOOLEAN : WriteFragment(p, fin)
        \/ \E op \in {"ping", "pong"} : SendControl(p, op)
        \/ Close(p)
        \/ Drop(p)

\* Both applications read until a read fails and then drop the stream; a round of the
\* read starts with a flush, which a sticky error precludes.
Fairness ==
    \A p \in Peers :
        /\ WF_vars(Process(p))
        /\ WF_vars(Read(p))
        /\ WF_vars(~ conn[p].error /\ Flush(p))
        /\ WF_vars(ended[p] /\ Drop(p))

Spec == Init /\ [][Next]_vars /\ Fairness
-----------------------------------------------------------------------------
(* Properties *)

\* The frames p has queued that the other endpoint has not processed, in order.
InFlight(p) == conn[Other(p)].rx \o wire[Other(p)] \o conn[p].tx

\* Every field keeps its type, and a connection that failed is closed.
TypeOK ==
    /\ conn \in [Peers -> [state : {"Connecting", "Open", "Closing", "Closed"},
                           rx : Seq([op : Opcodes, fin : BOOLEAN, payload : Nat]),
                           tx : Seq([op : Opcodes, fin : BOOLEAN, payload : Nat]),
                           messages : Seq([kind : {"data", "ping", "pong", "close"}, body : Seq(Nat)]),
                           fragment : Seq(Nat),
                           localClose : BOOLEAN, peerClose : BOOLEAN, error : BOOLEAN]]
    /\ wire \in [Peers -> Seq([op : Opcodes, fin : BOOLEAN, payload : Nat])]
    /\ up \in [Peers -> BOOLEAN] /\ ended \in [Peers -> BOOLEAN] /\ initiated \in [Peers -> BOOLEAN]
    /\ app \in [Peers -> [payloads : Nat, pings : Nat, partial : Seq(Nat)]]
    /\ sent \in [Peers -> Seq(Seq(Nat))] /\ delivered \in [Peers -> Seq(Seq(Nat))]

\* "After sending Close ... MUST NOT send further data frames" (send_frame): whoever sends
\* what, whichever of close, auto reply and fail sent it, a Close is sent once and nothing
\* but a Pong follows it on its way to the other endpoint.
CloseIsLast ==
    \A p \in Peers :
        LET frames == InFlight(p)
        IN  /\ \A i \in 1..Len(frames) : frames[i].op = "close" =>
                   \A j \in i + 1..Len(frames) : frames[j].op = "pong"
            /\ conn[Other(p)].peerClose => \A i \in 1..Len(frames) : frames[i].op = "pong"

\* Reassembly: what an application gets is a prefix of the messages the other one sent,
\* each whole, whatever control frames came between the fragments; and when the other
\* side closes first and nothing failed, it is all of them.
DeliveredInOrder ==
    \A p \in Peers :
        LET all == sent[Other(p)]
        IN  /\ Len(delivered[p]) <= Len(all)
            /\ delivered[p] = SubSeq(all, 1, Len(delivered[p]))
            /\ conn[p].peerClose /\ ~ initiated[p] /\ ~ conn[p].error => delivered[p] = all

\* An open connection that one endpoint has closed or failed is not left half open: the
\* endpoint sent a Close, and the other one has seen it, is closed itself, has dropped its
\* stream or still has the Close ahead of it.
NoHalfOpen ==
    \A p \in Peers :
        /\ conn[p].state = "Closed" /\ (conn[p].peerClose \/ conn[p].error) => conn[p].localClose
        /\ conn[p].localClose =>
               \/ conn[Other(p)].peerClose \/ conn[Other(p)].state = "Closed" \/ ~ up[Other(p)]
               \/ ~ up[p]
               \/ \E i \in 1..Len(InFlight(p)) : InFlight(p)[i].op = "close"

\* A reader is not blocked for ever: once its connection is closing or closed, or the other
\* stream is gone, a read of the stream ends with an error.
ReadersAreReleased ==
    \A p \in Peers :
        (conn[p].localClose \/ conn[p].peerClose \/ conn[p].state = "Closed" \/ ~ up[Other(p)])
            ~> (ended[p] \/ ~ up[p])
=============================================================================
