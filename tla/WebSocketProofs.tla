-------------------------- MODULE WebSocketProofs ---------------------------
(***************************************************************************)
(* Proofs about a WebSocket connection, for any configuration of its       *)
(* endpoints, any message size and any number of frames: the variables     *)
(* keep their types, so no handler ever meets a frame it has no case for;  *)
(* a Close is the last frame an endpoint sends but for Pongs; a            *)
(* connection that one endpoint closed is not left half open; and the      *)
(* messages one application sends are reassembled in order and whole for   *)
(* the other, all of them when it does not close or fail first.            *)
(***************************************************************************)
EXTENDS WebSocket, SequenceTheorems, TLAPS

FrameRecord == [op : Opcodes, fin : BOOLEAN, payload : Nat]
Frames == Seq(FrameRecord)

-----------------------------------------------------------------------------
(* Streams of frames.                                                       *)

\* The frames that follow the opening handshake, and those that make it up.
BodyOps == {"data", "cont", "ping", "pong", "close"}
Greeting(p) == IF p = "client" THEN {"request"} ELSE {"response", "reject"}

Only(s, ops) == \A i \in DOMAIN s : s[i].op \in ops
HasClose(s) == \E i \in DOMAIN s : s[i].op = "close"
\* After a Close there are Pongs alone.
Sealed(s) == \A i, j \in DOMAIN s : i < j /\ s[i].op = "close" => s[j].op = "pong"
\* The handshake comes first, if it is there.
GreetsFirst(s) == \A i \in DOMAIN s : i # 1 => s[i].op \in BodyOps

\* A stream t that is s without some frames in the middle or at the end.
Cut(s, t) ==
    \E a, b, c \in Frames : s = (a \o b) \o c /\ t = a \o c

\* A frame is queued behind a stream.
LEMMA StreamAppend ==
    ASSUME NEW s \in Frames, NEW f \in FrameRecord
    PROVE  /\ Append(s, f) \in Frames
           /\ \A ops : Only(Append(s, f), ops) <=> Only(s, ops) /\ f.op \in ops
           /\ HasClose(Append(s, f)) <=> HasClose(s) \/ f.op = "close"
           /\ Sealed(s) /\ (HasClose(s) => f.op = "pong") => Sealed(Append(s, f))
           /\ GreetsFirst(s) /\ (s = <<>> \/ f.op \in BodyOps) => GreetsFirst(Append(s, f))
<1> DEFINE r == Append(s, f)
           n == Len(s)
<1>1. n \in Nat /\ DOMAIN s = 1..n /\ DOMAIN r = 1..n + 1 /\ r \in Frames /\ (s = <<>> <=> n = 0)
  BY DEF Frames
<1>2. r[n + 1] = f /\ \A i \in 1..n : r[i] = s[i]
  BY DEF Frames
<1>3. \A i : i \in 1..n + 1 <=> i \in 1..n \/ i = n + 1
  BY <1>1
<1>4. \A i \in 1..n : i \in Nat /\ i < n + 1 /\ ~(n + 1 < i)
  BY <1>1
<1>5. s = <<>> => n + 1 = 1
  BY <1>1
<1> HIDE DEF r, n
<1>6. \A ops : Only(r, ops) <=> Only(s, ops) /\ f.op \in ops
  BY <1>1, <1>2, <1>3 DEF Only
<1>7. HasClose(r) <=> HasClose(s) \/ f.op = "close"
  BY <1>1, <1>2, <1>3 DEF HasClose
<1>8. Sealed(s) /\ (HasClose(s) => f.op = "pong") => Sealed(r)
  <2> SUFFICES ASSUME Sealed(s), HasClose(s) => f.op = "pong",
                      NEW i \in 1..n + 1, NEW j \in 1..n + 1, i < j, r[i].op = "close"
               PROVE  r[j].op = "pong"
    BY <1>1 DEF Sealed
  <2>1. i \in 1..n
    BY <1>1, <1>3, <1>4
  <2>2. s[i].op = "close" /\ HasClose(s)
    BY <1>1, <1>2, <2>1 DEF HasClose
  <2> QED
    BY <1>1, <1>2, <1>3, <2>1, <2>2 DEF Sealed
<1>9. GreetsFirst(s) /\ (s = <<>> \/ f.op \in BodyOps) => GreetsFirst(r)
  BY <1>1, <1>2, <1>3, <1>5 DEF GreetsFirst
<1> QED
  BY <1>1, <1>6, <1>7, <1>8, <1>9 DEF r

\* The first frame of a stream is processed.
LEMMA StreamTail ==
    ASSUME NEW s \in Frames, s # <<>>
    PROVE  /\ Tail(s) \in Frames /\ Head(s) \in FrameRecord
           /\ \A ops : Only(s, ops) => Only(Tail(s), ops) /\ Head(s).op \in ops
           /\ HasClose(s) => HasClose(Tail(s)) \/ Head(s).op = "close"
           /\ HasClose(Tail(s)) => HasClose(s)
           /\ Head(s).op = "close" => HasClose(s)
           /\ Sealed(s) => Sealed(Tail(s)) /\ (Head(s).op = "close" => Only(Tail(s), {"pong"}))
           /\ GreetsFirst(s) => GreetsFirst(Tail(s)) /\ Only(Tail(s), BodyOps)
<1> DEFINE r == Tail(s)
           n == Len(r)
<1>1. /\ r \in Frames /\ Head(s) \in FrameRecord /\ n \in Nat
      /\ DOMAIN r = 1..n /\ DOMAIN s = 1..n + 1 /\ s[1] = Head(s)
      /\ \A i \in 1..n : r[i] = s[i + 1]
  BY HeadTailProperties DEF Frames
<1>2. \A i \in 1..n : i + 1 \in 1..n + 1 /\ i + 1 # 1 /\ 1 < i + 1
  BY <1>1
<1>3. 1 \in 1..n + 1
  BY <1>1
<1>4. \A i \in 1..n + 1 : i = 1 \/ \E j \in 1..n : r[j] = s[i]
  <2> SUFFICES ASSUME NEW i \in 1..n + 1, i # 1
               PROVE  \E j \in 1..n : r[j] = s[i]
    OBVIOUS
  <2>1. i - 1 \in 1..n /\ i = (i - 1) + 1
    BY <1>1
  <2> QED
    BY <1>1, <2>1
<1>5. \A i, j \in 1..n : i < j => i + 1 < j + 1
  BY <1>1
<1> HIDE DEF r, n
<1>6. \A ops : Only(s, ops) => Only(r, ops) /\ Head(s).op \in ops
  BY <1>1, <1>2, <1>3 DEF Only
<1>7. HasClose(s) => HasClose(r) \/ Head(s).op = "close"
  BY <1>1, <1>4 DEF HasClose
<1>8. (HasClose(r) => HasClose(s)) /\ (Head(s).op = "close" => HasClose(s))
  BY <1>1, <1>2, <1>3 DEF HasClose
<1>9. Sealed(s) => Sealed(r)
  BY <1>1, <1>2, <1>5 DEF Sealed
<1>10. Sealed(s) /\ Head(s).op = "close" => Only(r, {"pong"})
  BY <1>1, <1>2, <1>3 DEF Sealed, Only
<1>11. GreetsFirst(s) => GreetsFirst(r) /\ Only(r, BodyOps)
  BY <1>1, <1>2 DEF GreetsFirst, Only
<1> QED
  BY <1>1, <1>6, <1>7, <1>8, <1>9, <1>10, <1>11 DEF r

\* Lost frames: what is left keeps its order.
LEMMA StreamCut ==
    ASSUME NEW s, NEW t, Cut(s, t)
    PROVE  /\ t \in Frames
           /\ \A ops : Only(s, ops) => Only(t, ops)
           /\ HasClose(t) => HasClose(s)
           /\ Sealed(s) => Sealed(t)
           /\ GreetsFirst(s) => GreetsFirst(t)
           /\ s = <<>> => t = <<>>
<1>1. PICK a \in Frames, b \in Frames, c \in Frames : s = (a \o b) \o c /\ t = a \o c
  BY DEF Cut
<1> DEFINE k == Len(a)
           l == Len(b)
           m == Len(c)
           h(i) == IF i <= k THEN i ELSE i + l
<1>2. /\ k \in Nat /\ l \in Nat /\ m \in Nat /\ s \in Frames /\ t \in Frames
      /\ DOMAIN t = 1..k + m /\ DOMAIN s = 1..k + l + m
  BY <1>1 DEF Frames
<1>3. \A i \in 1..k + m : t[i] = IF i <= k THEN a[i] ELSE c[i - k]
  BY <1>1, ConcatProperties DEF Frames
<1>4. /\ a \o b \in Frames /\ Len(a \o b) = k + l
      /\ \A i \in 1..k + l : (a \o b)[i] = IF i <= k THEN a[i] ELSE b[i - k]
  BY <1>1, ConcatProperties DEF Frames
<1>5. \A i \in 1..k + l + m : s[i] = IF i <= k + l THEN (a \o b)[i] ELSE c[i - (k + l)]
  BY <1>1, <1>4, ConcatProperties DEF Frames
<1>6. \A i \in 1..k + m : h(i) \in 1..k + l + m /\ s[h(i)] = t[i] /\ (i # 1 => h(i) # 1)
  <2> SUFFICES ASSUME NEW i \in 1..k + m
               PROVE  h(i) \in 1..k + l + m /\ s[h(i)] = t[i] /\ (i # 1 => h(i) # 1)
    OBVIOUS
  <2>0. i \in Nat /\ 1 <= i
    BY <1>2
  <2>1. CASE i <= k
    <3>1. h(i) = i /\ i \in 1..k + l + m /\ i \in 1..k + l /\ i <= k + l
      BY <1>2, <2>0, <2>1
    <3>2. s[i] = a[i] /\ t[i] = a[i]
      BY <1>3, <1>4, <1>5, <2>1, <3>1
    <3> QED
      BY <3>1, <3>2
  <2>2. CASE ~(i <= k)
    <3>1. /\ h(i) = i + l /\ i + l \in 1..k + l + m /\ ~(i + l <= k + l)
          /\ (i + l) - (k + l) = i - k /\ (i # 1 => i + l # 1)
      BY <1>2, <2>0, <2>2
    <3>2. s[i + l] = c[i - k] /\ t[i] = c[i - k]
      BY <1>3, <1>5, <2>2, <3>1
    <3> QED
      BY <3>1, <3>2
  <2> QED
    BY <2>1, <2>2
<1>7. \A i, j \in 1..k + m : i < j => h(i) < h(j)
  BY <1>2
<1>8. s = <<>> => t = <<>>
  <2> SUFFICES ASSUME s = <<>> PROVE t = <<>>
    OBVIOUS
  <2>1. Len(s) = k + l + m /\ Len(s) = 0 /\ Len(t) = k + m
    <3>1. Len(s) = 0
      OBVIOUS
    <3>2. Len(s) = Len(a \o b) + m /\ Len(t) = k + m
      BY <1>1, <1>4, ConcatProperties DEF Frames
    <3> QED
      BY <1>2, <1>4, <3>1, <3>2
  <2>2. Len(t) = 0
    BY <1>2, <2>1
  <2> QED
    BY <1>2, <2>2 DEF Frames
<1> HIDE DEF h, k, l, m
<1>9. \A ops : Only(s, ops) => Only(t, ops)
  BY <1>2, <1>6 DEF Only
<1>10. HasClose(t) => HasClose(s)
  BY <1>2, <1>6 DEF HasClose
<1>11. Sealed(s) => Sealed(t)
  BY <1>2, <1>6, <1>7 DEF Sealed
<1>12. GreetsFirst(s) => GreetsFirst(t)
  BY <1>2, <1>6 DEF GreetsFirst
<1> QED
  BY <1>2, <1>8, <1>9, <1>10, <1>11, <1>12
-----------------------------------------------------------------------------
(* The handlers of one endpoint.                                            *)

States == {"Connecting", "Open", "Closing", "Closed"}
MessageRecord == [kind : {"data", "ping", "pong", "close"}, body : Seq(Nat)]
ConnRecord ==
    [state : States, rx : Frames, tx : Frames, messages : Seq(MessageRecord),
     fragment : Seq(Nat), localClose : BOOLEAN, peerClose : BOOLEAN, error : BOOLEAN]

\* What a handler may do to the outgoing stream of c: nothing, or one frame, which is a Pong
\* after a Close, and before it a Close exactly when it closes the local side.
Sends(c, d) ==
    \/ d.tx = c.tx /\ (d.localClose <=> c.localClose)
    \/ \E f \in FrameRecord :
         /\ d.tx = Append(c.tx, f) /\ f.op \in {"pong", "close"}
         /\ c.localClose => f.op = "pong" /\ d.localClose
         /\ ~c.localClose => (d.localClose <=> f.op = "close")

\* What a handler may do to an open or closing connection.
Took(c, d) ==
    /\ d \in ConnRecord /\ d.rx = c.rx
    /\ Sends(c, d)
    /\ d.state # "Connecting"
    /\ d.state = "Closed" => d.localClose
    /\ d.error => d.state = "Closed"

\* The control frames of the connection itself.
LEMMA FrameFacts ==
    ASSUME NEW op \in Opcodes
    PROVE  Frame(op) \in FrameRecord /\ Frame(op).op = op
<1> DEFINE z == 0
<1>1. z \in Nat
  OBVIOUS
<1>2. Frame(op) = [op |-> op, fin |-> TRUE, payload |-> z]
  BY DEF Frame
<1> HIDE DEF z
<1> QED
  BY <1>1, <1>2 DEF FrameRecord

\* tx_buf grows by one frame.
LEMMA QueueFacts ==
    ASSUME NEW c \in ConnRecord, NEW f \in FrameRecord
    PROVE  LET d == Queue(c, f)
           IN  /\ d \in ConnRecord /\ d.tx = Append(c.tx, f)
               /\ d.state = c.state /\ d.rx = c.rx /\ d.messages = c.messages
               /\ d.fragment = c.fragment
               /\ (d.localClose <=> c.localClose) /\ (d.peerClose <=> c.peerClose)
               /\ (d.error <=> c.error)
<1> DEFINE x == Append(c.tx, f)
<1>1. x \in Frames
  BY StreamAppend DEF ConnRecord
<1>2. Queue(c, f) = [c EXCEPT !.tx = x]
  BY DEF Queue
<1> HIDE DEF x
<1>3. LET d == Queue(c, f)
      IN  /\ d \in ConnRecord /\ d.tx = x
          /\ d.state = c.state /\ d.rx = c.rx /\ d.messages = c.messages
          /\ d.fragment = c.fragment
          /\ (d.localClose <=> c.localClose) /\ (d.peerClose <=> c.peerClose)
          /\ (d.error <=> c.error)
  BY <1>1, <1>2 DEF ConnRecord
<1> QED
  BY <1>3 DEF x

\* A message is put into the queue for the application.
LEMMA PushFacts ==
    ASSUME NEW c \in ConnRecord, NEW kind \in {"data", "ping", "pong", "close"},
           NEW body \in Seq(Nat)
    PROVE  LET d == Push(c, kind, body)
           IN  /\ d \in ConnRecord /\ d.tx = c.tx
               /\ d.messages = Append(c.messages, [kind |-> kind, body |-> body])
               /\ d.state = c.state /\ d.rx = c.rx /\ d.fragment = c.fragment
               /\ (d.localClose <=> c.localClose) /\ (d.peerClose <=> c.peerClose)
               /\ (d.error <=> c.error)
<1> DEFINE m == Append(c.messages, [kind |-> kind, body |-> body])
<1>1. m \in Seq(MessageRecord)
  BY DEF ConnRecord, MessageRecord
<1>2. Push(c, kind, body) = [c EXCEPT !.messages = m]
  BY DEF Push
<1> HIDE DEF m
<1>3. LET d == Push(c, kind, body)
      IN  /\ d \in ConnRecord /\ d.tx = c.tx /\ d.messages = m
          /\ d.state = c.state /\ d.rx = c.rx /\ d.fragment = c.fragment
          /\ (d.localClose <=> c.localClose) /\ (d.peerClose <=> c.peerClose)
          /\ (d.error <=> c.error)
  BY <1>1, <1>2 DEF ConnRecord
<1> QED
  BY <1>3 DEF m

\* The state alone changes, ...
LEMMA StateFacts ==
    ASSUME NEW c \in ConnRecord, NEW s \in States
    PROVE  LET d == [c EXCEPT !.state = s]
           IN  /\ d \in ConnRecord /\ d.state = s
               /\ d.tx = c.tx /\ d.rx = c.rx /\ d.messages = c.messages
               /\ d.fragment = c.fragment
               /\ (d.localClose <=> c.localClose) /\ (d.peerClose <=> c.peerClose)
               /\ (d.error <=> c.error)
BY DEF ConnRecord

\* ... the local side is closed with it, ...
LEMMA LocalCloseFacts ==
    ASSUME NEW c \in ConnRecord, NEW s \in States
    PROVE  LET d == [c EXCEPT !.localClose = TRUE, !.state = s]
           IN  /\ d \in ConnRecord /\ d.state = s /\ d.localClose
               /\ d.tx = c.tx /\ d.rx = c.rx /\ d.messages = c.messages
               /\ d.fragment = c.fragment
               /\ (d.peerClose <=> c.peerClose) /\ (d.error <=> c.error)
BY DEF ConnRecord

\* ... the connection is failed, ...
LEMMA ErrorFacts ==
    ASSUME NEW c \in ConnRecord
    PROVE  LET d == [c EXCEPT !.state = "Closed", !.error = TRUE]
           IN  /\ d \in ConnRecord /\ d.state = "Closed" /\ d.error
               /\ d.tx = c.tx /\ d.rx = c.rx /\ d.messages = c.messages
               /\ d.fragment = c.fragment
               /\ (d.localClose <=> c.localClose) /\ (d.peerClose <=> c.peerClose)
BY DEF ConnRecord, States

\* ... or the reassembly buffer is set.
LEMMA FragmentFacts ==
    ASSUME NEW c \in ConnRecord, NEW g \in Seq(Nat)
    PROVE  LET d == [c EXCEPT !.fragment = g]
           IN  /\ d \in ConnRecord /\ d.fragment = g
               /\ d.tx = c.tx /\ d.rx = c.rx /\ d.messages = c.messages /\ d.state = c.state
               /\ (d.localClose <=> c.localClose) /\ (d.peerClose <=> c.peerClose)
               /\ (d.error <=> c.error)
BY DEF ConnRecord

\* close(): nothing on a closed side, no Close before there is a connection, else one Close.
LEMMA ClosedFacts ==
    ASSUME NEW c \in ConnRecord
    PROVE  LET d == Closed(c)
           IN  /\ d \in ConnRecord /\ Sends(c, d)
               /\ d.rx = c.rx /\ d.messages = c.messages /\ d.fragment = c.fragment
               /\ (d.peerClose <=> c.peerClose) /\ (d.error <=> c.error)
               /\ c.localClose \/ c.state = "Closed" => d = c
               /\ ~c.localClose /\ c.state = "Connecting" =>
                    d.state = "Closed" /\ ~d.localClose /\ d.tx = c.tx
               /\ ~c.localClose /\ c.state \in {"Open", "Closing"} =>
                    d.localClose /\ d.state \in {"Closing", "Closed"}
                    /\ d.tx = Append(c.tx, Frame("close"))
<1>0. c.state \in States
  BY DEF ConnRecord
<1>1. CASE c.localClose \/ c.state = "Closed"
  <2>1. Closed(c) = c
    BY <1>1 DEF Closed
  <2>2. Sends(c, c)
    BY DEF Sends
  <2> QED
    BY <1>1, <2>1, <2>2
<1>2. CASE ~c.localClose /\ c.state = "Connecting"
  <2> DEFINE d == [c EXCEPT !.state = "Closed"]
  <2>1. Closed(c) = d
    BY <1>2 DEF Closed
  <2>2. /\ d \in ConnRecord /\ d.state = "Closed"
        /\ d.tx = c.tx /\ d.rx = c.rx /\ d.messages = c.messages
        /\ d.fragment = c.fragment
        /\ (d.localClose <=> c.localClose) /\ (d.peerClose <=> c.peerClose)
        /\ (d.error <=> c.error)
    BY StateFacts DEF States
  <2> HIDE DEF d
  <2>3. Sends(c, d)
    BY <2>2 DEF Sends
  <2> QED
    BY <1>2, <2>1, <2>2, <2>3
<1>3. CASE ~c.localClose /\ c.state \in {"Open", "Closing"}
  <2> DEFINE q == Queue(c, Frame("close"))
             s == IF c.peerClose THEN "Closed" ELSE "Closing"
             d == [q EXCEPT !.localClose = TRUE, !.state = s]
  <2>1. Closed(c) = d
    BY <1>3 DEF Closed
  <2>2. Frame("close") \in FrameRecord /\ Frame("close").op = "close"
    BY FrameFacts DEF Opcodes
  <2>3. /\ q \in ConnRecord /\ q.tx = Append(c.tx, Frame("close"))
        /\ q.rx = c.rx /\ q.messages = c.messages /\ q.fragment = c.fragment
        /\ (q.peerClose <=> c.peerClose) /\ (q.error <=> c.error)
    BY <2>2, QueueFacts
  <2>4. s \in States /\ s \in {"Closing", "Closed"}
    BY DEF States
  <2> HIDE DEF q, s
  <2>5. /\ d \in ConnRecord /\ d.state = s /\ d.localClose
        /\ d.tx = q.tx /\ d.rx = q.rx /\ d.messages = q.messages
        /\ d.fragment = q.fragment
        /\ (d.peerClose <=> q.peerClose) /\ (d.error <=> q.error)
    BY <2>3, <2>4, LocalCloseFacts
  <2> HIDE DEF d
  <2>6. Sends(c, d)
    BY <1>3, <2>2, <2>3, <2>5 DEF Sends, BodyOps
  <2> QED
    BY <1>3, <2>1, <2>3, <2>4, <2>5, <2>6
<1> QED
  BY <1>0, <1>1, <1>2, <1>3 DEF States

\* fail() on an established connection: it is closed with a Close sent.
LEMMA FailedFacts ==
    ASSUME NEW c \in ConnRecord, c.state \in {"Open", "Closing"}
    PROVE  LET d == Failed(c)
           IN  /\ Took(c, d) /\ (d.peerClose <=> c.peerClose) /\ d.error
               /\ d.messages = c.messages
<1> DEFINE k == Closed(c)
           d == [k EXCEPT !.state = "Closed", !.error = TRUE]
<1>1. Failed(c) = d
  BY DEF Failed
<1>2. /\ k \in ConnRecord /\ Sends(c, k) /\ k.rx = c.rx /\ (k.peerClose <=> c.peerClose)
      /\ k.localClose /\ k.messages = c.messages
  BY ClosedFacts
<1> HIDE DEF k
<1>3. /\ d \in ConnRecord /\ d.state = "Closed" /\ d.error
      /\ d.tx = k.tx /\ d.rx = k.rx /\ (d.localClose <=> k.localClose)
      /\ (d.peerClose <=> k.peerClose) /\ d.messages = k.messages
  BY <1>2, ErrorFacts
<1> HIDE DEF d
<1>4. Sends(c, d)
  BY <1>2, <1>3 DEF Sends
<1> QED
  BY <1>1, <1>2, <1>3, <1>4 DEF Took

\* A handler that sends nothing and stays in its state.
LEMMA TookQuietly ==
    ASSUME NEW c \in ConnRecord, c.state \in {"Open", "Closing"}, ~c.error,
           NEW d \in ConnRecord, d.tx = c.tx, d.rx = c.rx, d.state = c.state,
           d.localClose <=> c.localClose, d.error <=> c.error
    PROVE  Took(c, d)
BY DEF Took, Sends

\* The message is delivered, or it is too big.
LEMMA DeliverFacts ==
    ASSUME NEW c \in ConnRecord, c.state \in {"Open", "Closing"}, ~c.error,
           NEW message \in Seq(Nat)
    PROVE  Took(c, Deliver(c, message)) /\ (Deliver(c, message).peerClose <=> c.peerClose)
<1> DEFINE d == Push(c, "data", message)
<1>1. /\ d \in ConnRecord /\ d.tx = c.tx /\ d.rx = c.rx /\ d.state = c.state
      /\ (d.localClose <=> c.localClose) /\ (d.error <=> c.error) /\ (d.peerClose <=> c.peerClose)
  BY PushFacts
<1> HIDE DEF d
<1>2. Took(c, d)
  BY <1>1, TookQuietly
<1>3. Took(c, Failed(c)) /\ (Failed(c).peerClose <=> c.peerClose)
  BY FailedFacts
<1>4. Deliver(c, message) = Failed(c) \/ Deliver(c, message) = d
  BY DEF Deliver, d
<1> QED
  BY <1>1, <1>2, <1>3, <1>4

\* The first frame of a message.
LEMMA DataStartFacts ==
    ASSUME NEW c \in ConnRecord, c.state \in {"Open", "Closing"}, ~c.error,
           NEW f \in FrameRecord
    PROVE  Took(c, DataStart(c, f)) /\ (DataStart(c, f).peerClose <=> c.peerClose)
<1> DEFINE g == <<f.payload>>
           d == [c EXCEPT !.fragment = g]
<1>1. g \in Seq(Nat)
  BY DEF FrameRecord
<1>2. DataStart(c, f) \in {Failed(c), c, Deliver(c, g), d}
  BY DEF DataStart
<1> HIDE DEF g
<1>3. /\ d \in ConnRecord /\ d.tx = c.tx /\ d.rx = c.rx /\ d.state = c.state
      /\ (d.localClose <=> c.localClose) /\ (d.error <=> c.error) /\ (d.peerClose <=> c.peerClose)
  BY <1>1, FragmentFacts
<1> HIDE DEF d
<1>4. Took(c, d) /\ Took(c, c)
  BY <1>3, TookQuietly
<1> QED
  BY <1>1, <1>2, <1>3, <1>4, FailedFacts, DeliverFacts

\* A further frame of a message.
LEMMA ContinuationFacts ==
    ASSUME NEW c \in ConnRecord, c.state \in {"Open", "Closing"}, ~c.error,
           NEW f \in FrameRecord
    PROVE  Took(c, Continuation(c, f)) /\ (Continuation(c, f).peerClose <=> c.peerClose)
<1> DEFINE g == Append(c.fragment, f.payload)
           e == <<>>
           d == [c EXCEPT !.fragment = g]
           b == [c EXCEPT !.fragment = e]
<1>1. g \in Seq(Nat) /\ e \in Seq(Nat)
  BY DEF FrameRecord, ConnRecord
<1>2. Continuation(c, f) \in {Failed(c), Deliver(b, g), d}
  BY DEF Continuation
<1> HIDE DEF g, e
<1>3. /\ d \in ConnRecord /\ d.tx = c.tx /\ d.rx = c.rx /\ d.state = c.state
      /\ (d.localClose <=> c.localClose) /\ (d.error <=> c.error) /\ (d.peerClose <=> c.peerClose)
  BY <1>1, FragmentFacts
<1>4. /\ b \in ConnRecord /\ b.tx = c.tx /\ b.rx = c.rx /\ b.state = c.state
      /\ (b.localClose <=> c.localClose) /\ (b.error <=> c.error) /\ (b.peerClose <=> c.peerClose)
  BY <1>1, FragmentFacts
<1> HIDE DEF d, b
<1>5. Took(c, d)
  BY <1>3, TookQuietly
<1>6. Took(b, Deliver(b, g)) /\ (Deliver(b, g).peerClose <=> b.peerClose)
  BY <1>1, <1>4, DeliverFacts
<1>7. Took(c, Deliver(b, g)) /\ (Deliver(b, g).peerClose <=> c.peerClose)
  BY <1>4, <1>6 DEF Took, Sends
<1> QED
  BY <1>2, <1>3, <1>5, <1>7, FailedFacts

\* A Ping is surfaced, and answered unless a Close was sent.
LEMMA PingFacts ==
    ASSUME NEW c \in ConnRecord, c.state \in {"Open", "Closing"}, ~c.error, NEW p \in Peers
    PROVE  Took(c, Ping(c, p)) /\ (Ping(c, p).peerClose <=> c.peerClose)
<1> DEFINE q == Queue(c, Frame("pong"))
           a == IF p \in AutoPong /\ ~c.localClose THEN q ELSE c
           e == <<>>
           d == Push(a, "ping", e)
<1>1. Ping(c, p) = d /\ e \in Seq(Nat)
  BY DEF Ping
<1>2. Frame("pong") \in FrameRecord /\ Frame("pong").op = "pong"
  BY FrameFacts DEF Opcodes
<1>3. /\ q \in ConnRecord /\ q.tx = Append(c.tx, Frame("pong")) /\ q.rx = c.rx
      /\ q.state = c.state /\ (q.localClose <=> c.localClose) /\ (q.error <=> c.error)
      /\ (q.peerClose <=> c.peerClose)
  BY <1>2, QueueFacts
<1> HIDE DEF q, e
<1>4. /\ a \in ConnRecord /\ a.rx = c.rx /\ a.state = c.state /\ Sends(c, a)
      /\ (a.error <=> c.error) /\ (a.peerClose <=> c.peerClose)
  BY <1>2, <1>3 DEF Sends, BodyOps
<1> HIDE DEF a
<1>5. /\ d \in ConnRecord /\ d.tx = a.tx /\ d.rx = a.rx /\ d.state = a.state
      /\ (d.localClose <=> a.localClose) /\ (d.error <=> a.error) /\ (d.peerClose <=> a.peerClose)
  BY <1>1, <1>4, PushFacts
<1> HIDE DEF d
<1>6. Sends(c, d)
  BY <1>4, <1>5 DEF Sends
<1> QED
  BY <1>1, <1>4, <1>5, <1>6 DEF Took

\* handle_close: surfaced once, answered unless it is an answer.
LEMMA PeerCloseFacts ==
    ASSUME NEW c \in ConnRecord, c.state \in {"Open", "Closing"}, ~c.error, NEW p \in Peers
    PROVE  Took(c, PeerClose(c, p)) /\ PeerClose(c, p).peerClose
<1> DEFINE e == <<>>
           m == Push(c, "close", e)
           a == IF c.peerClose THEN c ELSE m
           seen == [a EXCEPT !.peerClose = TRUE]
           q == Queue(seen, Frame("close"))
           l == [q EXCEPT !.localClose = TRUE]
           replied == IF ~c.localClose /\ p \in AutoCloseReply THEN l ELSE seen
           s == IF replied.localClose THEN "Closed" ELSE "Closing"
           d == [replied EXCEPT !.state = s]
<1>1. PeerClose(c, p) = d /\ e \in Seq(Nat)
  BY DEF PeerClose
<1>2. Frame("close") \in FrameRecord /\ Frame("close").op = "close"
  BY FrameFacts DEF Opcodes
<1> HIDE DEF e
<1>3. /\ m \in ConnRecord /\ m.tx = c.tx /\ m.rx = c.rx /\ m.state = c.state
      /\ (m.localClose <=> c.localClose) /\ (m.error <=> c.error)
  BY <1>1, PushFacts
<1> HIDE DEF m
<1>4. /\ a \in ConnRecord /\ a.tx = c.tx /\ a.rx = c.rx /\ a.state = c.state
      /\ (a.localClose <=> c.localClose) /\ (a.error <=> c.error)
  BY <1>3
<1> HIDE DEF a
<1>5. /\ seen \in ConnRecord /\ seen.tx = a.tx /\ seen.rx = a.rx /\ seen.state = a.state
      /\ (seen.localClose <=> a.localClose) /\ (seen.error <=> a.error) /\ seen.peerClose
  BY <1>4 DEF ConnRecord
<1> HIDE DEF seen
<1>6. /\ q \in ConnRecord /\ q.tx = Append(seen.tx, Frame("close")) /\ q.rx = seen.rx
      /\ (q.error <=> seen.error) /\ (q.peerClose <=> seen.peerClose)
  BY <1>2, <1>5, QueueFacts
<1> HIDE DEF q
<1>7. /\ l \in ConnRecord /\ l.tx = q.tx /\ l.rx = q.rx /\ l.localClose
      /\ (l.error <=> q.error) /\ (l.peerClose <=> q.peerClose)
  BY <1>6 DEF ConnRecord
<1> HIDE DEF l
<1>8. /\ replied \in ConnRecord /\ replied.rx = c.rx /\ ~replied.error /\ replied.peerClose
      /\ Sends(c, replied)
  <2>1. CASE ~c.localClose /\ p \in AutoCloseReply
    BY <1>2, <1>4, <1>5, <1>6, <1>7, <2>1 DEF Sends, BodyOps
  <2>2. CASE ~(~c.localClose /\ p \in AutoCloseReply)
    BY <1>4, <1>5, <2>2 DEF Sends
  <2> QED
    BY <2>1, <2>2
<1> HIDE DEF replied
<1>9. s \in States /\ s # "Connecting" /\ (s = "Closed" => replied.localClose)
  BY DEF States
<1> HIDE DEF s
<1>10. /\ d \in ConnRecord /\ d.tx = replied.tx /\ d.rx = replied.rx /\ d.state = s
       /\ (d.localClose <=> replied.localClose) /\ (d.error <=> replied.error)
       /\ (d.peerClose <=> replied.peerClose)
  BY <1>8, <1>9, StateFacts
<1> HIDE DEF d
<1>11. Sends(c, d)
  BY <1>8, <1>10 DEF Sends
<1> QED
  BY <1>1, <1>8, <1>9, <1>10, <1>11 DEF Took

\* handle_frame, for every frame that can follow the handshake.
LEMMA HandledFacts ==
    ASSUME NEW c \in ConnRecord, c.state \in {"Open", "Closing"}, ~c.error, NEW p \in Peers,
           NEW f \in FrameRecord, f.op \in BodyOps
    PROVE  /\ Took(c, Handled(c, p, f))
           /\ Handled(c, p, f).peerClose <=> c.peerClose \/ f.op = "close"
<1>1. CASE f.op = "data"
  BY <1>1, DataStartFacts DEF Handled
<1>2. CASE f.op = "cont"
  BY <1>2, ContinuationFacts DEF Handled
<1>3. CASE f.op = "ping"
  BY <1>3, PingFacts DEF Handled
<1>4. CASE f.op = "pong"
  <2> DEFINE e == <<>>
             d == Push(c, "pong", e)
  <2>1. Handled(c, p, f) = d /\ e \in Seq(Nat)
    BY <1>4 DEF Handled
  <2> HIDE DEF e
  <2>2. /\ d \in ConnRecord /\ d.tx = c.tx /\ d.rx = c.rx /\ d.state = c.state
        /\ (d.localClose <=> c.localClose) /\ (d.error <=> c.error) /\ (d.peerClose <=> c.peerClose)
    BY <2>1, PushFacts
  <2> HIDE DEF d
  <2> QED
    BY <1>4, <2>1, <2>2, TookQuietly
<1>5. CASE f.op = "close"
  BY <1>5, PeerCloseFacts DEF Handled
<1> QED
  BY <1>1, <1>2, <1>3, <1>4, <1>5 DEF BodyOps
-----------------------------------------------------------------------------
(* The driver: what a call of one endpoint does to the two streams.         *)

\* What TypeOK says of the connections and the transport.
LEMMA ConnTypes ==
    ASSUME TypeOK
    PROVE  /\ conn \in [Peers -> ConnRecord] /\ wire \in [Peers -> Frames]
           /\ \A p \in Peers : /\ conn[p] \in ConnRecord /\ conn[p].rx \in Frames
                               /\ conn[p].tx \in Frames /\ wire[p] \in Frames
                               /\ InFlight(p) \in Frames
<1>1. conn \in [Peers -> ConnRecord] /\ wire \in [Peers -> Frames]
  BY DEF TypeOK, ConnRecord, Frames, FrameRecord, MessageRecord, States
<1>2. \A p \in Peers : /\ conn[p] \in ConnRecord /\ conn[p].rx \in Frames
                       /\ conn[p].tx \in Frames /\ wire[p] \in Frames
  BY <1>1 DEF ConnRecord
<1>3. \A p \in Peers : Other(p) \in Peers
  BY DEF Other, Peers
<1>4. \A p \in Peers : InFlight(p) \in Frames
  BY <1>2, <1>3, ConcatProperties DEF InFlight, Frames
<1> QED
  BY <1>1, <1>2, <1>4

\* Two endpoints.
LEMMA OtherFacts ==
    ASSUME NEW p \in Peers
    PROVE  /\ Other(p) \in Peers /\ Other(p) # p /\ Other(Other(p)) = p
           /\ \A q \in Peers : q = p \/ q = Other(p)
BY DEF Other, Peers

\* The stream from p as it would be with the tx_buf of d.
StreamWith(p, d) == conn[Other(p)].rx \o wire[Other(p)] \o d.tx

\* Endpoint p has become d, up to the frames that moved between its buffers and the wire:
\* the stream from p has what d holds, or has lost a part of it because the other stream was
\* dropped.
Became(p, d) ==
    /\ conn' \in [Peers -> ConnRecord] /\ wire' \in [Peers -> Frames]
    /\ conn'[Other(p)] = conn[Other(p)]
    /\ conn'[p].state = d.state
    /\ conn'[p].messages = d.messages /\ conn'[p].fragment = d.fragment
    /\ (conn'[p].localClose <=> d.localClose) /\ (conn'[p].peerClose <=> d.peerClose)
    /\ (conn'[p].error <=> d.error)
    /\ InFlight(Other(p))' = d.rx \o wire[p] \o conn[Other(p)].tx
    /\ \/ InFlight(p)' = StreamWith(p, d)
       \/ ~up[Other(p)] /\ Cut(StreamWith(p, d), InFlight(p)')

\* A call that leaves tx_buf alone.
LEMMA KeptBecomes ==
    ASSUME TypeOK, NEW p \in Peers, NEW d \in ConnRecord, Kept(p, d)
    PROVE  Became(p, d)
<1> DEFINE o == Other(p)
<1>1. o \in Peers /\ o # p /\ Other(o) = p
  BY OtherFacts
<1>2. conn \in [Peers -> ConnRecord] /\ wire \in [Peers -> Frames]
  BY ConnTypes
<1>3. conn' = [conn EXCEPT ![p] = d] /\ wire' = wire
  BY DEF Kept
<1>4. conn' \in [Peers -> ConnRecord] /\ conn'[p] = d /\ conn'[o] = conn[o]
  BY <1>1, <1>2, <1>3
<1>5. InFlight(p)' = StreamWith(p, d)
  BY <1>3, <1>4 DEF InFlight, StreamWith
<1>6. InFlight(o)' = d.rx \o wire[p] \o conn[o].tx
  <2>1. InFlight(o) = conn[p].rx \o wire[p] \o conn[o].tx
    BY <1>1 DEF InFlight
  <2>2. InFlight(o)' = conn'[p].rx \o wire'[p] \o conn'[o].tx
    BY <1>1 DEF InFlight, Other
  <2> QED
    BY <1>3, <1>4, <2>2
<1> QED
  BY <1>2, <1>3, <1>4, <1>5, <1>6 DEF Became

\* A call that flushes: what it wrote is on the wire, or lost.
LEMMA FlushedBecomes ==
    ASSUME TypeOK, NEW p \in Peers, NEW d \in ConnRecord, Flushed(p, d)
    PROVE  Became(p, d)
<1> DEFINE o == Other(p)
           e == <<>>
           k == [d EXCEPT !.tx = e]
<1>1. o \in Peers /\ o # p /\ Other(o) = p
  BY OtherFacts
<1>2. conn \in [Peers -> ConnRecord] /\ wire \in [Peers -> Frames]
  BY ConnTypes
<1>3. /\ conn' = [conn EXCEPT ![p] = k]
      /\ wire' = IF up[o] THEN [wire EXCEPT ![o] = @ \o d.tx] ELSE wire
  BY DEF Flushed, Written
<1>4. e \in Frames /\ e = <<>>
  BY DEF Frames
<1> HIDE DEF e
<1>5. /\ k \in ConnRecord /\ k.tx = e
      /\ k.state = d.state /\ k.rx = d.rx /\ k.messages = d.messages /\ k.fragment = d.fragment
      /\ (k.localClose <=> d.localClose) /\ (k.peerClose <=> d.peerClose)
      /\ (k.error <=> d.error)
  BY <1>4 DEF ConnRecord
<1> HIDE DEF k, o
<1>6. conn' \in [Peers -> ConnRecord] /\ conn'[p] = k /\ conn'[o] = conn[o]
  BY <1>1, <1>2, <1>3, <1>5
<1> DEFINE r == conn[o].rx
           w == wire[o]
           x == d.tx
<1>7. r \in Frames /\ w \in Frames /\ x \in Frames /\ w \o x \in Frames /\ r \o w \in Frames
  BY <1>1, <1>2, ConcatProperties DEF ConnRecord, Frames
<1>8. wire' \in [Peers -> Frames] /\ wire'[p] = wire[p]
      /\ wire'[o] = IF up[o] THEN w \o x ELSE w
  BY <1>1, <1>2, <1>3, <1>7
<1>9. InFlight(p)' = (r \o wire'[o]) \o e
  BY <1>5, <1>6 DEF InFlight, o
<1>10. InFlight(o)' = d.rx \o wire[p] \o conn[o].tx
  <2>1. InFlight(o)' = conn'[p].rx \o wire'[p] \o conn'[o].tx
    BY <1>1 DEF InFlight, Other, o
  <2> QED
    BY <1>5, <1>6, <1>8, <2>1
<1>11. StreamWith(p, d) = (r \o w) \o x
  BY DEF StreamWith, o
<1> HIDE DEF r, w, x
<1>12. CASE up[o]
  <2>1. InFlight(p)' = r \o (w \o x)
    BY <1>4, <1>7, <1>8, <1>9, <1>12, ConcatEmptySeq, ConcatProperties DEF Frames
  <2>2. (r \o w) \o x = r \o (w \o x)
    BY <1>7, ConcatAssociative DEF Frames
  <2> QED
    BY <1>2, <1>5, <1>6, <1>8, <1>10, <1>11, <2>1, <2>2 DEF Became, o
<1>13. CASE ~up[o]
  <2>1. InFlight(p)' = (r \o w) \o e
    BY <1>8, <1>9, <1>13
  <2>2. ((r \o w) \o x) \o e = (r \o w) \o x
    BY <1>4, <1>7, ConcatEmptySeq, ConcatProperties DEF Frames
  <2>3. Cut(StreamWith(p, d), InFlight(p)')
    BY <1>4, <1>7, <1>11, <2>1, <2>2 DEF Cut
  <2> QED
    BY <1>2, <1>5, <1>6, <1>8, <1>10, <1>13, <2>3 DEF Became, o
<1> QED
  BY <1>12, <1>13

\* process(): it flushes when it returns without an error.
LEMMA ProcessedBecomes ==
    ASSUME TypeOK, NEW p \in Peers, NEW d \in ConnRecord, NEW fails, Processed(p, d, fails)
    PROVE  Became(p, d)
BY KeptBecomes, FlushedBecomes DEF Processed
-----------------------------------------------------------------------------
(* The invariant.                                                           *)

Established(p) == conn[p].state \in {"Open", "Closing"}

\* The opening handshake: greetings come first and in one direction each, an established
\* endpoint has its greeting behind it, and a server that waits for one has sent nothing.
Handshake(p) ==
    /\ Only(InFlight(p), Greeting(p) \cup BodyOps)
    /\ GreetsFirst(InFlight(p))
    /\ Established(Other(p)) => Only(InFlight(p), BodyOps)
    /\ conn[p].state = "Connecting" =>
         ~conn[p].localClose /\ ~conn[p].peerClose /\ ~conn[p].error
    /\ p = "server" /\ conn[p].state = "Connecting" => InFlight(p) = <<>>
    /\ p = "client" /\ Established(p) => conn[Other(p)].state # "Connecting"

\* The closing handshake: a Close on its way, or received, was sent by a side that knows.
CloseOrder(p) ==
    /\ Sealed(InFlight(p))
    /\ conn[Other(p)].peerClose => Only(InFlight(p), {"pong"})
    /\ conn[Other(p)].peerClose \/ HasClose(InFlight(p)) => conn[p].localClose
    /\ conn[p].error => conn[p].state = "Closed"

\* NoHalfOpen of one endpoint.
Answerable(p) ==
    /\ conn[p].state = "Closed" /\ (conn[p].peerClose \/ conn[p].error) => conn[p].localClose
    /\ conn[p].localClose =>
         \/ conn[Other(p)].peerClose \/ conn[Other(p)].state = "Closed"
         \/ ~up[Other(p)] \/ ~up[p] \/ HasClose(InFlight(p))

Orderly == \A p \in Peers : Handshake(p) /\ CloseOrder(p) /\ Answerable(p)

-----------------------------------------------------------------------------
(* A step of an endpoint.                                                   *)

\* A frame was taken off rx_buf.
Consumes(c, d) == c.rx # <<>> /\ d.rx = Tail(c.rx)

\* The stream of p after the step: as before, or one frame longer.  The frame is a Pong
\* after a Close; before it, it is a Close exactly when it closes the local side, or the
\* answer of a server that was connecting.
Emits(p, c, d) ==
    \/ d.tx = c.tx /\ (d.localClose <=> c.localClose)
    \/ \E f \in FrameRecord :
         /\ d.tx = Append(c.tx, f)
         /\ \/ f.op \in BodyOps /\ c.state # "Connecting"
            \/ /\ p = "server" /\ c.state = "Connecting" /\ d.state # "Connecting"
               /\ f.op \in Greeting(p)
         /\ c.localClose => f.op = "pong" /\ d.localClose
         /\ ~c.localClose => (d.localClose <=> f.op = "close")

\* What any call of p may do to its connection c.
Moves(p, c, d) ==
    /\ d \in ConnRecord /\ Emits(p, c, d)
    /\ \/ d.rx = c.rx /\ (d.peerClose <=> c.peerClose)
       \/ Consumes(c, d) /\ (d.peerClose <=> c.peerClose \/ Head(c.rx).op = "close")
    /\ d.state = "Connecting" =>
         c.state = "Connecting" /\ ~d.localClose /\ ~d.peerClose /\ ~d.error
    /\ d.state \in {"Open", "Closing"} =>
         c.state \in {"Open", "Closing"} \/ (c.state = "Connecting" /\ Consumes(c, d))
    /\ c.state = "Closed" => d.state = "Closed"
    /\ d.state = "Closed" /\ (d.peerClose \/ d.error) => d.localClose
    /\ d.error => d.state = "Closed"

\* Concatenation with a longer tail or a shorter head.
LEMMA ConcatEnds ==
    ASSUME NEW s \in Frames, NEW t \in Frames
    PROVE  /\ \A f \in FrameRecord : s \o Append(t, f) = Append(s \o t, f)
           /\ s # <<>> => s \o t # <<>> /\ Head(s \o t) = Head(s) /\ Tail(s) \o t = Tail(s \o t)
<1>1. s \o t \in Frames
  BY ConcatProperties DEF Frames
<1>2. ASSUME NEW f \in FrameRecord
      PROVE  s \o Append(t, f) = Append(s \o t, f)
  <2>1. <<f>> \in Frames
    BY DEF Frames
  <2>2. Append(t, f) = t \o <<f>> /\ Append(s \o t, f) = (s \o t) \o <<f>>
    BY <1>1, AppendIsConcat DEF Frames
  <2>3. (s \o t) \o <<f>> = s \o (t \o <<f>>)
    BY <2>1, ConcatAssociative DEF Frames
  <2> QED
    BY <2>2, <2>3
<1>3. ASSUME s # <<>>
      PROVE  s \o t # <<>> /\ Head(s \o t) = Head(s) /\ Tail(s) \o t = Tail(s \o t)
  <2> DEFINE n == Len(s)
             m == Len(t)
             u == s \o t
  <2>1. n \in Nat /\ n # 0 /\ m \in Nat
    BY <1>3, EmptySeq DEF Frames
  <2>2. /\ u \in Seq(FrameRecord) /\ Len(u) = n + m
        /\ \A i \in 1..n + m : u[i] = IF i <= n THEN s[i] ELSE t[i - n]
    BY ConcatProperties DEF Frames
  <2>3. u # <<>>
    BY <2>1, <2>2, EmptySeq
  <2>4. Head(u) = u[1] /\ Head(s) = s[1] /\ 1 \in 1..n + m
    BY <1>3, <2>1, <2>2, <2>3 DEF Frames
  <2>5. /\ Tail(s) \in Seq(FrameRecord) /\ Len(Tail(s)) = n - 1
        /\ \A i \in 1..n - 1 : Tail(s)[i] = s[i + 1]
    BY <1>3, HeadTailProperties DEF Frames
  <2>6. /\ Tail(u) \in Seq(FrameRecord) /\ Len(Tail(u)) = n + m - 1
        /\ \A i \in 1..n + m - 1 : Tail(u)[i] = u[i + 1]
    BY <2>2, <2>3, HeadTailProperties
  <2>7. /\ Tail(s) \o t \in Seq(FrameRecord) /\ Len(Tail(s) \o t) = n - 1 + m
        /\ \A i \in 1..n - 1 + m : (Tail(s) \o t)[i] =
                                     IF i <= n - 1 THEN Tail(s)[i] ELSE t[i - (n - 1)]
    BY <2>5, ConcatProperties DEF Frames
  <2> HIDE DEF u, n, m
  <2>8. n - 1 + m = n + m - 1
    BY <2>1
  <2>9. \A i \in 1..n + m - 1 : (Tail(s) \o t)[i] = Tail(u)[i]
    <3> SUFFICES ASSUME NEW i \in 1..n + m - 1
                 PROVE  (Tail(s) \o t)[i] = Tail(u)[i]
      OBVIOUS
    <3>1. i \in Nat /\ i + 1 \in 1..n + m /\ i >= 1
      BY <2>1
    <3>2. CASE i <= n - 1
      <4>1. i \in 1..n - 1 /\ i + 1 <= n
        BY <2>1, <3>1, <3>2
      <4> QED
        BY <2>2, <2>5, <2>6, <2>7, <2>8, <3>1, <3>2, <4>1
    <3>3. CASE ~(i <= n - 1)
      <4>1. ~(i + 1 <= n) /\ (i + 1) - n = i - (n - 1)
        BY <2>1, <3>1, <3>3
      <4> QED
        BY <2>2, <2>6, <2>7, <2>8, <3>1, <3>3, <4>1
    <3> QED
      BY <3>2, <3>3
  <2>10. Tail(s) \o t = Tail(u)
    BY <2>6, <2>7, <2>8, <2>9, SeqEqual
  <2>11. u[1] = s[1]
    BY <2>1, <2>2, <2>4
  <2> QED
    BY <2>3, <2>4, <2>10, <2>11 DEF u
<1> QED
  BY <1>2, <1>3

\* The stream from p after a step of p.
LEMMA OwnStream ==
    ASSUME TypeOK, NEW p \in Peers, NEW d, Moves(p, conn[p], d), Became(p, d)
    PROVE  LET c == conn[p]
               s == InFlight(p)
               t == InFlight(p)'
           IN  /\ t \in Frames
               /\ Only(s, Greeting(p) \cup BodyOps) => Only(t, Greeting(p) \cup BodyOps)
               /\ GreetsFirst(s) /\ (p = "server" /\ c.state = "Connecting" => s = <<>>) =>
                    GreetsFirst(t)
               /\ Only(s, BodyOps) /\ ~(p = "server" /\ c.state = "Connecting") =>
                    Only(t, BodyOps)
               /\ Sealed(s) /\ (HasClose(s) => c.localClose) => Sealed(t)
               /\ Only(s, {"pong"}) /\ c.localClose => Only(t, {"pong"})
               /\ HasClose(t) => HasClose(s) \/ d.localClose
               /\ HasClose(s) /\ up[Other(p)] => HasClose(t)
               /\ d.localClose /\ ~c.localClose /\ up[Other(p)] => HasClose(t)
               /\ c.localClose => d.localClose
               /\ d.state = "Connecting" /\ s = <<>> => t = <<>>
<1> DEFINE c == conn[p]
           s == InFlight(p)
           t == InFlight(p)'
           u == StreamWith(p, d)
           g == Greeting(p) \cup BodyOps
           a == conn[Other(p)].rx \o wire[Other(p)]
<1>1. s \in Frames /\ c \in ConnRecord /\ c.tx \in Frames /\ a \in Frames
  BY ConnTypes, OtherFacts, ConcatProperties DEF Frames
<1>2. Emits(p, c, d) /\ (d.state = "Connecting" => c.state = "Connecting")
  BY DEF Moves
<1>3. t = u \/ (~up[Other(p)] /\ Cut(u, t))
  BY DEF Became
<1>4. s = a \o c.tx /\ u = a \o d.tx
  BY DEF InFlight, StreamWith
<1>5. \/ u = s /\ (d.localClose <=> c.localClose)
      \/ \E f \in FrameRecord :
           /\ u = Append(s, f)
           /\ \/ f.op \in BodyOps /\ c.state # "Connecting"
              \/ /\ p = "server" /\ c.state = "Connecting" /\ d.state # "Connecting"
                 /\ f.op \in Greeting(p)
           /\ c.localClose => f.op = "pong" /\ d.localClose
           /\ ~c.localClose => (d.localClose <=> f.op = "close")
  <2>1. \A f \in FrameRecord : a \o Append(c.tx, f) = Append(a \o c.tx, f)
    BY <1>1, ConcatEnds
  <2> HIDE DEF a, c, s, u
  <2> QED
    BY <1>2, <1>4, <2>1 DEF Emits
<1> HIDE DEF a, c, s, t, u
<1> DEFINE Follows ==
             /\ u \in Frames
             /\ Only(s, g) => Only(u, g)
             /\ GreetsFirst(s) /\ (p = "server" /\ c.state = "Connecting" => s = <<>>) =>
               GreetsFirst(u)
             /\ Only(s, BodyOps) /\ ~(p = "server" /\ c.state = "Connecting") =>
               Only(u, BodyOps)
             /\ Sealed(s) /\ (HasClose(s) => c.localClose) => Sealed(u)
             /\ Only(s, {"pong"}) /\ c.localClose => Only(u, {"pong"})
             /\ HasClose(u) => HasClose(s) \/ d.localClose
             /\ HasClose(s) => HasClose(u)
             /\ d.localClose /\ ~c.localClose => HasClose(u)
             /\ c.localClose => d.localClose
             /\ d.state = "Connecting" /\ s = <<>> => u = <<>>
<1>6. Follows
  <2>1. CASE u = s /\ (d.localClose <=> c.localClose)
    BY <1>1, <2>1
  <2>2. ASSUME NEW f \in FrameRecord,
               u = Append(s, f),
               \/ f.op \in BodyOps /\ c.state # "Connecting"
               \/ /\ p = "server" /\ c.state = "Connecting" /\ d.state # "Connecting"
                  /\ f.op \in Greeting(p),
               c.localClose => f.op = "pong" /\ d.localClose,
               ~c.localClose => (d.localClose <=> f.op = "close")
        PROVE  Follows
    <3>1. /\ u \in Frames
          /\ \A ops : Only(u, ops) <=> Only(s, ops) /\ f.op \in ops
          /\ HasClose(u) <=> HasClose(s) \/ f.op = "close"
          /\ Sealed(s) /\ (HasClose(s) => f.op = "pong") => Sealed(u)
          /\ GreetsFirst(s) /\ (s = <<>> \/ f.op \in BodyOps) => GreetsFirst(u)
      BY <1>1, <2>2, StreamAppend
    <3>2. f.op \in g
      BY <2>2
    <3> HIDE DEF g
    <3>3. c.localClose => f.op \in {"pong"}
      BY <2>2
    <3>4. d.state = "Connecting" => FALSE
      BY <1>2, <2>2
    <3>5. (p = "server" /\ c.state = "Connecting") \/ f.op \in BodyOps
      BY <2>2
    <3> QED
      BY <2>2, <3>1, <3>2, <3>3, <3>4, <3>5
  <2> QED
    BY <1>5, <2>1, <2>2
<1>7. CASE t = u
  BY <1>6, <1>7 DEF c, s, t, u
<1>8. CASE ~up[Other(p)] /\ Cut(u, t)
  <2>1. /\ t \in Frames
        /\ \A ops : Only(u, ops) => Only(t, ops)
        /\ HasClose(t) => HasClose(u)
        /\ Sealed(u) => Sealed(t)
        /\ GreetsFirst(u) => GreetsFirst(t)
        /\ u = <<>> => t = <<>>
    BY <1>8, StreamCut
  <2> HIDE DEF g
  <2>2. /\ Only(s, g) => Only(t, g)
        /\ Only(s, BodyOps) /\ ~(p = "server" /\ c.state = "Connecting") => Only(t, BodyOps)
        /\ Only(s, {"pong"}) /\ c.localClose => Only(t, {"pong"})
    BY <1>6, <2>1
  <2> QED
    BY <1>6, <1>8, <2>1, <2>2 DEF c, s, t, u, g
<1> QED
  BY <1>3, <1>7, <1>8

\* The stream to p after a step of p: it is as it was, or its first frame was processed.
LEMMA PeerStream ==
    ASSUME TypeOK, NEW p \in Peers, NEW o \in Peers, o = Other(p), NEW d,
           Moves(p, conn[p], d), Became(p, d)
    PROVE  LET c == conn[p]
               x == InFlight(o)
               y == InFlight(o)'
           IN  /\ y \in Frames
               /\ \A ops : Only(x, ops) => Only(y, ops)
               /\ HasClose(y) => HasClose(x)
               /\ Sealed(x) => Sealed(y)
               /\ GreetsFirst(x) => GreetsFirst(y)
               /\ x = <<>> => y = <<>>
               /\ HasClose(x) => HasClose(y) \/ d.peerClose
               /\ Sealed(x) /\ (c.peerClose => Only(x, {"pong"})) /\ d.peerClose =>
                    Only(y, {"pong"})
               /\ d.peerClose => c.peerClose \/ HasClose(x)
               /\ c.peerClose => d.peerClose
               /\ c.state = "Connecting" /\ d.state \in {"Open", "Closing"} =>
                    x # <<>> /\ (GreetsFirst(x) => Only(y, BodyOps))
<1> DEFINE c == conn[p]
           x == InFlight(o)
           y == InFlight(o)'
           w == wire[p]
           e == conn[o].tx
<1>0. Other(o) = p
  BY OtherFacts
<1>1. x \in Frames /\ c \in ConnRecord /\ c.rx \in Frames /\ w \in Frames /\ e \in Frames
  BY ConnTypes, OtherFacts
<1>2. /\ \/ d.rx = c.rx /\ (d.peerClose <=> c.peerClose)
         \/ Consumes(c, d) /\ (d.peerClose <=> c.peerClose \/ Head(c.rx).op = "close")
      /\ d.state \in {"Open", "Closing"} =>
           c.state \in {"Open", "Closing"} \/ (c.state = "Connecting" /\ Consumes(c, d))
  BY DEF Moves
<1>3. x = c.rx \o w \o e /\ y = d.rx \o w \o e
  BY <1>0 DEF InFlight, Became
<1>4. c.rx # <<>> => /\ x # <<>> /\ Head(x) = Head(c.rx)
                     /\ (Tail(c.rx) \o w) \o e = Tail(x)
  <2> SUFFICES ASSUME c.rx # <<>>
               PROVE  /\ x # <<>> /\ Head(x) = Head(c.rx)
                      /\ (Tail(c.rx) \o w) \o e = Tail(x)
    OBVIOUS
  <2> DEFINE q == c.rx
             h == q \o w
  <2>1. h \in Frames
    BY <1>1, ConcatProperties DEF Frames
  <2>2. h # <<>> /\ Head(h) = Head(q) /\ Tail(q) \o w = Tail(h)
    BY <1>1, ConcatEnds
  <2>3. x = h \o e
    BY <1>3
  <2> HIDE DEF h, x
  <2>4. x # <<>> /\ Head(x) = Head(h) /\ Tail(h) \o e = Tail(x)
    BY <1>1, <2>1, <2>2, <2>3, ConcatEnds
  <2> QED
    BY <2>2, <2>4
<1> HIDE DEF c, x, y, w, e
<1>5. CASE d.rx = c.rx /\ (d.peerClose <=> c.peerClose)
  <2>1. y = x
    BY <1>3, <1>5
  <2>2. c.state = "Connecting" /\ d.state \in {"Open", "Closing"} =>
          c.rx # <<>> /\ d.rx = Tail(c.rx)
    BY <1>2 DEF Consumes
  <2>3. c.rx # <<>> => c.rx # Tail(c.rx)
    <3> SUFFICES ASSUME c.rx # <<>> PROVE c.rx # Tail(c.rx)
      OBVIOUS
    <3>1. Len(c.rx) \in Nat /\ Len(Tail(c.rx)) = Len(c.rx) - 1
      BY <1>1, HeadTailProperties DEF Frames
    <3>2. Len(Tail(c.rx)) # Len(c.rx)
      BY <3>1
    <3> QED
      BY <3>2
  <2> QED
    BY <1>1, <1>5, <2>1, <2>2, <2>3 DEF c, x, y
<1>6. CASE Consumes(c, d) /\ (d.peerClose <=> c.peerClose \/ Head(c.rx).op = "close")
  <2>1. c.rx # <<>> /\ d.rx = Tail(c.rx)
    BY <1>6 DEF Consumes
  <2>2. x # <<>> /\ Head(x) = Head(c.rx) /\ y = Tail(x)
    BY <1>3, <1>4, <2>1
  <2>3. /\ y \in Frames
        /\ \A ops : Only(x, ops) => Only(y, ops) /\ Head(x).op \in ops
        /\ HasClose(x) => HasClose(y) \/ Head(x).op = "close"
        /\ HasClose(y) => HasClose(x)
        /\ Head(x).op = "close" => HasClose(x)
        /\ Sealed(x) => Sealed(y) /\ (Head(x).op = "close" => Only(y, {"pong"}))
        /\ GreetsFirst(x) => GreetsFirst(y) /\ Only(y, BodyOps)
    BY <1>1, <2>2, StreamTail
  <2> QED
    BY <1>6, <2>2, <2>3 DEF c, x, y
<1> QED
  BY <1>2, <1>5, <1>6

\* Any call of an endpoint keeps both streams and both connections in order.
LEMMA EndpointStep ==
    ASSUME TypeOK, Orderly, NEW p \in Peers, NEW d, Moves(p, conn[p], d), Became(p, d), up' = up
    PROVE  Orderly'
<1> DEFINE c == conn[p]
<1>1. PICK o \in Peers : o = Other(p)
  BY OtherFacts
<1>2. o # p /\ Other(o) = p /\ (\A q \in Peers : q = p \/ q = o)
  BY <1>1, OtherFacts
<1> DEFINE b == conn[o]
           s == InFlight(p)
           t == InFlight(p)'
           x == InFlight(o)
           y == InFlight(o)'
<1>3. /\ Handshake(p) /\ CloseOrder(p) /\ Answerable(p)
      /\ Handshake(o) /\ CloseOrder(o) /\ Answerable(o)
  BY DEF Orderly
<1>4. /\ conn'[o] = b /\ conn'[p].state = d.state
      /\ (conn'[p].localClose <=> d.localClose) /\ (conn'[p].peerClose <=> d.peerClose)
      /\ (conn'[p].error <=> d.error)
  BY <1>1 DEF Became
<1>5. /\ t \in Frames
      /\ Only(s, Greeting(p) \cup BodyOps) => Only(t, Greeting(p) \cup BodyOps)
      /\ GreetsFirst(s) /\ (p = "server" /\ c.state = "Connecting" => s = <<>>) => GreetsFirst(t)
      /\ Only(s, BodyOps) /\ ~(p = "server" /\ c.state = "Connecting") => Only(t, BodyOps)
      /\ Sealed(s) /\ (HasClose(s) => c.localClose) => Sealed(t)
      /\ Only(s, {"pong"}) /\ c.localClose => Only(t, {"pong"})
      /\ HasClose(t) => HasClose(s) \/ d.localClose
      /\ HasClose(s) /\ up[o] => HasClose(t)
      /\ d.localClose /\ ~c.localClose /\ up[o] => HasClose(t)
      /\ c.localClose => d.localClose
      /\ d.state = "Connecting" /\ s = <<>> => t = <<>>
  BY <1>1, OwnStream
<1>6. /\ y \in Frames
      /\ \A ops : Only(x, ops) => Only(y, ops)
      /\ HasClose(y) => HasClose(x)
      /\ Sealed(x) => Sealed(y)
      /\ GreetsFirst(x) => GreetsFirst(y)
      /\ x = <<>> => y = <<>>
      /\ HasClose(x) => HasClose(y) \/ d.peerClose
      /\ Sealed(x) /\ (c.peerClose => Only(x, {"pong"})) /\ d.peerClose => Only(y, {"pong"})
      /\ d.peerClose => c.peerClose \/ HasClose(x)
      /\ c.peerClose => d.peerClose
      /\ c.state = "Connecting" /\ d.state \in {"Open", "Closing"} =>
           x # <<>> /\ (GreetsFirst(x) => Only(y, BodyOps))
  BY <1>1, PeerStream
<1>7. /\ d.state = "Connecting" =>
           c.state = "Connecting" /\ ~d.localClose /\ ~d.peerClose /\ ~d.error
      /\ d.state \in {"Open", "Closing"} => c.state \in {"Open", "Closing", "Connecting"}
      /\ c.state = "Closed" => d.state = "Closed"
      /\ d.state = "Closed" /\ (d.peerClose \/ d.error) => d.localClose
      /\ d.error => d.state = "Closed"
  BY DEF Moves
<1>8. /\ Other(p) = o /\ Other(o) = p
      /\ \A q \in Peers : q = "client" \/ q = "server"
  BY <1>1, <1>2 DEF Peers
<1>9. Handshake(p)'
  <2>1. Only(t, Greeting(p) \cup BodyOps) /\ GreetsFirst(t)
    BY <1>3, <1>5 DEF Handshake
  <2>2. b.state \in {"Open", "Closing"} => Only(t, BodyOps)
    <3>1. b.state \in {"Open", "Closing"} => Only(s, BodyOps)
      BY <1>3, <1>8 DEF Handshake, Established
    <3>2. p = "server" /\ b.state \in {"Open", "Closing"} => c.state # "Connecting"
      <4>1. p = "server" => o = "client"
        BY <1>2, <1>8
      <4> QED
        BY <1>3, <1>8, <4>1 DEF Handshake, Established
    <3> QED
      BY <1>5, <3>1, <3>2
  <2>3. d.state = "Connecting" => ~d.localClose /\ ~d.peerClose /\ ~d.error
    BY <1>7
  <2>4. p = "server" /\ d.state = "Connecting" => t = <<>>
    BY <1>3, <1>5, <1>7 DEF Handshake
  <2>5. p = "client" /\ d.state \in {"Open", "Closing"} => b.state # "Connecting"
    <3>1. p = "client" => o = "server"
      BY <1>2, <1>8
    <3> QED
      BY <1>3, <1>6, <1>7, <1>8, <3>1 DEF Handshake, Established
  <2> HIDE DEF t, c, s, x, y
  <2> QED
    BY <1>4, <1>8, <2>1, <2>2, <2>3, <2>4, <2>5 DEF Handshake, Established, t
<1>10. Handshake(o)'
  <2>1. Only(y, Greeting(o) \cup BodyOps) /\ GreetsFirst(y)
    BY <1>3, <1>6 DEF Handshake
  <2>2. d.state \in {"Open", "Closing"} => Only(y, BodyOps)
    BY <1>3, <1>6, <1>7, <1>8 DEF Handshake, Established
  <2>3. b.state = "Connecting" => ~b.localClose /\ ~b.peerClose /\ ~b.error
    BY <1>3 DEF Handshake
  <2>4. o = "server" /\ b.state = "Connecting" => y = <<>>
    BY <1>3, <1>6 DEF Handshake
  <2>5. o = "client" /\ b.state \in {"Open", "Closing"} => d.state # "Connecting"
    BY <1>3, <1>7, <1>8 DEF Handshake, Established
  <2> HIDE DEF t, c, s, x, y
  <2> QED
    BY <1>4, <1>8, <2>1, <2>2, <2>3, <2>4, <2>5 DEF Handshake, Established, y
<1>11. CloseOrder(p)'
  <2>1. Sealed(t)
    BY <1>3, <1>5 DEF CloseOrder
  <2>2. b.peerClose => Only(t, {"pong"})
    BY <1>3, <1>5, <1>8 DEF CloseOrder
  <2>3. b.peerClose \/ HasClose(t) => d.localClose
    BY <1>3, <1>5, <1>8 DEF CloseOrder
  <2> HIDE DEF t, c, s, x, y
  <2> QED
    BY <1>4, <1>7, <1>8, <2>1, <2>2, <2>3 DEF CloseOrder, t
<1>12. CloseOrder(o)'
  <2>1. Sealed(y) /\ (b.error => b.state = "Closed")
    BY <1>3, <1>6 DEF CloseOrder
  <2>2. d.peerClose => Only(y, {"pong"})
    BY <1>3, <1>6, <1>8 DEF CloseOrder
  <2>3. d.peerClose \/ HasClose(y) => b.localClose
    BY <1>3, <1>6, <1>8 DEF CloseOrder
  <2> HIDE DEF t, c, s, x, y
  <2> QED
    BY <1>4, <1>8, <2>1, <2>2, <2>3 DEF CloseOrder, y
<1>13. Answerable(p)'
  <2>1. d.localClose => b.peerClose \/ b.state = "Closed" \/ ~up[o] \/ ~up[p] \/ HasClose(t)
    BY <1>3, <1>5, <1>8 DEF Answerable
  <2> HIDE DEF t, c, s, x, y
  <2> QED
    BY <1>4, <1>7, <1>8, <2>1 DEF Answerable, t
<1>14. Answerable(o)'
  <2>1. b.state = "Closed" /\ (b.peerClose \/ b.error) => b.localClose
    BY <1>3 DEF Answerable
  <2>2. b.localClose => d.peerClose \/ d.state = "Closed" \/ ~up[p] \/ ~up[o] \/ HasClose(y)
    BY <1>3, <1>6, <1>7, <1>8 DEF Answerable
  <2> HIDE DEF t, c, s, x, y
  <2> QED
    BY <1>4, <1>8, <2>1, <2>2 DEF Answerable, y
<1> QED
  BY <1>2, <1>9, <1>10, <1>11, <1>12, <1>13, <1>14 DEF Orderly

-----------------------------------------------------------------------------
(* Every action is a step of an endpoint.                                   *)

EndpointMoves(p) == \E d : Moves(p, conn[p], d) /\ Became(p, d)

IsData(f) == f.op \in {"data", "cont"}

\* No data frame is queued or taken, and the reassembly buffer stays as it is.
Keeps(c, d) ==
    /\ d.tx = c.tx \/ \E f \in FrameRecord : ~IsData(f) /\ d.tx = Append(c.tx, f)
    /\ d.rx = c.rx \/ (Consumes(c, d) /\ ~IsData(Head(c.rx)))
    /\ d.fragment = c.fragment /\ (d.error <=> c.error)

\* The step of an endpoint that moves no data.  A side is closed by the application first,
\* or in answer to the Close of the other side.
QuietMoves(p) ==
    \E d : /\ Moves(p, conn[p], d) /\ Became(p, d) /\ Keeps(conn[p], d)
           /\ d.localClose => conn[p].localClose \/ d.peerClose \/ initiated'[p]

\* The next frame of rx_buf: on an established connection it is one the handlers know, and
\* before that it may be a greeting of the other side.
LEMMA NextFrame ==
    ASSUME TypeOK, Orderly, NEW p \in Peers, conn[p].rx # <<>>
    PROVE  LET c == conn[p]
               d == Consumed(p)
               f == Head(conn[p].rx)
           IN  /\ f \in FrameRecord
               /\ Established(p) => f.op \in BodyOps
               /\ f.op \in Greeting(Other(p)) \cup BodyOps
               /\ d \in ConnRecord /\ Consumes(c, d)
               /\ d.state = c.state /\ d.tx = c.tx /\ d.messages = c.messages
               /\ d.fragment = c.fragment /\ (d.localClose <=> c.localClose)
               /\ (d.peerClose <=> c.peerClose) /\ (d.error <=> c.error)
<1> DEFINE c == conn[p]
           o == Other(p)
           r == Tail(c.rx)
           w == wire[p]
           e == conn[o].tx
           h == c.rx \o w
<1>1. o \in Peers /\ Other(o) = p
  BY OtherFacts
<1>2. c \in ConnRecord /\ c.rx \in Frames /\ w \in Frames /\ e \in Frames
  BY <1>1, ConnTypes
<1>3. r \in Frames /\ Head(c.rx) \in FrameRecord
  BY <1>2, StreamTail
<1>4. Consumed(p) = [c EXCEPT !.rx = r]
  BY DEF Consumed
<1>5. InFlight(o) = h \o e
  BY <1>1 DEF InFlight
<1> HIDE DEF o, c, r, w, e
<1>6. h \in Frames /\ h # <<>> /\ Head(h) = Head(c.rx)
  BY <1>2, ConcatEnds, ConcatProperties DEF c, Frames
<1> HIDE DEF h
<1>7. InFlight(o) \in Frames /\ InFlight(o) # <<>> /\ Head(InFlight(o)) = Head(c.rx)
  BY <1>2, <1>5, <1>6, ConcatEnds, ConcatProperties DEF Frames
<1>8. /\ Only(InFlight(o), Greeting(o) \cup BodyOps)
      /\ Established(p) => Only(InFlight(o), BodyOps)
  BY <1>1 DEF Orderly, Handshake
<1>9. \A ops : Only(InFlight(o), ops) => Head(c.rx).op \in ops
  BY <1>7, StreamTail
<1>10. Head(c.rx).op \in Greeting(o) \cup BodyOps /\ (Established(p) => Head(c.rx).op \in BodyOps)
  BY <1>8, <1>9
<1>11. LET d == Consumed(p)
       IN  /\ d \in ConnRecord /\ d.rx = r
           /\ d.state = c.state /\ d.tx = c.tx /\ d.messages = c.messages
           /\ d.fragment = c.fragment /\ (d.localClose <=> c.localClose)
           /\ (d.peerClose <=> c.peerClose) /\ (d.error <=> c.error)
  BY <1>2, <1>3, <1>4 DEF ConnRecord
<1> QED
  BY <1>3, <1>10, <1>11 DEF Consumes, c, r, o

\* What the invariant says of an established endpoint.
LEMMA EstablishedFacts ==
    ASSUME Orderly, NEW p \in Peers
    PROVE  /\ Established(p) => ~conn[p].error
           /\ conn[p].state = "Connecting" =>
                ~conn[p].localClose /\ ~conn[p].peerClose /\ ~conn[p].error
           /\ conn[p].state = "Closed" /\ (conn[p].peerClose \/ conn[p].error) =>
                conn[p].localClose
           /\ conn[p].error => conn[p].state = "Closed"
BY DEF Orderly, Handshake, CloseOrder, Answerable, Established

\* process_frames
LEMMA ProcessFrameMoves ==
    ASSUME TypeOK, Orderly, NEW p \in Peers, ProcessFrame(p)
    PROVE  EndpointMoves(p)
<1> DEFINE c == conn[p]
           k == Consumed(p)
           f == Head(c.rx)
           d == Handled(k, p, f)
<1>1. c.rx # <<>> /\ c.state \in {"Open", "Closing"} /\ Processed(p, d, d.error)
  BY DEF ProcessFrame, InProcess
<1>2. /\ f \in FrameRecord /\ f.op \in BodyOps
      /\ k \in ConnRecord /\ Consumes(c, k)
      /\ k.state = c.state /\ k.tx = c.tx /\ (k.localClose <=> c.localClose)
      /\ (k.peerClose <=> c.peerClose) /\ (k.error <=> c.error)
  BY <1>1, NextFrame DEF Established
<1>3. ~c.error
  BY <1>1, EstablishedFacts DEF Established
<1> HIDE DEF c, k, f
<1>4. Took(k, d) /\ (d.peerClose <=> k.peerClose \/ f.op = "close")
  BY <1>1, <1>2, <1>3, HandledFacts
<1> HIDE DEF d
<1>5. Became(p, d)
  BY <1>1, <1>4, ProcessedBecomes DEF Took
<1>6. Consumes(c, d) /\ (d.peerClose <=> c.peerClose \/ f.op = "close")
  BY <1>2, <1>4 DEF Took, Consumes
<1>7. Emits(p, c, d)
  <2>1. Sends(k, d)
    BY <1>4 DEF Took
  <2> QED
    BY <1>1, <1>2, <2>1 DEF Sends, Emits, BodyOps
<1>8. /\ d \in ConnRecord /\ d.state # "Connecting" /\ (d.state = "Closed" => d.localClose)
      /\ (d.error => d.state = "Closed")
  BY <1>4 DEF Took
<1>9. Moves(p, c, d)
  BY <1>1, <1>6, <1>7, <1>8 DEF Moves, f
<1> QED
  BY <1>5, <1>9 DEF EndpointMoves, c

\* A call that changes nothing but tx_buf and, with it, the state: all the calls of the
\* application but close() before the connection is there.
LEMMA QueueMoves ==
    ASSUME TypeOK, Orderly, NEW p \in Peers, NEW f \in FrameRecord,
           conn[p].state # "Connecting", f.op \in BodyOps \ {"close"},
           conn[p].localClose => f.op = "pong"
    PROVE  LET d == Queue(conn[p], f)
           IN  /\ d \in ConnRecord /\ Moves(p, conn[p], d)
               /\ (d.localClose <=> conn[p].localClose)
               /\ ~IsData(f) => Keeps(conn[p], d)
<1> DEFINE c == conn[p]
           d == Queue(c, f)
<1>1. c \in ConnRecord
  BY ConnTypes
<1>2. /\ d \in ConnRecord /\ d.tx = Append(c.tx, f)
      /\ d.state = c.state /\ d.rx = c.rx
      /\ (d.localClose <=> c.localClose) /\ (d.peerClose <=> c.peerClose)
      /\ (d.error <=> c.error) /\ d.fragment = c.fragment
  BY <1>1, QueueFacts
<1>3. /\ c.state = "Closed" /\ (c.peerClose \/ c.error) => c.localClose
      /\ c.error => c.state = "Closed"
  BY EstablishedFacts
<1>4. c.state \in States
  BY <1>1 DEF ConnRecord
<1> HIDE DEF c, d
<1>5. Emits(p, c, d)
  BY <1>2 DEF Emits, c
<1>6. Moves(p, c, d)
  BY <1>2, <1>3, <1>5 DEF Moves, c
<1>7. ~IsData(f) => Keeps(c, d)
  BY <1>2 DEF Keeps
<1> QED
  BY <1>2, <1>6, <1>7 DEF c, d

\* The opening handshake: process_handshake of the server, ...
LEMMA AcceptMoves ==
    ASSUME TypeOK, Orderly, NEW p \in Peers, AcceptRequest(p) \/ RejectRequest(p)
    PROVE  QuietMoves(p)
<1> DEFINE c == conn[p]
           k == Consumed(p)
           f == Head(c.rx)
<1>1. c.rx # <<>> /\ c.state = "Connecting" /\ f.op = "request"
  BY DEF AcceptRequest, RejectRequest, InProcess
<1>2. /\ f.op \in Greeting(Other(p)) \cup BodyOps
      /\ k \in ConnRecord /\ Consumes(c, k)
      /\ k.state = c.state /\ k.tx = c.tx /\ (k.localClose <=> c.localClose)
      /\ (k.peerClose <=> c.peerClose) /\ (k.error <=> c.error) /\ k.fragment = c.fragment
  BY <1>1, NextFrame
<1>3. ~c.localClose /\ ~c.peerClose /\ ~c.error
  BY <1>1, EstablishedFacts
<1>4. p = "server"
  <2>1. "request" \notin BodyOps /\ "request" \notin {"response", "reject"}
    BY DEF BodyOps
  <2>2. p \in {"client", "server"}
    BY DEF Peers
  <2>3. Greeting("server") = {"response", "reject"} /\ Other("client") = "server"
    BY DEF Greeting, Other
  <2> QED
    BY <1>1, <1>2, <2>1, <2>2, <2>3
<1>5. /\ Frame("response") \in FrameRecord /\ Frame("response").op = "response"
      /\ Frame("reject") \in FrameRecord /\ Frame("reject").op = "reject"
  BY FrameFacts DEF Opcodes
<1>6. Greeting("server") = {"response", "reject"}
  BY DEF Greeting
<1>7. f.op # "close" /\ ~IsData(f)
  BY <1>1 DEF IsData
<1> DEFINE q(g) == Queue(k, g)
           m(b, s) == [b EXCEPT !.state = s]
<1>8. ASSUME NEW g \in FrameRecord, g.op \in {"response", "reject"}, NEW s \in {"Open", "Closed"}
      PROVE  /\ m(q(g), s) \in ConnRecord /\ Moves(p, c, m(q(g), s)) /\ Keeps(c, m(q(g), s))
             /\ ~m(q(g), s).localClose
  <2> DEFINE a == q(g)
             d == m(a, s)
  <2>1. /\ a \in ConnRecord /\ a.tx = Append(k.tx, g)
        /\ a.state = k.state /\ a.rx = k.rx
        /\ (a.localClose <=> k.localClose) /\ (a.peerClose <=> k.peerClose)
        /\ (a.error <=> k.error) /\ a.fragment = k.fragment
    BY <1>2, QueueFacts
  <2> HIDE DEF a, c, k, f
  <2>2. /\ d \in ConnRecord /\ d.state = s
        /\ d.tx = a.tx /\ d.rx = a.rx
        /\ (d.localClose <=> a.localClose) /\ (d.peerClose <=> a.peerClose)
        /\ (d.error <=> a.error) /\ d.fragment = a.fragment
    <3>1. s \in States
      BY DEF States
    <3> QED
      BY <2>1, <3>1, StateFacts
  <2> HIDE DEF d
  <2>3. Emits(p, c, d)
    <3>1. d.tx = Append(c.tx, g) /\ g.op \in Greeting(p) /\ g.op # "close"
      BY <1>2, <1>4, <1>6, <1>8, <2>1, <2>2
    <3> QED
      BY <1>1, <1>2, <1>3, <1>4, <2>1, <2>2, <3>1 DEF Emits
  <2>4. Consumes(c, d)
    BY <1>2, <2>1, <2>2 DEF Consumes
  <2>5. Moves(p, c, d)
    BY <1>1, <1>2, <1>3, <1>7, <2>1, <2>2, <2>3, <2>4 DEF Moves, f
  <2>6. Keeps(c, d)
    <3>1. d.tx = Append(c.tx, g) /\ ~IsData(g)
      BY <1>2, <1>8, <2>1, <2>2 DEF IsData
    <3> QED
      BY <1>2, <1>7, <2>1, <2>2, <2>4, <3>1 DEF Keeps, f
  <2> QED
    BY <1>2, <1>3, <2>1, <2>2, <2>5, <2>6 DEF d, a
<1>9. /\ m(k, "Closed") \in ConnRecord /\ Moves(p, c, m(k, "Closed")) /\ Keeps(c, m(k, "Closed"))
      /\ ~m(k, "Closed").localClose
  <2> DEFINE d == m(k, "Closed")
  <2> HIDE DEF c, k, f
  <2>2. /\ d \in ConnRecord /\ d.state = "Closed"
        /\ d.tx = k.tx /\ d.rx = k.rx
        /\ (d.localClose <=> k.localClose) /\ (d.peerClose <=> k.peerClose)
        /\ (d.error <=> k.error) /\ d.fragment = k.fragment
    BY <1>2, StateFacts DEF States
  <2> HIDE DEF d
  <2>3. Emits(p, c, d)
    BY <1>2, <2>2 DEF Emits
  <2>4. Consumes(c, d)
    BY <1>2, <2>2 DEF Consumes
  <2>5. Moves(p, c, d)
    BY <1>1, <1>2, <1>3, <1>7, <2>2, <2>3, <2>4 DEF Moves, f
  <2>6. Keeps(c, d)
    BY <1>2, <1>7, <2>2, <2>4 DEF Keeps, f
  <2> QED
    BY <1>2, <1>3, <2>2, <2>5, <2>6 DEF d
<1>10. CASE AcceptRequest(p)
  <2> DEFINE d == m(q(Frame("response")), "Open")
  <2>1. Processed(p, d, FALSE)
    BY <1>10 DEF AcceptRequest
  <2>2. d \in ConnRecord /\ Moves(p, c, d) /\ Keeps(c, d) /\ ~d.localClose
    BY <1>5, <1>8
  <2> HIDE DEF d
  <2> QED
    BY <2>1, <2>2, ProcessedBecomes DEF QuietMoves
<1>11. CASE RejectRequest(p)
  <2>1. PICK b \in {k, q(Frame("reject"))} : Processed(p, m(b, "Closed"), TRUE)
    BY <1>11 DEF RejectRequest
  <2>2. /\ m(b, "Closed") \in ConnRecord /\ Moves(p, c, m(b, "Closed"))
        /\ Keeps(c, m(b, "Closed")) /\ ~m(b, "Closed").localClose
    BY <1>5, <1>8, <1>9
  <2> QED
    BY <2>1, <2>2, ProcessedBecomes DEF QuietMoves
<1> QED
  BY <1>10, <1>11

\* ... and of the client.
LEMMA ResponseMoves ==
    ASSUME TypeOK, Orderly, NEW p \in Peers, HandshakeResponse(p)
    PROVE  QuietMoves(p)
<1> DEFINE c == conn[p]
           k == Consumed(p)
           f == Head(c.rx)
           m(s) == [k EXCEPT !.state = s]
<1>1. c.rx # <<>> /\ c.state = "Connecting" /\ f.op \in {"response", "reject"}
  BY DEF HandshakeResponse, InProcess
<1>2. /\ k \in ConnRecord /\ Consumes(c, k)
      /\ k.state = c.state /\ k.tx = c.tx /\ (k.localClose <=> c.localClose)
      /\ (k.peerClose <=> c.peerClose) /\ (k.error <=> c.error) /\ k.fragment = c.fragment
  BY <1>1, NextFrame
<1>3. ~c.localClose /\ ~c.peerClose /\ ~c.error
  BY <1>1, EstablishedFacts
<1>4. ASSUME NEW s \in {"Open", "Closed"}
      PROVE  m(s) \in ConnRecord /\ Moves(p, c, m(s)) /\ Keeps(c, m(s)) /\ ~m(s).localClose
  <2> DEFINE d == m(s)
  <2> HIDE DEF c, k, f
  <2>2. /\ d \in ConnRecord /\ d.state = s
        /\ d.tx = k.tx /\ d.rx = k.rx
        /\ (d.localClose <=> k.localClose) /\ (d.peerClose <=> k.peerClose)
        /\ (d.error <=> k.error) /\ d.fragment = k.fragment
    <3>1. s \in States
      BY DEF States
    <3> QED
      BY <1>2, <3>1, StateFacts
  <2> HIDE DEF d
  <2>3. Emits(p, c, d)
    BY <1>2, <2>2 DEF Emits
  <2>4. Consumes(c, d)
    BY <1>2, <2>2 DEF Consumes
  <2>5. Moves(p, c, d)
    BY <1>1, <1>2, <1>3, <2>2, <2>3, <2>4 DEF Moves, f
  <2>6. Keeps(c, d)
    BY <1>1, <1>2, <2>2, <2>4 DEF Keeps, IsData, f
  <2> QED
    BY <1>2, <1>3, <2>2, <2>5, <2>6 DEF d
<1>5. Processed(p, m("Open"), FALSE) \/ Processed(p, m("Closed"), TRUE)
  BY DEF HandshakeResponse
<1> HIDE DEF m, c
<1> QED
  BY <1>4, <1>5, ProcessedBecomes DEF QuietMoves, c

\* A call that leaves the connection as it is.
LEMMA SelfMoves ==
    ASSUME TypeOK, Orderly, NEW p \in Peers
    PROVE  conn[p] \in ConnRecord /\ Moves(p, conn[p], conn[p]) /\ Keeps(conn[p], conn[p])
<1> DEFINE c == conn[p]
<1>1. c \in ConnRecord /\ c.state \in States
  BY ConnTypes DEF ConnRecord
<1>2. /\ c.state = "Connecting" => ~c.localClose /\ ~c.peerClose /\ ~c.error
      /\ c.state = "Closed" /\ (c.peerClose \/ c.error) => c.localClose
      /\ c.error => c.state = "Closed"
  BY EstablishedFacts
<1> HIDE DEF c
<1>3. Emits(p, c, c)
  BY DEF Emits
<1> QED
  BY <1>1, <1>2, <1>3 DEF Moves, Keeps, c

\* WebSocketStream::close
LEMMA CloseMoves ==
    ASSUME TypeOK, Orderly, NEW p \in Peers
    PROVE  LET d == Closed(conn[p])
           IN  /\ d \in ConnRecord /\ Moves(p, conn[p], d) /\ Keeps(conn[p], d)
               /\ (d.peerClose <=> conn[p].peerClose)
<1> DEFINE c == conn[p]
           d == Closed(c)
<1>1. c \in ConnRecord /\ c.state \in States
  BY ConnTypes DEF ConnRecord
<1>2. /\ d \in ConnRecord /\ d.rx = c.rx /\ d.fragment = c.fragment
      /\ (d.peerClose <=> c.peerClose) /\ (d.error <=> c.error)
      /\ c.localClose \/ c.state = "Closed" => d = c
      /\ ~c.localClose /\ c.state = "Connecting" =>
           d.state = "Closed" /\ ~d.localClose /\ d.tx = c.tx
      /\ ~c.localClose /\ c.state \in {"Open", "Closing"} =>
           d.localClose /\ d.state \in {"Closing", "Closed"}
           /\ d.tx = Append(c.tx, Frame("close"))
  BY <1>1, ClosedFacts
<1>3. /\ c.state = "Connecting" => ~c.localClose /\ ~c.peerClose /\ ~c.error
      /\ c.error => c.state = "Closed"
  BY EstablishedFacts
<1>4. Frame("close") \in FrameRecord /\ Frame("close").op = "close" /\ ~IsData(Frame("close"))
  BY FrameFacts DEF Opcodes, IsData
<1>5. CASE c.localClose \/ c.state = "Closed"
  BY <1>2, <1>5, SelfMoves
<1> HIDE DEF c, d
<1>6. CASE ~c.localClose /\ c.state = "Connecting"
  <2>1. Emits(p, c, d)
    BY <1>2, <1>6 DEF Emits
  <2> QED
    BY <1>2, <1>3, <1>6, <2>1 DEF Moves, Keeps, c, d
<1>7. CASE ~c.localClose /\ c.state \in {"Open", "Closing"}
  <2>1. Emits(p, c, d)
    BY <1>2, <1>4, <1>7 DEF Emits, BodyOps
  <2>2. Moves(p, c, d)
    BY <1>2, <1>3, <1>7, <2>1 DEF Moves
  <2>3. Keeps(c, d)
    BY <1>2, <1>4, <1>7 DEF Keeps
  <2> QED
    BY <1>2, <2>2, <2>3 DEF c, d
<1> QED
  BY <1>1, <1>5, <1>6, <1>7 DEF States, c, d

\* read: the first message leaves the queue.
LEMMA ReadMoves ==
    ASSUME TypeOK, Orderly, NEW p \in Peers, ReadMessage(p)
    PROVE  QuietMoves(p)
<1> DEFINE c == conn[p]
           m == Tail(c.messages)
           d == [c EXCEPT !.messages = m]
<1>1. Kept(p, d)
  BY DEF ReadMessage, Kept
<1>2. Moves(p, c, c) /\ c \in ConnRecord
  BY SelfMoves
<1>3. m \in Seq(MessageRecord)
  BY <1>2, HeadTailProperties DEF ConnRecord, ReadMessage
<1> HIDE DEF c, m
<1>4. /\ d \in ConnRecord /\ d.state = c.state /\ d.tx = c.tx /\ d.rx = c.rx
      /\ (d.localClose <=> c.localClose) /\ (d.peerClose <=> c.peerClose)
      /\ (d.error <=> c.error) /\ d.fragment = c.fragment
  BY <1>2, <1>3 DEF ConnRecord
<1> HIDE DEF d
<1>5. Emits(p, c, d)
  BY <1>4 DEF Emits
<1>6. Moves(p, c, d)
  BY <1>2, <1>4, <1>5 DEF Moves, Consumes
<1>7. Keeps(c, d)
  BY <1>4 DEF Keeps
<1> QED
  BY <1>1, <1>4, <1>6, <1>7, KeptBecomes DEF QuietMoves, c

\* The calls of the application that send no data.
LEMMA CallMoves ==
    ASSUME TypeOK, Orderly, NEW p \in Peers,
           Flush(p) \/ Close(p) \/ \E op \in {"ping", "pong"} : SendControl(p, op)
    PROVE  QuietMoves(p)
<1> DEFINE c == conn[p]
<1>1. CASE Flush(p)
  BY <1>1, SelfMoves, FlushedBecomes DEF Flush, QuietMoves
<1>2. CASE Close(p)
  <2> DEFINE d == Closed(c)
  <2>1. /\ d \in ConnRecord /\ Moves(p, c, d) /\ Keeps(c, d) /\ (d.peerClose <=> c.peerClose)
    BY CloseMoves
  <2>2. Became(p, d)
    BY <1>2, <2>1, FlushedBecomes DEF Close
  <2>3. initiated'[p] <=> initiated[p] \/ (d.localClose /\ ~c.localClose /\ ~c.peerClose)
    BY <1>2 DEF Close, TypeOK
  <2> HIDE DEF d
  <2> QED
    BY <2>1, <2>2, <2>3 DEF QuietMoves
<1>3. CASE \E op \in {"ping", "pong"} : SendControl(p, op)
  <2>1. PICK op \in {"ping", "pong"} : SendControl(p, op)
    BY <1>3
  <2>2. /\ Kept(p, Queue(c, Frame(op))) /\ c.state \in {"Open", "Closing"}
        /\ op = "ping" => ~c.localClose
    BY <2>1 DEF SendControl
  <2>3. Frame(op) \in FrameRecord /\ Frame(op).op = op
    BY FrameFacts DEF Opcodes
  <2> DEFINE d == Queue(c, Frame(op))
  <2>4. /\ d \in ConnRecord /\ Moves(p, c, d) /\ Keeps(c, d)
        /\ (d.localClose <=> c.localClose)
    BY <2>2, <2>3, QueueMoves DEF BodyOps, IsData
  <2> HIDE DEF d
  <2> QED
    BY <2>2, <2>4, KeptBecomes DEF QuietMoves, d
<1> QED
  BY <1>1, <1>2, <1>3

\* Endpoint p has queued the frame of its next payload.
Writes(p, fin) ==
    LET n == app[p].payloads + 1
        op == IF app[p].partial = <<>> THEN "data" ELSE "cont"
        d == Queue(conn[p], DataFrame(op, fin, n))
    IN  Moves(p, conn[p], d) /\ Became(p, d)

\* write, and send_frame with a fragment.
LEMMA WriteMoves ==
    ASSUME TypeOK, Orderly, NEW p \in Peers, NEW fin \in BOOLEAN,
           (fin /\ Write(p)) \/ WriteFragment(p, fin)
    PROVE  Writes(p, fin)
<1> DEFINE c == conn[p]
           n == app[p].payloads + 1
<1>1. n \in Nat
  BY DEF TypeOK
<1>2. PICK op \in {"data", "cont"} : op = IF app[p].partial = <<>> THEN "data" ELSE "cont"
  OBVIOUS
<1> DEFINE f == DataFrame(op, fin, n)
           d == Queue(c, f)
<1>3. f \in FrameRecord /\ f.op = op
  <2> HIDE DEF n
  <2> QED
    BY <1>1 DEF DataFrame, FrameRecord, Opcodes
<1>4. f.op \in BodyOps \ {"close"} /\ IsData(f)
  BY <1>3 DEF BodyOps, IsData
<1>5. c.state # "Connecting" /\ ~c.localClose /\ (Flushed(p, d) \/ Kept(p, d))
  <2>1. CASE fin /\ Write(p)
    BY <1>2, <2>1 DEF Write
  <2>2. CASE WriteFragment(p, fin)
    <3>1. c.state # "Connecting" /\ Kept(p, d) /\ ~Refuses(c, f)
      BY <1>2, <2>2 DEF WriteFragment
    <3> HIDE DEF f
    <3> QED
      BY <1>4, <3>1 DEF Refuses, IsData
  <2> QED
    BY <2>1, <2>2
<1> HIDE DEF f
<1>6. d \in ConnRecord /\ Moves(p, c, d)
  BY <1>3, <1>4, <1>5, QueueMoves
<1> HIDE DEF d
<1>7. Became(p, d)
  BY <1>5, <1>6, FlushedBecomes, KeptBecomes
<1> QED
  BY <1>2, <1>6, <1>7 DEF Writes, d, f

-----------------------------------------------------------------------------
(* What a handler does to the reassembly buffer and the message queue.      *)

Message(body) == [kind |-> "data", body |-> body]

\* The connection fails; a control frame is surfaced or not; the start of a message is
\* dropped after a Close; or the payload is taken, and ends a message or not.
Surfaces(c, d, f) ==
    \/ IsData(f) /\ d.error /\ d.messages = c.messages
    \/ /\ ~IsData(f) /\ ~d.error /\ d.fragment = c.fragment
       /\ f.op # "close" => (d.localClose <=> c.localClose)
       /\ \/ d.messages = c.messages
          \/ \E m \in MessageRecord : m.kind # "data" /\ d.messages = Append(c.messages, m)
    \/ /\ ~d.error /\ f.op = "data" /\ c.fragment = <<>> /\ (c.peerClose \/ c.localClose)
       /\ d.fragment = c.fragment /\ d.messages = c.messages
       /\ (d.localClose <=> c.localClose)
    \/ /\ ~d.error /\ ~f.fin /\ (d.localClose <=> c.localClose)
       /\ \/ f.op = "data" /\ c.fragment = <<>> /\ ~c.localClose
          \/ f.op = "cont" /\ c.fragment # <<>>
       /\ d.fragment = Append(c.fragment, f.payload) /\ d.messages = c.messages
    \/ /\ ~d.error /\ f.fin /\ (d.localClose <=> c.localClose)
       /\ \/ f.op = "data" /\ c.fragment = <<>> /\ ~c.localClose
          \/ f.op = "cont" /\ c.fragment # <<>>
       /\ d.fragment = <<>>
       /\ d.messages = Append(c.messages, Message(Append(c.fragment, f.payload)))

\* handle_frame
LEMMA HandledSurfaces ==
    ASSUME NEW c \in ConnRecord, c.state \in {"Open", "Closing"}, ~c.error, NEW p \in Peers,
           NEW f \in FrameRecord, f.op \in BodyOps
    PROVE  Surfaces(c, Handled(c, p, f), f)
<1>0. Failed(c).error /\ Failed(c).messages = c.messages
  BY FailedFacts
<1> DEFINE g == Append(c.fragment, f.payload)
<1>1. g \in Seq(Nat) /\ (c.fragment = <<>> => <<f.payload>> = g)
  BY DEF FrameRecord, ConnRecord
<1>2. ASSUME NEW b \in ConnRecord, b.state = c.state, ~b.error, b.fragment = <<>>,
             b.messages = c.messages, b.localClose <=> c.localClose
      PROVE  LET d == Deliver(b, g)
             IN  \/ d.error /\ d.messages = c.messages
                 \/ /\ ~d.error /\ d.fragment = <<>> /\ (d.localClose <=> c.localClose)
                    /\ d.messages = Append(c.messages, Message(g))
  <2>1. Failed(b).error /\ Failed(b).messages = b.messages
    BY <1>2, FailedFacts
  <2> DEFINE d == Push(b, "data", g)
  <2> HIDE DEF g
  <2>2. /\ d.messages = Append(b.messages, [kind |-> "data", body |-> g])
        /\ d.fragment = b.fragment /\ (d.error <=> b.error)
        /\ (d.localClose <=> b.localClose)
    BY <1>1, PushFacts
  <2>3. Deliver(b, g) = Failed(b) \/ Deliver(b, g) = d
    BY DEF Deliver
  <2> HIDE DEF d
  <2> QED
    BY <1>2, <2>1, <2>2, <2>3 DEF Message
<1> HIDE DEF g
<1>3. CASE f.op = "data"
  <2> DEFINE d == [c EXCEPT !.fragment = g]
  <2>1. c.fragment # <<>> => Handled(c, p, f) = Failed(c)
    BY <1>3 DEF Handled, DataStart
  <2>2. c.fragment = <<>> /\ (c.peerClose \/ c.localClose) => Handled(c, p, f) = c
    BY <1>3 DEF Handled, DataStart
  <2>3. c.fragment = <<>> /\ ~(c.peerClose \/ c.localClose) =>
          Handled(c, p, f) = IF f.fin THEN Deliver(c, g) ELSE d
    BY <1>1, <1>3 DEF Handled, DataStart
  <2>4. /\ d.fragment = g /\ d.messages = c.messages /\ (d.error <=> c.error)
        /\ (d.localClose <=> c.localClose)
    BY <1>1, FragmentFacts
  <2> HIDE DEF d
  <2>5. CASE c.fragment # <<>>
    BY <1>0, <1>3, <2>1, <2>5 DEF Surfaces, IsData
  <2>6. CASE c.fragment = <<>> /\ (c.peerClose \/ c.localClose)
    BY <1>3, <2>2, <2>6 DEF Surfaces
  <2>7. CASE c.fragment = <<>> /\ ~(c.peerClose \/ c.localClose) /\ f.fin
    <3>1. Handled(c, p, f) = Deliver(c, g)
      BY <2>3, <2>7
    <3> DEFINE r == Deliver(c, g)
    <3>2. \/ r.error /\ r.messages = c.messages
          \/ /\ ~r.error /\ r.fragment = <<>> /\ (r.localClose <=> c.localClose)
             /\ r.messages = Append(c.messages, Message(g))
      BY <1>2, <2>7
    <3> HIDE DEF r
    <3>3. Surfaces(c, r, f)
      BY <1>3, <2>7, <3>2 DEF Surfaces, IsData, g
    <3> QED
      BY <3>1, <3>3 DEF r
  <2>8. CASE c.fragment = <<>> /\ ~(c.peerClose \/ c.localClose) /\ ~f.fin
    <3>1. Handled(c, p, f) = d
      BY <2>3, <2>8
    <3>2. Surfaces(c, d, f)
      BY <1>3, <2>4, <2>8 DEF Surfaces, g
    <3> QED
      BY <3>1, <3>2
  <2> QED
    BY <2>5, <2>6, <2>7, <2>8
<1>4. CASE f.op = "cont"
  <2> DEFINE d == [c EXCEPT !.fragment = g]
             e == <<>>
             b == [c EXCEPT !.fragment = e]
  <2>1. \/ Handled(c, p, f) = Failed(c)
        \/ /\ c.fragment # <<>>
           /\ Handled(c, p, f) = IF f.fin THEN Deliver(b, g) ELSE d
    BY <1>4 DEF Handled, Continuation, g
  <2>2. e \in Seq(Nat) /\ e = <<>>
    OBVIOUS
  <2> HIDE DEF e
  <2>3. /\ d.fragment = g /\ d.messages = c.messages /\ (d.error <=> c.error)
        /\ (d.localClose <=> c.localClose)
    BY <1>1, FragmentFacts
  <2>4. /\ b \in ConnRecord /\ b.fragment = e /\ b.messages = c.messages /\ b.state = c.state
        /\ (b.error <=> c.error) /\ (b.localClose <=> c.localClose)
    <3>1. e \in Seq(Nat)
      BY <2>2
    <3> QED
      BY <3>1, FragmentFacts
  <2> HIDE DEF d, b
  <2>5. CASE Handled(c, p, f) = Failed(c)
    BY <1>0, <1>4, <2>5 DEF Surfaces, IsData
  <2>6. CASE c.fragment # <<>> /\ f.fin /\ Handled(c, p, f) = Deliver(b, g)
    BY <1>2, <1>4, <2>2, <2>4, <2>6 DEF Surfaces, IsData, g
  <2>7. CASE c.fragment # <<>> /\ ~f.fin /\ Handled(c, p, f) = d
    BY <1>4, <2>3, <2>7 DEF Surfaces, g
  <2> QED
    BY <2>1, <2>5, <2>6, <2>7
<1>5. ASSUME NEW a \in ConnRecord, a.messages = c.messages, a.fragment = c.fragment, ~a.error,
             NEW kind \in {"ping", "pong", "close"}
      PROVE  LET d == Push(a, kind, <<>>)
             IN  /\ d \in ConnRecord /\ d.fragment = c.fragment /\ ~d.error
                 /\ d.localClose <=> a.localClose
                 /\ \E m \in MessageRecord :
                      m.kind # "data" /\ d.messages = Append(c.messages, m)
  <2> DEFINE e == <<>>
             m == [kind |-> kind, body |-> e]
             d == Push(a, kind, e)
  <2>1. e \in Seq(Nat)
    OBVIOUS
  <2> HIDE DEF e
  <2>2. m \in MessageRecord /\ m.kind # "data"
    BY <2>1 DEF MessageRecord
  <2>3. /\ d \in ConnRecord /\ d.messages = Append(a.messages, m)
        /\ d.fragment = a.fragment /\ (d.error <=> a.error) /\ (d.localClose <=> a.localClose)
    BY <2>1, PushFacts
  <2> HIDE DEF m, d
  <2> QED
    BY <1>5, <2>2, <2>3 DEF d, e
<1>6. CASE f.op = "ping"
  <2> DEFINE q == Queue(c, Frame("pong"))
             a == IF p \in AutoPong /\ ~c.localClose THEN q ELSE c
  <2>1. Frame("pong") \in FrameRecord
    BY FrameFacts DEF Opcodes
  <2>2. /\ q \in ConnRecord /\ q.messages = c.messages /\ q.fragment = c.fragment
        /\ (q.error <=> c.error) /\ (q.localClose <=> c.localClose)
    BY <2>1, QueueFacts
  <2>3. Handled(c, p, f) = Push(a, "ping", <<>>)
    BY <1>6 DEF Handled, Ping
  <2> HIDE DEF q
  <2>4. /\ a \in ConnRecord /\ a.messages = c.messages /\ a.fragment = c.fragment /\ ~a.error
        /\ a.localClose <=> c.localClose
    BY <2>2
  <2> HIDE DEF a
  <2> QED
    BY <1>5, <1>6, <2>3, <2>4 DEF Surfaces, IsData
<1>7. CASE f.op = "pong"
  <2>1. Handled(c, p, f) = Push(c, "pong", <<>>)
    BY <1>7 DEF Handled
  <2> QED
    BY <1>5, <1>7, <2>1 DEF Surfaces, IsData
<1>8. CASE f.op = "close"
  <2> DEFINE m == Push(c, "close", <<>>)
             a == IF c.peerClose THEN c ELSE m
             seen == [a EXCEPT !.peerClose = TRUE]
             q == Queue(seen, Frame("close"))
             l == [q EXCEPT !.localClose = TRUE]
             replied == IF ~c.localClose /\ p \in AutoCloseReply THEN l ELSE seen
             s == IF replied.localClose THEN "Closed" ELSE "Closing"
             d == [replied EXCEPT !.state = s]
  <2>1. Handled(c, p, f) = d
    BY <1>8 DEF Handled, PeerClose
  <2>2. Frame("close") \in FrameRecord
    BY FrameFacts DEF Opcodes
  <2>3. /\ m \in ConnRecord /\ m.fragment = c.fragment /\ ~m.error
        /\ \E n \in MessageRecord : n.kind # "data" /\ m.messages = Append(c.messages, n)
    BY <1>5
  <2> HIDE DEF m
  <2>4. /\ a \in ConnRecord /\ a.fragment = c.fragment /\ ~a.error
        /\ \/ a.messages = c.messages
           \/ \E n \in MessageRecord : n.kind # "data" /\ a.messages = Append(c.messages, n)
    BY <2>3
  <2> HIDE DEF a
  <2>5. /\ seen \in ConnRecord /\ seen.fragment = a.fragment /\ (seen.error <=> a.error)
        /\ seen.messages = a.messages
    BY <2>4 DEF ConnRecord
  <2> HIDE DEF seen
  <2>6. /\ q \in ConnRecord /\ q.fragment = seen.fragment /\ (q.error <=> seen.error)
        /\ q.messages = seen.messages
    BY <2>2, <2>5, QueueFacts
  <2> HIDE DEF q
  <2>7. /\ l \in ConnRecord /\ l.fragment = q.fragment /\ (l.error <=> q.error)
        /\ l.messages = q.messages
    BY <2>6 DEF ConnRecord
  <2> HIDE DEF l
  <2>8. /\ replied \in ConnRecord /\ replied.fragment = a.fragment /\ ~replied.error
        /\ replied.messages = a.messages
    BY <2>4, <2>5, <2>6, <2>7
  <2> HIDE DEF replied
  <2>9. s \in States
    BY DEF States
  <2> HIDE DEF s
  <2>10. d.fragment = replied.fragment /\ (d.error <=> replied.error)
         /\ d.messages = replied.messages
    BY <2>8, <2>9, StateFacts
  <2> HIDE DEF d
  <2> QED
    BY <1>8, <2>1, <2>4, <2>8, <2>10 DEF Surfaces, IsData
<1> QED
  BY <1>3, <1>4, <1>6, <1>7, <1>8 DEF BodyOps

-----------------------------------------------------------------------------
(* The calls that move or lose frames between the transport and rx_buf.     *)

\* The first frames on the wire to p are gone, and nothing else changed.
LEMMA WireCut ==
    ASSUME TypeOK, NEW p \in Peers, NEW o \in Peers, o = Other(p), NEW a \in Frames,
           NEW b \in Frames, wire[p] = a \o b, conn' = conn, wire' = [wire EXCEPT ![p] = b]
    PROVE  /\ wire' \in [Peers -> Frames]
           /\ InFlight(p)' = InFlight(p)
           /\ Cut(InFlight(o), InFlight(o)')
<1>1. o # p /\ Other(o) = p /\ Other(p) = o
  BY OtherFacts
<1> DEFINE r == conn[p].rx
           e == conn[o].tx
           w == wire[p]
<1>2. r \in Frames /\ e \in Frames /\ w \in Frames /\ wire \in [Peers -> Frames]
  BY ConnTypes
<1>3. wire' \in [Peers -> Frames] /\ wire'[p] = b /\ wire'[o] = wire[o]
  BY <1>1, <1>2
<1>4. InFlight(p)' = InFlight(p)
  BY <1>1, <1>3 DEF InFlight
<1>5. InFlight(o) = (r \o w) \o e /\ InFlight(o)' = (r \o b) \o e
  BY <1>1, <1>3 DEF InFlight
<1> HIDE DEF r, e, w
<1>6. r \o a \in Frames /\ a \o b \in Frames /\ b \o e \in Frames
  BY <1>2, ConcatProperties DEF Frames
<1>7. \A s, t, u \in Frames : (s \o t) \o u = s \o (t \o u)
  BY ConcatAssociative DEF Frames
<1>8. /\ r \o (a \o b) = (r \o a) \o b
      /\ (r \o b) \o e = r \o (b \o e)
      /\ ((r \o a) \o b) \o e = (r \o a) \o (b \o e)
  <2>1. (r \o a) \o b = r \o (a \o b)
    BY <1>2, <1>7
  <2>2. (r \o b) \o e = r \o (b \o e)
    BY <1>2, <1>7
  <2> DEFINE h == r \o a
  <2>3. h \in Frames
    BY <1>6
  <2> HIDE DEF h
  <2>4. (h \o b) \o e = h \o (b \o e)
    BY <1>2, <1>7, <2>3
  <2> QED
    BY <2>1, <2>2, <2>4 DEF h
<1>9. InFlight(o) = (r \o a) \o (b \o e) /\ InFlight(o)' = r \o (b \o e)
  BY <1>5, <1>8 DEF w
<1> QED
  BY <1>2, <1>3, <1>4, <1>6, <1>9 DEF Cut

\* An endpoint that is closed or gone loses frames, and the order of the rest stands.
LEMMA CutStep ==
    ASSUME TypeOK, Orderly, NEW p \in Peers, NEW o \in Peers, o = Other(p), conn' = conn,
           InFlight(p)' = InFlight(p), Cut(InFlight(o), InFlight(o)'),
           conn[p].state = "Closed" \/ ~up'[p], \A q \in Peers : up'[q] => up[q]
    PROVE  Orderly'
<1>1. o # p /\ Other(o) = p /\ Other(p) = o /\ \A q \in Peers : q = p \/ q = o
  BY OtherFacts
<1> DEFINE x == InFlight(o)
           y == InFlight(o)'
<1>2. /\ y \in Frames
      /\ \A ops : Only(x, ops) => Only(y, ops)
      /\ HasClose(y) => HasClose(x)
      /\ Sealed(x) => Sealed(y)
      /\ GreetsFirst(x) => GreetsFirst(y)
      /\ x = <<>> => y = <<>>
  BY StreamCut
<1>3. /\ Handshake(p) /\ CloseOrder(p) /\ Answerable(p)
      /\ Handshake(o) /\ CloseOrder(o) /\ Answerable(o)
  BY DEF Orderly
<1>4. Handshake(p)' /\ CloseOrder(p)'
  BY <1>1, <1>3 DEF Handshake, CloseOrder, Established
<1>5. Answerable(p)'
  BY <1>1, <1>3 DEF Answerable
<1>6. Handshake(o)'
  BY <1>1, <1>2, <1>3 DEF Handshake, Established
<1>7. CloseOrder(o)'
  BY <1>1, <1>2, <1>3 DEF CloseOrder
<1>8. Answerable(o)'
  BY <1>1, <1>3 DEF Answerable
<1> QED
  BY <1>1, <1>4, <1>5, <1>6, <1>7, <1>8 DEF Orderly

\* A read of the transport: the frames move into rx_buf, or a closed connection drops them.
LEMMA ReceiveStep ==
    ASSUME TypeOK, Orderly, NEW p \in Peers, NEW n \in 1..Len(wire[p]), Receive(p, n)
    PROVE  /\ Orderly' /\ conn' \in [Peers -> ConnRecord] /\ wire' \in [Peers -> Frames]
           /\ conn[p].state # "Closed" => Became(p, conn[p])
           /\ conn[p].state = "Closed" => conn' = conn /\ InFlight(p)' = InFlight(p)
<1> DEFINE w == wire[p]
           m == n + 1
           a == SubSeq(w, 1, n)
           b == SubSeq(w, m, Len(w))
           c == conn[p]
<1>1. PICK o \in Peers : o = Other(p)
  BY OtherFacts
<1>2. o # p /\ Other(o) = p /\ Other(p) = o
  BY <1>1, OtherFacts
<1>3. /\ conn \in [Peers -> ConnRecord] /\ wire \in [Peers -> Frames] /\ w \in Frames
      /\ c \in ConnRecord /\ conn[o].tx \in Frames
  BY ConnTypes
<1>4. Len(w) \in Nat /\ n \in Nat /\ m \in Nat /\ n \in 1..Len(w) /\ m \in 1..Len(w) + 1
  BY <1>3 DEF Frames
<1>5. a \in Frames
  BY <1>3, <1>4 DEF Frames
<1>6. b \in Frames
  <2> HIDE DEF m
  <2> QED
    BY <1>3, <1>4 DEF Frames
<1>7. a \o b = w
  <2>1. w \in Seq(FrameRecord) /\ 1 \in 1..Len(w) + 1 /\ n \in 0..Len(w) /\ Len(w) \in n..Len(w)
    BY <1>3, <1>4 DEF Frames
  <2>2. a \o b = SubSeq(w, 1, Len(w))
    <3>1. 1 \in 1..Len(w)+1 /\ n \in 1-1..Len(w) /\ Len(w) \in n..Len(w)
      BY <1>4
    <3> QED
      BY <2>1, <3>1, ConcatAdjacentSubSeq
  <2> QED
    BY <2>1, <2>2, SubSeqFull
<1> HIDE DEF m
<1>8. wire' = [wire EXCEPT ![p] = b] /\ up' = up /\ Idle(p)
  BY DEF Receive, m
<1>9. CASE c.state = "Closed"
  <2>1. conn' = conn
    BY <1>9 DEF Receive
  <2> HIDE DEF a, b, w
  <2>2. /\ wire' \in [Peers -> Frames] /\ InFlight(p)' = InFlight(p)
        /\ Cut(InFlight(o), InFlight(o)')
    BY <1>1, <1>5, <1>6, <1>7, <1>8, <2>1, WireCut DEF w
  <2>3. Orderly'
    BY <1>1, <1>8, <1>9, <2>1, <2>2, CutStep
  <2> QED
    BY <1>3, <1>9, <2>1, <2>2, <2>3
<1>10. CASE c.state # "Closed"
  <2>1. c.rx = <<>>
    BY <1>8, <1>10 DEF Idle, InProcess
  <2> DEFINE k == [c EXCEPT !.rx = a]
  <2>2. conn' = [conn EXCEPT ![p] = k]
    BY <1>10 DEF Receive
  <2> HIDE DEF a, b, w
  <2>3. /\ k \in ConnRecord /\ k.rx = a /\ k.state = c.state /\ k.tx = c.tx
        /\ k.messages = c.messages /\ k.fragment = c.fragment
        /\ (k.localClose <=> c.localClose) /\ (k.peerClose <=> c.peerClose)
        /\ (k.error <=> c.error)
    BY <1>3, <1>5 DEF ConnRecord
  <2> HIDE DEF k
  <2>4. /\ conn' \in [Peers -> ConnRecord] /\ conn'[p] = k /\ conn'[o] = conn[o]
        /\ wire' \in [Peers -> Frames] /\ wire'[p] = b /\ wire'[o] = wire[o]
    BY <1>2, <1>3, <1>6, <1>8, <2>2, <2>3
  <2>5. InFlight(p)' = StreamWith(p, c)
    BY <1>2, <2>3, <2>4 DEF InFlight, StreamWith
  <2>6. InFlight(o)' = c.rx \o wire[p] \o conn[o].tx
    <3>1. InFlight(o)' = a \o b \o conn[o].tx
      BY <1>2, <2>3, <2>4 DEF InFlight
    <3>2. <<>> \o w = w
      BY <1>3, ConcatEmptySeq DEF Frames
    <3> QED
      BY <1>7, <2>1, <3>1, <3>2 DEF w
  <2>7. Became(p, c)
    BY <1>2, <2>3, <2>4, <2>5, <2>6 DEF Became
  <2>8. Orderly'
    BY <1>8, <2>7, SelfMoves, EndpointStep
  <2> QED
    BY <1>10, <2>4, <2>7, <2>8
<1> QED
  BY <1>9, <1>10

\* The stream is dropped with what was on its way to it.
LEMMA DropStep ==
    ASSUME TypeOK, Orderly, NEW p \in Peers, Drop(p)
    PROVE  /\ Orderly' /\ conn' \in [Peers -> ConnRecord] /\ wire' \in [Peers -> Frames]
           /\ conn' = conn /\ InFlight(p)' = InFlight(p) /\ ~up'[p]
           /\ \A q \in Peers : up'[q] => up[q]
<1>1. PICK o \in Peers : o = Other(p)
  BY OtherFacts
<1> DEFINE e == <<>>
<1>2. e \in Frames /\ wire[p] \in Frames /\ wire[p] = wire[p] \o e
      /\ conn \in [Peers -> ConnRecord]
  BY ConnTypes, ConcatEmptySeq DEF Frames
<1>3. conn' = conn /\ wire' = [wire EXCEPT ![p] = e] /\ up' = [up EXCEPT ![p] = FALSE]
  BY DEF Drop
<1> HIDE DEF e
<1>4. /\ wire' \in [Peers -> Frames] /\ InFlight(p)' = InFlight(p)
      /\ Cut(InFlight(o), InFlight(o)')
  BY <1>1, <1>2, <1>3, WireCut
<1>5. ~up'[p] /\ \A q \in Peers : up'[q] => up[q]
  BY <1>3 DEF TypeOK
<1> QED
  BY <1>1, <1>2, <1>3, <1>4, <1>5, CutStep

-----------------------------------------------------------------------------
(* The theorems.                                                            *)

\* What an action does apart from conn and wire.
LEMMA HistoryTypes ==
    ASSUME TypeOK, Orderly, NEW p \in Peers,
           \/ Process(p) \/ Read(p) \/ Flush(p) \/ Write(p) \/ Close(p) \/ Drop(p)
           \/ \E fin \in BOOLEAN : WriteFragment(p, fin)
           \/ \E op \in {"ping", "pong"} : SendControl(p, op)
    PROVE  /\ up' \in [Peers -> BOOLEAN] /\ ended' \in [Peers -> BOOLEAN]
           /\ initiated' \in [Peers -> BOOLEAN]
           /\ app' \in [Peers -> [payloads : Nat, pings : Nat, partial : Seq(Nat)]]
           /\ sent' \in [Peers -> Seq(Seq(Nat))] /\ delivered' \in [Peers -> Seq(Seq(Nat))]
<1>0. /\ up \in [Peers -> BOOLEAN] /\ ended \in [Peers -> BOOLEAN]
      /\ initiated \in [Peers -> BOOLEAN]
      /\ app \in [Peers -> [payloads : Nat, pings : Nat, partial : Seq(Nat)]]
      /\ sent \in [Peers -> Seq(Seq(Nat))] /\ delivered \in [Peers -> Seq(Seq(Nat))]
  BY DEF TypeOK
<1>1. CASE ProcessFrame(p)
  <2> DEFINE c == conn[p]
             k == Consumed(p)
             f == Head(c.rx)
             d == Handled(k, p, f)
             last == d.messages[Len(d.messages)]
  <2>1. c.rx # <<>> /\ c.state \in {"Open", "Closing"}
    BY <1>1 DEF ProcessFrame, InProcess
  <2>2. /\ f \in FrameRecord /\ f.op \in BodyOps /\ k \in ConnRecord
        /\ k.state = c.state /\ k.messages = c.messages /\ k.fragment = c.fragment
        /\ (k.error <=> c.error)
    BY <2>1, NextFrame DEF Established
  <2>3. ~c.error /\ c \in ConnRecord
    BY <2>1, EstablishedFacts, ConnTypes DEF Established
  <2>4. /\ delivered' = IF d.messages # c.messages /\ last.kind = "data"
                        THEN [delivered EXCEPT ![p] = Append(@, last.body)] ELSE delivered
        /\ ended' = [ended EXCEPT ![p] = @ \/ d.error]
        /\ UNCHANGED <<up, app, sent, initiated>>
    BY <1>1 DEF ProcessFrame
  <2> HIDE DEF c, k, f
  <2>5. Surfaces(k, d, f)
    BY <2>1, <2>2, <2>3, HandledSurfaces
  <2>6. Message(Append(k.fragment, f.payload)) \in MessageRecord
    <3>1. Append(k.fragment, f.payload) \in Seq(Nat)
      BY <2>2 DEF ConnRecord, FrameRecord
    <3> QED
      BY <3>1 DEF Message, MessageRecord
  <2> HIDE DEF d
  <2>7. d.messages = c.messages \/ \E m \in MessageRecord : d.messages = Append(c.messages, m)
    BY <2>2, <2>5, <2>6 DEF Surfaces
  <2>8. d.messages # c.messages => last.body \in Seq(Nat)
    <3> SUFFICES ASSUME NEW m \in MessageRecord, d.messages = Append(c.messages, m)
                 PROVE  last.body \in Seq(Nat)
      BY <2>7
    <3>1. c.messages \in Seq(MessageRecord)
      BY <2>3 DEF ConnRecord
    <3>2. last = m
      BY <3>1
    <3> QED
      BY <3>2 DEF MessageRecord
  <2> HIDE DEF last
  <2>9. delivered' \in [Peers -> Seq(Seq(Nat))]
    <3>1. CASE d.messages # c.messages /\ last.kind = "data"
      <4>1. Append(delivered[p], last.body) \in Seq(Seq(Nat))
        BY <1>0, <2>8, <3>1
      <4> QED
        BY <1>0, <2>4, <3>1, <4>1
    <3>2. CASE ~(d.messages # c.messages /\ last.kind = "data")
      BY <1>0, <2>4, <3>2
    <3> QED
      BY <3>1, <3>2
  <2>10. ended' \in [Peers -> BOOLEAN]
    BY <1>0, <2>4
  <2> QED
    BY <1>0, <2>4, <2>9, <2>10
<1>2. CASE AcceptRequest(p)
  BY <1>0, <1>2 DEF AcceptRequest
<1>3. CASE RejectRequest(p)
  BY <1>0, <1>3 DEF RejectRequest
<1>4. CASE HandshakeResponse(p)
  BY <1>0, <1>4 DEF HandshakeResponse
<1>5. CASE Read(p)
  <2>1. ended' \in [Peers -> BOOLEAN] /\ UNCHANGED <<up, app, sent, delivered, initiated>>
    <3>1. CASE \E n \in 1..Len(wire[p]) : Receive(p, n)
      BY <1>0, <3>1 DEF Receive
    <3>2. CASE ReadMessage(p)
      BY <1>0, <3>2 DEF ReadMessage
    <3>3. CASE ReadFails(p)
      BY <1>0, <3>3 DEF ReadFails
    <3> QED
      BY <1>5, <3>1, <3>2, <3>3 DEF Read
  <2> QED
    BY <1>0, <2>1
<1>6. CASE Flush(p)
  BY <1>0, <1>6 DEF Flush
<1> DEFINE n == app[p].payloads + 1
<1>7. n \in Nat /\ app[p].pings + 1 \in Nat /\ app[p].partial \in Seq(Nat)
  BY <1>0
<1>8. CASE Write(p)
  <2>1. /\ app' = [app EXCEPT ![p].payloads = n]
        /\ sent' = [sent EXCEPT ![p] = Append(@, <<n>>)]
        /\ UNCHANGED <<up, ended, delivered, initiated>>
    BY <1>8 DEF Write
  <2> HIDE DEF n
  <2>2. app' \in [Peers -> [payloads : Nat, pings : Nat, partial : Seq(Nat)]]
    BY <1>0, <1>7, <2>1
  <2>3. Append(sent[p], <<n>>) \in Seq(Seq(Nat))
    BY <1>0, <1>7
  <2>4. sent' \in [Peers -> Seq(Seq(Nat))]
    BY <1>0, <2>1, <2>3
  <2> QED
    BY <1>0, <2>1, <2>2, <2>4
<1>9. CASE \E fin \in BOOLEAN : WriteFragment(p, fin)
  <2>1. PICK fin \in BOOLEAN : WriteFragment(p, fin)
    BY <1>9
  <2> DEFINE m == Append(app[p].partial, n)
             r == IF fin THEN <<>> ELSE m
  <2>2. /\ app' = [app EXCEPT ![p].payloads = n, ![p].partial = r]
        /\ sent' = IF fin THEN [sent EXCEPT ![p] = Append(@, m)] ELSE sent
        /\ UNCHANGED <<up, ended, delivered, initiated>>
    BY <2>1 DEF WriteFragment
  <2> HIDE DEF n
  <2>3. m \in Seq(Nat)
    BY <1>7
  <2> HIDE DEF m
  <2>4. r \in Seq(Nat)
    BY <2>3
  <2> HIDE DEF r
  <2>5. app' \in [Peers -> [payloads : Nat, pings : Nat, partial : Seq(Nat)]]
    BY <1>0, <1>7, <2>2, <2>4
  <2>6. sent' \in [Peers -> Seq(Seq(Nat))]
    <3>1. Append(sent[p], m) \in Seq(Seq(Nat))
      BY <1>0, <2>3
    <3>2. CASE fin
      BY <1>0, <2>2, <3>1, <3>2
    <3>3. CASE ~fin
      BY <1>0, <2>2, <3>3
    <3> QED
      BY <3>2, <3>3
  <2> QED
    BY <1>0, <2>2, <2>5, <2>6
<1>10. CASE \E op \in {"ping", "pong"} : SendControl(p, op)
  <2>1. /\ app' = [app EXCEPT ![p].pings = @ + 1]
        /\ UNCHANGED <<up, ended, sent, delivered, initiated>>
    BY <1>10 DEF SendControl
  <2>2. app' \in [Peers -> [payloads : Nat, pings : Nat, partial : Seq(Nat)]]
    BY <1>0, <1>7, <2>1
  <2> QED
    BY <1>0, <2>1, <2>2
<1>11. CASE Close(p)
  <2>1. /\ \E b \in BOOLEAN : initiated' = [initiated EXCEPT ![p] = b]
        /\ UNCHANGED <<up, ended, app, sent, delivered>>
    <3> DEFINE b == initiated[p] \/ (Closed(conn[p]).localClose /\ ~ conn[p].localClose
                                      /\ ~ conn[p].peerClose)
    <3>1. b \in BOOLEAN
      OBVIOUS
    <3>2. initiated' = [initiated EXCEPT ![p] = b] /\ UNCHANGED <<up, ended, app, sent, delivered>>
      BY <1>11 DEF Close
    <3> HIDE DEF b
    <3> QED
      BY <3>1, <3>2
  <2> QED
    BY <1>0, <2>1
<1>12. CASE Drop(p)
  BY <1>0, <1>12 DEF Drop
<1> QED
  BY <1>1, <1>2, <1>3, <1>4, <1>5, <1>6, <1>8, <1>9, <1>10, <1>11, <1>12 DEF Process

\* The initial state: the request is the only frame.
LEMMA InitOrderly ==
    ASSUME Init
    PROVE  TypeOK /\ Orderly
<1> DEFINE z == 0
           e == <<>>
           q == Frame("request")
           r(p) == IF p = "client" THEN <<q>> ELSE e
<1>1. z \in Nat /\ e \in Seq(Nat) /\ e \in Frames /\ e \in Seq(MessageRecord) /\ e \in Seq(Seq(Nat))
  BY DEF Frames
<1>2. q \in FrameRecord /\ q.op = "request"
  BY FrameFacts DEF Opcodes
<1>3. /\ conn = [p \in Peers |->
                  [state |-> "Connecting", rx |-> e, messages |-> e, fragment |-> e,
                   tx |-> r(p), localClose |-> FALSE, peerClose |-> FALSE, error |-> FALSE]]
      /\ wire = [p \in Peers |-> e]
      /\ up = [p \in Peers |-> TRUE] /\ ended = [p \in Peers |-> FALSE]
      /\ app = [p \in Peers |-> [payloads |-> z, pings |-> z, partial |-> e]]
      /\ sent = [p \in Peers |-> e] /\ delivered = [p \in Peers |-> e]
      /\ initiated = [p \in Peers |-> FALSE]
  BY DEF Init
<1>4. e = <<>>
  OBVIOUS
<1> HIDE DEF q, e, z
<1>5. \A p \in Peers : r(p) \in Frames
  BY <1>1, <1>2 DEF Frames
<1>6. /\ r("client") = <<q>> /\ r("server") = e
  OBVIOUS
<1> HIDE DEF r
<1>7. \A p \in Peers :
        /\ conn[p].rx = e /\ conn[p].tx = r(p) /\ wire[p] = e /\ conn[p].state = "Connecting"
        /\ ~conn[p].localClose /\ ~conn[p].peerClose /\ ~conn[p].error
  BY <1>3
<1>8. conn \in [Peers -> ConnRecord]
  <2>1. "Connecting" \in States
    BY DEF States
  <2> QED
    BY <1>1, <1>3, <1>5, <2>1 DEF ConnRecord
<1>9. TypeOK
  <2>1. wire \in [Peers -> Frames] /\ sent \in [Peers -> Seq(Seq(Nat))]
        /\ delivered \in [Peers -> Seq(Seq(Nat))]
    BY <1>1, <1>3
  <2>2. app \in [Peers -> [payloads : Nat, pings : Nat, partial : Seq(Nat)]]
    BY <1>1, <1>3
  <2>3. up \in [Peers -> BOOLEAN] /\ ended \in [Peers -> BOOLEAN] /\ initiated \in [Peers -> BOOLEAN]
    BY <1>3
  <2> QED
    BY <1>8, <2>1, <2>2, <2>3 DEF TypeOK, ConnRecord, Frames, FrameRecord, MessageRecord, States
<1>10. \A p \in Peers : InFlight(p) = r(p)
  <2> SUFFICES ASSUME NEW p \in Peers PROVE InFlight(p) = r(p)
    OBVIOUS
  <2>1. Other(p) \in Peers
    BY OtherFacts
  <2>2. InFlight(p) = (e \o e) \o r(p)
    BY <1>7, <2>1 DEF InFlight
  <2>3. e \o e = e /\ e \o r(p) = r(p)
    BY <1>1, <1>4, <1>5, ConcatEmptySeq DEF Frames
  <2> QED
    BY <2>2, <2>3
<1>11. \A p \in Peers :
         /\ \A i \in DOMAIN r(p) : i = 1 /\ r(p)[i].op = "request" /\ p = "client"
         /\ p = "server" => r(p) = <<>>
  <2>1. \A p \in Peers : p = "client" \/ p = "server"
    BY DEF Peers
  <2>2. DOMAIN e = {} /\ DOMAIN <<q>> = {1} /\ <<q>>[1] = q
    BY <1>4
  <2> QED
    BY <1>2, <1>4, <1>6, <2>1, <2>2
<1>12. ASSUME NEW p \in Peers
       PROVE  Handshake(p) /\ CloseOrder(p) /\ Answerable(p)
  <2>1. Other(p) \in Peers
    BY OtherFacts
  <2>2. InFlight(p) = r(p)
    BY <1>10
  <2>3. /\ Only(r(p), Greeting(p) \cup BodyOps) /\ GreetsFirst(r(p)) /\ Sealed(r(p))
        /\ ~HasClose(r(p))
    BY <1>11 DEF Only, GreetsFirst, Sealed, HasClose, Greeting
  <2>4. ~Established(p) /\ ~Established(Other(p))
    BY <1>7, <2>1 DEF Established
  <2> QED
    BY <1>7, <1>11, <2>1, <2>2, <2>3, <2>4 DEF Handshake, CloseOrder, Answerable
<1> QED
  BY <1>9, <1>12 DEF Orderly

\* Every step keeps the invariant.
LEMMA NextOrderly ==
    ASSUME TypeOK, Orderly, [Next]_vars
    PROVE  TypeOK' /\ Orderly'
<1>1. CASE UNCHANGED vars
  BY <1>1 DEF vars, TypeOK, Orderly, Handshake, CloseOrder, Answerable, Established, InFlight
<1>2. ASSUME NEW p \in Peers,
             \/ Process(p) \/ Read(p) \/ Flush(p) \/ Write(p) \/ Close(p) \/ Drop(p)
             \/ \E fin \in BOOLEAN : WriteFragment(p, fin)
             \/ \E op \in {"ping", "pong"} : SendControl(p, op)
      PROVE  TypeOK' /\ Orderly'
  <2>0. ASSUME QuietMoves(p)
        PROVE  EndpointMoves(p)
    <3>1. PICK d : Moves(p, conn[p], d) /\ Became(p, d)
      BY <2>0 DEF QuietMoves
    <3> QED
      BY <3>1 DEF EndpointMoves
  <2>1. ASSUME EndpointMoves(p), up' = up
        PROVE  Orderly' /\ conn' \in [Peers -> ConnRecord] /\ wire' \in [Peers -> Frames]
    <3>1. PICK d : Moves(p, conn[p], d) /\ Became(p, d)
      BY <2>1 DEF EndpointMoves
    <3>2. Orderly'
      BY <2>1, <3>1, EndpointStep
    <3> QED
      BY <3>1, <3>2 DEF Became
  <2>2. Orderly' /\ conn' \in [Peers -> ConnRecord] /\ wire' \in [Peers -> Frames]
    <3>1. CASE ProcessFrame(p)
      BY <2>1, <3>1, ProcessFrameMoves DEF ProcessFrame
    <3>2. CASE AcceptRequest(p) \/ RejectRequest(p)
      BY <2>0, <2>1, <3>2, AcceptMoves DEF AcceptRequest, RejectRequest
    <3>3. CASE HandshakeResponse(p)
      BY <2>0, <2>1, <3>3, ResponseMoves DEF HandshakeResponse
    <3>4. CASE \E n \in 1..Len(wire[p]) : Receive(p, n)
      BY <3>4, ReceiveStep
    <3>5. CASE ReadMessage(p)
      BY <2>0, <2>1, <3>5, ReadMoves DEF ReadMessage
    <3>6. CASE ReadFails(p)
      <4>1. UNCHANGED <<conn, wire, up>>
        BY <3>6 DEF ReadFails
      <4> QED
        BY <4>1, ConnTypes DEF Orderly, Handshake, CloseOrder, Answerable, Established, InFlight
    <3>7. CASE Flush(p) \/ Close(p) \/ \E op \in {"ping", "pong"} : SendControl(p, op)
      <4>1. up' = up
        BY <3>7 DEF Flush, Close, SendControl
      <4> QED
        BY <2>0, <2>1, <3>7, <4>1, CallMoves
    <3>8. CASE Write(p) \/ \E fin \in BOOLEAN : WriteFragment(p, fin)
      <4>1. up' = up
        BY <3>8 DEF Write, WriteFragment
      <4>2. \E fin \in BOOLEAN : Writes(p, fin)
        BY <3>8, WriteMoves
      <4> QED
        BY <2>1, <4>1, <4>2 DEF Writes, EndpointMoves
    <3>9. CASE Drop(p)
      BY <3>9, DropStep
    <3> QED
      BY <1>2, <3>1, <3>2, <3>3, <3>4, <3>5, <3>6, <3>7, <3>8, <3>9 DEF Process, Read
  <2>3. /\ up' \in [Peers -> BOOLEAN] /\ ended' \in [Peers -> BOOLEAN]
        /\ initiated' \in [Peers -> BOOLEAN]
        /\ app' \in [Peers -> [payloads : Nat, pings : Nat, partial : Seq(Nat)]]
        /\ sent' \in [Peers -> Seq(Seq(Nat))] /\ delivered' \in [Peers -> Seq(Seq(Nat))]
    BY <1>2, HistoryTypes
  <2>4. TypeOK'
    BY <2>2, <2>3 DEF TypeOK, ConnRecord, Frames, FrameRecord, MessageRecord, States
  <2> QED
    BY <2>2, <2>4
<1> QED
  BY <1>1, <1>2 DEF Next

\* The two handshakes: in every state of a connection greetings come first and each in its
\* direction, a Close is sent once and followed by Pongs alone, and a closed side has a peer
\* that knows, will know or is gone (connection.rs, client.rs, server.rs, stream.rs).
THEOREM HandshakesAreOrderly == Spec => [](TypeOK /\ Orderly)
<1>1. Init => TypeOK /\ Orderly
  BY InitOrderly
<1>2. TypeOK /\ Orderly /\ [Next]_vars => TypeOK' /\ Orderly'
  BY NextOrderly
<1> QED
  BY <1>1, <1>2, PTL DEF Spec

\* Every variable keeps its type; in particular process() never meets a frame its handlers
\* have no case for, and a handshake never meets a frame of the other phase.
THEOREM ConnectionTypes == Spec => []TypeOK
BY HandshakesAreOrderly, PTL

\* send_frame: a Close is sent once and nothing but a Pong follows it on its way.
THEOREM CloseComesLast == Spec => []CloseIsLast
<1>1. TypeOK /\ Orderly => CloseIsLast
  <2> SUFFICES ASSUME TypeOK, Orderly, NEW p \in Peers
               PROVE  LET frames == InFlight(p)
                      IN  /\ \A i \in 1..Len(frames) : frames[i].op = "close" =>
                               \A j \in i + 1..Len(frames) : frames[j].op = "pong"
                          /\ conn[Other(p)].peerClose =>
                               \A i \in 1..Len(frames) : frames[i].op = "pong"
    BY DEF CloseIsLast
  <2> DEFINE s == InFlight(p)
             n == Len(s)
  <2>1. s \in Frames /\ Sealed(s) /\ (conn[Other(p)].peerClose => Only(s, {"pong"}))
    BY ConnTypes DEF Orderly, CloseOrder
  <2>2. n \in Nat /\ DOMAIN s = 1..n
    BY <2>1 DEF Frames
  <2> HIDE DEF s, n
  <2>3. \A i \in 1..n : \A j \in i + 1..n : j \in 1..n /\ i < j
    BY <2>2
  <2> QED
    BY <2>1, <2>2, <2>3 DEF Sealed, Only, s, n
<1> QED
  BY <1>1, HandshakesAreOrderly, PTL

\* No connection is left half open by close(), the automatic reply or fail().
THEOREM ConnectionsAreNotHalfOpen == Spec => []NoHalfOpen
<1>1. TypeOK /\ Orderly => NoHalfOpen
  <2> SUFFICES ASSUME TypeOK, Orderly
               PROVE  NoHalfOpen
    OBVIOUS
  <2>1. \A p \in Peers : HasClose(InFlight(p)) => \E i \in 1..Len(InFlight(p)) : InFlight(p)[i].op = "close"
    BY ConnTypes DEF HasClose, Frames
  <2>2. \A p \in Peers : Answerable(p)
    BY DEF Orderly
  <2> QED
    BY <2>1, <2>2 DEF Answerable, NoHalfOpen
<1> QED
  BY <1>1, HandshakesAreOrderly, PTL

-----------------------------------------------------------------------------
(* Reassembly: the payloads an endpoint sends are numbered, so a message is *)
(* an interval of them, and the stream carries the payloads that its        *)
(* receiver has not taken.                                                  *)

\* The payloads from a + 1 to b.
Interval(a, b) == [i \in 1..(b - a) |-> a + i]
LastOf(m) == m[Len(m)]

\* The data frames of s are those from a + 1 to b, in order.
Carries(s, a, b) ==
    /\ \A i \in DOMAIN s : IsData(s[i]) => s[i].payload \in a + 1..b
    /\ \A i, j \in DOMAIN s :
         i < j /\ IsData(s[i]) /\ IsData(s[j]) => s[i].payload < s[j].payload
    /\ \A m \in a + 1..b : \E i \in DOMAIN s : IsData(s[i]) /\ s[i].payload = m

\* FIN is set on the last frame of a message alone.
Framed(s, ends) == \A i \in DOMAIN s : IsData(s[i]) => (s[i].fin <=> s[i].payload \in ends)

\* Intervals as sequences.
LEMMA IntervalFacts ==
    ASSUME NEW a \in Nat, NEW b \in Nat, a <= b
    PROVE  /\ Interval(a, b) \in Seq(Nat) /\ Len(Interval(a, b)) = b - a
           /\ (Interval(a, b) = <<>> <=> a = b)
           /\ Append(Interval(a, b), b + 1) = Interval(a, b + 1)
           /\ LastOf(Interval(a, b + 1)) = b + 1
<1> DEFINE s == Interval(a, b)
           t == Interval(a, b + 1)
           n == b - a
           m == b + 1 - a
<1>1. n \in Nat /\ m \in Nat /\ m = n + 1 /\ b + 1 \in Nat /\ a + m = b + 1 /\ (n = 0 <=> a = b)
  OBVIOUS
<1>2. s = [i \in 1..n |-> a + i] /\ t = [i \in 1..m |-> a + i]
  BY DEF Interval
<1>3. (\A i \in 1..n : a + i \in Nat) /\ (\A i \in 1..m : a + i \in Nat)
  BY <1>1
<1> HIDE DEF n, m, s, t
<1>4. s \in Seq(Nat) /\ Len(s) = n
  BY <1>1, <1>2, <1>3
<1>5. t \in Seq(Nat) /\ Len(t) = m
  BY <1>1, <1>2, <1>3
<1>6. s = <<>> <=> n = 0
  BY <1>4, EmptySeq
<1>7. Append(s, b + 1) = t
  <2> DEFINE r == Append(s, b + 1)
  <2>1. r \in Seq(Nat) /\ Len(r) = n + 1 /\ r[n + 1] = b + 1 /\ \A i \in 1..n : r[i] = s[i]
    BY <1>1, <1>4, AppendProperties
  <2>2. \A i \in 1..m : i \in 1..n \/ i = n + 1
    BY <1>1
  <2> HIDE DEF r
  <2>3. \A i \in 1..m : r[i] = t[i]
    <3> SUFFICES ASSUME NEW i \in 1..m PROVE r[i] = t[i]
      OBVIOUS
    <3>1. t[i] = a + i
      BY <1>2
    <3>2. CASE i \in 1..n
      BY <1>2, <2>1, <3>1, <3>2
    <3>3. CASE i = n + 1
      BY <1>1, <2>1, <3>1, <3>3
    <3> QED
      BY <2>2, <3>2, <3>3
  <2> QED
    BY <1>1, <1>5, <2>1, <2>3, SeqEqual DEF r
<1>8. LastOf(t) = b + 1
  <2>1. m \in 1..m
    BY <1>1
  <2>2. t[m] = a + m
    BY <1>2, <2>1
  <2> QED
    BY <1>1, <1>5, <2>2 DEF LastOf
<1> QED
  BY <1>1, <1>4, <1>6, <1>7, <1>8 DEF s, t, n

\* A frame is queued: control, or the next payload.
LEMMA CarriesAppend ==
    ASSUME NEW s \in Frames, NEW f \in FrameRecord, NEW a \in Nat, NEW b \in Nat, a <= b,
           Carries(s, a, b)
    PROVE  /\ ~IsData(f) => Carries(Append(s, f), a, b)
           /\ IsData(f) /\ f.payload = b + 1 => Carries(Append(s, f), a, b + 1)
<1> DEFINE r == Append(s, f)
           n == Len(s)
<1>1. n \in Nat /\ DOMAIN s = 1..n /\ DOMAIN r = 1..n + 1
  BY DEF Frames
<1>2. r[n + 1] = f /\ \A i \in 1..n : r[i] = s[i]
  BY DEF Frames
<1>3. \A i : i \in 1..n + 1 <=> i \in 1..n \/ i = n + 1
  BY <1>1
<1>4. \A i \in 1..n : i \in 1..n + 1 /\ ~(n + 1 < i)
  BY <1>1
<1>5. ~(n + 1 < n + 1)
  BY <1>1
<1> HIDE DEF r, n
<1>6. \A i \in DOMAIN s : IsData(s[i]) => s[i].payload \in a + 1..b
  BY DEF Carries
<1>7. ASSUME ~IsData(f)
      PROVE  Carries(r, a, b)
  <2>1. \A i \in DOMAIN r : IsData(r[i]) => i \in 1..n
    BY <1>1, <1>2, <1>3, <1>7
  <2>2. \A i \in DOMAIN r : IsData(r[i]) => r[i].payload \in a + 1..b
    BY <1>1, <1>2, <1>6, <2>1
  <2>3. \A i, j \in DOMAIN r : i < j /\ IsData(r[i]) /\ IsData(r[j]) => r[i].payload < r[j].payload
    BY <1>1, <1>2, <2>1 DEF Carries
  <2>4. \A m \in a + 1..b : \E i \in DOMAIN r : IsData(r[i]) /\ r[i].payload = m
    BY <1>1, <1>2, <1>4 DEF Carries
  <2> QED
    BY <2>2, <2>3, <2>4 DEF Carries
<1>8. ASSUME IsData(f), f.payload = b + 1
      PROVE  Carries(r, a, b + 1)
  <2>1. \A m \in a + 1..b : m \in a + 1..b + 1 /\ m < b + 1
    OBVIOUS
  <2>2. b + 1 \in a + 1..b + 1 /\ \A m \in a + 1..b + 1 : m \in a + 1..b \/ m = b + 1
    OBVIOUS
  <2>3. ASSUME NEW i \in DOMAIN r, IsData(r[i])
        PROVE  r[i].payload \in a + 1..b + 1
    BY <1>1, <1>2, <1>3, <1>6, <1>8, <2>1, <2>2, <2>3
  <2>4. ASSUME NEW i \in DOMAIN r, NEW j \in DOMAIN r, i < j, IsData(r[i]), IsData(r[j])
        PROVE  r[i].payload < r[j].payload
    <3>1. i \in 1..n
      BY <1>1, <1>3, <1>4, <1>5, <2>4
    <3>2. CASE j \in 1..n
      BY <1>1, <1>2, <2>4, <3>1, <3>2 DEF Carries
    <3>3. CASE j = n + 1
      BY <1>1, <1>2, <1>6, <1>8, <2>1, <2>4, <3>1, <3>3
    <3> QED
      BY <1>1, <1>3, <3>2, <3>3
  <2>5. ASSUME NEW m \in a + 1..b + 1
        PROVE  \E i \in DOMAIN r : IsData(r[i]) /\ r[i].payload = m
    <3>1. CASE m = b + 1
      BY <1>1, <1>2, <1>3, <1>8, <3>1
    <3>2. CASE m \in a + 1..b
      <4>1. PICK i \in DOMAIN s : IsData(s[i]) /\ s[i].payload = m
        BY <3>2 DEF Carries
      <4> QED
        BY <1>1, <1>2, <1>4, <4>1
    <3> QED
      BY <2>2, <3>1, <3>2
  <2> QED
    BY <2>3, <2>4, <2>5 DEF Carries
<1> QED
  BY <1>7, <1>8 DEF r

\* The first frame is taken: control, or the next payload.
LEMMA CarriesTail ==
    ASSUME NEW s \in Frames, s # <<>>, NEW a \in Nat, NEW b \in Nat, a <= b, Carries(s, a, b)
    PROVE  /\ ~IsData(Head(s)) => Carries(Tail(s), a, b)
           /\ IsData(Head(s)) => /\ Head(s).payload = a + 1 /\ a < b
                                 /\ Carries(Tail(s), a + 1, b)
<1> DEFINE r == Tail(s)
           n == Len(r)
<1>1. /\ n \in Nat /\ DOMAIN r = 1..n /\ DOMAIN s = 1..n + 1 /\ s[1] = Head(s)
      /\ \A i \in 1..n : r[i] = s[i + 1]
  BY HeadTailProperties DEF Frames
<1>2. /\ \A i \in 1..n : i + 1 \in 1..n + 1 /\ 1 < i + 1
      /\ 1 \in 1..n + 1
      /\ \A i, j \in 1..n : i < j => i + 1 < j + 1
  BY <1>1
<1>3. \A i \in 1..n + 1 : i = 1 \/ (1 < i /\ \E j \in 1..n : r[j] = s[i])
  <2> SUFFICES ASSUME NEW i \in 1..n + 1, i # 1
               PROVE  1 < i /\ \E j \in 1..n : r[j] = s[i]
    OBVIOUS
  <2>1. i - 1 \in 1..n /\ i = (i - 1) + 1 /\ 1 < i
    BY <1>1
  <2> QED
    BY <1>1, <2>1
<1> HIDE DEF r, n
<1>4. /\ \A i \in DOMAIN s : IsData(s[i]) => s[i].payload \in a + 1..b
      /\ \A i, j \in DOMAIN s :
           i < j /\ IsData(s[i]) /\ IsData(s[j]) => s[i].payload < s[j].payload
      /\ \A m \in a + 1..b : \E i \in DOMAIN s : IsData(s[i]) /\ s[i].payload = m
  BY DEF Carries
<1>5. \A i, j \in DOMAIN r : i < j /\ IsData(r[i]) /\ IsData(r[j]) => r[i].payload < r[j].payload
  <2> SUFFICES ASSUME NEW i \in DOMAIN r, NEW j \in DOMAIN r, i < j, IsData(r[i]), IsData(r[j])
               PROVE  r[i].payload < r[j].payload
    OBVIOUS
  <2>1. /\ r[i] = s[i + 1] /\ r[j] = s[j + 1] /\ i + 1 \in DOMAIN s /\ j + 1 \in DOMAIN s
        /\ i + 1 < j + 1
    BY <1>1, <1>2
  <2> QED
    BY <1>4, <2>1
<1>6. ASSUME ~IsData(Head(s))
      PROVE  Carries(r, a, b)
  <2>1. \A i \in DOMAIN r : IsData(r[i]) => r[i].payload \in a + 1..b
    BY <1>1, <1>2, <1>4
  <2>2. \A m \in a + 1..b : \E i \in DOMAIN r : IsData(r[i]) /\ r[i].payload = m
    <3> SUFFICES ASSUME NEW m \in a + 1..b
                 PROVE  \E i \in DOMAIN r : IsData(r[i]) /\ r[i].payload = m
      OBVIOUS
    <3>1. PICK i \in DOMAIN s : IsData(s[i]) /\ s[i].payload = m
      BY <1>4
    <3> QED
      BY <1>1, <1>3, <1>6, <3>1
  <2> QED
    BY <1>5, <2>1, <2>2 DEF Carries
<1>7. ASSUME IsData(Head(s))
      PROVE  Head(s).payload = a + 1 /\ a < b /\ Carries(r, a + 1, b)
  <2> DEFINE h == s[1].payload
  <2>1. h \in a + 1..b
    BY <1>1, <1>2, <1>4, <1>7
  <2>2. a < b /\ a + 1 \in a + 1..b /\ h \in Nat /\ ~(h < a + 1)
    BY <2>1
  <2>3. PICK i \in DOMAIN s : IsData(s[i]) /\ s[i].payload = a + 1
    BY <1>4, <2>2
  <2>4. i = 1
    <3> SUFFICES ASSUME i # 1 PROVE FALSE
      OBVIOUS
    <3>1. 1 < i
      BY <1>1, <1>3
    <3>2. h < s[i].payload
      BY <1>1, <1>2, <1>4, <1>7, <2>3, <3>1
    <3> QED
      BY <2>2, <2>3, <3>2
  <2>5. h = a + 1
    BY <2>3, <2>4
  <2>6. ASSUME NEW j \in DOMAIN r, IsData(r[j])
        PROVE  r[j].payload \in a + 1 + 1..b
    <3>1. r[j] = s[j + 1] /\ j + 1 \in DOMAIN s /\ 1 < j + 1 /\ 1 \in DOMAIN s
      BY <1>1, <1>2
    <3> DEFINE q == s[j + 1].payload
    <3>2. q \in a + 1..b /\ h < q
      BY <1>1, <1>4, <1>7, <2>6, <3>1
    <3> HIDE DEF h, q
    <3>3. q \in a + 1 + 1..b
      BY <2>5, <3>2
    <3> QED
      BY <3>1, <3>3 DEF q
  <2>7. ASSUME NEW m \in a + 1 + 1..b
        PROVE  \E j \in DOMAIN r : IsData(r[j]) /\ r[j].payload = m
    <3>1. m \in a + 1..b /\ m # a + 1
      OBVIOUS
    <3>2. PICK k \in DOMAIN s : IsData(s[k]) /\ s[k].payload = m
      BY <1>4, <3>1
    <3>3. k # 1
      BY <2>5, <3>1, <3>2
    <3> QED
      BY <1>1, <1>3, <3>2, <3>3
  <2> QED
    BY <1>1, <1>5, <2>2, <2>5, <2>6, <2>7 DEF Carries
<1> QED
  BY <1>6, <1>7 DEF r

\* A stream without data has nothing left to carry.
LEMMA CarriesNothing ==
    ASSUME NEW s, NEW a \in Nat, NEW b \in Nat, a <= b, Carries(s, a, b),
           \A i \in DOMAIN s : ~IsData(s[i])
    PROVE  a = b
<1>1. a + 1 \notin a + 1..b
  BY DEF Carries
<1> QED
  BY <1>1

\* FIN, when a frame is queued or taken.
LEMMA FramedFacts ==
    ASSUME NEW s \in Frames, NEW ends, Framed(s, ends)
    PROVE  /\ \A f \in FrameRecord :
                (IsData(f) => (f.fin <=> f.payload \in ends)) => Framed(Append(s, f), ends)
           /\ s # <<>> => /\ Framed(Tail(s), ends)
                          /\ IsData(Head(s)) => (Head(s).fin <=> Head(s).payload \in ends)
<1>1. ASSUME NEW f \in FrameRecord, IsData(f) => (f.fin <=> f.payload \in ends)
      PROVE  Framed(Append(s, f), ends)
  <2> DEFINE r == Append(s, f)
             n == Len(s)
  <2>1. n \in Nat /\ DOMAIN s = 1..n /\ DOMAIN r = 1..n + 1
    BY DEF Frames
  <2>2. r[n + 1] = f /\ \A i \in 1..n : r[i] = s[i]
    BY DEF Frames
  <2>3. \A i : i \in 1..n + 1 <=> i \in 1..n \/ i = n + 1
    BY <2>1
  <2> HIDE DEF r, n
  <2>4. Framed(r, ends)
    BY <1>1, <2>1, <2>2, <2>3 DEF Framed
  <2> QED
    BY <2>4 DEF r
<1>2. ASSUME s # <<>>
      PROVE  /\ Framed(Tail(s), ends)
             /\ IsData(Head(s)) => (Head(s).fin <=> Head(s).payload \in ends)
  <2> DEFINE r == Tail(s)
             n == Len(r)
  <2>1. /\ n \in Nat /\ DOMAIN r = 1..n /\ DOMAIN s = 1..n + 1 /\ s[1] = Head(s)
        /\ \A i \in 1..n : r[i] = s[i + 1]
    BY <1>2, HeadTailProperties DEF Frames
  <2>2. 1 \in 1..n + 1 /\ \A i \in 1..n : i + 1 \in 1..n + 1
    BY <2>1
  <2> HIDE DEF r, n
  <2>3. Framed(r, ends)
    BY <2>1, <2>2 DEF Framed
  <2>4. IsData(Head(s)) => (Head(s).fin <=> Head(s).payload \in ends)
    BY <2>1, <2>2 DEF Framed
  <2> QED
    BY <2>3, <2>4 DEF r
<1> QED
  BY <1>1, <1>2

\* The messages `all' were sent whole, `part' is the beginning of the next one, and n payloads
\* make them up.
EndOf(all, k) == IF k = 0 THEN 0 ELSE LastOf(all[k])
EndsOf(all) == {EndOf(all, k) : k \in 1..Len(all)}

Numbered(all, part, n) ==
    /\ \A k \in 0..Len(all) : EndOf(all, k) \in 0..n
    /\ \A k, l \in 0..Len(all) : k < l => EndOf(all, k) < EndOf(all, l)
    /\ \A k \in 1..Len(all) : all[k] = Interval(EndOf(all, k - 1), EndOf(all, k))
    /\ part = Interval(EndOf(all, Len(all)), n)

\* A receiver with r messages and the fragment g has taken the payloads up to at, and the
\* stream s carries the rest of the n that were sent.
Tracks(g, r, all, n, s) ==
    LET at == EndOf(all, r) + Len(g)
    IN  /\ g = Interval(EndOf(all, r), at)
        /\ at <= n
        /\ r < Len(all) => at < EndOf(all, r + 1)
        /\ Carries(s, at, n)
        /\ Framed(s, EndsOf(all))

\* The messages and the beginning of the next one, with one more payload.
More(all, part, n, fin) == IF fin THEN Append(all, Append(part, n + 1)) ELSE all
Rest(part, n, fin) == IF fin THEN <<>> ELSE Append(part, n + 1)

\* The application sends its next payload.
LEMMA NumberedGrows ==
    ASSUME NEW all \in Seq(Seq(Nat)), NEW part \in Seq(Nat), NEW n \in Nat, NEW fin \in BOOLEAN,
           Numbered(all, part, n)
    PROVE  LET more == More(all, part, n, fin)
           IN  /\ more \in Seq(Seq(Nat)) /\ Len(all) <= Len(more)
               /\ Numbered(more, Rest(part, n, fin), n + 1)
               /\ \A k \in 0..Len(all) : EndOf(more, k) = EndOf(all, k)
               /\ \A k \in 1..Len(all) : more[k] = all[k]
               /\ EndsOf(more) = IF fin THEN EndsOf(all) \cup {n + 1} ELSE EndsOf(all)
               /\ fin => Len(more) = Len(all) + 1 /\ EndOf(more, Len(all) + 1) = n + 1
<1> DEFINE m == Append(part, n + 1)
           L == Len(all)
           e == EndOf(all, L)
<1>1. L \in Nat /\ L \in 0..L
  OBVIOUS
<1>2. e \in 0..n /\ part = Interval(e, n)
  BY <1>1 DEF Numbered
<1>3. e \in Nat /\ e <= n /\ n + 1 \in Nat /\ e <= n + 1 /\ e < n + 1
  BY <1>2
<1>4. m = Interval(e, n + 1) /\ LastOf(m) = n + 1 /\ m \in Seq(Nat)
  <2> HIDE DEF e
  <2>1. m = Interval(e, n + 1) /\ LastOf(Interval(e, n + 1)) = n + 1
    BY <1>2, <1>3, IntervalFacts
  <2>2. m \in Seq(Nat)
    BY <1>3
  <2> QED
    BY <2>1, <2>2
<1>5. Interval(n + 1, n + 1) = <<>>
  <2> DEFINE w == n + 1
  <2>1. w \in Nat /\ w <= w
    OBVIOUS
  <2> HIDE DEF w
  <2>2. Interval(w, w) = <<>>
    BY <2>1, IntervalFacts
  <2> QED
    BY <2>2 DEF w
<1>6. /\ \A k \in 0..L : EndOf(all, k) \in 0..n
      /\ \A k, l \in 0..L : k < l => EndOf(all, k) < EndOf(all, l)
      /\ \A k \in 1..L : all[k] = Interval(EndOf(all, k - 1), EndOf(all, k))
  BY DEF Numbered
<1>7. \A k \in 0..L : EndOf(all, k) \in 0..n + 1 /\ EndOf(all, k) < n + 1
  BY <1>6
<1>8. CASE ~fin
  <2>1. Numbered(all, m, n + 1)
    BY <1>4, <1>6, <1>7 DEF Numbered
  <2> QED
    BY <1>1, <1>8, <2>1 DEF More, Rest
<1>9. CASE fin
  <2> DEFINE t == Append(all, m)
  <2>1. t \in Seq(Seq(Nat)) /\ Len(t) = L + 1 /\ t[L + 1] = m /\ \A k \in 1..L : t[k] = all[k]
    BY <1>4, AppendProperties
  <2> HIDE DEF t, m, e
  <2>2. /\ \A k \in 0..L : k = 0 \/ k \in 1..L
        /\ L + 1 # 0 /\ (L + 1) - 1 = L /\ \A k \in 1..L : k - 1 \in 0..L /\ k \in 0..L
        /\ \A k \in 0..L + 1 : k \in 0..L \/ k = L + 1
        /\ \A k \in 1..L + 1 : k \in 1..L \/ k = L + 1
        /\ \A k \in 0..L : ~(L + 1 < k) /\ k \in 0..L + 1
        /\ ~(L + 1 < L + 1) /\ L + 1 \in 1..L + 1
        /\ \A k \in 1..L : k \in 1..L + 1
    BY <1>1
  <2> HIDE DEF L
  <2>3. EndOf(t, L + 1) = n + 1
    BY <1>4, <2>1, <2>2 DEF EndOf
  <2>4. \A k \in 0..L : EndOf(t, k) = EndOf(all, k)
    BY <2>1, <2>2 DEF EndOf
  <2>5. n + 1 \in 0..n + 1
    BY <1>3
  <2>6. \A k \in 0..L + 1 : EndOf(t, k) \in 0..n + 1
    BY <1>7, <2>2, <2>3, <2>4, <2>5
  <2>7. ASSUME NEW k \in 0..L + 1, NEW l \in 0..L + 1, k < l
        PROVE  EndOf(t, k) < EndOf(t, l)
    <3>1. k \in 0..L
      BY <2>2, <2>7
    <3>2. CASE l \in 0..L
      BY <1>6, <2>4, <2>7, <3>1, <3>2
    <3>3. CASE l = L + 1
      BY <1>7, <2>3, <2>4, <3>1, <3>3
    <3> QED
      BY <2>2, <3>2, <3>3
  <2>8. ASSUME NEW k \in 1..L + 1
        PROVE  t[k] = Interval(EndOf(t, k - 1), EndOf(t, k))
    <3>1. CASE k \in 1..L
      <4>1. k - 1 \in 0..L /\ k \in 0..L
        BY <2>2, <3>1
      <4> QED
        BY <1>6, <2>1, <2>4, <3>1, <4>1
    <3>2. CASE k = L + 1
      <4>1. EndOf(t, k - 1) = e
        BY <1>1, <2>2, <2>4, <3>2 DEF e
      <4> QED
        BY <1>4, <2>1, <2>3, <3>2, <4>1
    <3> QED
      BY <2>2, <3>1, <3>2
  <2>9. Numbered(t, <<>>, n + 1)
    BY <1>5, <2>1, <2>3, <2>6, <2>7, <2>8 DEF Numbered
  <2>10. EndsOf(t) = EndsOf(all) \cup {n + 1}
    <3>1. EndsOf(t) = {EndOf(t, k) : k \in 1..L + 1} /\ EndsOf(all) = {EndOf(all, k) : k \in 1..L}
      BY <2>1 DEF EndsOf, L
    <3> QED
      BY <2>2, <2>3, <2>4, <3>1
  <2>11. L <= L + 1
    BY <1>1
  <2> QED
    BY <1>9, <2>1, <2>3, <2>4, <2>9, <2>10, <2>11 DEF t, m, L, More, Rest
<1> QED
  BY <1>8, <1>9

\* The stream grows by the next payload.
LEMMA TracksSent ==
    ASSUME NEW all \in Seq(Seq(Nat)), NEW part \in Seq(Nat), NEW n \in Nat, NEW fin \in BOOLEAN,
           Numbered(all, part, n), NEW g \in Seq(Nat), NEW r \in Nat, r <= Len(all),
           NEW s \in Frames, Tracks(g, r, all, n, s),
           NEW f \in FrameRecord, IsData(f), f.payload = n + 1, f.fin <=> fin
    PROVE  Tracks(g, r, More(all, part, n, fin), n + 1, Append(s, f))
<1> DEFINE more == More(all, part, n, fin)
           L == Len(all)
           at == EndOf(all, r) + Len(g)
           t == Append(s, f)
<1>1. /\ more \in Seq(Seq(Nat)) /\ \A k \in 0..L : EndOf(more, k) = EndOf(all, k)
      /\ EndsOf(more) = IF fin THEN EndsOf(all) \cup {n + 1} ELSE EndsOf(all)
      /\ fin => Len(more) = L + 1 /\ EndOf(more, L + 1) = n + 1
      /\ ~fin => more = all
  <2>1. ~fin => more = all
    BY DEF More
  <2>2. /\ more \in Seq(Seq(Nat)) /\ \A k \in 0..L : EndOf(more, k) = EndOf(all, k)
        /\ EndsOf(more) = IF fin THEN EndsOf(all) \cup {n + 1} ELSE EndsOf(all)
        /\ fin => Len(more) = L + 1 /\ EndOf(more, L + 1) = n + 1
    BY NumberedGrows
  <2> QED
    BY <2>1, <2>2
<1>2. L \in Nat /\ r \in 0..L /\ Len(g) \in Nat
  OBVIOUS
<1>3. \A k \in 0..L : EndOf(all, k) \in 0..n
  BY DEF Numbered
<1>4. EndOf(all, r) \in Nat /\ at \in Nat
  BY <1>2, <1>3
<1>5. /\ g = Interval(EndOf(all, r), at) /\ at <= n /\ (r < L => at < EndOf(all, r + 1))
      /\ Carries(s, at, n) /\ Framed(s, EndsOf(all))
  BY DEF Tracks
<1>6. EndOf(more, r) = EndOf(all, r)
  BY <1>1, <1>2
<1>7. Carries(t, at, n + 1)
  <2> HIDE DEF at
  <2> QED
    BY <1>4, <1>5, CarriesAppend
<1>8. at <= n + 1
  <2> HIDE DEF at
  <2> QED
    BY <1>4, <1>5
<1>9. r < Len(more) => at < EndOf(more, r + 1)
  <2> HIDE DEF more, at
  <2>1. CASE ~fin
    BY <1>1, <1>5, <2>1
  <2>2. CASE fin /\ r < L
    <3>1. r + 1 \in 0..L
      BY <1>2, <2>2
    <3> QED
      BY <1>1, <1>5, <2>2, <3>1
  <2>3. CASE fin /\ r = L
    <3>1. at < n + 1
      BY <1>4, <1>5
    <3> QED
      BY <1>1, <2>3, <3>1
  <2> QED
    BY <1>2, <2>1, <2>2, <2>3
<1>10. Framed(t, EndsOf(more))
  <2>1. \A i \in DOMAIN s : IsData(s[i]) => s[i].payload # n + 1
    <3>1. \A i \in DOMAIN s : IsData(s[i]) => s[i].payload \in at + 1..n
      BY <1>5 DEF Carries
    <3>2. n + 1 \notin at + 1..n
      <4> HIDE DEF at
      <4> QED
        BY <1>4
    <3> QED
      BY <3>1, <3>2
  <2>2. n + 1 \notin EndsOf(all)
    <3>1. \A k \in 1..L : k \in 0..L
      BY <1>2
    <3>2. \A k \in 0..L : EndOf(all, k) # n + 1
      BY <1>3
    <3> QED
      BY <3>1, <3>2 DEF EndsOf
  <2> HIDE DEF more, at
  <2>3. Framed(s, EndsOf(more))
    BY <1>1, <1>5, <2>1 DEF Framed
  <2>4. f.fin <=> f.payload \in EndsOf(more)
    BY <1>1, <2>2
  <2> QED
    BY <2>3, <2>4, FramedFacts
<1> HIDE DEF more, t
<1>11. Tracks(g, r, more, n + 1, t)
  BY <1>5, <1>6, <1>7, <1>8, <1>9, <1>10 DEF Tracks
<1> QED
  BY <1>11 DEF more, t

\* What Tracks says, with the types it needs.
LEMMA TracksFacts ==
    ASSUME NEW all \in Seq(Seq(Nat)), NEW part, NEW n \in Nat, Numbered(all, part, n),
           NEW g \in Seq(Nat), NEW r \in Nat, r <= Len(all), NEW s, Tracks(g, r, all, n, s)
    PROVE  LET e == EndOf(all, r)
               at == e + Len(g)
           IN  /\ e \in Nat /\ at \in Nat /\ e <= at /\ at <= n /\ g = Interval(e, at)
               /\ r < Len(all) => at < EndOf(all, r + 1)
               /\ Carries(s, at, n) /\ Framed(s, EndsOf(all))
<1>1. EndOf(all, r) \in 0..n
  BY DEF Numbered
<1>2. Len(g) \in Nat /\ EndOf(all, r) \in Nat
  BY <1>1
<1> QED
  BY <1>2 DEF Tracks

\* A control frame is queued or taken.
LEMMA TracksQuietly ==
    ASSUME NEW all \in Seq(Seq(Nat)), NEW part, NEW n \in Nat, Numbered(all, part, n),
           NEW g \in Seq(Nat), NEW r \in Nat, r <= Len(all), NEW s \in Frames,
           Tracks(g, r, all, n, s)
    PROVE  /\ \A f \in FrameRecord : ~IsData(f) => Tracks(g, r, all, n, Append(s, f))
           /\ s # <<>> /\ ~IsData(Head(s)) => Tracks(g, r, all, n, Tail(s))
<1> DEFINE e == EndOf(all, r)
           at == e + Len(g)
<1>1. /\ e \in Nat /\ at \in Nat /\ e <= at /\ at <= n /\ g = Interval(e, at)
      /\ r < Len(all) => at < EndOf(all, r + 1)
      /\ Carries(s, at, n) /\ Framed(s, EndsOf(all))
  BY TracksFacts
<1> HIDE DEF at
<1>2. \A f \in FrameRecord : ~IsData(f) =>
        Carries(Append(s, f), at, n) /\ Framed(Append(s, f), EndsOf(all))
  BY <1>1, CarriesAppend, FramedFacts
<1>3. s # <<>> /\ ~IsData(Head(s)) => Carries(Tail(s), at, n) /\ Framed(Tail(s), EndsOf(all))
  BY <1>1, CarriesTail, FramedFacts
<1> QED
  BY <1>1, <1>2, <1>3 DEF Tracks, at

\* A payload is taken: it is the next one, and it ends the message when it carries FIN.
LEMMA TracksTaken ==
    ASSUME NEW all \in Seq(Seq(Nat)), NEW part, NEW n \in Nat, Numbered(all, part, n),
           NEW g \in Seq(Nat), NEW r \in Nat, r <= Len(all), NEW s \in Frames,
           Tracks(g, r, all, n, s), s # <<>>, IsData(Head(s))
    PROVE  LET h == Append(g, Head(s).payload)
           IN  /\ ~Head(s).fin => Tracks(h, r, all, n, Tail(s))
               /\ Head(s).fin => /\ r < Len(all) /\ all[r + 1] = h
                                 /\ Tracks(<<>>, r + 1, all, n, Tail(s))
<1> DEFINE e == EndOf(all, r)
           at == e + Len(g)
           L == Len(all)
           q == at + 1
           h == Append(g, q)
           t == Tail(s)
<1>1. /\ e \in Nat /\ at \in Nat /\ e <= at /\ at <= n /\ g = Interval(e, at)
      /\ r < L => at < EndOf(all, r + 1)
      /\ Carries(s, at, n) /\ Framed(s, EndsOf(all))
  BY TracksFacts
<1>2. L \in Nat /\ (r < L => r + 1 \in 1..L /\ r + 1 \in 0..L) /\ r \in 0..L
  OBVIOUS
<1>3. /\ \A k \in 0..L : EndOf(all, k) \in 0..n
      /\ \A k, l \in 0..L : k < l => EndOf(all, k) < EndOf(all, l)
      /\ \A k \in 1..L : all[k] = Interval(EndOf(all, k - 1), EndOf(all, k))
  BY DEF Numbered
<1> HIDE DEF at
<1>4. Head(s).payload = q /\ at < n /\ Carries(t, q, n)
  BY <1>1, CarriesTail
<1>5. Framed(t, EndsOf(all)) /\ (Head(s).fin <=> q \in EndsOf(all))
  BY <1>1, <1>4, FramedFacts
<1>6. q \in Nat /\ q <= n /\ e <= q /\ q = e + (Len(g) + 1)
  BY <1>1, <1>4 DEF at
<1>7. h = Interval(e, q) /\ h \in Seq(Nat) /\ Len(h) = Len(g) + 1
  <2>1. h = Interval(e, q)
    BY <1>1, IntervalFacts
  <2> QED
    BY <1>6, <2>1
<1> HIDE DEF e, q, h, t, L
<1>8. ASSUME ~Head(s).fin
      PROVE  Tracks(h, r, all, n, t)
  <2>1. r < L => q < EndOf(all, r + 1)
    <3> SUFFICES ASSUME r < L PROVE q < EndOf(all, r + 1)
      OBVIOUS
    <3> DEFINE z == EndOf(all, r + 1)
    <3>1. z \in EndsOf(all) /\ z \in 0..n
      BY <1>2, <1>3 DEF EndsOf, L
    <3>2. z # q /\ at < z
      BY <1>1, <1>5, <1>8, <3>1
    <3> HIDE DEF z
    <3>3. q < z
      BY <1>1, <3>1, <3>2 DEF q
    <3> QED
      BY <3>3 DEF z
  <2>2. e + Len(h) = q
    BY <1>6, <1>7
  <2> QED
    BY <1>4, <1>5, <1>6, <1>7, <2>1, <2>2 DEF Tracks, e, L
<1>9. ASSUME Head(s).fin
      PROVE  r < L /\ all[r + 1] = h /\ Tracks(<<>>, r + 1, all, n, t)
  <2>1. PICK j \in 1..L : EndOf(all, j) = q
    BY <1>5, <1>9 DEF EndsOf, L
  <2>2. j \in 0..L /\ j \in Nat
    BY <1>2
  <2>3. r < j
    <3> SUFFICES ASSUME ~(r < j) PROVE FALSE
      OBVIOUS
    <3>1. j = r \/ j < r
      BY <2>2
    <3>2. EndOf(all, j) = e \/ EndOf(all, j) < e
      BY <1>2, <1>3, <2>2, <3>1 DEF e
    <3>3. q = e \/ q < e
      BY <2>1, <3>2
    <3> QED
      BY <1>1, <3>3 DEF q
  <2>4. r < L
    BY <1>2, <2>2, <2>3
  <2> DEFINE z == EndOf(all, r + 1)
  <2>5. at < z /\ z \in 0..n
    BY <1>1, <1>2, <1>3, <2>4
  <2>6. j = r + 1 \/ r + 1 < j
    BY <2>2, <2>3
  <2>7. z = q \/ z < q
    BY <1>2, <1>3, <2>1, <2>2, <2>4, <2>6
  <2> HIDE DEF z
  <2>8. z = q
    BY <1>1, <2>5, <2>7 DEF q
  <2>9. all[r + 1] = h
    <3>1. (r + 1) - 1 = r
      OBVIOUS
    <3>2. all[r + 1] = Interval(EndOf(all, (r + 1) - 1), EndOf(all, r + 1))
      BY <1>2, <1>3, <2>4
    <3> QED
      BY <1>7, <2>8, <3>1, <3>2 DEF e, z
  <2>10. r + 1 < L => q < EndOf(all, r + 1 + 1)
    <3> SUFFICES ASSUME r + 1 < L PROVE q < EndOf(all, r + 1 + 1)
      OBVIOUS
    <3>1. r + 1 \in 0..L /\ r + 1 + 1 \in 0..L /\ r + 1 < r + 1 + 1
      BY <1>2
    <3> QED
      BY <1>3, <2>8, <3>1 DEF z
  <2>11. Interval(q, q) = <<>> /\ q + Len(<<>>) = q
    <3>1. q \in Nat /\ q <= q
      BY <1>6
    <3>2. Interval(q, q) = <<>>
      BY <3>1, IntervalFacts
    <3> QED
      BY <3>1, <3>2
  <2> QED
    BY <1>4, <1>5, <1>6, <2>4, <2>8, <2>9, <2>10, <2>11 DEF Tracks, z, L
<1> QED
  BY <1>4, <1>8, <1>9 DEF h, t, L

\* Nothing on its way: every message sent whole was taken.
LEMMA TracksDone ==
    ASSUME NEW all \in Seq(Seq(Nat)), NEW part, NEW n \in Nat, Numbered(all, part, n),
           NEW g \in Seq(Nat), NEW r \in Nat, r <= Len(all), NEW s,
           Tracks(g, r, all, n, s), \A i \in DOMAIN s : ~IsData(s[i])
    PROVE  r = Len(all)
<1> DEFINE at == EndOf(all, r) + Len(g)
<1>1. at \in Nat /\ at <= n /\ Carries(s, at, n) /\ (r < Len(all) => at < EndOf(all, r + 1))
  BY TracksFacts
<1> HIDE DEF at
<1>2. at = n
  BY <1>1, CarriesNothing
<1>3. r < Len(all) => r + 1 \in 0..Len(all)
  OBVIOUS
<1>4. r < Len(all) => EndOf(all, r + 1) \in 0..n
  BY <1>3 DEF Numbered
<1>5. ~(r < Len(all))
  BY <1>1, <1>2, <1>4
<1> QED
  BY <1>5

-----------------------------------------------------------------------------
(* The invariant of reassembly.                                             *)

\* Endpoint p still takes data: after its own Close it only finishes a message.
InSync(p) == up[p] /\ conn[p].state # "Closed" /\ (conn[p].localClose => conn[p].fragment # <<>>)

SentIsNumbered(p) == Numbered(sent[p], app[p].partial, app[p].payloads)

Received(p) ==
    /\ Len(delivered[p]) <= Len(sent[Other(p)])
    /\ \A k \in 1..Len(delivered[p]) : delivered[p][k] = sent[Other(p)][k]

Synced(p) ==
    InSync(p) => Tracks(conn[p].fragment, Len(delivered[p]), sent[Other(p)],
                        app[Other(p)].payloads, InFlight(Other(p)))

Complete(p) ==
    /\ conn[p].localClose => initiated[p] \/ conn[p].peerClose \/ conn[p].error
    /\ conn[p].peerClose /\ ~initiated[p] /\ ~conn[p].error => delivered[p] = sent[Other(p)]

Delivery == \A p \in Peers : SentIsNumbered(p) /\ Received(p) /\ Synced(p) /\ Complete(p)

\* The two streams, frame by frame.
LEMMA StreamSteps ==
    ASSUME TypeOK, NEW p \in Peers, NEW o \in Peers, o = Other(p), NEW d, Became(p, d)
    PROVE  /\ up[o] /\ d.tx = conn[p].tx => InFlight(p)' = InFlight(p)
           /\ \A f \in FrameRecord :
                up[o] /\ d.tx = Append(conn[p].tx, f) => InFlight(p)' = Append(InFlight(p), f)
           /\ d.rx = conn[p].rx => InFlight(o)' = InFlight(o)
           /\ Consumes(conn[p], d) =>
                /\ InFlight(o) # <<>> /\ Head(InFlight(o)) = Head(conn[p].rx)
                /\ InFlight(o)' = Tail(InFlight(o))
<1> DEFINE a == conn[o].rx \o wire[o]
           c == conn[p]
           w == wire[p]
           e == conn[o].tx
<1>1. Other(o) = p /\ Other(p) = o
  BY OtherFacts
<1>2. /\ a \in Frames /\ c.tx \in Frames /\ c.rx \in Frames /\ w \in Frames /\ e \in Frames
  BY ConnTypes, ConcatProperties DEF Frames
<1>3. /\ up[o] => InFlight(p)' = StreamWith(p, d)
      /\ InFlight(o)' = d.rx \o w \o e
  BY <1>1 DEF Became
<1>4. /\ InFlight(p) = a \o c.tx /\ StreamWith(p, d) = a \o d.tx
      /\ InFlight(o) = (c.rx \o w) \o e
  BY <1>1 DEF InFlight, StreamWith
<1> HIDE DEF a, c, w, e
<1>5. \A f \in FrameRecord : a \o Append(c.tx, f) = Append(a \o c.tx, f)
  BY <1>2, ConcatEnds
<1>6. ASSUME c.rx # <<>>
      PROVE  LET x == (c.rx \o w) \o e
             IN  x # <<>> /\ Head(x) = Head(c.rx) /\ (Tail(c.rx) \o w) \o e = Tail(x)
  <2> DEFINE q == c.rx
             h == q \o w
  <2>1. h \in Frames
    BY <1>2, ConcatProperties DEF Frames
  <2>2. h # <<>> /\ Head(h) = Head(q) /\ Tail(q) \o w = Tail(h)
    BY <1>2, <1>6, ConcatEnds
  <2> HIDE DEF h
  <2>3. h \o e # <<>> /\ Head(h \o e) = Head(h) /\ Tail(h) \o e = Tail(h \o e)
    BY <1>2, <2>1, <2>2, ConcatEnds
  <2> QED
    BY <2>2, <2>3 DEF h
<1> QED
  BY <1>3, <1>4, <1>5, <1>6 DEF Consumes, c

\* The types the receiver's facts need.
LEMMA DeliveryTypes ==
    ASSUME TypeOK, NEW p \in Peers
    PROVE  /\ sent[p] \in Seq(Seq(Nat)) /\ app[p].partial \in Seq(Nat) /\ app[p].payloads \in Nat
           /\ delivered[p] \in Seq(Seq(Nat)) /\ Len(delivered[p]) \in Nat
           /\ conn[p].fragment \in Seq(Nat) /\ InFlight(p) \in Frames
<1>1. conn[p] \in ConnRecord /\ InFlight(p) \in Frames
  BY ConnTypes
<1>2. sent[p] \in Seq(Seq(Nat)) /\ delivered[p] \in Seq(Seq(Nat))
  BY DEF TypeOK
<1>3. app[p].partial \in Seq(Nat) /\ app[p].payloads \in Nat
  BY DEF TypeOK
<1>4. conn[p].fragment \in Seq(Nat)
  BY <1>1 DEF ConnRecord
<1> QED
  BY <1>1, <1>2, <1>3, <1>4

\* Endpoint o receives from p, and p sends it no data.
LEMMA PeerUndisturbed ==
    ASSUME TypeOK, Delivery, NEW p \in Peers, NEW o \in Peers, o = Other(p), NEW d, Became(p, d),
           d.tx = conn[p].tx \/ \E f \in FrameRecord : ~IsData(f) /\ d.tx = Append(conn[p].tx, f),
           up' = up, sent'[p] = sent[p], app'[p].payloads = app[p].payloads,
           delivered'[o] = delivered[o], initiated'[o] <=> initiated[o]
    PROVE  Received(o)' /\ Synced(o)' /\ Complete(o)'
<1>1. Other(o) = p /\ Other(p) = o
  BY OtherFacts
<1>2. conn'[o] = conn[o]
  BY <1>1 DEF Became
<1>3. Received(o) /\ Synced(o) /\ Complete(o) /\ SentIsNumbered(p)
  BY DEF Delivery
<1>4. Received(o)' /\ Complete(o)'
  BY <1>1, <1>2, <1>3 DEF Received, Complete
<1>5. Synced(o)'
  <2> SUFFICES ASSUME InSync(o)'
               PROVE  Tracks(conn'[o].fragment, Len(delivered'[o]), sent'[p], app'[p].payloads,
                             InFlight(p)')
    BY <1>1 DEF Synced
  <2>1. up[o] /\ InSync(o)
    BY <1>2 DEF InSync
  <2> DEFINE g == conn[o].fragment
             r == Len(delivered[o])
             all == sent[p]
             n == app[p].payloads
             s == InFlight(p)
  <2>2. Tracks(g, r, all, n, s)
    BY <1>1, <1>3, <2>1 DEF Synced
  <2>3. /\ all \in Seq(Seq(Nat)) /\ app[p].partial \in Seq(Nat) /\ n \in Nat /\ r \in Nat
        /\ g \in Seq(Nat) /\ s \in Frames /\ r <= Len(all)
        /\ Numbered(all, app[p].partial, n)
    BY <1>1, <1>3, DeliveryTypes DEF Received, SentIsNumbered
  <2>4. InFlight(p)' = s \/ \E f \in FrameRecord : ~IsData(f) /\ InFlight(p)' = Append(s, f)
    BY <1>1, <2>1, StreamSteps
  <2> HIDE DEF g, r, all, n, s
  <2>5. Tracks(g, r, all, n, InFlight(p)')
    BY <2>2, <2>3, <2>4, TracksQuietly
  <2> QED
    BY <1>2, <2>5 DEF g, r, all, n
<1> QED
  BY <1>4, <1>5

\* A step that moves no data.
LEMMA QuietStep ==
    ASSUME TypeOK, Orderly, Delivery, NEW p \in Peers, QuietMoves(p), up[p], up' = up,
           conn[p].state = "Closed" => conn'[p].peerClose = conn[p].peerClose,
           UNCHANGED <<sent, delivered>>,
           \A q \in Peers : /\ app'[q].payloads = app[q].payloads /\ app'[q].partial = app[q].partial
                            /\ initiated[q] => initiated'[q]
                            /\ q # p => (initiated'[q] <=> initiated[q])
    PROVE  Delivery'
<1> DEFINE c == conn[p]
<1>1. PICK o \in Peers : o = Other(p)
  BY OtherFacts
<1>2. o # p /\ Other(o) = p /\ (\A q \in Peers : q = p \/ q = o)
  BY <1>1, OtherFacts
<1>3. PICK d : /\ Moves(p, conn[p], d) /\ Became(p, d) /\ Keeps(conn[p], d)
               /\ d.localClose => conn[p].localClose \/ d.peerClose \/ initiated'[p]
  BY DEF QuietMoves
<1>4. /\ d.tx = c.tx \/ \E f \in FrameRecord : ~IsData(f) /\ d.tx = Append(c.tx, f)
      /\ d.rx = c.rx \/ (Consumes(c, d) /\ ~IsData(Head(c.rx)))
      /\ d.fragment = c.fragment /\ (d.error <=> c.error)
  BY <1>3 DEF Keeps
<1>5. Received(o)' /\ Synced(o)' /\ Complete(o)'
  BY <1>1, <1>2, <1>3, <1>4, PeerUndisturbed
<1>6. \A q \in Peers : SentIsNumbered(q)'
  BY DEF Delivery, SentIsNumbered
<1>7. Received(p)'
  BY DEF Delivery, Received
<1>8. /\ conn'[p].fragment = c.fragment /\ conn'[p].state = d.state
      /\ (conn'[p].localClose <=> d.localClose) /\ (conn'[p].peerClose <=> d.peerClose)
      /\ (conn'[p].error <=> c.error)
  BY <1>3, <1>4 DEF Became
<1>9. /\ \/ d.rx = c.rx /\ (d.peerClose <=> c.peerClose)
         \/ Consumes(c, d) /\ (d.peerClose <=> c.peerClose \/ Head(c.rx).op = "close")
      /\ c.state = "Closed" => d.state = "Closed"
      /\ c.localClose => d.localClose
  BY <1>3 DEF Moves, Emits
<1>10. Received(p) /\ Synced(p) /\ Complete(p) /\ SentIsNumbered(o)
  BY DEF Delivery
<1> DEFINE g == c.fragment
           r == Len(delivered[p])
           all == sent[o]
           n == app[o].payloads
           x == InFlight(o)
           y == InFlight(o)'
<1>11. /\ all \in Seq(Seq(Nat)) /\ app[o].partial \in Seq(Nat) /\ n \in Nat /\ r \in Nat
       /\ g \in Seq(Nat) /\ x \in Frames /\ r <= Len(all)
       /\ Numbered(all, app[o].partial, n) /\ delivered[p] \in Seq(Seq(Nat))
  BY <1>1, <1>10, DeliveryTypes DEF Received, SentIsNumbered
<1>12. y = x \/ (x # <<>> /\ ~IsData(Head(x)) /\ y = Tail(x))
  BY <1>1, <1>3, <1>4, StreamSteps
<1>13. ASSUME InSync(p)
       PROVE  Tracks(g, r, all, n, y)
  <2>1. Tracks(g, r, all, n, x)
    BY <1>1, <1>10, <1>13 DEF Synced
  <2> HIDE DEF g, r, all, n, x, y
  <2> QED
    BY <1>11, <1>12, <2>1, TracksQuietly
<1>14. Synced(p)'
  <2> SUFFICES ASSUME InSync(p)'
               PROVE  Tracks(conn'[p].fragment, Len(delivered'[p]), sent'[o], app'[o].payloads, y)
    BY <1>1 DEF Synced
  <2>1. InSync(p)
    BY <1>8, <1>9 DEF InSync
  <2> QED
    BY <1>8, <1>13, <2>1
<1>15. Complete(p)'
  <2>1. d.localClose => initiated'[p] \/ d.peerClose \/ c.error
    BY <1>3, <1>9, <1>10 DEF Complete
  <2>2. ASSUME d.peerClose, ~initiated'[p], ~c.error
        PROVE  delivered[p] = sent[o]
    <3>1. CASE c.peerClose
      BY <1>1, <1>10, <2>2, <3>1 DEF Complete
    <3>2. CASE ~c.peerClose
      <4>1. Consumes(c, d) /\ Head(c.rx).op = "close"
        BY <1>9, <2>2, <3>2
      <4>2. c.state # "Closed"
        BY <1>8, <2>2, <3>2
      <4>3. ~c.localClose
        BY <1>10, <2>2, <3>2 DEF Complete
      <4>4. InSync(p)
        BY <4>2, <4>3 DEF InSync
      <4>5. x # <<>> /\ Head(x).op = "close" /\ y = Tail(x)
        BY <1>1, <1>3, <4>1, StreamSteps
      <4>6. Sealed(x)
        BY DEF Orderly, CloseOrder
      <4>7. Only(y, {"pong"})
        BY <1>11, <4>5, <4>6, StreamTail
      <4>8. \A i \in DOMAIN y : ~IsData(y[i])
        BY <4>7 DEF Only, IsData
      <4>9. Tracks(g, r, all, n, y)
        BY <1>13, <4>4
      <4> HIDE DEF g, r, all, n, x, y
      <4>10. r = Len(all)
        BY <1>11, <4>8, <4>9, TracksDone
      <4>11. \A k \in 1..Len(all) : delivered[p][k] = all[k]
        BY <1>1, <1>10, <4>10 DEF Received, r, all
      <4>12. delivered[p] = all
        BY <1>11, <4>10, <4>11, SeqEqual DEF r
      <4> QED
        BY <4>12 DEF all
    <3> QED
      BY <3>1, <3>2
  <2> QED
    BY <1>1, <1>8, <2>1, <2>2 DEF Complete
<1> QED
  BY <1>2, <1>5, <1>6, <1>7, <1>14, <1>15 DEF Delivery

\* process_frames with a data frame.
LEMMA TakeStep ==
    ASSUME TypeOK, Orderly, Delivery, NEW p \in Peers, ProcessFrame(p),
           IsData(Head(conn[p].rx))
    PROVE  Delivery'
<1> DEFINE c == conn[p]
           k == Consumed(p)
           f == Head(c.rx)
           d == Handled(k, p, f)
           last == d.messages[Len(d.messages)]
<1>1. PICK o \in Peers : o = Other(p)
  BY OtherFacts
<1>2. o # p /\ Other(o) = p /\ (\A q \in Peers : q = p \/ q = o)
  BY <1>1, OtherFacts
<1>3. /\ c.rx # <<>> /\ c.state \in {"Open", "Closing"} /\ up[p] /\ Processed(p, d, d.error)
      /\ delivered' = IF d.messages # c.messages /\ last.kind = "data"
                      THEN [delivered EXCEPT ![p] = Append(@, last.body)] ELSE delivered
      /\ UNCHANGED <<up, app, sent, initiated>>
  BY DEF ProcessFrame, InProcess
<1>4. /\ f \in FrameRecord /\ f.op \in BodyOps
      /\ k \in ConnRecord /\ Consumes(c, k) /\ k.fragment = c.fragment
      /\ k.state = c.state /\ k.tx = c.tx /\ (k.localClose <=> c.localClose)
      /\ (k.peerClose <=> c.peerClose) /\ (k.error <=> c.error) /\ k.messages = c.messages
  BY <1>3, NextFrame DEF Established
<1>5. ~c.error /\ c \in ConnRecord /\ f.op # "close"
  BY <1>3, EstablishedFacts, ConnTypes DEF Established, IsData
<1> HIDE DEF c, k, f
<1>6. /\ Took(k, d) /\ (d.peerClose <=> k.peerClose \/ f.op = "close")
      /\ Surfaces(k, d, f)
  BY <1>3, <1>4, <1>5, HandledFacts, HandledSurfaces
<1> HIDE DEF d, last
<1>7. Became(p, d)
  BY <1>3, <1>6, ProcessedBecomes DEF Took
<1>8. d.tx = c.tx \/ \E h \in FrameRecord : ~IsData(h) /\ d.tx = Append(c.tx, h)
  <2>1. Sends(k, d)
    BY <1>6 DEF Took
  <2>2. \A h : h.op \in {"pong", "close"} => ~IsData(h)
    BY DEF IsData
  <2> QED
    BY <1>4, <2>1, <2>2 DEF Sends
<1>9. /\ Consumes(c, d) /\ (d.peerClose <=> c.peerClose) /\ (d.error => d.state = "Closed")
  BY <1>4, <1>5, <1>6 DEF Took, Consumes
<1>10. /\ conn'[p].fragment = d.fragment /\ conn'[p].state = d.state
       /\ (conn'[p].localClose <=> d.localClose) /\ (conn'[p].peerClose <=> c.peerClose)
       /\ (conn'[p].error <=> d.error)
  BY <1>7, <1>9 DEF Became
<1> DEFINE g == c.fragment
           r == Len(delivered[p])
           all == sent[o]
           n == app[o].payloads
           x == InFlight(o)
           y == InFlight(o)'
           b == Append(g, f.payload)
<1>11. Received(p) /\ Synced(p) /\ Complete(p) /\ SentIsNumbered(o)
  BY DEF Delivery
<1>12. /\ all \in Seq(Seq(Nat)) /\ app[o].partial \in Seq(Nat) /\ n \in Nat /\ r \in Nat
       /\ g \in Seq(Nat) /\ x \in Frames /\ r <= Len(all)
       /\ Numbered(all, app[o].partial, n) /\ delivered[p] \in Seq(Seq(Nat))
  BY <1>1, <1>11, DeliveryTypes DEF Received, SentIsNumbered, c
<1>13. x # <<>> /\ Head(x) = f /\ y = Tail(x)
  BY <1>1, <1>7, <1>9, StreamSteps DEF c, f
<1>14. ~c.peerClose
  <2> SUFFICES ASSUME c.peerClose PROVE FALSE
    OBVIOUS
  <2>1. Only(x, {"pong"})
    BY <1>2 DEF Orderly, CloseOrder, c
  <2>2. f.op = "pong"
    BY <1>12, <1>13, <2>1, StreamTail
  <2> QED
    BY <2>2 DEF IsData, f, c
<1>15. delivered'[o] = delivered[o]
  BY <1>2, <1>3 DEF TypeOK
<1>16. Received(o)' /\ Synced(o)' /\ Complete(o)'
  BY <1>1, <1>3, <1>7, <1>8, <1>15, PeerUndisturbed DEF c
<1>17. \A q \in Peers : SentIsNumbered(q)'
  BY <1>3 DEF Delivery, SentIsNumbered
<1>18. ASSUME InSync(p)
       PROVE  /\ ~f.fin => Tracks(b, r, all, n, y)
              /\ f.fin => r < Len(all) /\ all[r + 1] = b /\ Tracks(<<>>, r + 1, all, n, y)
  <2>1. Tracks(g, r, all, n, x)
    BY <1>1, <1>11, <1>18 DEF Synced, c
  <2>2. IsData(f)
    BY DEF f, c
  <2> DEFINE u == Head(x)
             v == Append(g, u.payload)
             t == Tail(x)
  <2> HIDE DEF g, r, all, n, x, y
  <2>3. /\ ~u.fin => Tracks(v, r, all, n, t)
        /\ u.fin => r < Len(all) /\ all[r + 1] = v /\ Tracks(<<>>, r + 1, all, n, t)
    BY <1>12, <1>13, <2>1, <2>2, TracksTaken
  <2>4. u = f /\ v = b /\ t = y
    BY <1>13
  <2> HIDE DEF u, v, t, b
  <2> QED
    BY <2>3, <2>4
<1>19. c.localClose => initiated[p]
  BY <1>5, <1>11, <1>14 DEF Complete, c
<1>20. CASE d.messages = c.messages
  <2>1. delivered' = delivered
    BY <1>3, <1>20
  <2>2. Received(p)'
    BY <1>3, <1>11, <2>1 DEF Received
  <2>3. CASE d.error
    <3>1. Synced(p)'
      BY <1>9, <1>10, <2>3 DEF Synced, InSync
    <3>2. Complete(p)'
      BY <1>10, <2>3 DEF Complete
    <3> QED
      BY <1>2, <1>16, <1>17, <2>2, <3>1, <3>2 DEF Delivery
  <2>4. CASE ~d.error
    <3>1. d.localClose <=> c.localClose
      BY <1>4, <1>6, <1>20, <2>4 DEF Surfaces, IsData, f, c
    <3>2. Complete(p)'
      BY <1>3, <1>10, <1>14, <1>19, <3>1 DEF Complete
    <3>3. Synced(p)'
      <4> SUFFICES ASSUME InSync(p)'
                   PROVE  Tracks(d.fragment, r, all, n, y)
        BY <1>1, <1>3, <1>10, <2>1 DEF Synced
      <4>1. d.localClose => d.fragment # <<>>
        BY <1>10 DEF InSync
      <4>2. /\ ~f.fin /\ d.fragment = b
            /\ \/ f.op = "data" /\ ~c.localClose
               \/ f.op = "cont" /\ c.fragment # <<>>
        <5>1. IsData(f) /\ c.messages \in Seq(MessageRecord)
          BY <1>5 DEF f, c, ConnRecord
        <5>2. \A m : c.messages # Append(c.messages, m)
          <6> SUFFICES ASSUME NEW m, c.messages = Append(c.messages, m) PROVE FALSE
            OBVIOUS
          <6>1. Len(Append(c.messages, m)) = Len(c.messages) + 1 /\ Len(c.messages) \in Nat
            BY <5>1
          <6> QED
            BY <6>1
        <5> QED
          BY <1>4, <1>6, <1>14, <1>20, <2>4, <4>1, <5>1, <5>2 DEF Surfaces, IsData
      <4>3. InSync(p)
        BY <1>3, <4>2 DEF InSync, c
      <4> QED
        BY <1>18, <4>2, <4>3
    <3> QED
      BY <1>2, <1>16, <1>17, <2>2, <3>2, <3>3 DEF Delivery
  <2> QED
    BY <2>3, <2>4
<1>21. CASE d.messages # c.messages
  <2>1. /\ ~d.error /\ f.fin /\ (d.localClose <=> c.localClose)
        /\ \/ f.op = "data" /\ ~c.localClose
           \/ f.op = "cont" /\ c.fragment # <<>>
        /\ d.fragment = <<>> /\ d.messages = Append(c.messages, Message(b))
    BY <1>4, <1>6, <1>21 DEF Surfaces, IsData, f, c
  <2>2. InSync(p)
    BY <1>3, <2>1 DEF InSync, c
  <2>3. r < Len(all) /\ all[r + 1] = b /\ Tracks(<<>>, r + 1, all, n, y)
    BY <1>18, <2>1, <2>2
  <2>4. last = Message(b)
    <3>1. c.messages \in Seq(MessageRecord)
      BY <1>5 DEF ConnRecord
    <3> DEFINE w == Message(b)
    <3> HIDE DEF w
    <3>2. Append(c.messages, w)[Len(Append(c.messages, w))] = w
      BY <3>1
    <3> QED
      BY <2>1, <3>2 DEF last, w
  <2>5. last.kind = "data" /\ last.body = b
    BY <2>4 DEF Message
  <2>6. delivered'[p] = Append(delivered[p], b)
    BY <1>3, <1>21, <2>5 DEF TypeOK
  <2>7. /\ Len(delivered'[p]) = r + 1 /\ delivered'[p][r + 1] = b
        /\ \A i \in 1..r : delivered'[p][i] = delivered[p][i]
    BY <1>12, <2>6
  <2>8. Received(p)'
    <3>1. r + 1 <= Len(all) /\ \A i \in 1..r + 1 : i \in 1..r \/ i = r + 1
      BY <1>12, <2>3
    <3>2. \A i \in 1..r + 1 : delivered'[p][i] = all[i]
      BY <1>1, <1>11, <2>3, <2>7, <3>1 DEF Received
    <3> HIDE DEF r
    <3> QED
      BY <1>1, <1>3, <2>7, <3>1, <3>2 DEF Received
  <2>9. Synced(p)'
    BY <1>1, <1>3, <1>10, <2>1, <2>3, <2>7 DEF Synced
  <2>10. Complete(p)'
    BY <1>3, <1>10, <1>14, <1>19, <2>1 DEF Complete
  <2> QED
    BY <1>2, <1>16, <1>17, <2>8, <2>9, <2>10 DEF Delivery
<1> QED
  BY <1>20, <1>21

\* write and send_frame.
LEMMA WriteStep ==
    ASSUME TypeOK, Orderly, Delivery, NEW p \in Peers, NEW fin \in BOOLEAN,
           (fin /\ Write(p)) \/ WriteFragment(p, fin)
    PROVE  Delivery'
<1> DEFINE c == conn[p]
           part == app[p].partial
           all == sent[p]
           n == app[p].payloads
<1>1. PICK o \in Peers : o = Other(p)
  BY OtherFacts
<1>2. o # p /\ Other(o) = p /\ (\A q \in Peers : q = p \/ q = o)
  BY <1>1, OtherFacts
<1>3. PICK op \in {"data", "cont"} : op = IF part = <<>> THEN "data" ELSE "cont"
  OBVIOUS
<1> DEFINE f == DataFrame(op, fin, n + 1)
           d == Queue(c, f)
<1>4. Moves(p, c, d) /\ Became(p, d)
  BY <1>3, WriteMoves DEF Writes
<1>5. /\ all \in Seq(Seq(Nat)) /\ part \in Seq(Nat) /\ n \in Nat /\ c \in ConnRecord
      /\ sent \in [Peers -> Seq(Seq(Nat))]
      /\ app \in [Peers -> [payloads : Nat, pings : Nat, partial : Seq(Nat)]]
  BY DeliveryTypes, ConnTypes DEF TypeOK
<1>6. /\ UNCHANGED <<up, delivered, initiated>> /\ ~c.localClose
      /\ app' = [app EXCEPT ![p].payloads = n + 1, ![p].partial = Rest(part, n, fin)]
      /\ sent' = [sent EXCEPT ![p] = More(all, part, n, fin)]
  <2>1. CASE fin /\ Write(p)
    <3>1. /\ UNCHANGED <<up, delivered, initiated>> /\ ~c.localClose /\ part = <<>>
          /\ app' = [app EXCEPT ![p].payloads = n + 1]
          /\ sent' = [sent EXCEPT ![p] = Append(@, <<n + 1>>)]
      BY <2>1 DEF Write
    <3>2. Rest(part, n, fin) = part /\ More(all, part, n, fin) = Append(all, <<n + 1>>)
      <4>1. Append(<<>>, n + 1) = <<n + 1>>
        BY <1>5
      <4> QED
        BY <2>1, <3>1, <4>1 DEF Rest, More
    <3>3. app' = [app EXCEPT ![p].payloads = n + 1, ![p].partial = part]
      BY <1>5, <3>1
    <3> QED
      BY <3>1, <3>2, <3>3
  <2>2. CASE WriteFragment(p, fin)
    <3> DEFINE h == DataFrame(IF part = <<>> THEN "data" ELSE "cont", fin, n + 1)
    <3>1. /\ UNCHANGED <<up, delivered, initiated>> /\ ~Refuses(c, h)
          /\ app' = [app EXCEPT ![p].payloads = n + 1,
                                ![p].partial = IF fin THEN <<>> ELSE Append(part, n + 1)]
          /\ sent' = IF fin THEN [sent EXCEPT ![p] = Append(@, Append(part, n + 1))] ELSE sent
      BY <2>2 DEF WriteFragment
    <3>2. ~c.localClose
      BY <3>1 DEF Refuses, DataFrame
    <3>3. sent' = [sent EXCEPT ![p] = More(all, part, n, fin)]
      BY <1>5, <3>1 DEF More
    <3> QED
      BY <3>1, <3>2, <3>3 DEF Rest
  <2> QED
    BY <2>1, <2>2
<1>7. f \in FrameRecord /\ IsData(f) /\ f.payload = n + 1 /\ (f.fin <=> fin)
  <2> DEFINE m == n + 1
  <2>1. m \in Nat
    BY <1>5
  <2> HIDE DEF m
  <2>2. LET h == DataFrame(op, fin, m)
        IN  h \in FrameRecord /\ IsData(h) /\ h.payload = m /\ (h.fin <=> fin)
    BY <2>1 DEF DataFrame, FrameRecord, Opcodes, IsData
  <2> QED
    BY <2>2 DEF m
<1> HIDE DEF f
<1>8. /\ d.tx = Append(c.tx, f) /\ d.rx = c.rx /\ d.state = c.state /\ d.fragment = c.fragment
      /\ (d.localClose <=> c.localClose) /\ (d.peerClose <=> c.peerClose) /\ (d.error <=> c.error)
  BY <1>5, <1>7, QueueFacts
<1> HIDE DEF d
<1>9. /\ conn'[o] = conn[o] /\ conn'[p].state = c.state /\ conn'[p].fragment = c.fragment
      /\ (conn'[p].localClose <=> c.localClose) /\ (conn'[p].peerClose <=> c.peerClose)
      /\ (conn'[p].error <=> c.error)
  BY <1>1, <1>4, <1>8 DEF Became
<1> DEFINE more == More(all, part, n, fin)
           rest == Rest(part, n, fin)
<1>10. /\ app'[p].payloads = n + 1 /\ app'[p].partial = rest /\ app'[o] = app[o]
       /\ sent'[p] = more /\ sent'[o] = sent[o]
  <2> HIDE DEF more, rest
  <2>1. n + 1 \in Nat
    BY <1>5
  <2> QED
    BY <1>2, <1>5, <1>6, <2>1 DEF more, rest
<1>11. /\ Received(p) /\ Synced(p) /\ Complete(p) /\ SentIsNumbered(p)
       /\ Received(o) /\ Synced(o) /\ Complete(o) /\ SentIsNumbered(o)
  BY DEF Delivery
<1>12. Numbered(all, part, n)
  BY <1>11 DEF SentIsNumbered
<1>13. /\ Numbered(more, rest, n + 1) /\ Len(all) <= Len(more) /\ more \in Seq(Seq(Nat))
       /\ \A k \in 1..Len(all) : more[k] = all[k]
  <2> HIDE DEF part, all, n
  <2> QED
    BY <1>5, <1>12, NumberedGrows
<1>14. SentIsNumbered(p)' /\ SentIsNumbered(o)'
  BY <1>10, <1>11, <1>13 DEF SentIsNumbered
<1>15. Received(p)' /\ Complete(p)'
  BY <1>1, <1>6, <1>9, <1>10, <1>11 DEF Received, Complete
<1>16. Synced(p)'
  <2>1. InFlight(o)' = InFlight(o)
    BY <1>1, <1>4, <1>8, StreamSteps
  <2> QED
    BY <1>1, <1>6, <1>9, <1>10, <1>11, <2>1 DEF Synced, InSync
<1> DEFINE r == Len(delivered[o])
           g == conn[o].fragment
<1>17. r \in Nat /\ r <= Len(all) /\ g \in Seq(Nat) /\ InFlight(p) \in Frames
  BY <1>2, <1>11, DeliveryTypes DEF Received
<1>18. Received(o)'
  <2>1. \A k \in 1..r : k \in 1..Len(all)
    BY <1>5, <1>17
  <2>2. \A k \in 1..r : delivered[o][k] = more[k]
    BY <1>2, <1>11, <1>13, <2>1 DEF Received
  <2>3. r <= Len(more)
    <3> HIDE DEF r, all, more
    <3> QED
      BY <1>5, <1>13, <1>17
  <2> HIDE DEF more
  <2> QED
    BY <1>2, <1>6, <1>10, <2>2, <2>3 DEF Received
<1>19. Complete(o)'
  <2>1. ~conn[o].peerClose
    BY <1>1, <1>6 DEF Orderly, CloseOrder
  <2> QED
    BY <1>6, <1>9, <1>11, <2>1 DEF Complete
<1>20. Synced(o)'
  <2> SUFFICES ASSUME InSync(o)'
               PROVE  Tracks(g, r, more, n + 1, InFlight(p)')
    BY <1>2, <1>6, <1>9, <1>10 DEF Synced
  <2>1. InSync(o) /\ up[o]
    BY <1>6, <1>9 DEF InSync
  <2>2. Tracks(g, r, all, n, InFlight(p))
    BY <1>2, <1>11, <2>1 DEF Synced
  <2>3. InFlight(p)' = Append(InFlight(p), f)
    BY <1>1, <1>4, <1>7, <1>8, <2>1, StreamSteps
  <2> HIDE DEF g, r, all, n, part
  <2>4. Tracks(g, r, More(all, part, n, fin), n + 1, Append(InFlight(p), f))
    BY <1>5, <1>7, <1>12, <1>17, <2>2, TracksSent
  <2> QED
    BY <2>3, <2>4
<1> QED
  BY <1>2, <1>14, <1>15, <1>16, <1>18, <1>19, <1>20 DEF Delivery

\* An endpoint that takes no more data loses the frames on their way to it.
LEMMA LossStep ==
    ASSUME TypeOK, Delivery, NEW p \in Peers, conn' = conn, InFlight(p)' = InFlight(p),
           conn[p].state = "Closed" \/ ~up'[p], \A q \in Peers : up'[q] => up[q],
           UNCHANGED <<app, sent, delivered, initiated>>
    PROVE  Delivery'
<1>1. PICK o \in Peers : o = Other(p)
  BY OtherFacts
<1>2. o # p /\ Other(o) = p /\ (\A q \in Peers : q = p \/ q = o)
  BY <1>1, OtherFacts
<1>3. \A q \in Peers : SentIsNumbered(q)' /\ Received(q)' /\ Complete(q)'
  BY DEF Delivery, SentIsNumbered, Received, Complete
<1>4. Synced(p)'
  BY DEF Synced, InSync
<1>5. Synced(o)'
  <2>1. InSync(o)' => InSync(o)
    BY DEF InSync
  <2>2. Synced(o)
    BY DEF Delivery
  <2> QED
    BY <1>2, <2>1, <2>2 DEF Synced
<1> QED
  BY <1>2, <1>3, <1>4, <1>5 DEF Delivery

\* process_frames with a control frame.
LEMMA ControlMoves ==
    ASSUME TypeOK, Orderly, NEW p \in Peers, ProcessFrame(p), ~IsData(Head(conn[p].rx))
    PROVE  QuietMoves(p) /\ delivered' = delivered
<1> DEFINE c == conn[p]
           k == Consumed(p)
           f == Head(c.rx)
           d == Handled(k, p, f)
           last == d.messages[Len(d.messages)]
<1>1. /\ c.rx # <<>> /\ c.state \in {"Open", "Closing"} /\ Processed(p, d, d.error)
      /\ delivered' = IF d.messages # c.messages /\ last.kind = "data"
                      THEN [delivered EXCEPT ![p] = Append(@, last.body)] ELSE delivered
  BY DEF ProcessFrame, InProcess
<1>2. /\ f \in FrameRecord /\ f.op \in BodyOps
      /\ k \in ConnRecord /\ Consumes(c, k) /\ k.fragment = c.fragment
      /\ k.state = c.state /\ k.tx = c.tx /\ (k.localClose <=> c.localClose)
      /\ (k.peerClose <=> c.peerClose) /\ (k.error <=> c.error) /\ k.messages = c.messages
  BY <1>1, NextFrame DEF Established
<1>3. ~c.error /\ c \in ConnRecord /\ ~IsData(f)
  BY <1>1, EstablishedFacts, ConnTypes DEF Established
<1> HIDE DEF c, k, f
<1>4. /\ Took(k, d) /\ (d.peerClose <=> k.peerClose \/ f.op = "close")
      /\ Surfaces(k, d, f)
  BY <1>1, <1>2, <1>3, HandledFacts, HandledSurfaces
<1> HIDE DEF d
<1>5. Became(p, d)
  BY <1>1, <1>4, ProcessedBecomes DEF Took
<1>6. Consumes(c, d) /\ (d.peerClose <=> c.peerClose \/ f.op = "close")
  BY <1>2, <1>4 DEF Took, Consumes
<1>7. Sends(k, d)
  BY <1>4 DEF Took
<1>8. Emits(p, c, d)
  BY <1>1, <1>2, <1>7 DEF Sends, Emits, BodyOps
<1>9. /\ d \in ConnRecord /\ d.state # "Connecting" /\ (d.state = "Closed" => d.localClose)
      /\ (d.error => d.state = "Closed")
  BY <1>4 DEF Took
<1>10. Moves(p, c, d)
  BY <1>1, <1>6, <1>8, <1>9 DEF Moves, f
<1>11. /\ ~d.error /\ d.fragment = c.fragment
       /\ f.op # "close" => (d.localClose <=> c.localClose)
       /\ \/ d.messages = c.messages
          \/ \E m \in MessageRecord : m.kind # "data" /\ d.messages = Append(c.messages, m)
  <2>1. f.op # "data" /\ f.op # "cont"
    BY <1>3 DEF IsData
  <2> QED
    BY <1>2, <1>3, <1>4, <2>1 DEF Surfaces
<1>12. d.tx = c.tx \/ \E h \in FrameRecord : ~IsData(h) /\ d.tx = Append(c.tx, h)
  <2>1. \A h : h.op \in {"pong", "close"} => ~IsData(h)
    BY DEF IsData
  <2> QED
    BY <1>2, <1>7, <2>1 DEF Sends
<1>13. Keeps(c, d)
  BY <1>3, <1>6, <1>11, <1>12 DEF Keeps, f
<1>14. QuietMoves(p)
  BY <1>5, <1>6, <1>10, <1>11, <1>13 DEF QuietMoves, c
<1>15. delivered' = delivered
  <2>1. CASE d.messages = c.messages
    BY <1>1, <2>1
  <2>2. CASE \E m \in MessageRecord : m.kind # "data" /\ d.messages = Append(c.messages, m)
    <3>1. PICK m \in MessageRecord : m.kind # "data" /\ d.messages = Append(c.messages, m)
      BY <2>2
    <3>2. c.messages \in Seq(MessageRecord)
      BY <1>3 DEF ConnRecord
    <3>3. Append(c.messages, m)[Len(Append(c.messages, m))] = m
      BY <3>2
    <3>4. last = m
      BY <3>1, <3>3 DEF last
    <3> HIDE DEF last
    <3> QED
      BY <1>1, <3>1, <3>4
  <2> QED
    BY <1>11, <2>1, <2>2
<1> QED
  BY <1>14, <1>15

\* Nothing was sent and nothing is expected.
LEMMA InitDelivery ==
    ASSUME Init
    PROVE  Delivery
<1> DEFINE e == <<>>
<1>1. /\ e \in Seq(Nat) /\ e \in Seq(Seq(Nat)) /\ Len(e) = 0
  OBVIOUS
<1>2. \A p \in Peers :
        /\ sent[p] = e /\ delivered[p] = e /\ app[p].partial = e /\ app[p].payloads = 0
        /\ conn[p].fragment = e /\ ~conn[p].localClose /\ ~conn[p].peerClose
        /\ conn[p].rx = e /\ wire[p] = e
        /\ conn[p].tx = IF p = "client" THEN <<Frame("request")>> ELSE e
  BY DEF Init
<1>3. Interval(0, 0) = e /\ EndOf(e, 0) = 0 /\ EndsOf(e) = {}
  <2>1. Interval(0, 0) = e
    BY <1>1, IntervalFacts
  <2> QED
    BY <2>1 DEF EndOf, EndsOf
<1>4. Numbered(e, e, 0)
  BY <1>1, <1>3 DEF Numbered
<1>5. \A p \in Peers : InFlight(p) \in Frames /\ \A i \in DOMAIN InFlight(p) : ~IsData(InFlight(p)[i])
  <2> SUFFICES ASSUME NEW p \in Peers
               PROVE  InFlight(p) \in Frames /\ \A i \in DOMAIN InFlight(p) : ~IsData(InFlight(p)[i])
    OBVIOUS
  <2> DEFINE q == Frame("request")
             t == conn[p].tx
  <2>1. q \in FrameRecord /\ ~IsData(q)
    BY FrameFacts DEF Opcodes, IsData
  <2>2. Other(p) \in Peers
    BY OtherFacts
  <2> HIDE DEF q
  <2>3. t \in Frames /\ (\A i \in DOMAIN t : ~IsData(t[i]))
    <3>1. t = <<q>> \/ t = <<>>
      BY <1>2 DEF q
    <3>2. <<q>> \in Frames /\ DOMAIN <<q>> = {1} /\ <<q>>[1] = q
      BY <2>1 DEF Frames
    <3>3. <<>> \in Frames /\ DOMAIN <<>> = {}
      BY DEF Frames
    <3> QED
      BY <2>1, <3>1, <3>2, <3>3
  <2>4. InFlight(p) = <<>> \o <<>> \o t
    BY <1>2, <2>2 DEF InFlight
  <2> HIDE DEF t
  <2>5. <<>> \o <<>> \o t = t
    BY <2>3, ConcatEmptySeq DEF Frames
  <2> QED
    BY <2>3, <2>4, <2>5
<1>6. ASSUME NEW s \in Frames, \A i \in DOMAIN s : ~IsData(s[i])
      PROVE  Tracks(e, 0, e, 0, s)
  <2>1. Carries(s, 0, 0)
    BY <1>6 DEF Carries
  <2>2. Framed(s, {})
    BY <1>6 DEF Framed
  <2> HIDE DEF e
  <2>3. EndOf(e, 0) + Len(e) = 0 /\ ~(0 < Len(e))
    BY <1>1, <1>3
  <2> QED
    BY <1>3, <2>1, <2>2, <2>3 DEF Tracks
<1> HIDE DEF e
<1> SUFFICES ASSUME NEW p \in Peers
             PROVE  SentIsNumbered(p) /\ Received(p) /\ Synced(p) /\ Complete(p)
  BY DEF Delivery
<1>7. Other(p) \in Peers
  BY OtherFacts
<1>8. Tracks(e, 0, e, 0, InFlight(Other(p)))
  BY <1>5, <1>6, <1>7
<1>9. SentIsNumbered(p)
  BY <1>2, <1>4 DEF SentIsNumbered
<1>10. Received(p)
  BY <1>1, <1>2, <1>7 DEF Received
<1>11. Synced(p)
  BY <1>1, <1>2, <1>7, <1>8 DEF Synced
<1>12. Complete(p)
  BY <1>2, <1>7 DEF Complete
<1> QED
  BY <1>9, <1>10, <1>11, <1>12

\* Every step keeps the invariant of reassembly.
LEMMA NextDelivery ==
    ASSUME TypeOK, Orderly, Delivery, [Next]_vars
    PROVE  Delivery'
<1>1. CASE UNCHANGED vars
  BY <1>1 DEF vars, Delivery, SentIsNumbered, Received, Synced, Complete, InSync, InFlight
<1>2. ASSUME NEW p \in Peers,
             \/ Process(p) \/ Read(p) \/ Flush(p) \/ Write(p) \/ Close(p) \/ Drop(p)
             \/ \E fin \in BOOLEAN : WriteFragment(p, fin)
             \/ \E op \in {"ping", "pong"} : SendControl(p, op)
      PROVE  Delivery'
  <2>1. ASSUME QuietMoves(p), up[p], UNCHANGED <<up, app, sent, delivered, initiated>>,
               conn[p].state = "Closed" => conn'[p].peerClose = conn[p].peerClose
        PROVE  Delivery'
    BY <2>1, QuietStep
  <2>2. CASE ProcessFrame(p)
    <3>1. up[p] /\ UNCHANGED <<up, app, sent, initiated>> /\ conn[p].state # "Closed"
      BY <2>2 DEF ProcessFrame
    <3>2. CASE IsData(Head(conn[p].rx))
      BY <2>2, <3>2, TakeStep
    <3>3. CASE ~IsData(Head(conn[p].rx))
      BY <2>1, <2>2, <3>1, <3>3, ControlMoves
    <3> QED
      BY <3>2, <3>3
  <2>3. CASE AcceptRequest(p) \/ RejectRequest(p)
    <3>1. /\ up[p] /\ conn[p].state # "Closed"
          /\ UNCHANGED <<up, app, sent, delivered, initiated>>
      BY <2>3 DEF AcceptRequest, RejectRequest
    <3> QED
      BY <2>1, <2>3, <3>1, AcceptMoves
  <2>4. CASE HandshakeResponse(p)
    <3>1. /\ up[p] /\ conn[p].state # "Closed"
          /\ UNCHANGED <<up, app, sent, delivered, initiated>>
      BY <2>4 DEF HandshakeResponse
    <3> QED
      BY <2>1, <2>4, <3>1, ResponseMoves
  <2>5. CASE \E n \in 1..Len(wire[p]) : Receive(p, n)
    <3>1. PICK n \in 1..Len(wire[p]) : Receive(p, n)
      BY <2>5
    <3>2. up[p] /\ UNCHANGED <<up, app, sent, delivered, initiated>>
      BY <3>1 DEF Receive, Idle
    <3>3. /\ conn[p].state # "Closed" => Became(p, conn[p])
          /\ conn[p].state = "Closed" => conn' = conn /\ InFlight(p)' = InFlight(p)
      BY <3>1, ReceiveStep
    <3>4. CASE conn[p].state = "Closed"
      BY <3>2, <3>3, <3>4, LossStep
    <3>5. CASE conn[p].state # "Closed"
      <4>1. QuietMoves(p)
        BY <3>3, <3>5, SelfMoves DEF QuietMoves
      <4> QED
        BY <2>1, <3>2, <3>5, <4>1
    <3> QED
      BY <3>4, <3>5
  <2>6. CASE ReadMessage(p)
    <3>1. up[p] /\ UNCHANGED <<up, app, sent, delivered, initiated>>
      BY <2>6 DEF ReadMessage, Idle
    <3>2. conn'[p].peerClose = conn[p].peerClose
      BY <2>6 DEF ReadMessage, TypeOK
    <3> QED
      BY <2>1, <2>6, <3>1, <3>2, ReadMoves
  <2>7. CASE ReadFails(p)
    BY <2>7 DEF ReadFails, Delivery, SentIsNumbered, Received, Synced, Complete, InSync, InFlight
  <2>8. CASE Flush(p) \/ Close(p) \/ \E op \in {"ping", "pong"} : SendControl(p, op)
    <3>1. up[p] /\ UNCHANGED <<up, sent, delivered>>
      BY <2>8 DEF Flush, Close, SendControl, Idle
    <3>2. \A q \in Peers : /\ app'[q].payloads = app[q].payloads /\ app'[q].partial = app[q].partial
                           /\ initiated[q] => initiated'[q]
                           /\ q # p => (initiated'[q] <=> initiated[q])
      <4>1. CASE Flush(p)
        BY <4>1 DEF Flush
      <4>2. CASE Close(p)
        <5>1. app' = app
          BY <4>2 DEF Close
        <5>2. \E b : initiated' = [initiated EXCEPT ![p] = @ \/ b]
          BY <4>2 DEF Close
        <5> QED
          BY <5>1, <5>2 DEF TypeOK
      <4>3. CASE \E op \in {"ping", "pong"} : SendControl(p, op)
        <5>1. initiated' = initiated /\ app' = [app EXCEPT ![p].pings = @ + 1]
          BY <4>3 DEF SendControl
        <5> QED
          BY <5>1 DEF TypeOK
      <4> QED
        BY <2>8, <4>1, <4>2, <4>3
    <3>3. conn[p].state = "Closed" => conn'[p].peerClose = conn[p].peerClose
      <4>1. CASE Flush(p)
        BY <4>1 DEF Flush, Flushed, TypeOK
      <4>2. CASE Close(p)
        BY <4>2 DEF Close, Closed, Flushed, TypeOK
      <4>3. CASE \E op \in {"ping", "pong"} : SendControl(p, op)
        BY <4>3 DEF SendControl
      <4> QED
        BY <2>8, <4>1, <4>2, <4>3
    <3> QED
      BY <2>8, <3>1, <3>2, <3>3, CallMoves, QuietStep
  <2>9. CASE Write(p) \/ \E fin \in BOOLEAN : WriteFragment(p, fin)
    BY <2>9, WriteStep
  <2>10. CASE Drop(p)
    <3>1. UNCHANGED <<app, sent, delivered, initiated>>
      BY <2>10 DEF Drop
    <3> QED
      BY <2>10, <3>1, DropStep, LossStep
  <2> QED
    BY <1>2, <2>2, <2>3, <2>4, <2>5, <2>6, <2>7, <2>8, <2>9, <2>10 DEF Process, Read
<1> QED
  BY <1>1, <1>2 DEF Next

\* data_start, append_fragment and deliver: what an application gets is a prefix of the
\* messages the other one sent, each whole, whatever control frames came between the
\* fragments; and it is all of them when the other side closed first and nothing failed.
THEOREM MessagesArriveInOrder == Spec => []DeliveredInOrder
<1>1. Init => Delivery
  BY InitDelivery
<1>2. TypeOK /\ Orderly /\ Delivery /\ [Next]_vars => Delivery'
  BY NextDelivery
<1>3. TypeOK /\ Delivery => DeliveredInOrder
  <2> SUFFICES ASSUME TypeOK, Delivery, NEW p \in Peers
               PROVE  LET all == sent[Other(p)]
                      IN  /\ Len(delivered[p]) <= Len(all)
                          /\ delivered[p] = SubSeq(all, 1, Len(delivered[p]))
                          /\ conn[p].peerClose /\ ~initiated[p] /\ ~conn[p].error
                               => delivered[p] = all
    BY DEF DeliveredInOrder
  <2> DEFINE all == sent[Other(p)]
             got == delivered[p]
             n == Len(got)
  <2>1. all \in Seq(Seq(Nat)) /\ got \in Seq(Seq(Nat)) /\ n \in Nat
    BY DeliveryTypes, OtherFacts
  <2>2. /\ n <= Len(all) /\ \A k \in 1..n : got[k] = all[k]
        /\ conn[p].peerClose /\ ~initiated[p] /\ ~conn[p].error => got = all
    BY DEF Delivery, Received, Complete
  <2> HIDE DEF all, got
  <2>3. got = SubSeq(all, 1, n)
    <3> DEFINE s == SubSeq(all, 1, n)
    <3>1. s \in Seq(Seq(Nat)) /\ Len(s) = n /\ \A k \in 1..n : s[k] = all[k]
      <4> HIDE DEF n
      <4> QED
        BY <2>1, <2>2
    <3> HIDE DEF s
    <3>2. got = s
      BY <2>1, <2>2, <3>1, SeqEqual
    <3> QED
      BY <3>2 DEF s
  <2> QED
    BY <2>2, <2>3 DEF all, got
<1> QED
  BY <1>1, <1>2, <1>3, HandshakesAreOrderly, PTL DEF Spec
=============================================================================
