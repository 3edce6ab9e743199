-------------------------- MODULE InputPumpProofs ---------------------------
(***************************************************************************)
(* Proofs about the frame loop's demand, for every queue capacity, every   *)
(* set of event kinds and behaviours of any length: the variables keep     *)
(* their types, demand is neither leaked nor invented, the backend is fed  *)
(* between drains unless lag reports were charged, the keyboard state      *)
(* follows the device as far as the frame loop has looked, and a frame has *)
(* every event of its drains, with the motion between them coalesced.      *)
(***************************************************************************)
EXTENDS InputPump, SequenceTheorems, FiniteSetTheorems, WellFoundedInduction, TLAPS

-----------------------------------------------------------------------------
(* What one poll of a subscriber answers and leaves behind.                 *)

EventRecord == [class : {NoClass}, kind : Kinds]
SubRecord ==
    [classes : {{}}, capacity : {Capacity}, queue : Seq(EventRecord),
     demand : Nat, dropped : Nat, terminal : {NoError, Gone},
     finished : BOOLEAN, waker : BOOLEAN]

\* Hub::poll on a queue that holds an event: the event leaves, demand stays.
LEMMA PolledEvent ==
    ASSUME NEW s \in SubRecord, PollItem(s) = "event"
    PROVE  /\ s.queue # <<>>
           /\ Polled(s) = [s EXCEPT !.queue = Tail(@), !.waker = FALSE]
BY DEF PollItem, Polled

\* Hub::poll on an empty queue after drops: the report spends at most one demand.
LEMMA PolledLag ==
    ASSUME NEW s \in SubRecord, PollItem(s) = "lagged"
    PROVE  /\ s.dropped > 0
           /\ Polled(s) = [s EXCEPT !.dropped = 0, !.demand = DemandAfterLag(s)]
BY DEF PollItem, Polled

\* Hub::poll after the terminal error was set, and with nothing to deliver.
LEMMA PolledEnd ==
    ASSUME NEW s \in SubRecord
    PROVE  /\ PollItem(s) = "error" =>
                Polled(s) = [s EXCEPT !.terminal = NoError, !.finished = TRUE, !.waker = FALSE]
           /\ PollItem(s) = "pending" => Polled(s) = [s EXCEPT !.waker = TRUE]
BY DEF PollItem, Polled

\* DEMAND_DIVISOR's batch is a positive number of events, never more than the queue.
LEMMA BatchIsPositive == Batch \in 1..Capacity
BY PumpConstants DEF Batch, DemandDivisor
-----------------------------------------------------------------------------
(* Type correctness.                                                        *)

\* A motion folded into the last staged update, or a new update, is an update.
LEMMA WithPointerType ==
    ASSUME NEW p \in Seq(Pointers), NEW kind \in PointerKinds
    PROVE  WithPointer(p, kind) \in Seq(Pointers)
<1>1. CASE Merges(p, kind)
  <2>1. Len(p) \in DOMAIN p /\ p[Len(p)] \in Pointers
    BY <1>1 DEF Merges
  <2>2. [p EXCEPT ![Len(p)].delta = @ + 1] \in Seq(Pointers)
    BY <2>1, ExceptSeq DEF Pointers
  <2> QED
    BY <1>1, <2>2 DEF WithPointer
<1>2. CASE ~Merges(p, kind)
  BY <1>2 DEF WithPointer, Pointers
<1> QED
  BY <1>1, <1>2

\* stage(event) keeps the staged frame and the shared states well-typed.
LEMMA StageType ==
    ASSUME NEW kind \in Kinds, staging \in Frames, pressed \in BOOLEAN, pointer \in Nat,
           Stage(kind)
    PROVE  staging' \in Frames /\ pressed' \in BOOLEAN /\ pointer' \in Nat
<1>1. pressed' \in BOOLEAN /\ pointer' \in Nat
  <2>1. pressed' \in BOOLEAN
    BY Zenon DEF Stage
  <2>2. pointer' \in {pointer, pointer + 1}
    BY Zenon DEF Stage
  <2> QED
    BY <2>1, <2>2
<1>2. CASE kind \in {"press", "release"}
  <2>1. Append(staging.keys, kind) \in Seq({"press", "release"})
    BY <1>2 DEF Frames
  <2> QED
    BY <1>1, <1>2, <2>1 DEF Stage, Frames
<1>3. CASE kind \in PointerKinds
  <2>1. WithPointer(staging.pointers, kind) \in Seq(Pointers)
    BY <1>3, WithPointerType DEF Frames
  <2>2. staging' = [staging EXCEPT !.pointers = WithPointer(@, kind)]
    BY <1>3 DEF Stage, PointerKinds
  <2> QED
    BY <1>1, <2>1, <2>2 DEF Frames
<1>4. CASE kind = "other"
  <2>1. Append(staging.rest, kind) \in Seq({"other"})
    BY <1>4 DEF Frames
  <2>2. staging' = [staging EXCEPT !.rest = Append(@, kind)]
    BY <1>4 DEF Stage, PointerKinds
  <2> QED
    BY <1>1, <2>1, <2>2 DEF Frames
<1> QED
  BY <1>2, <1>3, <1>4 DEF Kinds, PointerKinds

\* Hub::emit and Hub::close leave a subscriber a subscriber.
LEMMA HubKeepsType ==
    ASSUME NEW s \in SubRecord, NEW e \in EventRecord
    PROVE  Offered(s, e) \in SubRecord /\ Ended(s, Gone) \in SubRecord
<1>1. Append(s.queue, e) \in Seq(EventRecord)
  BY DEF SubRecord
<1>2. HasRoom(s) => s.demand - 1 \in Nat
  BY DEF HasRoom, SubRecord
<1>3. Offered(s, e) \in SubRecord
  <2>1. CASE Listens(s, e) /\ HasRoom(s)
    <3> DEFINE q == Append(s.queue, e)
               d == s.demand - 1
    <3>1. q \in Seq(EventRecord) /\ d \in Nat
      BY <1>1, <1>2, <2>1
    <3>2. Offered(s, e) = [s EXCEPT !.queue = q, !.demand = d, !.waker = FALSE]
      BY <2>1 DEF Offered
    <3> HIDE DEF q, d
    <3> QED
      BY <3>1, <3>2 DEF SubRecord
  <2>2. CASE Listens(s, e) /\ ~HasRoom(s)
    <3>1. s.dropped + 1 \in Nat
      BY DEF SubRecord
    <3> QED
      BY <2>2, <3>1 DEF Offered, SubRecord
  <2>3. CASE ~Listens(s, e)
    BY <2>3 DEF Offered
  <2> QED
    BY <2>1, <2>2, <2>3
<1>4. Ended(s, Gone) \in SubRecord
  BY DEF Ended, SubRecord
<1> QED
  BY <1>3, <1>4

\* So does Hub::poll, whatever it answers.
LEMMA PollKeepsType ==
    ASSUME NEW s \in SubRecord
    PROVE  Polled(s) \in SubRecord
<1>1. CASE PollItem(s) = "event"
  <2>1. s.queue # <<>> /\ Polled(s) = [s EXCEPT !.queue = Tail(@), !.waker = FALSE]
    BY <1>1, PolledEvent
  <2>2. Tail(s.queue) \in Seq(EventRecord)
    BY <2>1 DEF SubRecord
  <2> QED
    BY <2>1, <2>2 DEF SubRecord
<1>2. CASE PollItem(s) = "lagged"
  <2> DEFINE d == DemandAfterLag(s)
             z == 0
  <2>1. d \in Nat /\ z \in Nat
    BY DEF DemandAfterLag, SubRecord
  <2>2. Polled(s) = [s EXCEPT !.dropped = z, !.demand = d]
    BY <1>2, PolledLag
  <2> HIDE DEF d, z
  <2> QED
    BY <2>1, <2>2 DEF SubRecord
<1>3. CASE PollItem(s) \notin {"event", "lagged"}
  BY <1>3 DEF Polled, SubRecord
<1> QED
  BY <1>1, <1>2, <1>3

LogRecord == [emits : Nat, offered : Nat, burnt : Nat, frames : Nat, staged : Nat,
              raw : Seq(Kinds), shown : Seq(Kinds)]

\* InputPump: every variable of the frame loop keeps its type.
THEOREM PumpTypeCorrect == Spec => []TypeOK
<1> USE DEF SubRecord, EventRecord, LogRecord
<1>0. /\ <<>> \in Seq(EventRecord) /\ <<>> \in Seq(Kinds)
      /\ EmptyFrame \in Frames
  BY DEF EmptyFrame, Frames
<1>1. Init => TypeOK
  <2> SUFFICES ASSUME Init PROVE TypeOK
    OBVIOUS
  <2>1. sub \in SubRecord
    BY <1>0, PumpConstants DEF Init, NewSubscriber
  <2>2. log \in LogRecord
    BY <1>0 DEF Init
  <2> QED
    BY <1>0, <2>1, <2>2 DEF Init, TypeOK
<1>2. TypeOK /\ [Next]_vars => TypeOK'
  <2> SUFFICES ASSUME TypeOK, [Next]_vars PROVE TypeOK'
    OBVIOUS
  <2>0. sub \in SubRecord /\ log \in LogRecord
    BY DEF TypeOK
  <2>1. ASSUME NEW kind \in EventKinds, Emit(kind) PROVE TypeOK'
    <3>1. [class |-> NoClass, kind |-> kind] \in EventRecord
      BY PumpConstants DEF Kinds
    <3>2. sub' \in SubRecord
      <4>1. Offered(sub, [class |-> NoClass, kind |-> kind]) \in SubRecord
        BY <2>0, <3>1, HubKeepsType
      <4> QED
        BY <2>0, <2>1, <4>1 DEF Emit
    <3>3. waking' \in BOOLEAN /\ device' \in BOOLEAN
      BY <2>1 DEF Emit, TypeOK
    <3>4. log' \in LogRecord
      <4> DEFINE o == IF ~cancelled /\ sub.terminal = NoError
                      THEN log.offered + 1 ELSE log.offered
                 n == log.emits + 1
      <4>1. o \in Nat /\ n \in Nat
        BY <2>0
      <4>2. log' = [log EXCEPT !.emits = n, !.offered = o]
        BY <2>1 DEF Emit
      <4> HIDE DEF o, n
      <4> QED
        BY <2>0, <4>1, <4>2
    <3> QED
      BY <2>1, <3>2, <3>3, <3>4 DEF Emit, TypeOK
  <2>2. CASE EndStream
    <3>1. sub' \in SubRecord
      BY <2>0, <2>2, HubKeepsType DEF EndStream, Ended
    <3> QED
      BY <2>2, <3>1 DEF EndStream, TypeOK
  <2>3. CASE Wake
    <3>1. pc' \in {"app", "loop", "parked"}
          /\ drain' \in [entry : {"pump", "poll"}, delivered : Nat]
      BY <2>3 DEF Wake, TypeOK
    <3> QED
      BY <2>3, <3>1 DEF Wake, TypeOK
  <2>4. CASE BeginDrain("pump") \/ BeginDrain("poll")
    BY <2>4 DEF BeginDrain, TypeOK
  <2>5. CASE GrantDemand
    <3>1. sub' \in SubRecord
      <4>1. PICK n \in Nat : sub' = Requested(sub, n)
        BY <2>5 DEF GrantDemand, TypeOK
      <4>2. sub.demand + n \in Nat
        BY <2>0
      <4> QED
        BY <2>0, <4>1, <4>2 DEF Requested
    <3>2. waking' \in BOOLEAN /\ pump' \in [spent : Nat, dropped : Nat, failure : {NoError, Gone}]
      BY <2>5 DEF GrantDemand, TypeOK
    <3> QED
      BY <2>5, <3>1, <3>2 DEF GrantDemand, TypeOK
  <2>6. CASE TakeEvent
    <3>1. sub.queue # <<>>
      BY <2>0, <2>6, PolledEvent DEF TakeEvent
    <3>2. Head(sub.queue).kind \in Kinds
      <4>1. sub.queue \in Seq(EventRecord)
        BY <2>0
      <4>2. Head(sub.queue) \in EventRecord
        BY <3>1, <4>1, HeadTailProperties
      <4> QED
        BY <4>2
    <3>3. sub' \in SubRecord
      BY <2>0, <2>6, PollKeepsType DEF TakeEvent
    <3>4. staging' \in Frames /\ pressed' \in BOOLEAN /\ pointer' \in Nat
      BY <2>6, <3>2, StageType DEF TakeEvent, TypeOK
    <3>5. log' \in LogRecord
      <4> DEFINE r == Append(log.raw, Head(sub.queue).kind)
                 n == log.staged + 1
      <4>1. r \in Seq(Kinds) /\ n \in Nat
        BY <2>0, <3>2
      <4>2. log' = [log EXCEPT !.staged = n, !.raw = r]
        BY <2>6 DEF TakeEvent
      <4> HIDE DEF r, n
      <4> QED
        BY <2>0, <4>1, <4>2
    <3>6. pump' \in [spent : Nat, dropped : Nat, failure : {NoError, Gone}]
          /\ drain' \in [entry : {"pump", "poll"}, delivered : Nat]
      <4> DEFINE n == pump.spent + 1
                 d == drain.delivered + 1
      <4>1. n \in Nat /\ d \in Nat
        BY DEF TypeOK
      <4>2. pump' = [pump EXCEPT !.spent = n] /\ drain' = [drain EXCEPT !.delivered = d]
        BY <2>6 DEF TakeEvent
      <4> HIDE DEF n, d
      <4> QED
        BY <4>1, <4>2 DEF TypeOK
    <3> QED
      BY <2>6, <3>3, <3>4, <3>5, <3>6 DEF TakeEvent, TypeOK
  <2>7. CASE TakeLag
    <3>1. sub' \in SubRecord
      BY <2>0, <2>7, PollKeepsType DEF TakeLag
    <3>2. sub'.demand = DemandAfterLag(sub)
      BY <2>0, <2>7, PolledLag DEF TakeLag
    <3>3. log' \in LogRecord
      <4> DEFINE n == log.burnt + (sub.demand - sub'.demand)
      <4>1. n \in Nat
        BY <2>0, <3>2 DEF DemandAfterLag
      <4>2. log' = [log EXCEPT !.burnt = n]
        BY <2>7 DEF TakeLag
      <4> HIDE DEF n
      <4> QED
        BY <2>0, <4>1, <4>2
    <3>4. pump' \in [spent : Nat, dropped : Nat, failure : {NoError, Gone}]
      <4> DEFINE n == pump.dropped + sub.dropped
      <4>1. n \in Nat
        BY <2>0 DEF TypeOK
      <4>2. pump' = [pump EXCEPT !.dropped = n]
        BY <2>7 DEF TakeLag
      <4> HIDE DEF n
      <4> QED
        BY <4>1, <4>2 DEF TypeOK
    <3> QED
      BY <2>7, <3>1, <3>3, <3>4 DEF TakeLag, TypeOK
  <2>8. CASE TakeError
    <3>1. sub' \in SubRecord
      BY <2>0, <2>8, PollKeepsType DEF TakeError
    <3> QED
      BY <2>8, <3>1 DEF TakeError, TypeOK
  <2>9. CASE TakePending
    <3>1. sub' \in SubRecord
      BY <2>0, <2>9, PollKeepsType DEF TakePending
    <3> QED
      BY <2>9, <3>1 DEF TakePending, TypeOK
  <2>10. CASE FinishFrame
    <3>1. log' \in LogRecord
      <4> DEFINE n == log.frames + 1
                 e == <<>>
      <4>1. n \in Nat /\ e \in Seq(Kinds)
        BY <1>0, <2>0
      <4>2. log' = [log EXCEPT !.frames = n, !.raw = e, !.shown = log.raw]
        BY <2>10 DEF FinishFrame
      <4> HIDE DEF n, e
      <4> QED
        BY <2>0, <4>1, <4>2
    <3> QED
      BY <1>0, <2>10, <3>1 DEF FinishFrame, TypeOK
  <2>11. CASE Cancel
    <3>1. log' \in LogRecord
      BY <1>0, <2>0, <2>11 DEF Cancel
    <3> QED
      BY <1>0, <2>11, <3>1 DEF Cancel, TypeOK
  <2>12. CASE UNCHANGED vars
    BY <2>12 DEF vars, TypeOK
  <2> QED
    BY <2>1, <2>2, <2>3, <2>4, <2>5, <2>6, <2>7, <2>8, <2>9, <2>10, <2>11, <2>12
    DEF Next, Drain
<1> QED
  BY <1>1, <1>2, PTL DEF Spec
-----------------------------------------------------------------------------
(* What the hub's operations do to the numbers of a subscription.           *)

\* Hub::emit moves one event of demand into the queue, or counts one drop; it
\* touches nothing of a subscription that does not listen.
LEMMA OfferedCounts ==
    ASSUME NEW s \in SubRecord, NEW e \in EventRecord
    PROVE  /\ Offered(s, e).demand + Len(Offered(s, e).queue) = s.demand + Len(s.queue)
           /\ Len(Offered(s, e).queue) + Offered(s, e).dropped
                = Len(s.queue) + s.dropped + (IF s.terminal = NoError THEN 1 ELSE 0)
           /\ Offered(s, e).terminal = s.terminal
           /\ ~Offered(s, e).waker \/ Offered(s, e).queue = s.queue
           /\ Offered(s, e).waker => s.waker
<1>0. e.class = NoClass /\ Len(s.queue) \in Nat /\ s.dropped \in Nat /\ s.demand \in Nat
  BY DEF EventRecord, SubRecord
<1>1. CASE s.terminal # NoError
  <2>1. Offered(s, e) = s
    BY <1>1 DEF Offered, Listens
  <2> QED
    BY <1>0, <1>1, <2>1
<1>2. CASE s.terminal = NoError /\ HasRoom(s)
  <2> DEFINE q == Append(s.queue, e)
             d == s.demand - 1
  <2>1. Offered(s, e) = [s EXCEPT !.queue = q, !.demand = d, !.waker = FALSE]
    BY <1>0, <1>2 DEF Offered, Listens, Accepts
  <2>2. Len(q) = Len(s.queue) + 1 /\ d + 1 = s.demand
    BY <1>0, <1>2 DEF SubRecord
  <2> HIDE DEF q, d
  <2>3. /\ Offered(s, e).queue = q /\ Offered(s, e).demand = d
        /\ Offered(s, e).dropped = s.dropped
    BY <2>1 DEF SubRecord
  <2>6. Offered(s, e).terminal = s.terminal /\ Offered(s, e).waker = FALSE
    BY <2>1 DEF SubRecord
  <2>4. d \in Nat /\ Len(q) \in Nat
    BY <1>0, <1>2, <2>2 DEF HasRoom, d
  <2>5. /\ Offered(s, e).demand + Len(Offered(s, e).queue) = s.demand + Len(s.queue)
        /\ Len(Offered(s, e).queue) + Offered(s, e).dropped = Len(s.queue) + s.dropped + 1
    <3>1. d + Len(q) = s.demand + Len(s.queue)
      BY <1>0, <2>2, <2>4
    <3>2. Len(q) + s.dropped = Len(s.queue) + s.dropped + 1
      BY <1>0, <2>2, <2>4
    <3> QED
      BY <2>3, <3>1, <3>2, Zenon
  <2> QED
    BY <1>2, <2>5, <2>6
<1>3. CASE s.terminal = NoError /\ ~HasRoom(s)
  <2> DEFINE d == s.dropped + 1
  <2>1. Offered(s, e) = [s EXCEPT !.dropped = d]
    BY <1>0, <1>3 DEF Offered, Listens, Accepts
  <2> HIDE DEF d
  <2>2. /\ Offered(s, e).queue = s.queue /\ Offered(s, e).demand = s.demand
        /\ Offered(s, e).dropped = d /\ Offered(s, e).terminal = s.terminal
        /\ Offered(s, e).waker = s.waker
    BY <2>1 DEF SubRecord
  <2> QED
    BY <1>0, <1>3, <2>2 DEF d
<1> QED
  BY <1>1, <1>2, <1>3

\* Ending the stream sets the terminal error and takes the waker, and leaves the
\* queue and the counters alone.
LEMMA EndedCounts ==
    ASSUME NEW s \in SubRecord, s.terminal = NoError
    PROVE  /\ Ended(s, Gone).queue = s.queue /\ Ended(s, Gone).demand = s.demand
           /\ Ended(s, Gone).dropped = s.dropped /\ Ended(s, Gone).waker = FALSE
BY DEF Ended, SubRecord

\* One poll: an event leaves the queue, or the drops are reported and cost at
\* most one event of demand, or the numbers stay as they are.
LEMMA PolledCounts ==
    ASSUME NEW s \in SubRecord
    PROVE  /\ PollItem(s) = "event" =>
                /\ Len(Polled(s).queue) = Len(s.queue) - 1
                /\ Polled(s).demand = s.demand /\ Polled(s).dropped = s.dropped
           /\ PollItem(s) = "lagged" =>
                /\ Polled(s).queue = s.queue /\ Polled(s).dropped = 0
                /\ Polled(s).demand = DemandAfterLag(s)
           /\ PollItem(s) \notin {"event", "lagged"} =>
                /\ Polled(s).queue = s.queue
                /\ Polled(s).demand = s.demand /\ Polled(s).dropped = s.dropped
           /\ PollItem(s) = "pending" =>
                /\ Polled(s).queue = <<>> /\ Polled(s).terminal = NoError
                /\ Polled(s).waker = TRUE
<1>1. ASSUME PollItem(s) = "event"
      PROVE  /\ Len(Polled(s).queue) = Len(s.queue) - 1
             /\ Polled(s).demand = s.demand /\ Polled(s).dropped = s.dropped
  <2> DEFINE q == Tail(s.queue)
  <2>1. s.queue # <<>> /\ Polled(s) = [s EXCEPT !.queue = q, !.waker = FALSE]
    BY <1>1, PolledEvent
  <2>2. Len(q) = Len(s.queue) - 1
    <3>1. s.queue \in Seq(EventRecord)
      BY DEF SubRecord
    <3> QED
      BY <2>1, <3>1, HeadTailProperties
  <2> HIDE DEF q
  <2>3. Polled(s).queue = q /\ Polled(s).demand = s.demand /\ Polled(s).dropped = s.dropped
    BY <2>1 DEF SubRecord
  <2> QED
    BY <2>2, <2>3
<1>2. ASSUME PollItem(s) = "lagged"
      PROVE  /\ Polled(s).queue = s.queue /\ Polled(s).dropped = 0
             /\ Polled(s).demand = DemandAfterLag(s)
  <2> DEFINE d == DemandAfterLag(s)
  <2>1. Polled(s) = [s EXCEPT !.dropped = 0, !.demand = d]
    BY <1>2, PolledLag
  <2> HIDE DEF d
  <2>2. Polled(s).queue = s.queue /\ Polled(s).dropped = 0 /\ Polled(s).demand = d
    BY <2>1 DEF SubRecord
  <2> QED
    BY <2>2 DEF d
<1>3. ASSUME PollItem(s) \notin {"event", "lagged"}
      PROVE  /\ Polled(s).queue = s.queue
             /\ Polled(s).demand = s.demand /\ Polled(s).dropped = s.dropped
  BY <1>3 DEF Polled, SubRecord
<1>4. ASSUME PollItem(s) = "pending"
      PROVE  /\ Polled(s).queue = <<>> /\ Polled(s).terminal = NoError
             /\ Polled(s).waker = TRUE
  <2>1. s.queue = <<>> /\ s.terminal = NoError
    BY <1>4 DEF PollItem
  <2>2. Polled(s) = [s EXCEPT !.waker = TRUE]
    BY <1>4, PolledEnd
  <2> QED
    BY <2>1, <2>2 DEF SubRecord
<1> QED
  BY <1>1, <1>2, <1>3, <1>4
-----------------------------------------------------------------------------
(* The steps preserve the frame loop's invariants.                          *)

\* drain leaves its loop only with less than a batch to re-grant.
SpentBelowBatch == pc # "loop" => pump.spent < Batch

PumpInvariant ==
    TypeOK /\ SpentBelowBatch /\ DemandConserved /\ LossIsCounted /\ PumpNeverSleepsOnEvents

\* What TypeOK says of the numbers the invariants add up.
LEMMA PumpNumbers ==
    ASSUME TypeOK
    PROVE  /\ sub \in SubRecord
           /\ sub.demand \in Nat /\ Len(sub.queue) \in Nat /\ sub.dropped \in Nat
           /\ pump.spent \in Nat /\ pump.dropped \in Nat
           /\ log.burnt \in Nat /\ log.offered \in Nat /\ log.staged \in Nat
<1>1. sub \in SubRecord
  BY DEF TypeOK, SubRecord, EventRecord
<1>2. sub.queue \in Seq(EventRecord)
  BY <1>1 DEF SubRecord
<1> QED
  BY <1>1, <1>2, LenProperties DEF TypeOK, SubRecord

\* Emit: the event is queued out of the demand, or dropped and counted.
LEMMA EmitStep ==
    ASSUME PumpInvariant, NEW kind \in EventKinds, Emit(kind)
    PROVE  SpentBelowBatch' /\ DemandConserved' /\ LossIsCounted' /\ PumpNeverSleepsOnEvents'
<1> DEFINE e == [class |-> NoClass, kind |-> kind]
<1>0. TypeOK /\ UNCHANGED <<pc, pump, cancelled>>
  BY DEF PumpInvariant, Emit
<1>1. e \in EventRecord
  BY PumpConstants DEF EventRecord, Kinds
<1> HIDE DEF e
<1>2. /\ log'.burnt = log.burnt /\ log'.staged = log.staged
      /\ log'.offered = IF ~cancelled /\ sub.terminal = NoError
                        THEN log.offered + 1 ELSE log.offered
  BY <1>0 DEF Emit, TypeOK
<1>3. SpentBelowBatch'
  BY <1>0 DEF PumpInvariant, SpentBelowBatch, Batch
<1>4. CASE cancelled
  <2>1. UNCHANGED <<sub, waking>>
    BY <1>4 DEF Emit
  <2>2. log'.offered = log.offered
    BY <1>2, <1>4
  <2> QED
    BY <1>0, <1>2, <1>3, <2>1, <2>2
    DEF PumpInvariant, DemandConserved, LossIsCounted, PumpNeverSleepsOnEvents
<1>5. CASE ~cancelled
  <2>1. sub' = Offered(sub, e) /\ waking' = (waking \/ TakesWaker(sub'))
    BY <1>5 DEF Emit, e
  <2>2. /\ sub'.demand + Len(sub'.queue) = sub.demand + Len(sub.queue)
        /\ Len(sub'.queue) + sub'.dropped
             = Len(sub.queue) + sub.dropped + (IF sub.terminal = NoError THEN 1 ELSE 0)
        /\ sub'.terminal = sub.terminal
        /\ ~sub'.waker \/ sub'.queue = sub.queue
        /\ sub'.waker => sub.waker
    BY <1>0, <1>1, <2>1, PumpNumbers, OfferedCounts
  <2>3. Len(sub'.queue) \in Nat /\ sub'.demand \in Nat /\ sub'.dropped \in Nat
    <3>1. sub' \in SubRecord
      BY <1>0, <1>1, <2>1, PumpNumbers, HubKeepsType
    <3> QED
      BY <3>1, LenProperties DEF SubRecord
  <2>4. DemandConserved'
    BY <1>0, <1>2, <2>2, <2>3, PumpNumbers DEF PumpInvariant, DemandConserved
  <2>5. LossIsCounted'
    <3>1. log'.offered = log.offered + (IF sub.terminal = NoError THEN 1 ELSE 0)
      BY <1>0, <1>2, <1>5, PumpNumbers
    <3>2. LossIsCounted /\ pump'.dropped = pump.dropped
      BY <1>0 DEF PumpInvariant
    <3> QED
      <4> DEFINE n == IF sub.terminal = NoError THEN 1 ELSE 0
      <4>1. n \in Nat
        OBVIOUS
      <4>2. log'.offered = log.offered + n /\ log'.staged = log.staged
        BY <1>2, <3>1
      <4>3. Len(sub'.queue) + sub'.dropped = Len(sub.queue) + sub.dropped + n
        BY <2>2
      <4> HIDE DEF n
      <4>4. log.offered = log.staged + Len(sub.queue) + sub.dropped + pump.dropped
        BY <3>2 DEF LossIsCounted
      <4>5. log.offered + n = log.staged + (Len(sub'.queue) + sub'.dropped) + pump.dropped
        BY <1>0, <2>3, <4>1, <4>3, <4>4, PumpNumbers
      <4> QED
        BY <1>0, <2>3, <3>2, <4>2, <4>5, PumpNumbers DEF LossIsCounted
  <2>6. PumpNeverSleepsOnEvents'
    BY <1>0, <2>1, <2>2 DEF PumpInvariant, PumpNeverSleepsOnEvents, TakesWaker
  <2> QED
    BY <1>3, <2>4, <2>5, <2>6
<1> QED
  BY <1>4, <1>5

\* A drain that stages an event spends the demand the event was queued with.
LEMMA TakeEventStep ==
    ASSUME PumpInvariant, TakeEvent
    PROVE  SpentBelowBatch' /\ DemandConserved' /\ LossIsCounted' /\ PumpNeverSleepsOnEvents'
<1>1. TypeOK /\ pc = "loop" /\ pc' = pc
  BY DEF PumpInvariant, TakeEvent
<1>2. /\ Len(sub'.queue) = Len(sub.queue) - 1
      /\ sub'.demand = sub.demand /\ sub'.dropped = sub.dropped
  BY <1>1, PumpNumbers, PolledCounts DEF TakeEvent
<1>3. pump'.spent = pump.spent + 1 /\ pump'.dropped = pump.dropped
  BY <1>1 DEF TakeEvent, TypeOK
<1>4. /\ log'.burnt = log.burnt /\ log'.staged = log.staged + 1
      /\ log'.offered = log.offered
  BY <1>1 DEF TakeEvent, TypeOK
<1>7. DemandConserved /\ LossIsCounted
  BY DEF PumpInvariant
<1>5. DemandConserved'
  <2>1. sub.demand + (Len(sub.queue) - 1) + (pump.spent + 1) + log.burnt
          = sub.demand + Len(sub.queue) + pump.spent + log.burnt
    <3>1. \A a, b, c, d \in Nat : a + (b - 1) + (c + 1) + d = a + b + c + d
      OBVIOUS
    <3>2. /\ sub.demand \in Nat /\ Len(sub.queue) \in Nat
          /\ pump.spent \in Nat /\ log.burnt \in Nat
      BY <1>1, PumpNumbers
    <3> QED
      BY <3>1, <3>2
  <2> QED
    BY <1>2, <1>3, <1>4, <1>7, <2>1 DEF DemandConserved
<1>6. LossIsCounted'
  BY <1>1, <1>2, <1>3, <1>4, <1>7, PumpNumbers DEF LossIsCounted
<1> QED
  BY <1>1, <1>5, <1>6 DEF SpentBelowBatch, PumpNeverSleepsOnEvents

\* A lag report moves the drops into the pump's counter; what it costs is logged.
LEMMA TakeLagStep ==
    ASSUME PumpInvariant, TakeLag
    PROVE  SpentBelowBatch' /\ DemandConserved' /\ LossIsCounted' /\ PumpNeverSleepsOnEvents'
<1>1. TypeOK /\ pc = "loop" /\ pc' = pc
  BY DEF PumpInvariant, TakeLag
<1>2. /\ sub'.queue = sub.queue /\ sub'.dropped = 0
      /\ sub'.demand = DemandAfterLag(sub)
  BY <1>1, PumpNumbers, PolledCounts DEF TakeLag
<1>3. pump'.spent = pump.spent /\ pump'.dropped = pump.dropped + sub.dropped
  BY <1>1 DEF TakeLag, TypeOK
<1>4. /\ log'.burnt = log.burnt + (sub.demand - sub'.demand)
      /\ log'.staged = log.staged /\ log'.offered = log.offered
  BY <1>1 DEF TakeLag, TypeOK
<1>5. sub'.demand \in Nat
  BY <1>1, <1>2, PumpNumbers DEF DemandAfterLag
<1>6. DemandConserved'
  BY <1>1, <1>2, <1>3, <1>4, <1>5, PumpNumbers DEF PumpInvariant, DemandConserved
<1>7. LossIsCounted'
  BY <1>1, <1>2, <1>3, <1>4, PumpNumbers DEF PumpInvariant, LossIsCounted
<1> QED
  BY <1>1, <1>6, <1>7 DEF SpentBelowBatch, PumpNeverSleepsOnEvents

\* The other answers of a poll change no number; Pending parks on an empty queue.
LEMMA TakeEndStep ==
    ASSUME PumpInvariant, TakeError \/ TakePending
    PROVE  SpentBelowBatch' /\ DemandConserved' /\ LossIsCounted' /\ PumpNeverSleepsOnEvents'
<1>1. /\ TypeOK /\ sub' = Polled(sub) /\ UNCHANGED log
      /\ pump.spent < Batch
  BY DEF PumpInvariant, TakeError, TakePending
<1>2. sub'.queue = sub.queue /\ sub'.demand = sub.demand /\ sub'.dropped = sub.dropped
  BY <1>1, PumpNumbers, PolledCounts DEF TakeError, TakePending
<1>3. pump'.spent = pump.spent /\ pump'.dropped = pump.dropped
  BY <1>1 DEF TakeError, TakePending, TypeOK
<1>4. DemandConserved' /\ LossIsCounted'
  BY <1>1, <1>2, <1>3 DEF PumpInvariant, DemandConserved, LossIsCounted
<1>5. SpentBelowBatch'
  BY <1>1, <1>3 DEF SpentBelowBatch, Batch
<1>6. PumpNeverSleepsOnEvents'
  <2>1. CASE TakeError
    BY <2>1 DEF TakeError, PumpNeverSleepsOnEvents
  <2>2. CASE TakePending
    <3>1. sub'.queue = <<>> /\ sub'.terminal = NoError /\ sub'.waker = TRUE
      BY <1>1, <2>2, PumpNumbers, PolledCounts DEF TakePending
    <3> QED
      BY <3>1 DEF PumpNeverSleepsOnEvents
  <2> QED
    BY <2>1, <2>2
<1> QED
  BY <1>4, <1>5, <1>6

\* grant_demand gives back exactly what the batch spent.
LEMMA GrantStep ==
    ASSUME PumpInvariant, GrantDemand
    PROVE  SpentBelowBatch' /\ DemandConserved' /\ LossIsCounted' /\ PumpNeverSleepsOnEvents'
<1>1. TypeOK /\ pc = "loop" /\ pc' = pc /\ UNCHANGED log /\ pump.spent >= Batch
  BY DEF PumpInvariant, GrantDemand
<1>2. pump.spent # 0
  BY <1>1, BatchIsPositive, PumpNumbers, PumpConstants
<1>3. sub' = Requested(sub, pump.spent)
  BY <1>2 DEF GrantDemand
<1>4. /\ sub'.queue = sub.queue /\ sub'.dropped = sub.dropped
      /\ sub'.demand = sub.demand + pump.spent
  <2> DEFINE d == sub.demand + pump.spent
  <2>1. sub' = [sub EXCEPT !.demand = d, !.waker = FALSE]
    BY <1>2, <1>3 DEF Requested
  <2> HIDE DEF d
  <2>2. sub'.queue = sub.queue /\ sub'.dropped = sub.dropped /\ sub'.demand = d
    BY <1>1, <2>1, PumpNumbers DEF SubRecord
  <2> QED
    BY <2>2 DEF d
<1>5. pump'.spent = 0 /\ pump'.dropped = pump.dropped
  BY <1>1 DEF GrantDemand, TypeOK
<1>6. DemandConserved' /\ LossIsCounted'
  BY <1>1, <1>4, <1>5, PumpNumbers DEF PumpInvariant, DemandConserved, LossIsCounted
<1> QED
  BY <1>1, <1>6 DEF SpentBelowBatch, PumpNeverSleepsOnEvents

\* Every step of the frame loop and of the backend thread.
LEMMA PumpStep ==
    ASSUME PumpInvariant, [Next]_vars
    PROVE  SpentBelowBatch' /\ DemandConserved' /\ LossIsCounted' /\ PumpNeverSleepsOnEvents'
<1>0. TypeOK
  BY DEF PumpInvariant
<1>1. CASE EndStream
  <2>1. /\ sub'.queue = sub.queue /\ sub'.demand = sub.demand
        /\ sub'.dropped = sub.dropped /\ sub'.waker = FALSE
    BY <1>0, <1>1, PumpNumbers, EndedCounts DEF EndStream
  <2>2. SpentBelowBatch' /\ DemandConserved' /\ LossIsCounted'
    BY <1>1, <2>1
    DEF EndStream, PumpInvariant, SpentBelowBatch, DemandConserved, LossIsCounted, Batch
  <2>3. PumpNeverSleepsOnEvents'
    BY <1>1, <2>1 DEF EndStream, PumpInvariant, PumpNeverSleepsOnEvents, TakesWaker
  <2> QED
    BY <2>2, <2>3
<1>2. CASE Wake
  <2>1. UNCHANGED <<sub, pump, log>> /\ pc' # "parked"
    BY <1>2 DEF Wake
  <2>2. pc' # "loop" => pc # "loop"
    BY <1>2 DEF Wake
  <2> QED
    BY <2>1, <2>2 DEF PumpInvariant, SpentBelowBatch, DemandConserved, LossIsCounted,
                      PumpNeverSleepsOnEvents, Batch
<1>3. CASE BeginDrain("pump") \/ BeginDrain("poll")
  BY <1>3 DEF BeginDrain, PumpInvariant, SpentBelowBatch, DemandConserved,
              LossIsCounted, PumpNeverSleepsOnEvents, Batch
<1>4. CASE FinishFrame
  <2>1. /\ log'.burnt = log.burnt /\ log'.staged = log.staged
        /\ log'.offered = log.offered
    BY <1>0, <1>4 DEF FinishFrame, TypeOK
  <2> QED
    BY <1>4, <2>1 DEF FinishFrame, PumpInvariant, SpentBelowBatch, DemandConserved,
                      LossIsCounted, PumpNeverSleepsOnEvents, Batch
<1>5. CASE Cancel
  <2>1. /\ log'.burnt = log.burnt /\ log'.staged = log.staged
        /\ log'.offered = log.offered
    BY <1>0, <1>5 DEF Cancel, TypeOK
  <2> QED
    BY <1>5, <2>1 DEF Cancel, PumpInvariant, SpentBelowBatch, DemandConserved,
                      LossIsCounted, PumpNeverSleepsOnEvents, Batch
<1>6. CASE UNCHANGED vars
  BY <1>6 DEF vars, PumpInvariant, SpentBelowBatch, DemandConserved, LossIsCounted,
              PumpNeverSleepsOnEvents, Batch
<1> QED
  BY <1>1, <1>2, <1>3, <1>4, <1>5, <1>6, EmitStep, TakeEventStep, TakeLagStep,
     TakeEndStep, GrantStep DEF Next, Drain
-----------------------------------------------------------------------------
(* The theorems.                                                            *)

\* The strengthening of the invariants below that the steps preserve.
THEOREM PumpInvariantHolds == Spec => []PumpInvariant
<1>1. Init /\ TypeOK => PumpInvariant
  <2> SUFFICES ASSUME Init, TypeOK PROVE PumpInvariant
    OBVIOUS
  <2>1. /\ sub.demand = Capacity /\ sub.queue = <<>> /\ sub.dropped = 0
        /\ pump.spent = 0 /\ pump.dropped = 0 /\ pc = "app"
        /\ log.burnt = 0 /\ log.offered = 0 /\ log.staged = 0
    BY DEF Init, NewSubscriber
  <2> QED
    BY <2>1, BatchIsPositive, PumpConstants
    DEF PumpInvariant, SpentBelowBatch, DemandConserved, LossIsCounted, PumpNeverSleepsOnEvents
<1>2. PumpInvariant /\ TypeOK' /\ [Next]_vars => PumpInvariant'
  BY PumpStep DEF PumpInvariant
<1> QED
  BY <1>1, <1>2, PumpTypeCorrect, PTL DEF Spec

\* InputPump's batched re-granting neither leaks nor invents demand, for every
\* queue capacity and any number of events, lag reports and frames.
THEOREM DemandIsConserved == Spec => []DemandConserved
BY PumpInvariantHolds, PTL DEF PumpInvariant

\* Between drains the backend has demand to deliver into unless lag reports were
\* charged more than the half of the queue that batching keeps back.
THEOREM BackendStaysFed == Spec => []FedUnlessLagging
<1>1. PumpInvariant => FedUnlessLagging
  <2> SUFFICES ASSUME PumpInvariant, pc # "loop", ~cancelled,
                      log.burnt <= Capacity - Batch, sub.queue = <<>>
               PROVE  sub.demand > 0
    BY DEF FedUnlessLagging
  <2>1. TypeOK /\ pump.spent < Batch
    BY DEF PumpInvariant, SpentBelowBatch
  <2>2. sub.demand + pump.spent + log.burnt = Capacity
    BY <2>1, PumpNumbers DEF PumpInvariant, DemandConserved
  <2> QED
    BY <2>1, <2>2, BatchIsPositive, PumpNumbers, PumpConstants
<1> QED
  BY <1>1, PumpInvariantHolds, PTL

\* No event offered to the stream is lost without being counted.
THEOREM LossesAreCounted == Spec => []LossIsCounted
BY PumpInvariantHolds, PTL DEF PumpInvariant

\* poll_pump never parks over a queued event or an ended stream.
THEOREM PumpWakes == Spec => []PumpNeverSleepsOnEvents
BY PumpInvariantHolds, PTL DEF PumpInvariant
-----------------------------------------------------------------------------
(* The keyboard state behind the queue.                                     *)

\* Nothing of the stream was lost, and it goes on.
Intact == ~cancelled /\ sub.terminal = NoError /\ sub.dropped = 0 /\ pump.dropped = 0

IsKey(kind) == kind \in {"press", "release"}

\* The i-th queued event is the last key transition in the queue.
LastKey(q, i) == IsKey(q[i].kind) /\ \A j \in 1..Len(q) : j > i => ~IsKey(q[j].kind)

\* The device is where the last queued key transition leaves the key, and where the
\* keyboard state has it when none is queued.
KeyTrail == Intact =>
    /\ \A i \in 1..Len(sub.queue) :
         LastKey(sub.queue, i) => (device <=> sub.queue[i].kind = "press")
    /\ (\A i \in 1..Len(sub.queue) : ~IsKey(sub.queue[i].kind)) => (device <=> pressed)

\* A step that leaves the queue, the key and the losses as they were.
LEMMA SameTrail ==
    ASSUME KeyTrail, sub'.queue = sub.queue, UNCHANGED <<device, pressed>>, Intact' => Intact
    PROVE  KeyTrail'
<1> DEFINE q == sub.queue
<1>1. SUFFICES ASSUME Intact
               PROVE  /\ \A i \in 1..Len(q) : LastKey(q, i) => (device <=> q[i].kind = "press")
                      /\ (\A i \in 1..Len(q) : ~IsKey(q[i].kind)) => (device <=> pressed)
  BY DEF KeyTrail
<1> QED
  BY <1>1 DEF KeyTrail

\* A queued event becomes the end of the trail when it is a key transition.
LEMMA EmitTrail ==
    ASSUME TypeOK, KeyTrail, NEW kind \in EventKinds, Emit(kind)
    PROVE  KeyTrail'
<1> DEFINE e == [class |-> NoClass, kind |-> kind]
           q == sub.queue
<1>0. UNCHANGED <<pump, cancelled, pressed>> /\ sub \in SubRecord /\ q \in Seq(EventRecord)
  BY PumpNumbers DEF Emit, SubRecord
<1>1. e \in EventRecord /\ e.kind = kind /\ e.class = NoClass
  BY PumpConstants DEF EventRecord, Kinds
<1> HIDE DEF e
<1>2. SUFFICES ASSUME Intact'
               PROVE  /\ \A i \in 1..Len(sub'.queue) :
                           LastKey(sub'.queue, i) => (device' <=> sub'.queue[i].kind = "press")
                      /\ (\A i \in 1..Len(sub'.queue) : ~IsKey(sub'.queue[i].kind))
                           => (device' <=> pressed)
  BY <1>0 DEF KeyTrail, LastKey
<1>3. ~cancelled /\ sub' = Offered(sub, e) /\ pump.dropped = 0 /\ sub'.dropped = 0
      /\ sub'.terminal = NoError
  BY <1>0, <1>2 DEF Intact, Emit, e
<1>4. sub.terminal = NoError
  BY <1>0, <1>1, <1>3, OfferedCounts
<1>5. HasRoom(sub)
  <2> SUFFICES ASSUME ~HasRoom(sub) PROVE FALSE
    OBVIOUS
  <2> DEFINE d == sub.dropped + 1
  <2>1. sub' = [sub EXCEPT !.dropped = d] /\ d # 0
    BY <1>0, <1>1, <1>3, <1>4 DEF Offered, Listens, Accepts, SubRecord
  <2> HIDE DEF d
  <2>2. sub'.dropped = d
    BY <1>0, <2>1 DEF SubRecord
  <2> QED
    BY <1>3, <2>1, <2>2
<1>6. sub'.queue = Append(q, e) /\ sub'.dropped = sub.dropped
  <2> DEFINE r == Append(q, e)
             d == sub.demand - 1
  <2>1. sub' = [sub EXCEPT !.queue = r, !.demand = d, !.waker = FALSE]
    BY <1>1, <1>3, <1>4, <1>5 DEF Offered, Listens, Accepts
  <2> HIDE DEF r, d
  <2>2. sub'.queue = r /\ sub'.dropped = sub.dropped
    BY <1>0, <2>1 DEF SubRecord
  <2> QED
    BY <2>2 DEF r
<1>7. Intact
  BY <1>3, <1>4, <1>6 DEF Intact
<1> DEFINE n == Len(q)
<1>8. /\ n \in Nat /\ Len(sub'.queue) = n + 1 /\ sub'.queue[n + 1] = e
      /\ \A i \in 1..n : sub'.queue[i] = q[i]
  BY <1>0, <1>1, <1>6, AppendProperties, LenProperties
<1>9. /\ kind = "press" => device' = TRUE
      /\ kind = "release" => device' = FALSE
      /\ ~IsKey(kind) => device' = device
  BY DEF Emit, IsKey
<1>10. /\ \A i \in 1..n : LastKey(q, i) => (device <=> q[i].kind = "press")
       /\ (\A i \in 1..n : ~IsKey(q[i].kind)) => (device <=> pressed)
  BY <1>7 DEF KeyTrail
<1> HIDE DEF q, n
<1>11. CASE IsKey(kind)
  <2>1. \A i \in 1..n + 1 : LastKey(sub'.queue, i) => i = n + 1
    BY <1>1, <1>8, <1>11 DEF LastKey
  <2>2. n + 1 \in 1..n + 1
    BY <1>8
  <2>3. device' <=> kind = "press"
    BY <1>9, <1>11 DEF IsKey
  <2> QED
    BY <1>1, <1>8, <1>11, <2>1, <2>2, <2>3
<1>12. CASE ~IsKey(kind)
  <2>1. \A i \in 1..n + 1 : LastKey(sub'.queue, i) => i \in 1..n /\ LastKey(q, i)
    <3> SUFFICES ASSUME NEW i \in 1..n + 1, LastKey(sub'.queue, i)
                 PROVE  i \in 1..n /\ LastKey(q, i)
      OBVIOUS
    <3>1. i # n + 1
      BY <1>1, <1>8, <1>12 DEF LastKey
    <3>2. i \in 1..n
      BY <1>8, <3>1
    <3>3. IsKey(q[i].kind)
      BY <1>8, <3>2 DEF LastKey
    <3>4. \A j \in 1..n : j > i => ~IsKey(q[j].kind)
      BY <1>8 DEF LastKey
    <3> QED
      BY <3>2, <3>3, <3>4 DEF LastKey, n
  <2>2. (\A i \in 1..n + 1 : ~IsKey(sub'.queue[i].kind)) => \A i \in 1..n : ~IsKey(q[i].kind)
    <3> SUFFICES ASSUME \A i \in 1..n + 1 : ~IsKey(sub'.queue[i].kind), NEW i \in 1..n
                 PROVE  ~IsKey(q[i].kind)
      OBVIOUS
    <3>1. i \in 1..n + 1 /\ sub'.queue[i] = q[i]
      BY <1>8
    <3> QED
      BY <3>1
  <2>3. device' = device
    BY <1>9, <1>12
  <2> QED
    BY <1>8, <1>10, <2>1, <2>2, <2>3
<1> QED
  BY <1>11, <1>12

\* The event a drain stages leaves the front of the trail.
LEMMA TakeTrail ==
    ASSUME TypeOK, KeyTrail, TakeEvent
    PROVE  KeyTrail'
<1> DEFINE q == sub.queue
           kind == Head(q).kind
<1>0. /\ UNCHANGED <<cancelled, device>> /\ sub \in SubRecord /\ q \in Seq(EventRecord)
      /\ sub' = Polled(sub) /\ PollItem(sub) = "event" /\ Stage(kind)
  BY PumpNumbers DEF TakeEvent, SubRecord
<1>1. q # <<>> /\ sub' = [sub EXCEPT !.queue = Tail(@), !.waker = FALSE]
  BY <1>0, PolledEvent
<1>2. sub'.queue = Tail(q) /\ sub'.dropped = sub.dropped /\ sub'.terminal = sub.terminal
  <2> DEFINE r == Tail(q)
  <2>1. sub' = [sub EXCEPT !.queue = r, !.waker = FALSE]
    BY <1>1
  <2> HIDE DEF r
  <2>2. sub'.queue = r /\ sub'.dropped = sub.dropped /\ sub'.terminal = sub.terminal
    BY <1>0, <2>1 DEF SubRecord
  <2> QED
    BY <2>2 DEF r
<1>3. pump'.dropped = pump.dropped
  BY DEF TakeEvent, TypeOK
<1>4. Intact' => Intact
  BY <1>0, <1>2, <1>3 DEF Intact
<1> DEFINE n == Len(sub'.queue)
<1>5. /\ n \in Nat /\ Len(q) = n + 1 /\ q[1].kind = kind
      /\ \A i \in 1..n : sub'.queue[i] = q[i + 1]
  BY <1>0, <1>1, <1>2, HeadTailProperties, LenProperties
<1>6. /\ kind = "press" => pressed' = TRUE
      /\ kind = "release" => pressed' = FALSE
      /\ ~IsKey(kind) => pressed' = pressed
  BY <1>0 DEF Stage, IsKey
<1> SUFFICES ASSUME Intact
             PROVE  /\ \A i \in 1..n : LastKey(sub'.queue, i) =>
                         (device <=> sub'.queue[i].kind = "press")
                    /\ (\A i \in 1..n : ~IsKey(sub'.queue[i].kind)) => (device <=> pressed')
  BY <1>0, <1>4 DEF KeyTrail, LastKey
<1>7. /\ \A i \in 1..n + 1 : LastKey(q, i) => (device <=> q[i].kind = "press")
      /\ (\A i \in 1..n + 1 : ~IsKey(q[i].kind)) => (device <=> pressed)
  BY <1>5 DEF KeyTrail
<1> HIDE DEF q, n, kind
<1>10. \A j \in 1..n + 1 : j # 1 => j - 1 \in 1..n /\ (j - 1) + 1 = j
  BY <1>5
<1>8. \A i \in 1..n : LastKey(sub'.queue, i) => (device <=> sub'.queue[i].kind = "press")
  <2> SUFFICES ASSUME NEW i \in 1..n, LastKey(sub'.queue, i)
               PROVE  device <=> sub'.queue[i].kind = "press"
    OBVIOUS
  <2>1. i + 1 \in 1..n + 1 /\ IsKey(q[i + 1].kind)
    BY <1>5 DEF LastKey
  <2>2. \A j \in 1..n + 1 : j > i + 1 => ~IsKey(q[j].kind)
    <3> SUFFICES ASSUME NEW j \in 1..n + 1, j > i + 1 PROVE ~IsKey(q[j].kind)
      OBVIOUS
    <3>1. j - 1 \in 1..n /\ (j - 1) + 1 = j /\ j - 1 > i
      BY <1>5
    <3>2. ~IsKey(sub'.queue[j - 1].kind)
      BY <3>1 DEF LastKey, n
    <3> QED
      BY <1>5, <3>1, <3>2
  <2>3. LastKey(q, i + 1)
    BY <1>5, <2>1, <2>2 DEF LastKey
  <2> QED
    BY <1>5, <1>7, <2>1, <2>3
<1>9. ASSUME \A i \in 1..n : ~IsKey(sub'.queue[i].kind)
      PROVE  device <=> pressed'
  <2>1. \A j \in 1..n + 1 : j # 1 => ~IsKey(q[j].kind)
    BY <1>5, <1>9, <1>10
  <2>2. CASE IsKey(kind)
    <3>1. LastKey(q, 1) /\ 1 \in 1..n + 1
      BY <1>5, <2>1, <2>2 DEF LastKey
    <3>2. device <=> kind = "press"
      BY <1>5, <1>7, <3>1
    <3> QED
      BY <1>6, <2>2, <3>2 DEF IsKey
  <2>3. CASE ~IsKey(kind)
    <3>1. \A j \in 1..n + 1 : ~IsKey(q[j].kind)
      BY <1>5, <2>1, <2>3
    <3> QED
      BY <1>6, <1>7, <2>3, <3>1
  <2> QED
    BY <2>2, <2>3
<1> QED
  BY <1>8, <1>9

\* Every step keeps the trail.
LEMMA TrailStep ==
    ASSUME TypeOK, KeyTrail, [Next]_vars
    PROVE  KeyTrail'
<1>0. sub \in SubRecord
  BY PumpNumbers
<1>1. CASE EndStream
  <2>1. sub'.queue = sub.queue /\ sub'.dropped = sub.dropped
    BY <1>0, <1>1, EndedCounts DEF EndStream
  <2> QED
    BY <1>1, <2>1, SameTrail DEF EndStream, Intact
<1>2. CASE GrantDemand
  <2> DEFINE d == sub.demand + (IF pump.spent = 0 THEN 1 ELSE pump.spent)
  <2>1. sub' = [sub EXCEPT !.demand = d, !.waker = FALSE] \/ sub' = sub
    BY <1>2 DEF GrantDemand, Requested
  <2> HIDE DEF d
  <2>2. sub'.queue = sub.queue /\ sub'.dropped = sub.dropped /\ sub'.terminal = sub.terminal
    BY <1>0, <2>1 DEF SubRecord
  <2>3. pump'.dropped = pump.dropped
    BY <1>2 DEF GrantDemand, TypeOK
  <2> QED
    BY <1>2, <2>2, <2>3, SameTrail DEF GrantDemand, Intact
<1>3. CASE TakeLag
  <2>1. sub.dropped > 0 /\ pump'.dropped = pump.dropped + sub.dropped
        /\ pump.dropped \in Nat /\ sub.dropped \in Nat
    BY <1>0, <1>3, PolledLag, PumpNumbers DEF TakeLag, TypeOK
  <2>2. pump'.dropped # 0
    BY <2>1
  <2> QED
    BY <2>2 DEF KeyTrail, Intact
<1>4. CASE TakeError
  BY <1>4 DEF TakeError, KeyTrail, Intact
<1>5. CASE TakePending
  <2>1. sub'.queue = sub.queue /\ sub'.dropped = sub.dropped /\ sub'.terminal = sub.terminal
    BY <1>0, <1>5, PolledEnd DEF TakePending, SubRecord
  <2> QED
    BY <1>5, <2>1, SameTrail DEF TakePending, Intact
<1>6. CASE \/ Wake \/ BeginDrain("pump") \/ BeginDrain("poll") \/ FinishFrame \/ Cancel
           \/ UNCHANGED vars
  BY <1>6, SameTrail DEF Wake, BeginDrain, FinishFrame, Cancel, vars, Intact
<1> QED
  BY <1>1, <1>2, <1>3, <1>4, <1>5, <1>6, EmitTrail, TakeTrail DEF Next, Drain

\* The shared keyboard state is the device's once everything was drained and nothing
\* was lost, for every capacity and however the drains and the emits interleave.
THEOREM KeyboardFollowsDevice == Spec => []KeyStateFollows
<1>1. Init => KeyTrail
  <2> SUFFICES ASSUME Init PROVE KeyTrail
    OBVIOUS
  <2>1. sub.queue = <<>> /\ device = FALSE /\ pressed = FALSE
    BY DEF Init, NewSubscriber
  <2>2. Len(sub.queue) = 0 /\ 1..0 = {}
    BY <2>1
  <2> QED
    BY <2>1, <2>2 DEF KeyTrail
<1>2. TypeOK /\ KeyTrail /\ [Next]_vars => KeyTrail'
  BY TrailStep
<1>3. TypeOK /\ KeyTrail => KeyStateFollows
  <2> SUFFICES ASSUME TypeOK, KeyTrail, ~cancelled, PollItem(sub) = "pending", pump.dropped = 0
               PROVE  pressed = device
    BY DEF KeyStateFollows
  <2>1. sub.queue = <<>> /\ sub.terminal = NoError /\ ~(sub.dropped > 0) /\ sub.dropped \in Nat
    BY PumpNumbers DEF PollItem
  <2>2. Intact
    BY <2>1 DEF Intact
  <2>3. 1..Len(sub.queue) = {}
    BY <2>1
  <2>4. device <=> pressed
    BY <2>2, <2>3 DEF KeyTrail
  <2> QED
    BY <2>4 DEF TypeOK
<1> QED
  BY <1>1, <1>2, <1>3, PumpTypeCorrect, PTL DEF Spec
-----------------------------------------------------------------------------
(* The frame against the raw events.  Positions are natural numbers, and    *)
(* one more event adds at most the last of them.                            *)

\* The naturals are well ordered.
LEMMA LeastElement ==
    ASSUME NEW S, S \subseteq Nat, S # {}
    PROVE  \E x \in S : \A y \in S : x <= y
<1> DEFINE R == {p \in Nat \X Nat : p[1] < p[2]}
<1>1. IsWellFoundedOn(R, Nat)
  BY NatLessThanWellFounded, Zenon DEF OpToRel
<1> HIDE DEF R
<1>2. PICK x \in S : \A y \in S : <<y, x>> \notin R
  BY <1>1, WFMin, Zenon
<1>3. \A y \in S : y < x => <<y, x>> \in R
  BY DEF R
<1>4. \A y \in S : ~(y < x)
  BY <1>2, <1>3
<1> QED
  BY <1>4

\* A bounded set of positions that is not empty has a last one.
LEMMA LastElement ==
    ASSUME NEW n \in Nat, NEW S, S \subseteq 1..n, S # {}
    PROVE  \E x \in S : \A y \in S : y <= x
<1> DEFINE T == {n - j : j \in S}
<1>1. T \subseteq Nat /\ T # {}
  <2>1. \A j \in S : n - j \in Nat
    OBVIOUS
  <2> QED
    BY <2>1, Zenon
<1>2. PICK t \in T : \A u \in T : t <= u
  BY <1>1, LeastElement
<1>3. PICK x \in S : t = n - x
  OBVIOUS
<1>4. ASSUME NEW y \in S PROVE y <= x
  <2>1. n - y \in T
    OBVIOUS
  <2>2. n - x <= n - y
    BY <1>2, <1>3, <2>1
  <2> QED
    BY <2>2
<1> QED
  BY <1>4

\* Ranks count up to the size of the set, and a new last position has the next one.
LEMMA Ranks ==
    ASSUME NEW n \in Nat, NEW S, S \subseteq 1..n
    PROVE  /\ IsFiniteSet(S) /\ Cardinality(S) \in Nat
           /\ Cardinality(S \cup {n + 1}) = Cardinality(S) + 1
           /\ \A j \in S : /\ Rank(S, j) \in 1..Cardinality(S)
                           /\ Rank(S \cup {n + 1}, j) = Rank(S, j)
           /\ Rank(S \cup {n + 1}, n + 1) = Cardinality(S) + 1
<1>1. IsFiniteSet(1..n)
  BY FS_Interval
<1>2. IsFiniteSet(S) /\ Cardinality(S) \in Nat
  BY <1>1, FS_Subset, FS_CardinalityType
<1>3. n + 1 \notin S
  OBVIOUS
<1>4. Cardinality(S \cup {n + 1}) = Cardinality(S) + 1
  BY <1>2, <1>3, FS_AddElement
<1>5. ASSUME NEW j \in S
      PROVE  Rank(S, j) \in 1..Cardinality(S) /\ Rank(S \cup {n + 1}, j) = Rank(S, j)
  <2> DEFINE B == {k \in S : k <= j}
  <2>1. {k \in S \cup {n + 1} : k <= j} = B
    OBVIOUS
  <2>2. B \in SUBSET S /\ j \in B
    OBVIOUS
  <2> HIDE DEF B
  <2>3. IsFiniteSet(B) /\ Cardinality(B) <= Cardinality(S) /\ Cardinality(B) \in Nat
    BY <1>2, <2>2, FS_Subset, FS_CardinalityType
  <2>4. Cardinality(B) # 0
    BY <2>2, <2>3, FS_EmptySet
  <2> QED
    BY <1>2, <2>1, <2>3, <2>4 DEF Rank, B
<1>6. {k \in S \cup {n + 1} : k <= n + 1} = S \cup {n + 1}
  <2>1. \A k \in S \cup {n + 1} : k <= n + 1
    OBVIOUS
  <2> QED
    BY <2>1, Zenon
<1> QED
  BY <1>2, <1>4, <1>5, <1>6 DEF Rank

\* The last position has the highest rank, and is the only one that has it.
LEMMA TopRank ==
    ASSUME NEW n \in Nat, NEW S, S \subseteq 1..n, NEW j \in S, \A k \in S : k <= j
    PROVE  /\ Rank(S, j) = Cardinality(S)
           /\ \A k \in S : k # j => Rank(S, k) # Cardinality(S)
<1>1. {k \in S : k <= j} = S
  BY Zenon
<1>2. IsFiniteSet(S)
  BY Ranks
<1>3. ASSUME NEW k \in S, k # j PROVE Rank(S, k) # Cardinality(S)
  <2> DEFINE B == {i \in S : i <= k}
  <2>1. B \in SUBSET S /\ j \notin B
    BY <1>3
  <2> HIDE DEF B
  <2>2. Cardinality(S) = Cardinality(B) => S = B
    BY <1>2, <2>1, FS_Subset
  <2> QED
    BY <2>1, <2>2 DEF B, Rank
<1> QED
  BY <1>1, <1>3 DEF Rank

\* One more raw event.
LEMMA OneMorePosition ==
    ASSUME NEW raw \in Seq(Kinds), NEW x \in Kinds, NEW K
    PROVE  /\ At(raw, K) \subseteq 1..Len(raw)
           /\ x \in K => At(Append(raw, x), K) = At(raw, K) \cup {Len(raw) + 1}
           /\ x \notin K => At(Append(raw, x), K) = At(raw, K)
           /\ Append(raw, x)[Len(raw) + 1] = x
           /\ \A j \in 1..Len(raw) : Append(raw, x)[j] = raw[j]
<1> DEFINE r == Append(raw, x)
           n == Len(raw)
<1>1. n \in Nat /\ DOMAIN raw = 1..n /\ DOMAIN r = 1..n + 1 /\ r[n + 1] = x
  OBVIOUS
<1>2. \A j \in 1..n : r[j] = raw[j]
  OBVIOUS
<1>3. \A j : j \in 1..n + 1 <=> j \in 1..n \/ j = n + 1
  BY <1>1
<1> HIDE DEF r, n
<1>4. \A j : j \in At(r, K) <=> (j \in 1..n /\ raw[j] \in K) \/ (j = n + 1 /\ x \in K)
  BY <1>1, <1>2, <1>3 DEF At
<1>5. \A j : j \in At(raw, K) <=> j \in 1..n /\ raw[j] \in K
  BY <1>1 DEF At
<1>6. x \in K => At(r, K) = At(raw, K) \cup {n + 1}
  BY <1>4, <1>5
<1>7. x \notin K => At(r, K) = At(raw, K)
  BY <1>4, <1>5
<1>8. At(raw, K) \subseteq 1..n
  BY <1>5
<1> QED
  BY <1>1, <1>2, <1>6, <1>7, <1>8 DEF r, n

\* stage appends a key or another event to its part of the frame.
LEMMA KeepsStep ==
    ASSUME NEW raw \in Seq(Kinds), NEW x \in Kinds, NEW K, NEW out \in Seq(Kinds),
           Keeps(raw, K, out)
    PROVE  /\ x \in K => Keeps(Append(raw, x), K, Append(out, x))
           /\ x \notin K => Keeps(Append(raw, x), K, out)
<1> DEFINE n == Len(raw)
           S == At(raw, K)
           r == Append(raw, x)
           o == Append(out, x)
           m == Cardinality(S)
<1>1. n \in Nat /\ S \subseteq 1..n
  BY OneMorePosition
<1>2. /\ Cardinality(S) \in Nat /\ Cardinality(S \cup {n + 1}) = m + 1
      /\ \A j \in S : Rank(S, j) \in 1..m /\ Rank(S \cup {n + 1}, j) = Rank(S, j)
      /\ Rank(S \cup {n + 1}, n + 1) = m + 1
  <2> HIDE DEF n, S
  <2> QED
    BY <1>1, Ranks
<1>3. Len(out) = m /\ \A j \in S : out[Rank(S, j)] = raw[j]
  BY DEF Keeps
<1>4. r[n + 1] = x /\ \A j \in S : r[j] = raw[j]
  BY <1>1, OneMorePosition
<1>5. Len(o) = m + 1 /\ o[m + 1] = x /\ \A i \in 1..m : o[i] = out[i]
  BY <1>3
<1>6. ASSUME x \in K PROVE Keeps(r, K, o)
  <2>1. At(r, K) = S \cup {n + 1}
    BY <1>6, OneMorePosition
  <2> HIDE DEF n, S, r, o, m
  <2>2. \A j \in S \cup {n + 1} : o[Rank(S \cup {n + 1}, j)] = r[j]
    BY <1>2, <1>3, <1>4, <1>5
  <2> QED
    BY <1>2, <1>5, <2>1, <2>2 DEF Keeps
<1>7. ASSUME x \notin K PROVE Keeps(r, K, out)
  <2>1. At(r, K) = S
    BY <1>7, OneMorePosition
  <2> HIDE DEF n, S, r, o
  <2> QED
    BY <1>3, <1>4, <2>1 DEF Keeps
<1> QED
  BY <1>6, <1>7

\* A motion that no button follows: the next motion is folded into its update.
Open(raw, i) == i \in At(raw, {"motion"}) /\ \A b \in At(raw, {"button"}) : b < i

\* The update of an open motion is the last one, and stands for a motion; without an
\* open motion the last update, if there is one, is a button's.
LEMMA LastUpdate ==
    ASSUME NEW raw \in Seq(Kinds)
    PROVE  /\ Starts(raw) \subseteq 1..Len(raw)
           /\ (\E i : Open(raw, i)) =>
                \E s \in Starts(raw) : Open(raw, s) /\ \A t \in Starts(raw) : t <= s
           /\ \A s \in Starts(raw) :
                (\A t \in Starts(raw) : t <= s) => (raw[s] = "motion" <=> Open(raw, s))
<1> DEFINE n == Len(raw)
           M == At(raw, {"motion"})
           B == At(raw, {"button"})
           S == Starts(raw)
<1>1. n \in Nat /\ DOMAIN raw = 1..n
  OBVIOUS
<1> HIDE DEF n
<1>2. /\ \A j : j \in M <=> j \in 1..n /\ raw[j] = "motion"
      /\ \A j : j \in B <=> j \in 1..n /\ raw[j] = "button"
  BY <1>1 DEF At
<1>3. \A j : j \in S <=> \/ j \in B
                         \/ j \in M /\ \A i \in M : i < j => \E b \in B : i < b /\ b < j
  BY <1>1, <1>2 DEF Starts, At, PointerKinds
<1>4. \A i : Open(raw, i) <=> i \in M /\ \A b \in B : b < i
  BY DEF Open
<1>5. M \subseteq 1..n /\ B \subseteq 1..n /\ S \subseteq 1..n /\ M \cap B = {}
  BY <1>2, <1>3
<1> HIDE DEF M, B, S
<1>6. ASSUME NEW o, Open(raw, o)
      PROVE  \E s \in S : Open(raw, s) /\ \A t \in S : t <= s
  <2> DEFINE O == {i \in M : Open(raw, i)}
  <2>1. O \subseteq Nat /\ O # {}
    <3>1. o \in M /\ M \subseteq Nat
      BY <1>1, <1>4, <1>5, <1>6
    <3> QED
      BY <1>6, <3>1, Zenon
  <2> HIDE DEF O
  <2>2. PICK s \in O : \A u \in O : s <= u
    BY <2>1, LeastElement
  <2>3. s \in M /\ s \in Nat /\ Open(raw, s)
    BY <2>1, <2>2 DEF O
  <2>4. ASSUME NEW i \in M, i < s
        PROVE  \E b \in B : i < b /\ b < s
    <3>1. i \notin O /\ i \in Nat
      BY <1>1, <1>5, <2>2, <2>3, <2>4
    <3>2. PICK b \in B : ~(b < i)
      BY <1>4, <3>1 DEF O
    <3>3. b # i /\ b \in Nat /\ b < s
      BY <1>1, <1>4, <1>5, <2>3
    <3> QED
      BY <3>1, <3>2, <3>3
  <2>5. s \in S
    BY <1>3, <2>3, <2>4
  <2>6. ASSUME NEW t \in S PROVE t <= s
    <3>1. t \in Nat
      BY <1>1, <1>5
    <3>2. CASE t \in B
      BY <1>4, <2>3, <3>1, <3>2
    <3>3. CASE t \in M /\ s < t
      <4>1. PICK b \in B : s < b /\ b < t
        BY <1>3, <1>5, <2>3, <3>3
      <4>2. b \in Nat /\ b < s
        BY <1>1, <1>4, <1>5, <2>3
      <4> QED
        BY <2>3, <4>1, <4>2
    <3> QED
      BY <1>3, <2>3, <3>1, <3>2, <3>3
  <2> QED
    BY <2>3, <2>5, <2>6
<1>7. ASSUME NEW s \in S, \A t \in S : t <= s
      PROVE  raw[s] = "motion" <=> Open(raw, s)
  <2>1. s \in 1..n /\ s \in Nat
    BY <1>1, <1>5
  <2>2. ASSUME raw[s] = "motion" PROVE Open(raw, s)
    <3>1. s \in M
      BY <1>2, <2>1, <2>2
    <3>2. ASSUME NEW b \in B PROVE b < s
      <4>1. b \in S /\ b \in Nat /\ b # s
        BY <1>1, <1>3, <1>5, <3>1
      <4>2. b <= s
        BY <1>7, <4>1
      <4> QED
        BY <2>1, <4>1, <4>2
    <3> QED
      BY <1>4, <3>1, <3>2
  <2>3. Open(raw, s) => raw[s] = "motion"
    BY <1>2, <1>4
  <2> QED
    BY <2>2, <2>3
<1> QED
  BY <1>5, <1>6, <1>7 DEF S, n

\* One more event starts an update, or not, and changes nothing of the earlier ones.
LEMMA OneMoreStart ==
    ASSUME NEW raw \in Seq(Kinds), NEW x \in Kinds
    PROVE  LET starts == x = "button" \/ (x = "motion" /\ ~\E i : Open(raw, i))
           IN  Starts(Append(raw, x)) =
                 IF starts THEN Starts(raw) \cup {Len(raw) + 1} ELSE Starts(raw)
<1> DEFINE n == Len(raw)
           r == Append(raw, x)
           M == At(raw, {"motion"})
           B == At(raw, {"button"})
           P == At(raw, PointerKinds)
           S == Starts(raw)
           starts == x = "button" \/ (x = "motion" /\ ~\E i : Open(raw, i))
<1>1. n \in Nat
  OBVIOUS
<1>2. /\ M \subseteq 1..n /\ B \subseteq 1..n /\ P \subseteq 1..n
      /\ r[n + 1] = x /\ \A j \in 1..n : r[j] = raw[j]
  BY OneMorePosition
<1>3. /\ At(r, {"motion"}) = IF x = "motion" THEN M \cup {n + 1} ELSE M
      /\ At(r, {"button"}) = IF x = "button" THEN B \cup {n + 1} ELSE B
      /\ At(r, PointerKinds) = IF x \in PointerKinds THEN P \cup {n + 1} ELSE P
  BY OneMorePosition
<1>4. \A j : j \in S <=> j \in P /\ (raw[j] = "motion" =>
                  \A i \in M : i < j => \E b \in B : i < b /\ b < j)
  BY DEF Starts
<1>5. \A j : j \in Starts(r) <=> j \in At(r, PointerKinds) /\ (r[j] = "motion" =>
                  \A i \in At(r, {"motion"}) : i < j =>
                      \E b \in At(r, {"button"}) : i < b /\ b < j)
  BY DEF Starts
<1>6. \A i : Open(raw, i) <=> i \in M /\ \A b \in B : b < i
  BY DEF Open
<1>7. M \cap B = {}
  BY DEF At
<1> HIDE DEF n, r, M, B, P, S
<1>8. ASSUME NEW j \in 1..n PROVE j \in Starts(r) <=> j \in S
  <2>1. j \in Nat /\ j # n + 1 /\ ~(n + 1 < j)
    BY <1>1
  <2>2. j \in At(r, PointerKinds) <=> j \in P
    BY <1>3, <2>1
  <2>3. \A i : i \in At(r, {"motion"}) /\ i < j <=> i \in M /\ i < j
    BY <1>3, <2>1
  <2>4. \A i : i \in At(r, {"button"}) /\ i < j <=> i \in B /\ i < j
    BY <1>3, <2>1
  <2> QED
    BY <1>2, <1>4, <1>5, <2>2, <2>3, <2>4
<1>9. n + 1 \in Starts(r) <=> starts
  <2>1. n + 1 \in At(r, PointerKinds) <=> x \in PointerKinds
    BY <1>1, <1>2, <1>3
  <2>2. \A i \in M : i \in Nat /\ i < n + 1
    BY <1>1, <1>2
  <2>3. \A i \in B : i \in Nat /\ i < n + 1
    BY <1>1, <1>2
  <2>4. CASE x = "motion"
    <3>1. At(r, {"motion"}) = M \cup {n + 1} /\ At(r, {"button"}) = B /\ x \in PointerKinds
      BY <1>3, <2>4 DEF PointerKinds
    <3>2. n + 1 \in Starts(r) <=> \A i \in M : \E b \in B : i < b
      <4>1. ~(n + 1 < n + 1)
        BY <1>1
      <4>2. n + 1 \in Starts(r) <=>
              \A i \in M \cup {n + 1} : i < n + 1 => \E b \in B : i < b /\ b < n + 1
        BY <1>2, <1>5, <2>1, <2>4, <3>1
      <4> QED
        BY <2>2, <2>3, <4>1, <4>2, Zenon
    <3>3. \A i \in M, b \in B : ~(b < i) <=> i < b
      BY <1>7, <2>2, <2>3
    <3> QED
      BY <1>6, <2>4, <3>2, <3>3
  <2>5. CASE x # "motion"
    BY <1>2, <1>5, <2>1, <2>5 DEF PointerKinds
  <2> QED
    BY <2>4, <2>5
<1>10. \A j \in Starts(r) : j \in 1..n \/ j = n + 1
  BY <1>2, <1>3, <1>5
<1>11. S \subseteq 1..n
  BY <1>2, <1>4
<1>12. Starts(r) = IF starts THEN S \cup {n + 1} ELSE S
  <2> HIDE DEF starts
  <2>1. CASE starts
    BY <1>8, <1>9, <1>10, <1>11, <2>1
  <2>2. CASE ~starts
    <3>1. \A j \in Starts(r) : j \in 1..n
      BY <1>9, <1>10, <2>2
    <3>2. \A j : j \in Starts(r) <=> j \in S
      BY <1>8, <1>11, <3>1
    <3> QED
      BY <2>2, <3>2
  <2> QED
    BY <2>1, <2>2
<1> QED
  BY <1>12 DEF r, S, n

\* The motions an update stands for, after one more event: an open update grows by a
\* motion, and no other one changes.
LEMMA OneMoreMotion ==
    ASSUME NEW raw \in Seq(Kinds), NEW x \in Kinds
    PROVE  /\ \A j \in 1..Len(raw) :
                /\ Run(raw, j) \in Nat
                /\ Run(Append(raw, x), j) =
                     IF x = "motion" /\ \A b \in At(raw, {"button"}) : b < j
                     THEN Run(raw, j) + 1 ELSE Run(raw, j)
           /\ Run(Append(raw, x), Len(raw) + 1) = IF x = "motion" THEN 1 ELSE 0
<1> DEFINE n == Len(raw)
           r == Append(raw, x)
           M == At(raw, {"motion"})
           B == At(raw, {"button"})
           R(j) == {k \in M : j <= k /\ ~\E b \in B : j <= b /\ b <= k}
           T(j) == {k \in At(r, {"motion"}) :
                       j <= k /\ ~\E b \in At(r, {"button"}) : j <= b /\ b <= k}
<1>1. n \in Nat /\ M \subseteq 1..n /\ B \subseteq 1..n
  BY OneMorePosition
<1>2. /\ At(r, {"motion"}) = IF x = "motion" THEN M \cup {n + 1} ELSE M
      /\ At(r, {"button"}) = IF x = "button" THEN B \cup {n + 1} ELSE B
  BY OneMorePosition
<1>3. \A j : Run(raw, j) = Cardinality(R(j)) /\ Run(r, j) = Cardinality(T(j))
  BY DEF Run
<1> HIDE DEF n, r, M, B
<1>4. \A k \in M \cup B : k \in Nat /\ k < n + 1 /\ ~(n + 1 <= k)
  BY <1>1
<1>5. ASSUME NEW j \in 1..n
      PROVE  T(j) = IF x = "motion" /\ \A b \in B : b < j THEN R(j) \cup {n + 1} ELSE R(j)
  <2>1. j \in Nat /\ j <= n + 1 /\ n + 1 <= n + 1
    BY <1>1
  <2>2. ASSUME NEW k \in M PROVE k \in T(j) <=> k \in R(j)
    BY <1>2, <1>4
  <2>3. n + 1 \in T(j) <=> x = "motion" /\ \A b \in B : b < j
    <3>1. \A b \in B : (j <= b /\ b <= n + 1) <=> ~(b < j)
      BY <1>1, <1>4, <2>1
    <3>2. n + 1 \in At(r, {"motion"}) <=> x = "motion"
      BY <1>1, <1>2
    <3>3. x = "motion" => At(r, {"button"}) = B
      BY <1>2
    <3> QED
      BY <2>1, <3>1, <3>2, <3>3
  <2>4. \A k : k \in T(j) => k \in M \/ k = n + 1
    BY <1>2
  <2>5. \A k \in R(j) : k \in M
    OBVIOUS
  <2> HIDE DEF R, T
  <2>6. CASE x = "motion" /\ \A b \in B : b < j
    <3>1. \A k : k \in T(j) <=> k \in R(j) \/ k = n + 1
      BY <2>2, <2>3, <2>4, <2>5, <2>6
    <3> QED
      BY <2>6, <3>1
  <2>7. CASE ~(x = "motion" /\ \A b \in B : b < j)
    <3>1. \A k : k \in T(j) <=> k \in R(j)
      BY <2>2, <2>3, <2>4, <2>5, <2>7
    <3> QED
      BY <2>7, <3>1
  <2> QED
    BY <2>6, <2>7
<1>6. ASSUME NEW j \in 1..n
      PROVE  /\ Cardinality(R(j)) \in Nat
             /\ Cardinality(R(j) \cup {n + 1}) = Cardinality(R(j)) + 1
  <2>1. R(j) \subseteq 1..n
    BY <1>1
  <2> HIDE DEF R
  <2> QED
    BY <1>1, <2>1, Ranks
<1>7. T(n + 1) = IF x = "motion" THEN {n + 1} ELSE {}
  <2>1. n + 1 <= n + 1 /\ \A k \in B : ~(n + 1 <= k)
    BY <1>1, <1>4
  <2>2. CASE x = "motion"
    <3>1. At(r, {"motion"}) = M \cup {n + 1} /\ At(r, {"button"}) = B
      BY <1>2, <2>2
    <3>2. \A k : k \in T(n + 1) <=> k = n + 1
      BY <1>4, <2>1, <3>1
    <3> HIDE DEF T
    <3> QED
      BY <2>2, <3>2
  <2>3. CASE x # "motion"
    <3>1. At(r, {"motion"}) = M
      BY <1>2, <2>3
    <3>2. \A k : k \notin T(n + 1)
      BY <1>4, <3>1
    <3> HIDE DEF T
    <3> QED
      BY <2>3, <3>2
  <2> QED
    BY <2>2, <2>3
<1> HIDE DEF R, T
<1>8. Run(r, n + 1) = IF x = "motion" THEN 1 ELSE 0
  <2>1. Run(r, n + 1) = Cardinality(T(n + 1))
    BY <1>3
  <2>2. Cardinality({}) = 0 /\ Cardinality({n + 1}) = 1
    BY FS_EmptySet, FS_Singleton
  <2> QED
    BY <1>7, <2>1, <2>2
<1>9. ASSUME NEW j \in 1..n
      PROVE  /\ Run(raw, j) \in Nat
             /\ Run(r, j) = IF x = "motion" /\ \A b \in B : b < j
                            THEN Run(raw, j) + 1 ELSE Run(raw, j)
  <2>1. CASE x = "motion" /\ \A b \in B : b < j
    BY <1>3, <1>5, <1>6, <2>1
  <2>2. CASE ~(x = "motion" /\ \A b \in B : b < j)
    BY <1>3, <1>5, <1>6, <2>2
  <2> QED
    BY <2>1, <2>2
<1> QED
  BY <1>8, <1>9 DEF r, n, B

\* The pointer updates of a frame, as CoalescesTo has them.
Updates(raw, pointers) ==
    /\ Len(pointers) = Cardinality(Starts(raw))
    /\ \A j \in Starts(raw) :
         pointers[Rank(Starts(raw), j)] = [phase |-> raw[j], delta |-> Run(raw, j)]

\* stage of an event that is no pointer event.
LEMMA UpdatesStay ==
    ASSUME NEW raw \in Seq(Kinds), NEW x \in Kinds \ PointerKinds, NEW p, Updates(raw, p)
    PROVE  Updates(Append(raw, x), p)
<1>1. x # "motion" /\ x # "button"
  BY DEF PointerKinds
<1>2. Starts(Append(raw, x)) = Starts(raw)
  BY <1>1, OneMoreStart
<1>3. Starts(raw) \subseteq 1..Len(raw)
  BY LastUpdate
<1>4. \A j \in Starts(raw) : Append(raw, x)[j] = raw[j] /\ Run(Append(raw, x), j) = Run(raw, j)
  BY <1>1, <1>3, OneMorePosition, OneMoreMotion
<1> QED
  BY <1>2, <1>4 DEF Updates

\* merge_motion and stage: a motion is folded into the open update, any other pointer
\* event gets one of its own.
LEMMA UpdatesStep ==
    ASSUME NEW raw \in Seq(Kinds), NEW x \in PointerKinds, NEW p \in Seq(Pointers),
           Updates(raw, p)
    PROVE  Updates(Append(raw, x), WithPointer(p, x))
<1> DEFINE n == Len(raw)
           r == Append(raw, x)
           S == Starts(raw)
           m == Cardinality(S)
<1>0. x \in Kinds
  BY DEF Kinds, PointerKinds
<1>1. n \in Nat /\ S \subseteq 1..n
  BY LastUpdate
<1>2. /\ m \in Nat /\ Cardinality(S \cup {n + 1}) = m + 1 /\ IsFiniteSet(S)
      /\ \A j \in S : Rank(S, j) \in 1..m /\ Rank(S \cup {n + 1}, j) = Rank(S, j)
      /\ Rank(S \cup {n + 1}, n + 1) = m + 1
  <2> HIDE DEF n, S
  <2> QED
    BY <1>1, Ranks
<1>3. /\ Len(p) = m
      /\ \A j \in S : p[Rank(S, j)] = [phase |-> raw[j], delta |-> Run(raw, j)]
  BY DEF Updates
<1>4. r[n + 1] = x /\ \A j \in S : r[j] = raw[j]
  BY <1>0, <1>1, OneMorePosition
<1>5. /\ Run(r, n + 1) = IF x = "motion" THEN 1 ELSE 0
      /\ \A j \in S : /\ Run(raw, j) \in Nat
                      /\ Run(r, j) = IF x = "motion" /\ \A b \in At(raw, {"button"}) : b < j
                                     THEN Run(raw, j) + 1 ELSE Run(raw, j)
  BY <1>0, <1>1, OneMoreMotion
<1>6. \A j \in S : raw[j] = "motion" \/ (raw[j] = "button" /\ j \in At(raw, {"button"}))
  BY DEF Starts, At, PointerKinds
<1>7. \A j \in S : (x = "motion" /\ \A b \in At(raw, {"button"}) : b < j) => Open(raw, j)
  <2> SUFFICES ASSUME NEW j \in S, \A b \in At(raw, {"button"}) : b < j
               PROVE  Open(raw, j)
    OBVIOUS
  <2>1. j \in 1..n /\ ~(j < j)
    BY <1>1
  <2>2. raw[j] = "motion"
    BY <1>6, <2>1
  <2>3. j \in At(raw, {"motion"})
    BY <2>1, <2>2 DEF At
  <2> QED
    BY <2>3 DEF Open
<1>8. CASE x = "motion" /\ \E i : Open(raw, i)
  <2>1. PICK s \in S : Open(raw, s) /\ \A t \in S : t <= s
    BY <1>8, LastUpdate
  <2>2. Rank(S, s) = m /\ \A k \in S : k # s => Rank(S, k) # m
    <3> HIDE DEF n, S
    <3> QED
      BY <1>1, <2>1, TopRank
  <2>3. raw[s] = "motion" /\ \A b \in At(raw, {"button"}) : b < s
    BY <2>1 DEF Open, At
  <2>4. Starts(r) = S
    BY <1>0, <1>8, OneMoreStart
  <2>5. p[m] = [phase |-> "motion", delta |-> Run(raw, s)] /\ m \in 1..m /\ Run(raw, s) \in Nat
    BY <1>2, <1>3, <1>5, <2>2, <2>3
  <2>6. Run(r, s) = Run(raw, s) + 1
    BY <1>5, <1>8, <2>3
  <2>7. ASSUME NEW j \in S, j # s PROVE Run(r, j) = Run(raw, j)
    <3>1. ~Open(raw, j)
      <4> SUFFICES ASSUME Open(raw, j) PROVE FALSE
        OBVIOUS
      <4>1. j \in At(raw, {"motion"}) /\ j \in Nat /\ s \in Nat /\ j <= s
        BY <1>1, <2>1 DEF Open
      <4>2. s \in At(raw, {"motion"}) /\ j < s
        BY <2>1, <2>7, <4>1 DEF Open
      <4>3. PICK b \in At(raw, {"button"}) : j < b /\ b < s
        BY <2>3, <4>1, <4>2 DEF Starts
      <4>4. b < j /\ b \in 1..n
        BY <1>0, OneMorePosition DEF Open
      <4> QED
        BY <1>1, <4>1, <4>3, <4>4
    <3> QED
      BY <1>5, <1>7, <3>1
  <2>8. WithPointer(p, x) = [p EXCEPT ![m].delta = @ + 1]
    <3>1. p # <<>> /\ p[Len(p)].phase = "motion"
      BY <1>2, <1>3, <2>5
    <3> QED
      BY <1>3, <1>8, <3>1 DEF WithPointer, Merges
  <2> DEFINE u == [phase |-> "motion", delta |-> Run(raw, s) + 1]
             q == [p EXCEPT ![m] = u]
  <2>9. WithPointer(p, x) = q
    <3>1. [p[m] EXCEPT !.delta = @ + 1] = u
      BY <2>5
    <3> QED
      BY <2>8, <3>1
  <2>10. Len(q) = m /\ q[m] = u /\ \A i \in 1..m : i # m => q[i] = p[i]
    <3> HIDE DEF u
    <3> QED
      BY <1>2, <1>3, <2>5
  <2> HIDE DEF q, n, r, S, m
  <2>11. \A j \in S : q[Rank(S, j)] = [phase |-> r[j], delta |-> Run(r, j)]
    <3> SUFFICES ASSUME NEW j \in S
                 PROVE  q[Rank(S, j)] = [phase |-> r[j], delta |-> Run(r, j)]
      OBVIOUS
    <3>1. CASE j = s
      BY <1>4, <2>2, <2>3, <2>6, <2>10, <3>1
    <3>2. CASE j # s
      <4>1. q[Rank(S, j)] = p[Rank(S, j)]
        BY <1>2, <2>2, <2>10, <3>2
      <4> QED
        BY <1>3, <1>4, <2>7, <3>2, <4>1
    <3> QED
      BY <3>1, <3>2
  <2>12. Updates(r, q)
    BY <2>4, <2>10, <2>11 DEF Updates, m
  <2> QED
    BY <2>9, <2>12 DEF r
<1>9. CASE ~(x = "motion" /\ \E i : Open(raw, i))
  <2>1. x = "button" \/ (x = "motion" /\ ~\E i : Open(raw, i))
    BY <1>9 DEF PointerKinds
  <2>2. Starts(r) = S \cup {n + 1}
    BY <1>0, <2>1, OneMoreStart
  <2>3. ~Merges(p, x)
    <3> SUFFICES ASSUME Merges(p, x) PROVE FALSE
      OBVIOUS
    <3>1. x = "motion" /\ p # <<>> /\ p[Len(p)].phase = "motion"
      BY DEF Merges
    <3>2. m # 0
      BY <1>3, <3>1, EmptySeq
    <3>3. S # {}
      BY <3>2, FS_EmptySet
    <3>4. PICK s \in S : \A t \in S : t <= s
      <4> HIDE DEF n, S
      <4> QED
        BY <1>1, <3>3, LastElement
    <3>5. Rank(S, s) = m
      <4> HIDE DEF n, S
      <4> QED
        BY <1>1, <3>4, TopRank
    <3>6. raw[s] = "motion"
      <4>1. p[m] = [phase |-> raw[s], delta |-> Run(raw, s)]
        BY <1>3, <3>5
      <4> QED
        BY <1>3, <3>1, <4>1
    <3>7. Open(raw, s)
      BY <3>4, <3>6, LastUpdate
    <3> QED
      BY <1>9, <3>1, <3>7
  <2> DEFINE u == [phase |-> x, delta |-> IF x = "motion" THEN 1 ELSE 0]
             q == Append(p, u)
  <2>4. WithPointer(p, x) = q
    BY <2>3 DEF WithPointer
  <2>5. u \in Pointers
    BY DEF Pointers
  <2>6. Len(q) = m + 1 /\ q[m + 1] = u /\ \A i \in 1..m : q[i] = p[i]
    <3> HIDE DEF u
    <3> QED
      BY <1>2, <1>3, <2>5, AppendProperties
  <2>7. \A j \in S : Run(r, j) = Run(raw, j)
    BY <1>5, <1>7, <1>9
  <2> HIDE DEF q, n, r, S, m
  <2>8. \A j \in S \cup {n + 1} :
           q[Rank(S \cup {n + 1}, j)] = [phase |-> r[j], delta |-> Run(r, j)]
    <3> SUFFICES ASSUME NEW j \in S \cup {n + 1}
                 PROVE  q[Rank(S \cup {n + 1}, j)] = [phase |-> r[j], delta |-> Run(r, j)]
      OBVIOUS
    <3>1. CASE j = n + 1
      BY <1>2, <1>4, <1>5, <2>6, <3>1
    <3>2. CASE j \in S
      BY <1>2, <1>3, <1>4, <2>6, <2>7, <3>2
    <3> QED
      BY <3>1, <3>2
  <2>9. Updates(r, q)
    BY <1>2, <2>2, <2>6, <2>8 DEF Updates
  <2> QED
    BY <2>4, <2>9 DEF r
<1> QED
  BY <1>8, <1>9

\* An empty frame is faithful to no events.
LEMMA EmptyIsFaithful == CoalescesTo(<<>>, EmptyFrame) /\ Motions(<<>>) = 0
<1>1. \A K : At(<<>>, K) = {}
  BY DEF At
<1>2. Starts(<<>>) = {}
  BY <1>1 DEF Starts
<1>3. Cardinality({}) = 0
  BY FS_EmptySet
<1> QED
  BY <1>1, <1>2, <1>3 DEF CoalescesTo, Keeps, EmptyFrame, Motions

\* stage keeps the staged frame faithful, and counts the motion it applies.
LEMMA StageIsFaithful ==
    ASSUME TypeOK, NEW x \in Kinds, Stage(x), CoalescesTo(log.raw, staging)
    PROVE  /\ CoalescesTo(Append(log.raw, x), staging')
           /\ pointer = Motions(log.raw) => pointer' = Motions(Append(log.raw, x))
<1> DEFINE raw == log.raw
           keys == staging.keys
           rest == staging.rest
           pointers == staging.pointers
<1>1. /\ raw \in Seq(Kinds) /\ keys \in Seq(Kinds) /\ rest \in Seq(Kinds)
      /\ pointers \in Seq(Pointers)
  <2>1. raw \in Seq(Kinds)
    BY DEF TypeOK
  <2>2. /\ keys \in Seq({"press", "release"}) /\ rest \in Seq({"other"})
        /\ pointers \in Seq(Pointers)
    BY DEF TypeOK, Frames
  <2>3. {"press", "release"} \subseteq Kinds /\ {"other"} \subseteq Kinds
    BY DEF Kinds
  <2> QED
    BY <2>1, <2>2, <2>3, SeqMonotonic
<1>2. /\ Keeps(raw, {"press", "release"}, keys) /\ Keeps(raw, {"other"}, rest)
      /\ Updates(raw, pointers)
  BY DEF CoalescesTo, Updates
<1> HIDE DEF raw
<1>3. /\ staging'.keys = IF x \in {"press", "release"} THEN Append(keys, x) ELSE keys
      /\ staging'.rest = IF x \in {"press", "release"} \cup PointerKinds
                         THEN rest ELSE Append(rest, x)
      /\ staging'.pointers = IF x \in PointerKinds THEN WithPointer(pointers, x) ELSE pointers
  BY DEF TypeOK, Frames, Stage, PointerKinds
<1> HIDE DEF keys, rest, pointers
<1>4. Keeps(Append(raw, x), {"press", "release"}, staging'.keys)
  BY <1>1, <1>2, <1>3, KeepsStep
<1>5. Keeps(Append(raw, x), {"other"}, staging'.rest)
  <2>1. x \in {"press", "release"} \cup PointerKinds <=> x \notin {"other"}
    BY DEF Kinds, PointerKinds
  <2> QED
    BY <1>1, <1>2, <1>3, <2>1, KeepsStep
<1>6. Updates(Append(raw, x), staging'.pointers)
  BY <1>1, <1>2, <1>3, UpdatesStay, UpdatesStep
<1>7. ASSUME pointer = Motions(raw) PROVE pointer' = Motions(Append(raw, x))
  <2> DEFINE M == At(raw, {"motion"})
             n == Len(raw)
  <2>1. n \in Nat /\ M \subseteq 1..n
    BY <1>1, OneMorePosition
  <2>2. Cardinality(M \cup {n + 1}) = Cardinality(M) + 1
    <3> HIDE DEF M, n
    <3> QED
      BY <2>1, Ranks
  <2>3. At(Append(raw, x), {"motion"}) = IF x = "motion" THEN M \cup {n + 1} ELSE M
    BY <1>1, OneMorePosition
  <2>4. pointer' = IF x = "motion" THEN pointer + 1 ELSE pointer
    BY DEF Stage
  <2> HIDE DEF M, n
  <2> QED
    BY <1>7, <2>2, <2>3, <2>4 DEF Motions, M
<1> QED
  BY <1>4, <1>5, <1>6, <1>7 DEF CoalescesTo, Updates, raw

\* However many drains a frame takes and wherever the backend emits between their polls,
\* the frame that finish_frame hands out holds every key, button and other event in order
\* and the motion between them, and the snapshot counts the same motion.
THEOREM FramesAreFaithful == Spec => []FrameIsFaithful
<1> DEFINE Faithful == FrameIsFaithful /\ (~cancelled => pointer = Motions(log.raw))
<1>1. Init => Faithful
  BY EmptyIsFaithful DEF Init, FrameIsFaithful
<1>2. TypeOK /\ Faithful /\ [Next]_vars => Faithful'
  <2> SUFFICES ASSUME TypeOK, Faithful, [Next]_vars PROVE Faithful'
    OBVIOUS
  <2>0. log \in [emits : Nat, offered : Nat, burnt : Nat, frames : Nat, staged : Nat,
                 raw : Seq(Kinds), shown : Seq(Kinds)]
    BY DEF TypeOK
  <2>1. ASSUME /\ log'.raw = log.raw /\ log'.shown = log.shown
               /\ UNCHANGED <<staging, delivered, snapshot, pointer>>
               /\ (cancelled => cancelled')
        PROVE  Faithful'
    <3>1. Motions(log'.raw) = Motions(log.raw) /\ Motions(log'.shown) = Motions(log.shown)
      BY <2>1
    <3>2. CoalescesTo(log'.raw, staging') /\ CoalescesTo(log'.shown, delivered')
      BY <2>1 DEF FrameIsFaithful
    <3> QED
      BY <2>1, <3>1, <3>2 DEF FrameIsFaithful
  <2>2. CASE TakeEvent
    <3> DEFINE x == Head(sub.queue).kind
    <3>1. x \in Kinds
      <4>1. sub.queue \in Seq([class : {NoClass}, kind : Kinds]) /\ sub.queue # <<>>
        BY <2>2 DEF TypeOK, TakeEvent, PollItem
      <4>2. Head(sub.queue) \in [class : {NoClass}, kind : Kinds]
        BY <4>1, HeadTailProperties
      <4> QED
        BY <4>2
    <3>2. /\ Stage(x) /\ log'.raw = Append(log.raw, x) /\ log'.shown = log.shown
          /\ UNCHANGED <<cancelled, delivered, snapshot>>
      <4> HIDE DEF x
      <4> QED
        BY <2>0, <2>2 DEF TakeEvent, x
    <3> HIDE DEF x
    <3>3. /\ CoalescesTo(log'.raw, staging')
          /\ ~cancelled => pointer' = Motions(log'.raw)
      BY <3>1, <3>2, StageIsFaithful DEF FrameIsFaithful
    <3>4. CoalescesTo(log'.shown, delivered') /\ (~cancelled' => snapshot' = Motions(log'.shown))
      BY <3>2 DEF FrameIsFaithful
    <3> QED
      BY <3>2, <3>3, <3>4 DEF FrameIsFaithful
  <2>3. CASE FinishFrame
    <3>1. /\ log'.raw = <<>> /\ log'.shown = log.raw /\ staging' = EmptyFrame
          /\ delivered' = staging /\ snapshot' = pointer /\ pointer' = 0
          /\ cancelled' = cancelled
      BY <2>0, <2>3 DEF FinishFrame
    <3> QED
      BY <3>1, EmptyIsFaithful DEF FrameIsFaithful
  <2>4. CASE Cancel
    <3>1. /\ log'.raw = <<>> /\ log'.shown = <<>> /\ staging' = EmptyFrame
          /\ delivered' = EmptyFrame /\ cancelled' = TRUE
      BY <2>0, <2>4 DEF Cancel
    <3> QED
      BY <3>1, EmptyIsFaithful DEF FrameIsFaithful
  <2>5. CASE \E kind \in EventKinds : Emit(kind)
    <3>1. log'.raw = log.raw /\ log'.shown = log.shown
      BY <2>0, <2>5 DEF Emit
    <3> QED
      BY <2>1, <2>5, <3>1 DEF Emit
  <2>6. CASE TakeLag
    <3>1. log'.raw = log.raw /\ log'.shown = log.shown
      BY <2>0, <2>6 DEF TakeLag
    <3> QED
      BY <2>1, <2>6, <3>1 DEF TakeLag
  <2>7. CASE \/ EndStream \/ Wake \/ BeginDrain("pump") \/ BeginDrain("poll")
             \/ GrantDemand \/ TakeError \/ TakePending \/ UNCHANGED vars
    BY <2>1, <2>7 DEF EndStream, Wake, BeginDrain, GrantDemand, TakeError, TakePending, vars
  <2> QED
    BY <2>2, <2>3, <2>4, <2>5, <2>6, <2>7 DEF Next, Drain
<1> QED
  BY <1>1, <1>2, PumpTypeCorrect, PTL DEF Spec
=============================================================================
