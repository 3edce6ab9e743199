----------------------------- MODULE InputPump ------------------------------
(***************************************************************************)
(* The frame loop's consumer of one input subscription                     *)
(* (kuitui/src/input/pump.rs): the demand it re-grants in batches, the     *)
(* drain that stages the frame's events, the coalescing of pointer motion, *)
(* and the double-buffered frame.  The subscription is a Subscriber of the *)
(* hub; a backend thread emits into it between any two steps of a drain,   *)
(* because every request and every poll takes and releases the hub's lock. *)
(*                                                                         *)
(* An event is a key press or release of the one modelled key, a pointer   *)
(* motion of one unit, a pointer button, or an event no state owns.        *)
(***************************************************************************)
EXTENDS Subscriber, FiniteSets

CONSTANTS
    EventKinds,   \* the kinds of events the devices emit
    Capacity,     \* queue length the subscription was opened with
    MaxEmits,     \* bound: events emitted in a behaviour
    MaxFrames,    \* bound: frames finished in a behaviour
    Gone          \* the terminal ControlError a lost backend or control sends

ASSUME PumpConstants ==
    /\ EventKinds \subseteq {"press", "release", "motion", "button", "other"}
    /\ Capacity \in Nat \ {0}
    /\ MaxEmits \in Nat /\ MaxFrames \in Nat
    /\ Gone # NoError

VARIABLES
    sub,        \* the hub's side of the subscription
    cancelled,  \* Subscription::cancelled
    pump,       \* spent, dropped, failure of InputPump
    pc,         \* "app", "loop" (inside drain) or "parked" (poll_pump Pending)
    drain,      \* the drain in progress: its entry point and what it delivered
    staging,    \* InputPump::staging
    delivered,  \* InputPump::delivered, the frame handlers read
    pointer,    \* motion accumulated in the shared PointerState
    snapshot,   \* motion in the snapshot the last finish_frame returned
    pressed,    \* the key, as the shared KeyboardState holds it
    waking,     \* the hub took the task's waker and has not woken it yet
    device,     \* the key as it physically is
    log         \* history: events emitted, offered, lag reports, raw frame events

vars == <<sub, cancelled, pump, pc, drain, staging, delivered, pointer, snapshot,
          pressed, waking, device, log>>

Kinds == {"press", "release", "motion", "button", "other"}
PointerKinds == {"motion", "button"}

\* DEMAND_DIVISOR, and the batch InputPump::new derives from the capacity.
DemandDivisor == 2
Batch == IF Capacity \div DemandDivisor = 0 THEN 1 ELSE Capacity \div DemandDivisor

\* struct Frame: key transitions, pointer updates and the rest.
EmptyFrame == [keys |-> <<>>, pointers |-> <<>>, rest |-> <<>>]

Init ==
    /\ sub = NewSubscriber({}, Capacity)
    /\ cancelled = FALSE
    /\ pump = [spent |-> 0, dropped |-> 0, failure |-> NoError]
    /\ pc = "app"
    /\ drain = [entry |-> "pump", delivered |-> 0]
    /\ staging = EmptyFrame
    /\ delivered = EmptyFrame
    /\ pointer = 0
    /\ snapshot = 0
    /\ pressed = FALSE
    /\ waking = FALSE
    /\ device = FALSE
    /\ log = [emits |-> 0, offered |-> 0, burnt |-> 0, frames |-> 0,
              staged |-> 0, raw |-> <<>>, shown |-> <<>>]

\* Mutant: the waker taken by an emit is dropped.
TakesNoWaker(new) == FALSE

\* Whether a hub operation that leaves the subscription as `new` takes the waker
\* of the parked task.  pump() registers a no-op waker, and taking that, or the
\* waker of a task that is running, wakes nobody.
TakesWaker(new) == pc = "parked" /\ sub.waker /\ ~new.waker
-----------------------------------------------------------------------------
(* The backend thread.                                                      *)

\* Hub::emit as this subscription sees it, with the key's physical state.
Emit(kind) ==
    /\ log.emits < MaxEmits
    /\ kind = "press" => ~device
    /\ kind = "release" => device
    /\ device' = IF kind = "press" THEN TRUE
                 ELSE IF kind = "release" THEN FALSE ELSE device
    /\ log' = [log EXCEPT !.emits = @ + 1,
                          !.offered = IF ~cancelled /\ sub.terminal = NoError
                                      THEN @ + 1 ELSE @]
    /\ IF cancelled THEN UNCHANGED <<sub, waking>>
       ELSE /\ sub' = Offered(sub, [class |-> NoClass, kind |-> kind])
            /\ waking' = (waking \/ TakesWaker(sub'))
    /\ UNCHANGED <<cancelled, pump, pc, drain, staging, delivered, pointer,
                   snapshot, pressed>>

\* The stream ends: Hub::fail or Hub::close reaches this subscription.
EndStream ==
    /\ ~cancelled /\ sub.terminal = NoError
    /\ sub' = Ended(sub, Gone)
    /\ waking' = (waking \/ TakesWaker(sub'))
    /\ UNCHANGED <<cancelled, pump, pc, drain, staging, delivered, pointer,
                   snapshot, pressed, device, log>>

\* The wake-up reaches the task; it drains again if it is parked.
Wake ==
    /\ waking
    /\ waking' = FALSE
    /\ IF pc = "parked" THEN pc' = "loop" /\ drain' = [entry |-> "poll", delivered |-> 0]
       ELSE UNCHANGED <<pc, drain>>
    /\ UNCHANGED <<sub, cancelled, pump, staging, delivered, pointer, snapshot,
                   pressed, device, log>>
-----------------------------------------------------------------------------
(* The frame loop.                                                          *)

\* pump() and poll_pump(): a closed pump answers at once and changes nothing.
BeginDrain(entry) ==
    /\ pc = "app" /\ ~cancelled
    /\ pc' = "loop"
    /\ drain' = [entry |-> entry, delivered |-> 0]
    /\ UNCHANGED <<sub, cancelled, pump, staging, delivered, pointer, snapshot,
                   pressed, waking, device, log>>

\* grant_demand: re-grant what the last batch spent.
GrantDemand ==
    /\ pc = "loop" /\ pump.spent >= Batch
    /\ sub' = Requested(sub, IF pump.spent = 0 THEN 1 ELSE pump.spent)
    /\ pump' = [pump EXCEPT !.spent = 0]
    /\ waking' = (waking \/ TakesWaker(sub'))
    /\ UNCHANGED <<cancelled, pc, drain, staging, delivered, pointer, snapshot,
                   pressed, device, log>>

\* Mutant: a motion is folded into a staged button.
MergesAnything(pointers, kind) == kind = "motion" /\ pointers # <<>>

\* merge_motion: fold a motion into the staged motion it directly follows.
Merges(pointers, kind) ==
    /\ kind = "motion"
    /\ pointers # <<>>
    /\ pointers[Len(pointers)].phase = "motion"

\* Mutant: the folded motion is subtracted.
WithPointerReversed(pointers, kind) ==
    IF Merges(pointers, kind)
    THEN [pointers EXCEPT ![Len(pointers)].delta = @ - 1]
    ELSE Append(pointers, [phase |-> kind, delta |-> IF kind = "motion" THEN 1 ELSE 0])

WithPointer(pointers, kind) ==
    IF Merges(pointers, kind)
    THEN [pointers EXCEPT ![Len(pointers)].delta = @ + 1]
    ELSE Append(pointers, [phase |-> kind, delta |-> IF kind = "motion" THEN 1 ELSE 0])

\* Mutant: a release is staged but not applied to the keyboard state.
StageWithoutRelease(kind) ==
    /\ staging' = IF kind \in {"press", "release"}
                  THEN [staging EXCEPT !.keys = Append(@, kind)]
                  ELSE IF kind \in PointerKinds
                  THEN [staging EXCEPT !.pointers = WithPointer(@, kind)]
                  ELSE [staging EXCEPT !.rest = Append(@, kind)]
    /\ pressed' = (pressed \/ kind = "press")
    /\ pointer' = IF kind = "motion" THEN pointer + 1 ELSE pointer

\* stage(event): apply the event to the shared states and stage it.
Stage(kind) ==
    /\ staging' = IF kind \in {"press", "release"}
                  THEN [staging EXCEPT !.keys = Append(@, kind)]
                  ELSE IF kind \in PointerKinds
                  THEN [staging EXCEPT !.pointers = WithPointer(@, kind)]
                  ELSE [staging EXCEPT !.rest = Append(@, kind)]
    /\ pressed' = IF kind = "press" THEN TRUE
                  ELSE IF kind = "release" THEN FALSE ELSE pressed
    /\ pointer' = IF kind = "motion" THEN pointer + 1 ELSE pointer

\* The loop of drain: one poll_next and what the pump does with its answer.
TakeEvent ==
    /\ pc = "loop" /\ pump.spent < Batch /\ PollItem(sub) = "event"
    /\ sub' = Polled(sub)
    /\ pump' = [pump EXCEPT !.spent = @ + 1]
    /\ Stage(Head(sub.queue).kind)
    /\ drain' = [drain EXCEPT !.delivered = @ + 1]
    /\ log' = [log EXCEPT !.staged = @ + 1, !.raw = Append(@, Head(sub.queue).kind)]
    /\ UNCHANGED <<cancelled, pc, delivered, snapshot, waking, device>>

TakeLag ==
    /\ pc = "loop" /\ pump.spent < Batch /\ PollItem(sub) = "lagged"
    /\ sub' = Polled(sub)
    /\ pump' = [pump EXCEPT !.dropped = @ + sub.dropped]
    /\ log' = [log EXCEPT !.burnt = @ + (sub.demand - sub'.demand)]
    /\ UNCHANGED <<cancelled, pc, drain, staging, delivered, pointer, snapshot,
                   pressed, waking, device>>

\* The terminal error: remember it, cancel the subscription, report closed.
TakeError ==
    /\ pc = "loop" /\ pump.spent < Batch /\ PollItem(sub) = "error"
    /\ sub' = Polled(sub)
    /\ pump' = [pump EXCEPT !.failure = sub.terminal]
    /\ cancelled' = TRUE
    /\ pc' = "app"
    /\ UNCHANGED <<drain, staging, delivered, pointer, snapshot, pressed, waking,
                   device, log>>

\* Pending: pump() returns; poll_pump() parks its task unless it delivered.
TakePending ==
    /\ pc = "loop" /\ pump.spent < Batch /\ PollItem(sub) = "pending"
    /\ sub' = Polled(sub)
    /\ pc' = IF drain.entry = "poll" /\ drain.delivered = 0 THEN "parked" ELSE "app"
    /\ UNCHANGED <<cancelled, pump, drain, staging, delivered, pointer, snapshot,
                   pressed, waking, device, log>>

\* finish_frame: swap the buffers, clear the staging one, fold the motion.
FinishFrame ==
    /\ pc = "app" /\ log.frames < MaxFrames
    /\ delivered' = staging
    /\ staging' = EmptyFrame
    /\ snapshot' = pointer
    /\ pointer' = 0
    /\ log' = [log EXCEPT !.frames = @ + 1, !.raw = <<>>, !.shown = log.raw]
    /\ UNCHANGED <<sub, cancelled, pump, pc, drain, pressed, waking, device>>

\* cancel(), also dropping the pump: the frames are emptied, the shared states
\* are left as they are.
Cancel ==
    /\ pc \in {"app", "parked"} /\ ~cancelled
    /\ cancelled' = TRUE
    /\ staging' = EmptyFrame
    /\ delivered' = EmptyFrame
    /\ pc' = "app"
    /\ log' = [log EXCEPT !.raw = <<>>, !.shown = <<>>]
    /\ UNCHANGED <<sub, pump, drain, pointer, snapshot, pressed, waking, device>>
-----------------------------------------------------------------------------
Drain == GrantDemand \/ TakeEvent \/ TakeLag \/ TakeError \/ TakePending

Next ==
    \/ \E kind \in EventKinds : Emit(kind)
    \/ EndStream \/ Wake
    \/ BeginDrain("pump") \/ BeginDrain("poll")
    \/ Drain \/ FinishFrame \/ Cancel

\* The frame loop keeps draining and a taken waker is woken.  Emitting, ending
\* the stream and cancelling are never promised.
Fairness ==
    /\ WF_vars(Drain)
    /\ WF_vars(BeginDrain("pump") \/ BeginDrain("poll"))
    /\ WF_vars(Wake)

Spec == Init /\ [][Next]_vars /\ Fairness
-----------------------------------------------------------------------------
(* Properties.                                                              *)

Pointers == [phase : PointerKinds, delta : Nat]
Frames == [keys : Seq({"press", "release"}), pointers : Seq(Pointers), rest : Seq({"other"})]

\* Every variable holds what the code's types allow.
TypeOK ==
    /\ sub \in [classes : {{}}, capacity : {Capacity},
                queue : Seq([class : {NoClass}, kind : Kinds]),
                demand : Nat, dropped : Nat, terminal : {NoError, Gone},
                finished : BOOLEAN, waker : BOOLEAN]
    /\ cancelled \in BOOLEAN
    /\ pump \in [spent : Nat, dropped : Nat, failure : {NoError, Gone}]
    /\ pc \in {"app", "loop", "parked"}
    /\ drain \in [entry : {"pump", "poll"}, delivered : Nat]
    /\ staging \in Frames /\ delivered \in Frames
    /\ pointer \in Nat /\ snapshot \in Nat
    /\ pressed \in BOOLEAN /\ waking \in BOOLEAN /\ device \in BOOLEAN
    /\ log \in [emits : Nat, offered : Nat, burnt : Nat, frames : Nat, staged : Nat,
                raw : Seq(Kinds), shown : Seq(Kinds)]

\* poll_pump races with emit: a parked frame loop is never left asleep with
\* events queued or the stream ended.
PumpNeverSleepsOnEvents ==
    pc = "parked" => waking \/ (sub.waker /\ sub.queue = <<>> /\ sub.terminal = NoError)

\* The batched replenishment neither leaks nor invents demand: what is granted,
\* queued and spent always adds up to the prefetch, less what lag reports spent
\* (Hub::poll charges one event of demand for each, and drain does not count it).
DemandConserved ==
    sub.demand + Len(sub.queue) + pump.spent + log.burnt = Capacity

\* Between drains the backend always has demand to deliver into, as long as fewer
\* lag reports were charged than the half of the queue the batching keeps back.
FedUnlessLagging ==
    pc # "loop" /\ ~cancelled /\ log.burnt <= Capacity - Batch
        => sub.queue # <<>> \/ sub.demand > 0

\* Every event offered to the stream is staged, still queued, reported as
\* dropped, or about to be.
LossIsCounted ==
    log.offered = log.staged + Len(sub.queue) + sub.dropped + pump.dropped

\* The reference for staging: the positions of the events of some kinds among the raw
\* events of a frame, the rank of a position, and an output that holds these events in
\* their order and nothing else.
At(raw, kinds) == {j \in DOMAIN raw : raw[j] \in kinds}
Rank(positions, j) == Cardinality({k \in positions : k <= j})
Keeps(raw, kinds, out) ==
    /\ Len(out) = Cardinality(At(raw, kinds))
    /\ \A j \in At(raw, kinds) : out[Rank(At(raw, kinds), j)] = raw[j]

\* The pointer events that start an update of their own: every button, and a motion
\* with a button between it and any motion before it; and the motions it stands for.
Starts(raw) ==
    {j \in At(raw, PointerKinds) : raw[j] = "motion" =>
        \A i \in At(raw, {"motion"}) : i < j => \E b \in At(raw, {"button"}) : i < b /\ b < j}
Run(raw, j) ==
    Cardinality({k \in At(raw, {"motion"}) :
                    j <= k /\ ~\E b \in At(raw, {"button"}) : j <= b /\ b <= k})
CoalescesTo(raw, frame) ==
    /\ Keeps(raw, {"press", "release"}, frame.keys)
    /\ Keeps(raw, {"other"}, frame.rest)
    /\ Len(frame.pointers) = Cardinality(Starts(raw))
    /\ \A j \in Starts(raw) :
         frame.pointers[Rank(Starts(raw), j)] = [phase |-> raw[j], delta |-> Run(raw, j)]

\* However many drains a frame takes, the frame handlers read holds every key,
\* button and other event in order and exactly the motion between them, and the
\* snapshot finish_frame returned counts the same motion (until the pump is
\* cancelled, which empties the frame and leaves the snapshot).
Motions(raw) == Cardinality(At(raw, {"motion"}))
FrameIsFaithful ==
    /\ CoalescesTo(log.raw, staging) /\ CoalescesTo(log.shown, delivered)
    /\ ~cancelled => snapshot = Motions(log.shown)

\* The shared keyboard state is the device's once everything was drained, unless
\* the queue lost an event (which may have been the release of the key).
KeyStateFollows ==
    pc # "loop" /\ ~cancelled /\ PollItem(sub) = "pending" /\ pump.dropped = 0
        => pressed = device

\* An event in the queue, a loss or the end of the stream reaches the frame loop.
EverythingIsDrained ==
    (~cancelled /\ PollItem(sub) # "pending") ~> (cancelled \/ PollItem(sub) = "pending")

\* pump's documentation: replenishing the demand in batches "keeps the queue fed".
QueueStaysFed ==
    pc # "loop" /\ ~cancelled /\ sub.queue = <<>> => sub.demand > 0
=============================================================================
