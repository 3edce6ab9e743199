----------------------------- MODULE Subscriber -----------------------------
(***************************************************************************)
(* One subscription of the input hub (kuitui-control/src/hub.rs): the      *)
(* bounded queue, the demand counter, the drop counter, the terminal error *)
(* and the parked waker of a struct Subscriber, and what each hub          *)
(* operation does to it while the hub's lock is held.  The operators are   *)
(* shared by InputHub (many subscriptions under a Control) and InputPump   *)
(* (the frame loop that consumes one subscription).                        *)
(*                                                                         *)
(* The u64 counters are natural numbers: demand and dropped saturate at    *)
(* 2^64 - 1 in the code, which no bounded run can tell from Nat.           *)
(***************************************************************************)
EXTENDS Naturals, Sequences

CONSTANTS
    NoClass,    \* class of an event no device class can be given (a removal)
    NoError     \* terminal: Option<ControlError> is None

\* A subscriber as Hub::subscribe adds it: the prefetch grants `capacity` events.
NewSubscriber(classes, capacity) ==
    [classes  |-> classes,
     capacity |-> capacity,
     queue    |-> <<>>,
     demand   |-> capacity,
     dropped  |-> 0,
     terminal |-> NoError,
     finished |-> FALSE,
     waker    |-> FALSE]

\* Subscriber::accepts.
Accepts(s, class) == class = NoClass \/ class \in s.classes

\* Whether Hub::emit touches this subscriber at all.
Listens(s, event) == s.terminal = NoError /\ Accepts(s, event.class)

\* Mutant: the capacity is not checked.
RoomWhileDemand(s) == s.demand > 0

\* Whether an emitted event is queued rather than counted as dropped.
HasRoom(s) == s.demand > 0 /\ Len(s.queue) < s.capacity

\* Mutant: a full queue drops silently.
OfferedSilently(s, event) ==
    IF Listens(s, event) /\ HasRoom(s)
    THEN [s EXCEPT !.queue = Append(@, event), !.demand = @ - 1, !.waker = FALSE] ELSE s

\* The body of Hub::emit's loop: queue the event and take the waker, or count
\* a drop and leave the waker where it is.
Offered(s, event) ==
    IF ~Listens(s, event) THEN s
    ELSE IF HasRoom(s)
         THEN [s EXCEPT !.queue  = Append(@, event),
                        !.demand = @ - 1,
                        !.waker  = FALSE]
         ELSE [s EXCEPT !.dropped = @ + 1]

\* Mutants: the amount is not added; one event is added whatever the amount.
RequestedNothing(s, amount) == IF amount = 0 THEN s ELSE [s EXCEPT !.waker = FALSE]
RequestedOne(s, amount) ==
    IF amount = 0 THEN s ELSE [s EXCEPT !.demand = @ + 1, !.waker = FALSE]

\* Hub::request: a request for zero events leaves the waker parked.
Requested(s, amount) ==
    IF amount = 0 THEN s
    ELSE [s EXCEPT !.demand = @ + amount, !.waker = FALSE]

\* What one Hub::poll answers: an event, a lag report, the end of the stream,
\* the terminal error, or Pending.  The order of the tests is the code's.
PollItem(s) ==
    IF s.queue # <<>> THEN "event"
    ELSE IF s.dropped > 0 THEN "lagged"
    ELSE IF s.finished THEN "none"
    ELSE IF s.terminal # NoError THEN "error"
    ELSE "pending"

\* Demand after a lag report: the report spends one event of demand, and
\* saturates at zero.
DemandAfterLag(s) == IF s.demand = 0 THEN 0 ELSE s.demand - 1

\* The subscriber after that poll.
Polled(s) ==
    IF PollItem(s) = "event" THEN [s EXCEPT !.queue = Tail(@), !.waker = FALSE]
    ELSE IF PollItem(s) = "lagged" THEN [s EXCEPT !.dropped = 0, !.demand = DemandAfterLag(s)]
    ELSE IF PollItem(s) = "none" THEN [s EXCEPT !.waker = FALSE]
    ELSE IF PollItem(s) = "error"
         THEN [s EXCEPT !.terminal = NoError, !.finished = TRUE, !.waker = FALSE]
    ELSE [s EXCEPT !.waker = TRUE]

\* The body of Hub::close's and Hub::fail's loop for a subscriber they select:
\* the first terminal error stays, and setting it takes the waker.
Ended(s, error) ==
    IF s.terminal # NoError THEN s
    ELSE [s EXCEPT !.terminal = error, !.waker = FALSE]
=============================================================================
