------------------------------ MODULE InputHub ------------------------------
(***************************************************************************)
(* The input publisher: the fan-out hub (kuitui-control/src/hub.rs), the   *)
(* Subscription handle (stream.rs) and the Control that registers device   *)
(* classes with a backend lazily (control.rs, backend.rs).                 *)
(*                                                                         *)
(* Three kinds of actors interleave: the owner of the Control (open,       *)
(* unregister, drop; one call at a time, &mut self), the backend's worker  *)
(* threads (emit and fail through an EventSink, from the moment start is   *)
(* entered until stop returns), and the consumers.  The hub's lock makes   *)
(* each hub operation one step; the wakers it takes are woken only after   *)
(* the lock is released, so `wakes` holds the wake-ups still on their way. *)
(*                                                                         *)
(* A consumer in NextCallers drives its stream with Subscription::next;    *)
(* any other calls request and poll_next itself.                           *)
(***************************************************************************)
EXTENDS Subscriber, FiniteSets, FiniteSetsExt

CONSTANTS
    Ids,              \* subscription identifiers, in the order next_id grants them
    NextCallers,      \* the subscriptions whose consumer uses next()
    Classes,          \* device classes, numbered in DeviceClass order
    Capacities,       \* queue lengths an open may ask for
    Amounts,          \* amounts a manual consumer may request
    MaxSubscribers,   \* MAX_SUBSCRIBERS
    MaxEmits,         \* bound: events emitted in a behaviour
    MaxRequested,     \* bound: demand a consumer requests in a behaviour
    Unregistered, BackendLost, Closed   \* the terminal ControlErrors

ASSUME HubConstants ==
    /\ Ids \subseteq Nat /\ NextCallers \subseteq Ids
    /\ Classes \subseteq Nat /\ NoClass \notin Classes
    /\ Capacities \subseteq Nat \ {0}
    /\ Amounts \subseteq Nat
    /\ MaxSubscribers \in Nat /\ MaxEmits \in Nat /\ MaxRequested \in Nat
    /\ NoError \notin {Unregistered, BackendLost, Closed}

VARIABLES
    subs,         \* [Ids -> subscriber record], meaningful for live ids
    live,         \* the ids in HubState::subscribers
    nextId,       \* Hub::next_id
    task,         \* what each subscription's consumer is doing
    wakes,        \* wake-ups taken under the lock and not yet delivered
    registered,   \* Control::registered
    started,      \* classes whose start was entered and stop has not returned
    ctl,          \* the Control call in progress
    emits,        \* history: events emitted so far
    log           \* history: what each subscription was offered and answered

vars == <<subs, live, nextId, task, wakes, registered, started, ctl, emits, log>>

Errors == {Unregistered, BackendLost, Closed}
Events == [class : Classes \cup {NoClass}]
SubscriberRecord ==
    [classes : SUBSET Classes, capacity : Nat, queue : Seq(Events), demand : Nat,
     dropped : Nat, terminal : Errors \cup {NoError}, finished : BOOLEAN,
     waker : BOOLEAN]

TaskStates ==
    {"none",       \* the subscription is not in a consumer's hands
     "idle",       \* held, no poll outstanding
     "polling",    \* scheduled to poll: next() has requested, or a wake arrived
     "parked"}     \* the last poll answered Pending

Call(op) == [op |-> op, id |-> 0, classes |-> {}, begun |-> {}, before |-> {}]
Idle == Call("idle")
CallRecord ==
    [op : {"idle", "open", "starting", "unregisterAll", "drop", "dropped"},
     id : Ids \cup {0}, classes : SUBSET Classes, begun : SUBSET Classes,
     before : SUBSET Classes]

\* offered: events a live, listening subscription was offered; got: events polled;
\* reported: drops reported as Lagged; requested: demand requested.
NoLog == [offered |-> 0, got |-> 0, reported |-> 0, requested |-> 0]
LogRecord == [offered : Nat, got : Nat, reported : Nat, requested : Nat]

Blank == NewSubscriber({}, 0)

Init ==
    /\ subs = [i \in Ids |-> Blank]
    /\ live = {}
    /\ nextId = 1
    /\ task = [i \in Ids |-> "none"]
    /\ wakes = {}
    /\ registered = {}
    /\ started = {}
    /\ ctl = Idle
    /\ emits = 0
    /\ log = [i \in Ids |-> NoLog]

\* Mutant: the wakers are taken and never woken.
TakenAndDropped(new) == {}

\* The wakers an update of the live subscribers takes out of the hub.
Taken(new) == {i \in live : subs[i].waker /\ ~new[i].waker}
-----------------------------------------------------------------------------
(* The owner of the Control.  Calls that return an error at once (no class,  *)
(* zero capacity, too many subscribers, a class not registered) change       *)
(* nothing and are not steps.                                                *)

\* open_many_with_capacity up to the first start: Hub::subscribe.
Open(classes, capacity) ==
    /\ ctl = Idle
    /\ classes # {} /\ capacity # 0
    /\ Cardinality(live) < MaxSubscribers
    /\ nextId \in Ids
    /\ subs' = [subs EXCEPT ![nextId] = NewSubscriber(classes, capacity)]
    /\ live' = live \cup {nextId}
    /\ nextId' = nextId + 1
    /\ ctl' = [op |-> "open", id |-> nextId, classes |-> classes,
               begun |-> {}, before |-> registered]
    /\ UNCHANGED <<task, wakes, registered, started, emits, log>>

\* Classes the open call has still to start, as its loop would reach them.
ToStart == ctl.classes \ registered

\* The call to Backend::start: from here on the backend may emit.
StartClass ==
    /\ ctl.op = "open" /\ ToStart # {}
    /\ started' = started \cup {Min(ToStart)}
    /\ ctl' = [ctl EXCEPT !.op = "starting"]
    /\ UNCHANGED <<subs, live, nextId, task, wakes, registered, emits, log>>

\* Backend::start returned Ok.
StartOk ==
    /\ ctl.op = "starting"
    /\ registered' = registered \cup {Min(ToStart)}
    /\ ctl' = [ctl EXCEPT !.op = "open", !.begun = @ \cup {Min(ToStart)}]
    /\ UNCHANGED <<subs, live, nextId, task, wakes, started, emits, log>>

\* Removing a subscription from the hub (Hub::cancel) and forgetting its record.
Cancelled(i) ==
    /\ live' = live \ {i}
    /\ subs' = [subs EXCEPT ![i] = Blank]
    /\ log' = [log EXCEPT ![i] = NoLog]

\* Mutant: nothing is rolled back.
KeptRunning == {}

\* The classes a failed open rolls back: the ones this call started.
RolledBack == ctl.begun

\* Backend::start returned an error: stop what this call started, deregister
\* it, cancel the subscription, return the error.
StartFailed ==
    /\ ctl.op = "starting"
    /\ started' = started \ (RolledBack \cup {Min(ToStart)})
    /\ registered' = registered \ RolledBack
    /\ Cancelled(ctl.id)
    /\ ctl' = Idle
    /\ UNCHANGED <<nextId, task, wakes, emits>>

\* Every class is registered: the caller receives the subscription.
OpenDone ==
    /\ ctl.op = "open" /\ ToStart = {}
    /\ task' = [task EXCEPT ![ctl.id] = "idle"]
    /\ ctl' = Idle
    /\ UNCHANGED <<subs, live, nextId, wakes, registered, started, emits, log>>

\* Hub::close(classes, error): end every live subscription of these classes.
Close(classes, error) ==
    LET new == [i \in Ids |-> IF i \in live /\ subs[i].classes \cap classes # {}
                              THEN Ended(subs[i], error) ELSE subs[i]]
    IN  /\ subs' = new
        /\ wakes' = wakes \cup Taken(new)

\* Hub::fail(error): end every live subscription.
Fail(error) ==
    LET new == [i \in Ids |-> IF i \in live THEN Ended(subs[i], error) ELSE subs[i]]
    IN  /\ subs' = new
        /\ wakes' = wakes \cup Taken(new)

\* Mutant: the class stays registered.
UnregisterStops(class) ==
    /\ ctl = Idle /\ class \in registered
    /\ started' = started \ {class}
    /\ Close({class}, Unregistered)
    /\ UNCHANGED <<live, nextId, task, registered, ctl, emits, log>>

\* unregister(class).  Nothing can be emitted for the class between stop and
\* close, so the call is one step.
Unregister(class) ==
    /\ ctl = Idle
    /\ class \in registered
    /\ started' = started \ {class}
    /\ registered' = registered \ {class}
    /\ Close({class}, Unregistered)
    /\ UNCHANGED <<live, nextId, task, ctl, emits, log>>

UnregisterAll ==
    /\ ctl = Idle /\ registered # {}
    /\ ctl' = [Call("unregisterAll") EXCEPT !.classes = registered]
    /\ UNCHANGED <<subs, live, nextId, task, wakes, registered, started, emits, log>>

\* One iteration of unregister_all's loop: stop, then close, this class.
UnregisterNext ==
    /\ ctl.op = "unregisterAll" /\ ctl.classes # {}
    /\ started' = started \ {Min(ctl.classes)}
    /\ Close({Min(ctl.classes)}, Unregistered)
    /\ ctl' = [ctl EXCEPT !.classes = @ \ {Min(@)}]
    /\ UNCHANGED <<live, nextId, task, registered, emits, log>>

UnregisterAllDone ==
    /\ ctl.op = "unregisterAll" /\ ctl.classes = {}
    /\ registered' = {}
    /\ ctl' = Idle
    /\ UNCHANGED <<subs, live, nextId, task, wakes, started, emits, log>>

\* Drop for Control: end every stream, then stop every registered class.
DropControl ==
    /\ ctl = Idle
    /\ Fail(Closed)
    /\ ctl' = Call("drop")
    /\ UNCHANGED <<live, nextId, task, registered, started, emits, log>>

DropStop ==
    /\ ctl.op = "drop"
    /\ started' = started \ registered
    /\ registered' = {}
    /\ ctl' = Call("dropped")
    /\ UNCHANGED <<subs, live, nextId, task, wakes, emits, log>>
-----------------------------------------------------------------------------
(* The backend's worker threads.                                            *)

\* Hub::emit: one event to every live subscription, wakers collected.
Emit(class) ==
    /\ emits < MaxEmits
    /\ IF class = NoClass THEN started # {} ELSE class \in started
    /\ LET event == [class |-> class]
           new == [i \in Ids |-> IF i \in live THEN Offered(subs[i], event)
                                 ELSE subs[i]]
       IN  /\ subs' = new
           /\ wakes' = wakes \cup Taken(new)
           /\ log' = [i \in Ids |->
                        IF i \in live /\ Listens(subs[i], event)
                        THEN [log[i] EXCEPT !.offered = @ + 1] ELSE log[i]]
    /\ emits' = emits + 1
    /\ UNCHANGED <<live, nextId, task, registered, started, ctl>>

\* EventSink::fail: the device loop cannot continue.
BackendFail ==
    /\ started # {}
    /\ Fail(BackendLost)
    /\ UNCHANGED <<live, nextId, task, registered, started, ctl, emits, log>>

\* A collected waker is woken after the lock was released; a parked consumer
\* is scheduled to poll again.
Wake(i) ==
    /\ i \in wakes
    /\ wakes' = wakes \ {i}
    /\ task' = [task EXCEPT ![i] = IF @ = "parked" THEN "polling" ELSE @]
    /\ UNCHANGED <<subs, live, nextId, registered, started, ctl, emits, log>>
-----------------------------------------------------------------------------
(* The consumers.                                                           *)

\* Hub::request for a subscription its consumer still holds.
Grant(i, amount) ==
    LET new == [subs EXCEPT ![i] = Requested(@, amount)]
    IN  /\ log[i].requested + amount <= MaxRequested
        /\ subs' = new
        /\ wakes' = wakes \cup Taken(new)
        /\ log' = [log EXCEPT ![i].requested = @ + amount]

\* Subscription::next, first half: request(1), then poll.
CallNext(i) ==
    /\ i \in NextCallers /\ task[i] = "idle"
    /\ Grant(i, 1)
    /\ task' = [task EXCEPT ![i] = "polling"]
    /\ UNCHANGED <<live, nextId, registered, started, ctl, emits>>

\* Subscription::request by a consumer that polls by hand.
Request(i, amount) ==
    /\ i \notin NextCallers /\ task[i] \in {"idle", "parked"}
    /\ Grant(i, amount)
    /\ UNCHANGED <<live, nextId, task, registered, started, ctl, emits>>

\* The history after one poll of s.
Recorded(l, s) ==
    [l EXCEPT !.got = IF PollItem(s) = "event" THEN @ + 1 ELSE @,
              !.reported = IF PollItem(s) = "lagged" THEN @ + s.dropped ELSE @]

\* Subscription::poll_next.  Pending parks the consumer; any other answer
\* returns control to it.
PollNext(i) ==
    /\ task[i] = "polling" \/ (i \notin NextCallers /\ task[i] = "idle")
    /\ subs' = [subs EXCEPT ![i] = Polled(@)]
    /\ task' = [task EXCEPT ![i] =
                  IF PollItem(subs[i]) = "pending" THEN "parked" ELSE "idle"]
    /\ log' = [log EXCEPT ![i] = Recorded(@, subs[i])]
    /\ UNCHANGED <<live, nextId, wakes, registered, started, ctl, emits>>

\* The future of a pending next() is dropped: its waker stays in the hub.
AbandonNext(i) ==
    /\ task[i] = "parked"
    /\ task' = [task EXCEPT ![i] = "idle"]
    /\ UNCHANGED <<subs, live, nextId, wakes, registered, started, ctl, emits, log>>

\* Subscription::cancel, also Drop for Subscription.
Cancel(i) ==
    /\ task[i] \in {"idle", "parked"}
    /\ task' = [task EXCEPT ![i] = "none"]
    /\ Cancelled(i)
    /\ UNCHANGED <<nextId, wakes, registered, started, ctl, emits>>
-----------------------------------------------------------------------------
Next ==
    \/ \E classes \in SUBSET Classes, capacity \in Capacities : Open(classes, capacity)
    \/ StartClass \/ StartOk \/ StartFailed \/ OpenDone
    \/ \E class \in Classes : Unregister(class)
    \/ UnregisterAll \/ UnregisterNext \/ UnregisterAllDone
    \/ DropControl \/ DropStop
    \/ \E class \in Classes \cup {NoClass} : Emit(class)
    \/ BackendFail
    \/ \E i \in Ids :
         \/ Wake(i)
         \/ CallNext(i)
         \/ \E amount \in Amounts : Request(i, amount)
         \/ PollNext(i)
         \/ AbandonNext(i)
         \/ Cancel(i)

\* What the scheduling guarantees: a thread inside an operation finishes it, a
\* taken waker is woken, a scheduled task is polled, and a consumer in NextCallers
\* loops on next().  Nothing is assumed of emits, opens or cancellations.
Fairness ==
    /\ WF_vars(StartClass) /\ WF_vars(StartOk \/ StartFailed) /\ WF_vars(OpenDone)
    /\ WF_vars(UnregisterNext) /\ WF_vars(UnregisterAllDone) /\ WF_vars(DropStop)
    /\ \A i \in Ids : WF_vars(Wake(i)) /\ WF_vars(PollNext(i)) /\ WF_vars(CallNext(i))

Spec == Init /\ [][Next]_vars /\ Fairness
-----------------------------------------------------------------------------
(* Properties.                                                              *)

\* Every variable holds what the code's types allow.
TypeOK ==
    /\ subs \in [Ids -> SubscriberRecord]
    /\ live \subseteq Ids
    /\ nextId \in Nat
    /\ task \in [Ids -> TaskStates]
    /\ wakes \subseteq Ids
    /\ registered \subseteq Classes
    /\ started \subseteq Classes
    /\ ctl \in CallRecord
    /\ emits \in Nat
    /\ log \in [Ids -> LogRecord]

\* Hub::emit, close and fail race with Hub::poll parking its waker: a consumer
\* that parked is never left asleep with an event in its queue or a terminal
\* error set, unless the wake-up is already on its way.
NoLostWakeup ==
    \A i \in live : task[i] = "parked" =>
        \/ i \in wakes
        \/ subs[i].waker /\ subs[i].queue = <<>> /\ subs[i].terminal = NoError

\* Subscription::next never sleeps through a loss: every next() adds the demand
\* it will spend, so while its consumer is parked no event can be dropped (a
\* dropped event does not wake anyone).
NextNeverMissesALoss ==
    \A i \in live \cap NextCallers : task[i] = "parked" =>
        i \in wakes \/ (subs[i].dropped = 0 /\ HasRoom(subs[i]))

\* No event disappears silently: what a subscription was offered is what it
\* polled, holds, was told it lost, or will be told it lost.
LossIsAccounted ==
    \A i \in live :
        log[i].offered = log[i].got + Len(subs[i].queue)
                         + log[i].reported + subs[i].dropped

\* Reactive Streams backpressure: a subscription is never handed more events than
\* its prefetch and its requests granted, nor queues more than its capacity.
Backpressure ==
    \A i \in live :
        /\ Len(subs[i].queue) <= subs[i].capacity
        /\ log[i].got + Len(subs[i].queue) + subs[i].demand
             <= subs[i].capacity + log[i].requested

\* Control::registered and the backend agree whenever no call is in progress,
\* and a stopped class is never still registered for the next open to skip.
RegistrationAgrees ==
    /\ ctl = Idle => started = registered
    /\ ctl.op = "open" => started = registered
    /\ ctl.op = "dropped" => started = {} /\ registered = {}

\* An open that fails half-way leaves every class exactly as it found it:
\* classes already in use keep running, the ones it started are stopped.
FailedOpenRestores ==
    [][ctl.op = "starting" /\ ctl' = Idle
         => registered' = ctl.before /\ started' = ctl.before]_vars

\* Drop for Control: "a subscription outliving its control must not park
\* forever".  Every consumer that keeps calling next() sees the stream end.
EndsAfterDrop ==
    \A i \in NextCallers :
        (ctl.op = "drop" /\ i \in live)
            ~> (i \notin live \/ subs[i].finished \/ log[i].requested = MaxRequested)
=============================================================================
