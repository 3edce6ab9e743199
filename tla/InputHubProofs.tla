--------------------------- MODULE InputHubProofs ---------------------------
(***************************************************************************)
(* Proofs about the input hub and the Control, for any set of              *)
(* subscriptions, device classes, queue capacities and requested amounts,  *)
(* and behaviours of any length: the variables keep their types; no        *)
(* wake-up is lost and next() never sleeps through a loss; every event is  *)
(* accounted for; backpressure holds; and what the Control believes is     *)
(* registered is what runs, also after an open that failed half-way.       *)
(***************************************************************************)
EXTENDS InputHub, SequenceTheorems, WellFoundedInduction, TLAPS

\* The books of one subscription: a subscriber s against its history l.
Accounted(l, s) ==
    /\ s.capacity > 0
    /\ Len(s.queue) <= s.capacity
    /\ l.got + Len(s.queue) + s.demand <= s.capacity + l.requested
    /\ l.offered = l.got + Len(s.queue) + l.reported + s.dropped

\* What is true of one live subscription whatever the rest of the hub does.
\* The last two conjuncts are why next() cannot sleep through a loss: while its
\* consumer polls or is parked, there is demand left or an event waiting.
Stream(i) ==
    /\ Accounted(log[i], subs[i])
    /\ task[i] = "parked" =>
         \/ i \in wakes
         \/ subs[i].waker /\ subs[i].queue = <<>> /\ subs[i].terminal = NoError
    /\ i \in NextCallers /\ task[i] \in {"polling", "parked"} =>
         subs[i].demand > 0 \/ subs[i].queue # <<>>
    /\ i \in NextCallers /\ task[i] = "parked" =>
         i \in wakes \/ (subs[i].dropped = 0 /\ HasRoom(subs[i]))

\* Who holds what: identifiers are granted once, only a live subscription has a
\* consumer, the one an open call is building has none yet, and a dead one left
\* no history behind.
Ownership ==
    /\ \A i \in live : i < nextId
    /\ \A i \in Ids : task[i] # "none" => i \in live
    /\ \A i \in Ids \ live : log[i] = NoLog
    /\ ctl.op \in {"open", "starting"} => ctl.id \in live /\ task[ctl.id] = "none"

\* What runs at every point of every Control call, in terms of what is registered.
Registration ==
    /\ ctl.op \in {"idle", "open", "drop"} => started = registered
    /\ ctl.op \in {"open", "starting"} =>
         registered = ctl.before \cup ctl.begun /\ ctl.before \cap ctl.begun = {}
    /\ ctl.op = "starting" => ToStart # {} /\ started = registered \cup {Min(ToStart)}
    /\ ctl.op = "unregisterAll" => started = ctl.classes
    /\ ctl.op = "dropped" => started = {} /\ registered = {}

HubInv == TypeOK /\ Ownership /\ Registration /\ \A i \in live : Stream(i)
-----------------------------------------------------------------------------
(* Device classes are tried in their order: the least one exists.           *)

\* The naturals are well ordered (the class loops of control.rs take the first).
LEMMA LeastElement ==
    ASSUME NEW S, S \subseteq Nat, S # {}
    PROVE  \E x \in S : \A y \in S : x <= y
<1> DEFINE R == {p \in Nat \X Nat : p[1] < p[2]}
<1>1. IsWellFoundedOn(R, Nat)
  BY NatLessThanWellFounded, Zenon DEF OpToRel
<1> HIDE DEF R
<1>2. PICK x \in S : \A y \in S : <<y, x>> \notin R
  BY <1>1, WFMin, Zenon
<1>3. \A y \in S : y < x => <<y, x>> \in R
  BY DEF R
<1>4. \A y \in S : ~(y < x)
  BY <1>2, <1>3
<1> QED
  BY <1>4

\* ... and it is one of the classes it was taken from.
LEMMA MinIsAMember ==
    ASSUME NEW S \in SUBSET Classes, S # {}
    PROVE  Min(S) \in S
BY LeastElement, HubConstants DEF Min
-----------------------------------------------------------------------------
(* What each hub operation does to one subscription.                        *)

\* Hub::subscribe's new subscription, and the blank record of a free identifier.
LEMMA NewSubscriberFacts ==
    ASSUME NEW classes \in SUBSET Classes, NEW capacity \in Nat
    PROVE  /\ NewSubscriber(classes, capacity) \in SubscriberRecord
           /\ NewSubscriber(classes, capacity).capacity = capacity
           /\ NewSubscriber(classes, capacity).queue = <<>>
           /\ NewSubscriber(classes, capacity).demand = capacity
           /\ NewSubscriber(classes, capacity).dropped = 0
<1> DEFINE e == <<>>
           z == 0
<1>1. e \in Seq(Events) /\ z \in Nat /\ NoError \in Errors \cup {NoError}
  OBVIOUS
<1>2. NewSubscriber(classes, capacity) =
        [classes |-> classes, capacity |-> capacity, queue |-> e, demand |-> capacity,
         dropped |-> z, terminal |-> NoError, finished |-> FALSE, waker |-> FALSE]
  BY DEF NewSubscriber
<1> HIDE DEF e, z
<1>3. NewSubscriber(classes, capacity) \in SubscriberRecord
  BY <1>1, <1>2 DEF SubscriberRecord
<1>4. /\ NewSubscriber(classes, capacity).capacity = capacity
      /\ NewSubscriber(classes, capacity).queue = e
      /\ NewSubscriber(classes, capacity).demand = capacity
      /\ NewSubscriber(classes, capacity).dropped = z
  BY <1>2
<1> QED
  BY <1>3, <1>4 DEF e, z

\* Hub::emit ignores an event the subscription does not listen to ...
LEMMA OfferedIgnored ==
    ASSUME NEW s \in SubscriberRecord, NEW e \in Events, ~Listens(s, e)
    PROVE  Offered(s, e) = s
BY DEF Offered

\* ... queues it for demand, and takes the waker, while there is room ...
LEMMA OfferedQueued ==
    ASSUME NEW s \in SubscriberRecord, NEW e \in Events, Listens(s, e), HasRoom(s)
    PROVE  /\ Offered(s, e) \in SubscriberRecord
           /\ Offered(s, e).capacity = s.capacity
           /\ Len(Offered(s, e).queue) = Len(s.queue) + 1
           /\ Offered(s, e).queue # <<>>
           /\ Offered(s, e).demand = s.demand - 1
           /\ Offered(s, e).dropped = s.dropped
           /\ ~Offered(s, e).waker
<1> DEFINE q == Append(s.queue, e)
           d == s.demand - 1
<1>1. q \in Seq(Events) /\ Len(q) = Len(s.queue) + 1 /\ q # <<>>
  BY DEF SubscriberRecord
<1>2. d \in Nat
  BY DEF HasRoom, SubscriberRecord
<1>3. Offered(s, e) = [s EXCEPT !.queue = q, !.demand = d, !.waker = FALSE]
  BY DEF Offered
<1>4. d = s.demand - 1
  OBVIOUS
<1> HIDE DEF q, d
<1> QED
  BY <1>1, <1>2, <1>3, <1>4 DEF SubscriberRecord

\* ... and otherwise counts a drop and leaves the waker.
LEMMA OfferedDropped ==
    ASSUME NEW s \in SubscriberRecord, NEW e \in Events, Listens(s, e), ~HasRoom(s)
    PROVE  /\ Offered(s, e) \in SubscriberRecord
           /\ Offered(s, e).capacity = s.capacity
           /\ Offered(s, e).queue = s.queue
           /\ Offered(s, e).demand = s.demand
           /\ Offered(s, e).dropped = s.dropped + 1
           /\ Offered(s, e).terminal = s.terminal
           /\ Offered(s, e).waker = s.waker
<1>1. s.dropped + 1 \in Nat
  BY DEF SubscriberRecord
<1>2. Offered(s, e) = [s EXCEPT !.dropped = s.dropped + 1]
  BY DEF Offered
<1> QED
  BY <1>1, <1>2 DEF SubscriberRecord

\* Hub::request adds the amount and takes the waker, or does nothing for zero.
LEMMA RequestedFacts ==
    ASSUME NEW s \in SubscriberRecord, NEW amount \in Nat
    PROVE  /\ Requested(s, amount) \in SubscriberRecord
           /\ Requested(s, amount).capacity = s.capacity
           /\ Requested(s, amount).queue = s.queue
           /\ Requested(s, amount).dropped = s.dropped
           /\ Requested(s, amount).terminal = s.terminal
           /\ Requested(s, amount).demand = s.demand + amount
           /\ Requested(s, amount).waker \in {s.waker, FALSE}
<1>1. s.demand \in Nat /\ s.demand + amount \in Nat
  BY DEF SubscriberRecord
<1>2. CASE amount = 0
  <2>1. Requested(s, amount) = s
    BY <1>2 DEF Requested
  <2>2. s.demand + amount = s.demand
    BY <1>1, <1>2
  <2> QED
    BY <2>1, <2>2
<1>3. CASE amount # 0
  <2>1. Requested(s, amount) = [s EXCEPT !.demand = s.demand + amount, !.waker = FALSE]
    BY <1>3 DEF Requested
  <2> QED
    BY <1>1, <2>1 DEF SubscriberRecord
<1> QED
  BY <1>2, <1>3

\* Hub::close and Hub::fail set the first terminal error and take the waker.
LEMMA EndedFacts ==
    ASSUME NEW s \in SubscriberRecord, NEW error \in Errors
    PROVE  /\ Ended(s, error) \in SubscriberRecord
           /\ Ended(s, error).capacity = s.capacity
           /\ Ended(s, error).queue = s.queue
           /\ Ended(s, error).demand = s.demand
           /\ Ended(s, error).dropped = s.dropped
           /\ Ended(s, error) = s \/ Ended(s, error).waker = FALSE
BY DEF Ended, SubscriberRecord

\* Hub::poll answers Pending only when there is nothing to deliver, and parks
\* the waker then; an event or a lag report leaves the balance of what was
\* offered unchanged.
LEMMA PolledFacts ==
    ASSUME NEW s \in SubscriberRecord
    PROVE  /\ Polled(s) \in SubscriberRecord
           /\ Polled(s).capacity = s.capacity
           /\ PollItem(s) = "event" =>
                /\ Len(Polled(s).queue) + 1 = Len(s.queue)
                /\ Polled(s).demand = s.demand
                /\ Polled(s).dropped = s.dropped
           /\ PollItem(s) = "lagged" =>
                /\ Polled(s).queue = s.queue
                /\ Polled(s).demand <= s.demand
                /\ Polled(s).dropped = 0
           /\ PollItem(s) \notin {"event", "lagged"} =>
                /\ Polled(s).queue = s.queue
                /\ Polled(s).demand = s.demand
                /\ Polled(s).dropped = s.dropped
           /\ PollItem(s) = "pending" =>
                /\ s.queue = <<>> /\ s.dropped = 0
                /\ Polled(s).waker = TRUE /\ Polled(s).terminal = NoError
<1>1. CASE PollItem(s) = "event"
  <2>1. s.queue # <<>> /\ s.queue \in Seq(Events)
    BY <1>1 DEF PollItem, SubscriberRecord
  <2> DEFINE q == Tail(s.queue)
  <2>2. q \in Seq(Events) /\ Len(q) + 1 = Len(s.queue)
    BY <2>1
  <2>3. Polled(s) = [s EXCEPT !.queue = q, !.waker = FALSE]
    BY <1>1 DEF Polled
  <2> HIDE DEF q
  <2> QED
    BY <1>1, <2>2, <2>3 DEF SubscriberRecord
<1>2. CASE PollItem(s) = "lagged"
  <2> DEFINE d == DemandAfterLag(s)
             z == 0
  <2>1. d \in Nat /\ d <= s.demand /\ z \in Nat
    BY DEF DemandAfterLag, SubscriberRecord
  <2>2. Polled(s) = [s EXCEPT !.dropped = z, !.demand = d]
    BY <1>2 DEF Polled
  <2> HIDE DEF d, z
  <2>3. /\ Polled(s) \in SubscriberRecord /\ Polled(s).capacity = s.capacity
        /\ Polled(s).queue = s.queue /\ Polled(s).demand <= s.demand
        /\ Polled(s).dropped = z
    BY <2>1, <2>2 DEF SubscriberRecord
  <2> QED
    BY <1>2, <2>3 DEF z
<1>3. CASE PollItem(s) = "none"
  BY <1>3 DEF Polled, SubscriberRecord
<1>4. CASE PollItem(s) = "error"
  BY <1>4 DEF Polled, SubscriberRecord
<1>5. CASE PollItem(s) = "pending"
  <2>1. s.queue = <<>> /\ ~(s.dropped > 0) /\ s.dropped \in Nat /\ s.terminal = NoError
    BY <1>5 DEF PollItem, SubscriberRecord
  <2>2. Polled(s) = [s EXCEPT !.waker = TRUE]
    BY <1>5 DEF Polled
  <2>3. s.dropped = 0
    BY <2>1
  <2>4. /\ Polled(s) \in SubscriberRecord /\ Polled(s).capacity = s.capacity
        /\ Polled(s).queue = s.queue /\ Polled(s).demand = s.demand
        /\ Polled(s).dropped = s.dropped /\ Polled(s).waker = TRUE
        /\ Polled(s).terminal = s.terminal
    BY <2>2 DEF SubscriberRecord
  <2> QED
    BY <1>5, <2>1, <2>3, <2>4
<1> QED
  BY <1>1, <1>2, <1>3, <1>4, <1>5 DEF PollItem
-----------------------------------------------------------------------------
(* Every hub operation keeps the books of a subscription.                   *)

\* The numbers the books are about.
LEMMA BookTypes ==
    ASSUME NEW s \in SubscriberRecord, NEW l \in LogRecord
    PROVE  /\ Len(s.queue) \in Nat /\ s.demand \in Nat /\ s.dropped \in Nat
           /\ s.capacity \in Nat /\ l.offered \in Nat /\ l.got \in Nat
           /\ l.reported \in Nat /\ l.requested \in Nat
BY DEF SubscriberRecord, LogRecord

\* The arithmetic of events queued, dropped, polled and reported, and of demand
\* spent, granted and forfeited.
LEMMA BookArithmetic ==
    ASSUME NEW s \in SubscriberRecord, NEW l \in LogRecord, Accounted(l, s)
    PROVE  /\ l.offered + 1 = l.got + (Len(s.queue) + 1) + l.reported + s.dropped
           /\ l.offered + 1 = l.got + Len(s.queue) + l.reported + (s.dropped + 1)
           /\ l.offered = l.got + Len(s.queue) + (l.reported + s.dropped) + 0
           /\ s.demand > 0 =>
                l.got + (Len(s.queue) + 1) + (s.demand - 1) <= s.capacity + l.requested
           /\ \A a \in Nat :
                l.got + Len(s.queue) + (s.demand + a) <= s.capacity + (l.requested + a)
           /\ \A b \in Nat : b <= s.demand =>
                l.got + Len(s.queue) + b <= s.capacity + l.requested
           /\ \A k \in Nat : k + 1 = Len(s.queue) =>
                /\ l.offered = (l.got + 1) + k + l.reported + s.dropped
                /\ (l.got + 1) + k + s.demand <= s.capacity + l.requested
                /\ k <= s.capacity
<1> DEFINE o == l.offered
           g == l.got
           n == Len(s.queue)
           r == l.reported
           x == s.dropped
           d == s.demand
           c == s.capacity
           q == l.requested
<1>1. /\ o \in Nat /\ g \in Nat /\ n \in Nat /\ r \in Nat /\ x \in Nat
      /\ d \in Nat /\ c \in Nat /\ q \in Nat
  BY BookTypes
<1>2. o = g + n + r + x /\ g + n + d <= c + q /\ n <= c
  BY DEF Accounted
<1> HIDE DEF o, g, n, r, x, d, c, q
<1>3. /\ o + 1 = g + (n + 1) + r + x
      /\ o + 1 = g + n + r + (x + 1)
      /\ o = g + n + (r + x) + 0
      /\ d > 0 => g + (n + 1) + (d - 1) <= c + q
      /\ \A a \in Nat : g + n + (d + a) <= c + (q + a)
      /\ \A b \in Nat : b <= d => g + n + b <= c + q
      /\ \A k \in Nat : k + 1 = n =>
           o = (g + 1) + k + r + x /\ (g + 1) + k + d <= c + q /\ k <= c
  BY <1>1, <1>2
<1> QED
  BY <1>3 DEF o, g, n, r, x, d, c, q

\* An event queued.
LEMMA QueuedIsAccounted ==
    ASSUME NEW s \in SubscriberRecord, NEW l \in LogRecord, NEW e \in Events,
           Listens(s, e), HasRoom(s), Accounted(l, s)
    PROVE  /\ [l EXCEPT !.offered = @ + 1] \in LogRecord
           /\ Accounted([l EXCEPT !.offered = @ + 1], Offered(s, e))
<1> DEFINE m == [l EXCEPT !.offered = @ + 1]
           t == Offered(s, e)
<1>1. /\ m \in LogRecord /\ m.offered = l.offered + 1 /\ m.got = l.got
      /\ m.reported = l.reported /\ m.requested = l.requested
  BY DEF LogRecord
<1>2. /\ t.capacity = s.capacity /\ Len(t.queue) = Len(s.queue) + 1
      /\ t.demand = s.demand - 1 /\ t.dropped = s.dropped
  BY OfferedQueued
<1> HIDE DEF m, t
<1>3. s.demand > 0 /\ Len(s.queue) < s.capacity
  BY DEF HasRoom
<1>4. t.capacity > 0 /\ Len(t.queue) <= t.capacity
  BY <1>2, <1>3, BookTypes
<1>5. m.got + Len(t.queue) + t.demand <= t.capacity + m.requested
  BY <1>1, <1>2, <1>3, BookTypes, BookArithmetic
<1>6. m.offered = m.got + Len(t.queue) + m.reported + t.dropped
  <2>1. l.offered + 1 = l.got + (Len(s.queue) + 1) + l.reported + s.dropped
    BY BookTypes, BookArithmetic
  <2> QED
    BY <1>1, <1>2, <2>1
<1>7. m \in LogRecord /\ Accounted(m, t)
  BY <1>1, <1>4, <1>5, <1>6 DEF Accounted
<1> QED
  BY <1>7 DEF m, t

\* An event dropped.
LEMMA DroppedIsAccounted ==
    ASSUME NEW s \in SubscriberRecord, NEW l \in LogRecord, NEW e \in Events,
           Listens(s, e), ~HasRoom(s), Accounted(l, s)
    PROVE  /\ [l EXCEPT !.offered = @ + 1] \in LogRecord
           /\ Accounted([l EXCEPT !.offered = @ + 1], Offered(s, e))
<1> DEFINE m == [l EXCEPT !.offered = @ + 1]
           t == Offered(s, e)
<1>1. /\ m \in LogRecord /\ m.offered = l.offered + 1 /\ m.got = l.got
      /\ m.reported = l.reported /\ m.requested = l.requested
  BY DEF LogRecord
<1>2. /\ t.capacity = s.capacity /\ t.queue = s.queue
      /\ t.demand = s.demand /\ t.dropped = s.dropped + 1
  BY OfferedDropped
<1> HIDE DEF m, t
<1>3. m.offered = m.got + Len(t.queue) + m.reported + t.dropped
  BY <1>1, <1>2, BookTypes, BookArithmetic
<1>4. m \in LogRecord /\ Accounted(m, t)
  BY <1>1, <1>2, <1>3 DEF Accounted
<1> QED
  BY <1>4 DEF m, t

\* Demand requested.
LEMMA RequestIsAccounted ==
    ASSUME NEW s \in SubscriberRecord, NEW l \in LogRecord, NEW amount \in Nat,
           Accounted(l, s)
    PROVE  /\ [l EXCEPT !.requested = @ + amount] \in LogRecord
           /\ Accounted([l EXCEPT !.requested = @ + amount], Requested(s, amount))
<1> DEFINE m == [l EXCEPT !.requested = @ + amount]
           t == Requested(s, amount)
<1>1. /\ m \in LogRecord /\ m.offered = l.offered /\ m.got = l.got
      /\ m.reported = l.reported /\ m.requested = l.requested + amount
  BY DEF LogRecord
<1>2. /\ t.capacity = s.capacity /\ t.queue = s.queue
      /\ t.demand = s.demand + amount /\ t.dropped = s.dropped
  BY RequestedFacts
<1> HIDE DEF m, t
<1>3. m.got + Len(t.queue) + t.demand <= t.capacity + m.requested
  <2>1. l.got + Len(s.queue) + (s.demand + amount) <= s.capacity + (l.requested + amount)
    BY BookTypes, BookArithmetic
  <2> QED
    BY <1>1, <1>2, <2>1
<1>4. m \in LogRecord /\ Accounted(m, t)
  BY <1>1, <1>2, <1>3 DEF Accounted
<1> QED
  BY <1>4 DEF m, t

\* A poll, whatever it answers.
LEMMA PollIsAccounted ==
    ASSUME NEW s \in SubscriberRecord, NEW l \in LogRecord, Accounted(l, s)
    PROVE  Recorded(l, s) \in LogRecord /\ Accounted(Recorded(l, s), Polled(s))
<1> DEFINE m == Recorded(l, s)
           t == Polled(s)
<1>0. l.got + 1 \in Nat /\ l.reported + s.dropped \in Nat
  BY BookTypes
<1>1. /\ m \in LogRecord /\ m.offered = l.offered /\ m.requested = l.requested
      /\ m.got = IF PollItem(s) = "event" THEN l.got + 1 ELSE l.got
      /\ m.reported = IF PollItem(s) = "lagged" THEN l.reported + s.dropped ELSE l.reported
  BY <1>0 DEF LogRecord, Recorded
<1>2. t \in SubscriberRecord /\ t.capacity = s.capacity
  BY PolledFacts
<1> HIDE DEF m, t
<1>3. ASSUME PollItem(s) = "event" PROVE Accounted(m, t)
  <2>1. Len(t.queue) + 1 = Len(s.queue) /\ t.demand = s.demand /\ t.dropped = s.dropped
    BY <1>3, PolledFacts DEF t
  <2>2. m.got = l.got + 1 /\ m.reported = l.reported
    BY <1>1, <1>3
  <2>3. Len(t.queue) <= t.capacity /\ t.capacity > 0
    BY <1>2, <2>1, BookTypes DEF Accounted
  <2>4. /\ l.offered = (l.got + 1) + Len(t.queue) + l.reported + s.dropped
        /\ (l.got + 1) + Len(t.queue) + s.demand <= s.capacity + l.requested
    <3>1. Len(t.queue) \in Nat
      BY <1>2, BookTypes
    <3> QED
      BY <2>1, <3>1, BookTypes, BookArithmetic
  <2>5. /\ m.offered = m.got + Len(t.queue) + m.reported + t.dropped
        /\ m.got + Len(t.queue) + t.demand <= t.capacity + m.requested
    BY <1>1, <1>2, <2>1, <2>2, <2>4
  <2> QED
    BY <2>3, <2>5 DEF Accounted
<1>4. ASSUME PollItem(s) = "lagged" PROVE Accounted(m, t)
  <2>1. t.queue = s.queue /\ t.demand <= s.demand /\ t.dropped = 0
    BY <1>4, PolledFacts DEF t
  <2>2. m.got = l.got /\ m.reported = l.reported + s.dropped
    BY <1>1, <1>4
  <2>3. m.offered = m.got + Len(t.queue) + m.reported + t.dropped
    BY <1>1, <2>1, <2>2, BookTypes, BookArithmetic
  <2>4. m.got + Len(t.queue) + t.demand <= t.capacity + m.requested
    BY <1>1, <1>2, <2>1, <2>2, BookTypes, BookArithmetic
  <2> QED
    BY <1>2, <2>1, <2>3, <2>4 DEF Accounted
<1>5. ASSUME PollItem(s) \notin {"event", "lagged"} PROVE Accounted(m, t)
  <2>1. t.queue = s.queue /\ t.demand = s.demand /\ t.dropped = s.dropped
    BY <1>5, PolledFacts DEF t
  <2> QED
    BY <1>1, <1>2, <1>5, <2>1 DEF Accounted
<1>6. m \in LogRecord /\ Accounted(m, t)
  BY <1>1, <1>3, <1>4, <1>5
<1> QED
  BY <1>6 DEF m, t
-----------------------------------------------------------------------------
(* Steps that leave the subscriptions alone: the Control's own bookkeeping.  *)

\* A new value of the call in progress.
LEMMA CallTypes ==
    ASSUME NEW op \in {"idle", "open", "starting", "unregisterAll", "drop", "dropped"},
           NEW c \in SUBSET Classes
    PROVE  /\ Call(op) \in CallRecord /\ Call(op).op = op
           /\ [Call(op) EXCEPT !.classes = c] \in CallRecord
           /\ [Call(op) EXCEPT !.classes = c].op = op
           /\ [Call(op) EXCEPT !.classes = c].classes = c
<1> DEFINE z == 0
           e == {}
<1>1. z \in Ids \cup {0} /\ e \in SUBSET Classes
  OBVIOUS
<1>2. Call(op) = [op |-> op, id |-> z, classes |-> e, begun |-> e, before |-> e]
  BY DEF Call
<1> HIDE DEF z, e
<1> QED
  BY <1>1, <1>2 DEF CallRecord

\* Subscriptions nothing touched, while none is added, stay as they were.
LEMMA StreamsUntouched ==
    ASSUME HubInv, UNCHANGED <<subs, task, wakes, log>>, live' \subseteq live
    PROVE  \A i \in live' : Stream(i)'
BY DEF HubInv, Stream

\* StartClass: the backend may emit from here on.
LEMMA StartClassInv ==
    ASSUME HubInv, StartClass
    PROVE  HubInv'
<1> DEFINE m == Min(ToStart)
           c == [ctl EXCEPT !.op = "starting"]
<1>1. /\ m \in ToStart /\ m \in Classes /\ started' = started \cup {m} /\ ctl' = c
      /\ ctl.op = "open" /\ ctl \in CallRecord /\ ToStart # {}
  <2>1. ToStart \in SUBSET Classes /\ ToStart # {} /\ ctl \in CallRecord
    BY DEF HubInv, TypeOK, ToStart, StartClass, CallRecord
  <2> QED
    BY <2>1, MinIsAMember DEF StartClass
<1>2. /\ c \in CallRecord /\ c.op = "starting" /\ c.id = ctl.id /\ c.classes = ctl.classes
      /\ c.begun = ctl.begun /\ c.before = ctl.before
  BY <1>1 DEF CallRecord
<1>3. UNCHANGED <<subs, live, nextId, task, wakes, registered, emits, log>>
  BY DEF StartClass
<1>4. TypeOK'
  BY <1>1, <1>2, <1>3 DEF HubInv, TypeOK
<1>5. Ownership'
  BY <1>1, <1>2, <1>3 DEF HubInv, Ownership
<1>6. ToStart' = ToStart
  BY <1>1, <1>2, <1>3 DEF ToStart
<1> HIDE DEF c
<1>7. Registration'
  BY <1>1, <1>2, <1>3, <1>6 DEF HubInv, Registration
<1> QED
  BY <1>3, <1>4, <1>5, <1>7, StreamsUntouched DEF HubInv

\* StartOk: the class is registered.
LEMMA StartOkInv ==
    ASSUME HubInv, StartOk
    PROVE  HubInv'
<1> DEFINE m == Min(ToStart)
           b == ctl.begun \cup {m}
           c == [ctl EXCEPT !.op = "open", !.begun = b]
<1>1. /\ ctl.op = "starting" /\ ctl \in CallRecord /\ ctl' = c
      /\ registered' = registered \cup {m} /\ started = registered \cup {m}
      /\ m \in Classes /\ m \notin registered
  <2>1. ToStart \in SUBSET Classes /\ ToStart # {} /\ ctl \in CallRecord
    BY DEF HubInv, TypeOK, ToStart, StartOk, CallRecord, Registration
  <2>2. m \in ToStart
    BY <2>1, MinIsAMember
  <2> QED
    BY <2>1, <2>2 DEF StartOk, HubInv, Registration, ToStart
<1>2. /\ b \in SUBSET Classes
      /\ registered' = ctl.before \cup b /\ ctl.before \cap b = {}
  BY <1>1 DEF HubInv, Registration, CallRecord
<1>3. UNCHANGED <<subs, live, nextId, task, wakes, started, emits, log>>
  BY DEF StartOk
<1> HIDE DEF b, m
<1>4. /\ c \in CallRecord /\ c.op = "open" /\ c.id = ctl.id /\ c.classes = ctl.classes
      /\ c.begun = b /\ c.before = ctl.before
  BY <1>1, <1>2 DEF CallRecord
<1> HIDE DEF c
<1>5. TypeOK'
  BY <1>1, <1>3, <1>4 DEF HubInv, TypeOK
<1>6. Ownership'
  BY <1>1, <1>3, <1>4 DEF HubInv, Ownership
<1>7. Registration'
  BY <1>1, <1>2, <1>3, <1>4 DEF Registration
<1> QED
  BY <1>3, <1>5, <1>6, <1>7, StreamsUntouched DEF HubInv

\* The other steps of the Control that only move its own variables.
LEMMA BookkeepingInv ==
    ASSUME HubInv, UnregisterAll \/ UnregisterAllDone \/ DropStop
    PROVE  HubInv'
<1>1. /\ UNCHANGED <<subs, live, nextId, task, wakes, emits, log>>
      /\ ctl.op \notin {"open", "starting"}
  BY CallTypes DEF UnregisterAll, UnregisterAllDone, DropStop, Idle
<1>2. /\ ctl' \in CallRecord /\ registered' \subseteq Classes /\ started' \subseteq Classes
      /\ ctl'.op \in {"idle", "unregisterAll", "dropped"}
      /\ ctl'.op \in {"idle"} => started' = registered'
      /\ ctl'.op = "unregisterAll" => started' = ctl'.classes
      /\ ctl'.op = "dropped" => started' = {} /\ registered' = {}
  <2>1. CASE UnregisterAll
    <3>1. /\ ctl' = [Call("unregisterAll") EXCEPT !.classes = registered]
          /\ ctl = Call("idle") /\ UNCHANGED <<registered, started>>
          /\ registered \in SUBSET Classes
      BY <2>1 DEF UnregisterAll, Idle, HubInv, TypeOK
    <3>2. started = registered
      BY <3>1, CallTypes DEF HubInv, Registration
    <3>3. ctl' \in CallRecord /\ ctl'.op = "unregisterAll" /\ ctl'.classes = registered
      BY <3>1, CallTypes
    <3> QED
      BY <3>1, <3>2, <3>3
  <2>2. CASE UnregisterAllDone
    <3>1. ctl' \in CallRecord /\ ctl'.op = "idle"
      BY <2>2, CallTypes DEF UnregisterAllDone, Idle
    <3>2. started' = {} /\ registered' = {}
      BY <2>2 DEF UnregisterAllDone, HubInv, Registration
    <3> QED
      BY <3>1, <3>2
  <2>3. CASE DropStop
    <3>1. ctl' \in CallRecord /\ ctl'.op = "dropped"
      BY <2>3, CallTypes DEF DropStop
    <3>2. started' = {} /\ registered' = {}
      BY <2>3 DEF DropStop, HubInv, Registration
    <3> QED
      BY <3>1, <3>2
  <2> QED
    BY <2>1, <2>2, <2>3
<1>3. TypeOK'
  BY <1>1, <1>2 DEF HubInv, TypeOK
<1>4. Ownership'
  BY <1>1, <1>2 DEF HubInv, Ownership
<1>5. Registration'
  BY <1>2 DEF Registration
<1> QED
  BY <1>1, <1>3, <1>4, <1>5, StreamsUntouched DEF HubInv
-----------------------------------------------------------------------------
(* Steps that end subscriptions: unregister, unregister_all, fail and Drop.  *)

\* Hub::close and Hub::fail: the queues stay, and a waker that disappears from
\* the hub is on its way to the consumer.
LEMMA EndingStreams ==
    ASSUME HubInv, NEW E \in SUBSET live, NEW error \in Errors,
           subs' = [i \in Ids |-> IF i \in E THEN Ended(subs[i], error) ELSE subs[i]],
           wakes' = wakes \cup {i \in live : subs[i].waker /\ ~subs'[i].waker},
           UNCHANGED <<live, task, log>>
    PROVE  /\ subs' \in [Ids -> SubscriberRecord] /\ wakes' \subseteq Ids
           /\ \A i \in live' : Stream(i)'
<1>1. subs \in [Ids -> SubscriberRecord] /\ live \subseteq Ids /\ wakes \subseteq Ids
  BY DEF HubInv, TypeOK
<1>2. \A i \in Ids : Ended(subs[i], error) \in SubscriberRecord
  BY <1>1, EndedFacts
<1>3. subs' \in [Ids -> SubscriberRecord] /\ wakes' \subseteq Ids
  BY <1>1, <1>2
<1>4. ASSUME NEW i \in live
      PROVE  Stream(i)'
  <2>1. i \in Ids /\ Stream(i) /\ subs[i] \in SubscriberRecord /\ subs'[i] \in SubscriberRecord
    BY <1>1, <1>3, <1>4 DEF HubInv
  <2>2. /\ subs'[i].capacity = subs[i].capacity /\ subs'[i].queue = subs[i].queue
        /\ subs'[i].demand = subs[i].demand /\ subs'[i].dropped = subs[i].dropped
        /\ subs'[i] = subs[i] \/ subs'[i].waker = FALSE
    <3>1. subs'[i] \in {subs[i], Ended(subs[i], error)}
      BY <2>1
    <3> QED
      BY <2>1, <3>1, EndedFacts
  <2>3. i \in wakes => i \in wakes'
    OBVIOUS
  <2>4. subs[i].waker => i \in wakes' \/ subs'[i] = subs[i]
    BY <2>2, <1>4
  <2> QED
    BY <2>1, <2>2, <2>3, <2>4 DEF Stream, HasRoom, Accounted
<1> QED
  BY <1>3, <1>4

\* Unregister(class): stop, deregister and close one class.
LEMMA UnregisterInv ==
    ASSUME HubInv, NEW class \in Classes, Unregister(class)
    PROVE  HubInv'
<1> DEFINE E == {i \in live : subs[i].classes \cap {class} # {}}
<1>1. /\ subs' = [i \in Ids |-> IF i \in E THEN Ended(subs[i], Unregistered) ELSE subs[i]]
      /\ wakes' = wakes \cup {i \in live : subs[i].waker /\ ~subs'[i].waker}
      /\ UNCHANGED <<live, nextId, task, ctl, emits, log>>
  BY DEF Unregister, Close, Taken
<1>2. E \in SUBSET live /\ Unregistered \in Errors
  BY DEF Errors
<1> HIDE DEF E
<1>3. /\ subs' \in [Ids -> SubscriberRecord] /\ wakes' \subseteq Ids
      /\ \A i \in live' : Stream(i)'
  BY <1>1, <1>2, EndingStreams
<1>4. /\ ctl.op = "idle" /\ started' = started \ {class} /\ registered' = registered \ {class}
      /\ started = registered
  BY CallTypes DEF Unregister, Idle, HubInv, Registration
<1>5. TypeOK'
  BY <1>1, <1>3, <1>4 DEF HubInv, TypeOK
<1>6. Ownership'
  BY <1>1 DEF HubInv, Ownership
<1>7. Registration'
  BY <1>1, <1>4 DEF Registration
<1> QED
  BY <1>3, <1>5, <1>6, <1>7 DEF HubInv

\* UnregisterNext: one class of unregister_all.
LEMMA UnregisterNextInv ==
    ASSUME HubInv, UnregisterNext
    PROVE  HubInv'
<1> DEFINE m == Min(ctl.classes)
           E == {i \in live : subs[i].classes \cap {m} # {}}
           c == [ctl EXCEPT !.classes = ctl.classes \ {m}]
<1>1. /\ subs' = [i \in Ids |-> IF i \in E THEN Ended(subs[i], Unregistered) ELSE subs[i]]
      /\ wakes' = wakes \cup {i \in live : subs[i].waker /\ ~subs'[i].waker}
      /\ UNCHANGED <<live, nextId, task, registered, emits, log>>
      /\ started' = started \ {m} /\ ctl.op = "unregisterAll" /\ started = ctl.classes
      /\ ctl' = c /\ ctl \in CallRecord
  BY DEF UnregisterNext, Close, Taken, HubInv, TypeOK, Registration
<1>2. E \in SUBSET live /\ Unregistered \in Errors
  BY DEF Errors
<1>3. /\ c \in CallRecord /\ c.op = "unregisterAll" /\ c.classes = ctl.classes \ {m}
  BY <1>1 DEF CallRecord
<1> HIDE DEF E, c, m
<1>4. /\ subs' \in [Ids -> SubscriberRecord] /\ wakes' \subseteq Ids
      /\ \A i \in live' : Stream(i)'
  BY <1>1, <1>2, EndingStreams
<1>5. TypeOK'
  BY <1>1, <1>3, <1>4 DEF HubInv, TypeOK
<1>6. Ownership'
  BY <1>1, <1>3 DEF HubInv, Ownership
<1>7. Registration'
  BY <1>1, <1>3 DEF Registration
<1> QED
  BY <1>4, <1>5, <1>6, <1>7 DEF HubInv

\* BackendFail and Drop for Control: every live subscription ends.
LEMMA FailInv ==
    ASSUME HubInv, BackendFail \/ DropControl
    PROVE  HubInv'
<1>1. PICK error \in Errors : Fail(error)
  BY DEF BackendFail, DropControl, Errors
<1>2. /\ subs' = [i \in Ids |-> IF i \in live THEN Ended(subs[i], error) ELSE subs[i]]
      /\ wakes' = wakes \cup {i \in live : subs[i].waker /\ ~subs'[i].waker}
  BY <1>1 DEF Fail, Taken
<1>3. UNCHANGED <<live, nextId, task, registered, started, emits, log>>
  BY DEF BackendFail, DropControl
<1>4. /\ subs' \in [Ids -> SubscriberRecord] /\ wakes' \subseteq Ids
      /\ \A i \in live' : Stream(i)'
  BY <1>2, <1>3, EndingStreams
<1>5. \/ UNCHANGED ctl
      \/ ctl' \in CallRecord /\ ctl'.op = "drop" /\ ctl.op = "idle"
  BY CallTypes DEF BackendFail, DropControl, Idle
<1>6. TypeOK'
  BY <1>3, <1>4, <1>5 DEF HubInv, TypeOK
<1>7. Ownership'
  BY <1>3, <1>5 DEF HubInv, Ownership
<1>8. Registration'
  <2>1. CASE UNCHANGED ctl
    <3>1. ToStart' = ToStart
      BY <1>3, <2>1 DEF ToStart
    <3> QED
      BY <1>3, <2>1, <3>1 DEF HubInv, Registration
  <2>2. CASE ctl'.op = "drop" /\ ctl.op = "idle"
    BY <1>3, <2>2 DEF HubInv, Registration
  <2> QED
    BY <1>5, <2>1, <2>2
<1> QED
  BY <1>4, <1>6, <1>7, <1>8 DEF HubInv
-----------------------------------------------------------------------------
(* Steps of the backend and of the consumers.                               *)

\* Emit(class): an event reaches every listening subscription or is counted.
LEMMA EmitInv ==
    ASSUME HubInv, NEW class \in Classes \cup {NoClass}, Emit(class)
    PROVE  HubInv'
<1> DEFINE event == [class |-> class]
<1>1. /\ subs' = [i \in Ids |-> IF i \in live THEN Offered(subs[i], event) ELSE subs[i]]
      /\ wakes' = wakes \cup {i \in live : subs[i].waker /\ ~subs'[i].waker}
      /\ log' = [i \in Ids |-> IF i \in live /\ Listens(subs[i], event)
                               THEN [log[i] EXCEPT !.offered = @ + 1] ELSE log[i]]
      /\ emits' = emits + 1
      /\ UNCHANGED <<live, nextId, task, registered, started, ctl>>
  BY DEF Emit, Taken
<1>2. event \in Events
  BY DEF Events
<1> HIDE DEF event
<1>3. /\ subs \in [Ids -> SubscriberRecord] /\ live \subseteq Ids /\ wakes \subseteq Ids
      /\ log \in [Ids -> LogRecord]
  BY DEF HubInv, TypeOK
<1>4. \A i \in Ids : Offered(subs[i], event) \in SubscriberRecord
  BY <1>2, <1>3, OfferedIgnored, OfferedQueued, OfferedDropped
<1>5. \A i \in Ids : [log[i] EXCEPT !.offered = @ + 1] \in LogRecord
  BY <1>3 DEF LogRecord
<1>6. /\ subs' \in [Ids -> SubscriberRecord] /\ wakes' \subseteq Ids
      /\ log' \in [Ids -> LogRecord]
  BY <1>1, <1>3, <1>4, <1>5
<1>7. ASSUME NEW i \in live
      PROVE  Stream(i)'
  <2>1. /\ i \in Ids /\ Stream(i) /\ subs[i] \in SubscriberRecord
        /\ log[i] \in LogRecord /\ subs'[i] = Offered(subs[i], event)
        /\ task'[i] = task[i] /\ Accounted(log[i], subs[i])
    BY <1>1, <1>3, <1>7 DEF HubInv, Stream
  <2>2. i \in wakes => i \in wakes'
    BY <1>1
  <2>3. CASE ~Listens(subs[i], event)
    <3>1. subs'[i] = subs[i] /\ log'[i] = log[i]
      BY <1>1, <1>2, <2>1, <2>3, OfferedIgnored
    <3> QED
      BY <2>1, <2>2, <3>1 DEF Stream
  <2>4. Listens(subs[i], event) => log'[i] = [log[i] EXCEPT !.offered = @ + 1]
    BY <1>1, <2>1
  <2>5. CASE Listens(subs[i], event) /\ HasRoom(subs[i])
    <3>1. Accounted(log'[i], subs'[i])
      BY <1>2, <2>1, <2>4, <2>5, QueuedIsAccounted
    <3>2. ~subs'[i].waker /\ subs'[i].queue # <<>>
      BY <1>2, <2>1, <2>5, OfferedQueued
    <3>3. task[i] = "parked" => i \in wakes'
      BY <1>1, <1>7, <2>1, <2>2, <3>2 DEF Stream
    <3> QED
      BY <2>1, <3>1, <3>2, <3>3 DEF Stream
  <2>6. CASE Listens(subs[i], event) /\ ~HasRoom(subs[i])
    <3>1. Accounted(log'[i], subs'[i])
      BY <1>2, <2>1, <2>4, <2>6, DroppedIsAccounted
    <3>2. /\ subs'[i].queue = subs[i].queue /\ subs'[i].demand = subs[i].demand
          /\ subs'[i].waker = subs[i].waker /\ subs'[i].terminal = subs[i].terminal
      BY <1>2, <2>1, <2>6, OfferedDropped
    <3>3. i \in NextCallers /\ task'[i] = "parked" => i \in wakes'
      BY <2>1, <2>2, <2>6 DEF Stream
    <3> QED
      BY <2>1, <2>2, <3>1, <3>2, <3>3 DEF Stream
  <2> QED
    BY <2>3, <2>5, <2>6
<1>8. TypeOK'
  BY <1>1, <1>6 DEF HubInv, TypeOK
<1>9. Ownership'
  BY <1>1 DEF HubInv, Ownership
<1>10. ToStart' = ToStart
  BY <1>1 DEF ToStart
<1>11. Registration'
  BY <1>1, <1>10 DEF HubInv, Registration
<1> QED
  BY <1>1, <1>7, <1>8, <1>9, <1>11 DEF HubInv

\* A step of the backend or of a consumer leaves the Control as it was.
LEMMA ControlUntouched ==
    ASSUME HubInv, UNCHANGED <<registered, started, ctl>>
    PROVE  Registration'
<1>1. ToStart' = ToStart
  BY DEF ToStart
<1> QED
  BY <1>1 DEF HubInv, Registration

\* One consumer moves while it holds its subscription, and nothing else does.
LEMMA ConsumerMoves ==
    ASSUME HubInv, NEW i \in live, NEW t \in TaskStates \ {"none"},
           task[i] # "none", task' = [task EXCEPT ![i] = t],
           NEW s \in SubscriberRecord, subs' = [subs EXCEPT ![i] = s],
           NEW l \in LogRecord, log' = [log EXCEPT ![i] = l],
           wakes' \subseteq Ids, wakes \ {i} \subseteq wakes',
           UNCHANGED <<live, nextId, registered, started, ctl, emits>>,
           Stream(i)'
    PROVE  HubInv'
<1>1. /\ i \in Ids /\ live \subseteq Ids /\ task \in [Ids -> TaskStates]
      /\ subs \in [Ids -> SubscriberRecord] /\ log \in [Ids -> LogRecord]
  BY DEF HubInv, TypeOK
<1>2. TypeOK'
  BY <1>1 DEF HubInv, TypeOK
<1>3. Ownership'
  <2>1. \A j \in Ids : j # i => task'[j] = task[j] /\ log'[j] = log[j]
    BY <1>1
  <2>2. ctl.op \in {"open", "starting"} => ctl.id \in Ids /\ ctl.id # i
    BY <1>1 DEF HubInv, Ownership
  <2> QED
    BY <1>1, <2>1, <2>2 DEF HubInv, Ownership
<1>4. ASSUME NEW j \in live', j # i
      PROVE  Stream(j)'
  <2>1. /\ Stream(j) /\ subs'[j] = subs[j] /\ log'[j] = log[j] /\ task'[j] = task[j]
        /\ j \in wakes => j \in wakes'
    BY <1>1, <1>4 DEF HubInv
  <2>2. Accounted(log'[j], subs'[j])
    BY <2>1 DEF Stream
  <2>3. task'[j] = "parked" =>
          \/ j \in wakes'
          \/ subs'[j].waker /\ subs'[j].queue = <<>> /\ subs'[j].terminal = NoError
    BY <2>1 DEF Stream
  <2>4. j \in NextCallers /\ task'[j] \in {"polling", "parked"} =>
          subs'[j].demand > 0 \/ subs'[j].queue # <<>>
    BY <2>1 DEF Stream
  <2>5. j \in NextCallers /\ task'[j] = "parked" =>
          j \in wakes' \/ (subs'[j].dropped = 0 /\ HasRoom(subs'[j]))
    BY <2>1 DEF Stream
  <2> QED
    BY <2>2, <2>3, <2>4, <2>5 DEF Stream
<1>5. Registration'
  BY ControlUntouched
<1> QED
  BY <1>2, <1>3, <1>4, <1>5 DEF HubInv

\* A consumer that holds a subscription holds a live one.
LEMMA HeldIsLive ==
    ASSUME HubInv, NEW i \in Ids, task[i] # "none"
    PROVE  /\ i \in live /\ Stream(i) /\ task[i] \in TaskStates
           /\ subs[i] \in SubscriberRecord /\ log[i] \in LogRecord
           /\ wakes \subseteq Ids /\ Accounted(log[i], subs[i])
BY DEF HubInv, Ownership, TypeOK, Stream

\* Wake(i): a parked consumer is scheduled; any other ignores the wake-up.
LEMMA WakeInv ==
    ASSUME HubInv, NEW i \in Ids, Wake(i)
    PROVE  HubInv'
<1>1. CASE task[i] = "none"
  <2>1. task' = task /\ wakes' = wakes \ {i} /\ wakes' \subseteq Ids
    BY <1>1 DEF Wake, HubInv, TypeOK
  <2>2. UNCHANGED <<subs, live, nextId, registered, started, ctl, emits, log>>
    BY DEF Wake
  <2>3. \A j \in live : Stream(j)'
    <3>1. \A j \in live : task[j] = "parked" => j # i
      BY <1>1
    <3> QED
      BY <2>1, <2>2, <3>1 DEF HubInv, Stream
  <2>4. TypeOK' /\ Ownership'
    BY <2>1, <2>2 DEF HubInv, TypeOK, Ownership
  <2> QED
    BY <2>2, <2>3, <2>4, ControlUntouched DEF HubInv
<1>2. CASE task[i] # "none"
  <2> DEFINE t == IF task[i] = "parked" THEN "polling" ELSE task[i]
  <2>1. /\ i \in live /\ Stream(i) /\ task[i] \in TaskStates
        /\ subs[i] \in SubscriberRecord /\ log[i] \in LogRecord
        /\ wakes \subseteq Ids
    BY <1>2, HeldIsLive
  <2>2. task' = [task EXCEPT ![i] = t] /\ wakes' = wakes \ {i}
    BY DEF Wake
  <2>3. t \in TaskStates \ {"none"} /\ t # "parked" /\ (t = "polling" => task[i] \in {"polling", "parked"})
    BY <1>2, <2>1 DEF TaskStates
  <2> HIDE DEF t
  <2>4. UNCHANGED <<subs, live, nextId, registered, started, ctl, emits, log>>
    BY DEF Wake
  <2>5. task'[i] = t
    BY <2>2 DEF HubInv, TypeOK
  <2>6. Stream(i)'
    BY <2>1, <2>3, <2>4, <2>5 DEF Stream
  <2>7. subs' = [subs EXCEPT ![i] = subs[i]] /\ log' = [log EXCEPT ![i] = log[i]]
    BY <2>4 DEF HubInv, TypeOK
  <2> QED
    BY <1>2, <2>1, <2>2, <2>3, <2>4, <2>6, <2>7, ConsumerMoves
<1> QED
  BY <1>1, <1>2

\* Hub::request, through next() or by hand: demand grows by the amount, and the
\* waker it takes is on its way.
LEMMA GrantInv ==
    ASSUME HubInv, NEW i \in Ids, NEW amount \in Nat, Grant(i, amount),
           task[i] # "none", NEW t \in TaskStates \ {"none"},
           task' = [task EXCEPT ![i] = t],
           t = "parked" => task[i] = "parked",
           i \in NextCallers => t # "parked" /\ amount > 0,
           UNCHANGED <<live, nextId, registered, started, ctl, emits>>
    PROVE  HubInv'
<1> DEFINE s == Requested(subs[i], amount)
           l == [log[i] EXCEPT !.requested = @ + amount]
<1>1. /\ i \in live /\ Stream(i) /\ subs[i] \in SubscriberRecord /\ log[i] \in LogRecord
      /\ wakes \subseteq Ids /\ Accounted(log[i], subs[i]) /\ live \subseteq Ids
  BY HeldIsLive DEF HubInv, TypeOK
<1>2. /\ subs' = [subs EXCEPT ![i] = s]
      /\ log' = [log EXCEPT ![i] = l]
      /\ wakes' = wakes \cup {j \in live : subs[j].waker /\ ~subs'[j].waker}
  BY DEF Grant, Taken
<1>3. l \in LogRecord /\ Accounted(l, s)
  BY <1>1, RequestIsAccounted
<1>4. /\ s \in SubscriberRecord /\ s.queue = subs[i].queue /\ s.terminal = subs[i].terminal
      /\ s.demand = subs[i].demand + amount /\ s.waker \in {subs[i].waker, FALSE}
  BY <1>1, RequestedFacts
<1> HIDE DEF s, l
<1>5. subs'[i] = s /\ log'[i] = l /\ task'[i] = t
  BY <1>2 DEF HubInv, TypeOK
<1>6. i \in NextCallers => s.demand > 0
  <2>1. subs[i].demand \in Nat
    BY <1>1 DEF SubscriberRecord
  <2> QED
    BY <1>4, <2>1
<1>7. t = "parked" =>
        \/ i \in wakes'
        \/ s.waker /\ s.queue = <<>> /\ s.terminal = NoError
  BY <1>1, <1>2, <1>4, <1>5 DEF Stream
<1>8. Stream(i)'
  BY <1>3, <1>5, <1>6, <1>7 DEF Stream
<1>9. wakes' \subseteq Ids /\ wakes \ {i} \subseteq wakes'
  BY <1>1, <1>2
<1> QED
  BY <1>1, <1>2, <1>3, <1>4, <1>8, <1>9, ConsumerMoves

\* CallNext and Request.
LEMMA RequestInv ==
    ASSUME HubInv, NEW i \in Ids,
           CallNext(i) \/ \E amount \in Amounts : Request(i, amount)
    PROVE  HubInv'
<1>1. CASE CallNext(i)
  <2> DEFINE a == 1
  <2>1. /\ Grant(i, a) /\ a \in Nat /\ a > 0 /\ task[i] # "none"
        /\ task' = [task EXCEPT ![i] = "polling"]
        /\ UNCHANGED <<live, nextId, registered, started, ctl, emits>>
    BY <1>1 DEF CallNext
  <2>2. "polling" \in TaskStates \ {"none"} /\ "polling" # "parked"
    BY DEF TaskStates
  <2> HIDE DEF a
  <2> QED
    BY <2>1, <2>2, GrantInv
<1>2. ASSUME NEW amount \in Amounts, Request(i, amount)
      PROVE  HubInv'
  <2>1. /\ i \notin NextCallers /\ task[i] \in {"idle", "parked"} /\ Grant(i, amount)
        /\ UNCHANGED <<live, nextId, task, registered, started, ctl, emits>>
    BY <1>2, Zenon DEF Request
  <2>4. amount \in Nat
    BY HubConstants
  <2>2. task' = [task EXCEPT ![i] = task[i]]
    BY <2>1 DEF HubInv, TypeOK
  <2>3. task[i] \in TaskStates \ {"none"} /\ task[i] # "none"
    BY <2>1 DEF TaskStates
  <2> QED
    BY <2>1, <2>2, <2>3, <2>4, GrantInv
<1> QED
  BY <1>1, <1>2

\* PollNext(i): Pending parks the consumer with its waker in the hub.
LEMMA PollNextInv ==
    ASSUME HubInv, NEW i \in Ids, PollNext(i)
    PROVE  HubInv'
<1> DEFINE s == Polled(subs[i])
           l == Recorded(log[i], subs[i])
           t == IF PollItem(subs[i]) = "pending" THEN "parked" ELSE "idle"
<1>1. /\ task[i] # "none" /\ (i \in NextCallers => task[i] = "polling")
      /\ subs' = [subs EXCEPT ![i] = s]
      /\ task' = [task EXCEPT ![i] = t]
      /\ log' = [log EXCEPT ![i] = l]
      /\ UNCHANGED <<live, nextId, wakes, registered, started, ctl, emits>>
  BY DEF PollNext
<1>2. /\ i \in live /\ Stream(i) /\ subs[i] \in SubscriberRecord /\ log[i] \in LogRecord
      /\ wakes \subseteq Ids /\ Accounted(log[i], subs[i])
  BY <1>1, HeldIsLive
<1>3. l \in LogRecord /\ Accounted(l, s) /\ s \in SubscriberRecord
  BY <1>2, PollIsAccounted, PolledFacts
<1>4. PollItem(subs[i]) = "pending" =>
        /\ s.queue = <<>> /\ subs[i].queue = <<>> /\ s.dropped = 0
        /\ s.demand = subs[i].demand /\ s.waker /\ s.terminal = NoError
  BY <1>2, PolledFacts
<1>5. t \in TaskStates \ {"none"} /\ (t = "parked" => PollItem(subs[i]) = "pending")
      /\ t # "polling"
  BY DEF TaskStates
<1> HIDE DEF s, l, t
<1>6. subs'[i] = s /\ log'[i] = l /\ task'[i] = t
  BY <1>1 DEF HubInv, TypeOK
<1>7. i \in NextCallers /\ t = "parked" => s.demand > 0
  BY <1>1, <1>2, <1>4, <1>5 DEF Stream
<1>8. t = "parked" => Len(s.queue) < s.capacity
  <2>1. t = "parked" => Len(s.queue) = 0
    BY <1>4, <1>5
  <2> QED
    BY <1>3, <2>1 DEF Accounted
<1>9. Stream(i)'
  <2>1. t = "parked" => s.waker /\ s.queue = <<>> /\ s.terminal = NoError /\ s.dropped = 0
    BY <1>4, <1>5
  <2>2. i \in NextCallers /\ t = "parked" => HasRoom(s)
    BY <1>7, <1>8 DEF HasRoom
  <2> QED
    BY <1>3, <1>5, <1>6, <1>7, <2>1, <2>2 DEF Stream
<1> QED
  BY <1>1, <1>2, <1>3, <1>5, <1>9, ConsumerMoves

\* AbandonNext(i): the waker stays in the hub, the consumer is idle.
LEMMA AbandonNextInv ==
    ASSUME HubInv, NEW i \in Ids, AbandonNext(i)
    PROVE  HubInv'
<1>1. /\ i \in live /\ Stream(i) /\ subs[i] \in SubscriberRecord /\ log[i] \in LogRecord
      /\ wakes \subseteq Ids /\ task[i] # "none"
  BY HeldIsLive DEF AbandonNext
<1>2. /\ task' = [task EXCEPT ![i] = "idle"] /\ "idle" \in TaskStates \ {"none"}
      /\ UNCHANGED <<subs, live, nextId, wakes, registered, started, ctl, emits, log>>
  BY DEF AbandonNext, TaskStates
<1>3. subs' = [subs EXCEPT ![i] = subs[i]] /\ log' = [log EXCEPT ![i] = log[i]]
      /\ task'[i] = "idle"
  BY <1>2 DEF HubInv, TypeOK
<1>4. Stream(i)'
  BY <1>1, <1>2, <1>3 DEF Stream
<1> QED
  BY <1>1, <1>2, <1>3, <1>4, ConsumerMoves
-----------------------------------------------------------------------------
(* Steps that add or remove a subscription.                                 *)

\* The blank record and the empty history of a free identifier.
LEMMA BlankTypes == Blank \in SubscriberRecord /\ NoLog \in LogRecord
<1>1. Blank \in SubscriberRecord
  BY NewSubscriberFacts DEF Blank
<1>2. NoLog \in LogRecord
  BY DEF NoLog, LogRecord
<1> QED
  BY <1>1, <1>2

\* Hub::subscribe: the identifier is fresh, its books are balanced from the start.
LEMMA OpenInv ==
    ASSUME HubInv, NEW classes \in SUBSET Classes, NEW capacity \in Capacities,
           Open(classes, capacity)
    PROVE  HubInv'
<1> DEFINE n == nextId
           s == NewSubscriber(classes, capacity)
           c == [op |-> "open", id |-> n, classes |-> classes, begun |-> {},
                 before |-> registered]
<1>1. /\ ctl = Call("idle") /\ n \in Ids /\ capacity \in Nat /\ capacity > 0
      /\ subs' = [subs EXCEPT ![n] = s] /\ live' = live \cup {n} /\ nextId' = n + 1
      /\ ctl' = c /\ UNCHANGED <<task, wakes, registered, started, emits, log>>
  BY HubConstants DEF Open, Idle
<1>2. /\ s \in SubscriberRecord /\ s.capacity = capacity /\ s.queue = <<>>
      /\ s.demand = capacity /\ s.dropped = 0
  BY <1>1, NewSubscriberFacts
<1>3. /\ c \in CallRecord /\ c.op = "open" /\ c.id = n /\ c.begun = {}
      /\ c.before = registered
  BY <1>1 DEF HubInv, TypeOK, CallRecord
<1>4. n \in Nat /\ n \notin live
  BY <1>1 DEF HubInv, TypeOK, Ownership
<1>5. task[n] = "none" /\ log[n] = NoLog
  BY <1>1, <1>4 DEF HubInv, Ownership
<1> HIDE DEF s, c
<1>6. TypeOK'
  <2>1. subs' \in [Ids -> SubscriberRecord]
    BY <1>1, <1>2 DEF HubInv, TypeOK
  <2>2. live' \subseteq Ids /\ nextId' \in Nat /\ ctl' \in CallRecord
    BY <1>1, <1>3, <1>4 DEF HubInv, TypeOK
  <2> QED
    BY <1>1, <2>1, <2>2 DEF HubInv, TypeOK
<1>7. Ownership'
  <2>1. \A i \in live' : i < n + 1
    BY <1>1, <1>4, HubConstants DEF HubInv, TypeOK, Ownership
  <2> QED
    BY <1>1, <1>3, <1>5, <2>1 DEF HubInv, Ownership
<1>8. Registration'
  <2>1. started = registered
    BY <1>1, CallTypes DEF HubInv, Registration
  <2> QED
    BY <1>1, <1>3, <2>1 DEF Registration
<1>9. ASSUME NEW i \in live'
      PROVE  Stream(i)'
  <2>1. CASE i = n
    <3>1. subs'[i] = s /\ log'[i] = NoLog /\ task'[i] = "none"
      BY <1>1, <1>5, <2>1 DEF HubInv, TypeOK
    <3>2. Accounted(NoLog, s)
      <4>1. Len(s.queue) = 0
        BY <1>2
      <4>2. NoLog.got = 0 /\ NoLog.offered = 0 /\ NoLog.reported = 0 /\ NoLog.requested = 0
        BY DEF NoLog
      <4>3. s.capacity > 0 /\ Len(s.queue) <= s.capacity
        BY <1>1, <1>2, <4>1
      <4>4. NoLog.got + Len(s.queue) + s.demand <= s.capacity + NoLog.requested
        BY <1>1, <1>2, <4>1, <4>2
      <4>5. NoLog.offered = NoLog.got + Len(s.queue) + NoLog.reported + s.dropped
        BY <1>2, <4>1, <4>2
      <4> QED
        BY <4>3, <4>4, <4>5 DEF Accounted
    <3> QED
      BY <3>1, <3>2 DEF Stream
  <2>2. CASE i # n
    <3>1. i \in live /\ subs'[i] = subs[i]
      BY <1>1, <1>9, <2>2 DEF HubInv, TypeOK
    <3>2. /\ Stream(i) /\ subs'[i] = subs[i] /\ log'[i] = log[i] /\ task'[i] = task[i]
          /\ wakes' = wakes
      BY <1>1, <3>1 DEF HubInv
    <3> QED
      BY <3>2, Zenon DEF Stream
  <2> QED
    BY <2>1, <2>2
<1> QED
  BY <1>6, <1>7, <1>8, <1>9 DEF HubInv

\* Hub::cancel: the subscription leaves with its history, the others stay.
LEMMA CancelledStreams ==
    ASSUME HubInv, NEW i \in Ids, Cancelled(i), UNCHANGED wakes,
           \A j \in Ids \ {i} : task'[j] = task[j]
    PROVE  /\ subs' \in [Ids -> SubscriberRecord] /\ log' \in [Ids -> LogRecord]
           /\ live' = live \ {i}
           /\ \A j \in Ids \ live' : log'[j] = NoLog
           /\ \A j \in live' : Stream(j)'
<1>1. /\ live' = live \ {i} /\ subs' = [subs EXCEPT ![i] = Blank]
      /\ log' = [log EXCEPT ![i] = NoLog]
  BY DEF Cancelled
<1>2. /\ subs \in [Ids -> SubscriberRecord] /\ log \in [Ids -> LogRecord]
      /\ live \subseteq Ids /\ \A j \in Ids \ live : log[j] = NoLog
  BY DEF HubInv, TypeOK, Ownership
<1>3. subs' \in [Ids -> SubscriberRecord] /\ log' \in [Ids -> LogRecord]
  BY <1>1, <1>2, BlankTypes
<1>4. \A j \in Ids \ live' : log'[j] = NoLog
  BY <1>1, <1>2
<1>5. ASSUME NEW j \in live'
      PROVE  Stream(j)'
  <2>1. /\ Stream(j) /\ subs'[j] = subs[j] /\ log'[j] = log[j] /\ task'[j] = task[j]
        /\ wakes' = wakes
    BY <1>1, <1>2, <1>5 DEF HubInv
  <2> QED
    BY <2>1, Zenon DEF Stream
<1> QED
  BY <1>1, <1>3, <1>4, <1>5

\* Subscription::cancel.
LEMMA CancelInv ==
    ASSUME HubInv, NEW i \in Ids, Cancel(i)
    PROVE  HubInv'
<1>1. /\ task' = [task EXCEPT ![i] = "none"] /\ Cancelled(i) /\ task[i] # "none"
      /\ UNCHANGED <<nextId, wakes, registered, started, ctl, emits>>
      /\ task \in [Ids -> TaskStates] /\ "none" \in TaskStates
  BY DEF Cancel, HubInv, TypeOK, TaskStates
<1>2. task' \in [Ids -> TaskStates] /\ task'[i] = "none"
      /\ \A j \in Ids \ {i} : task'[j] = task[j]
  BY <1>1
<1>3. /\ subs' \in [Ids -> SubscriberRecord] /\ log' \in [Ids -> LogRecord]
      /\ live' = live \ {i} /\ \A j \in Ids \ live' : log'[j] = NoLog
      /\ \A j \in live' : Stream(j)'
  BY <1>1, <1>2, CancelledStreams
<1>4. TypeOK'
  BY <1>1, <1>2, <1>3 DEF HubInv, TypeOK
<1>5. Ownership'
  <2>1. ctl.op \in {"open", "starting"} => ctl.id # i /\ ctl.id \in Ids
    BY <1>1 DEF HubInv, Ownership, TypeOK
  <2> QED
    BY <1>1, <1>2, <1>3, <2>1 DEF HubInv, Ownership
<1> QED
  BY <1>1, <1>3, <1>4, <1>5, ControlUntouched DEF HubInv

\* StartFailed: what this call started is stopped and deregistered, what ran
\* before keeps running, and the subscription disappears.
LEMMA StartFailedInv ==
    ASSUME HubInv, StartFailed
    PROVE  /\ HubInv'
           /\ registered' = ctl.before /\ started' = ctl.before
<1> DEFINE m == Min(ToStart)
<1>1. /\ ctl.op = "starting" /\ ctl.id \in live /\ ctl.id \in Ids /\ task[ctl.id] = "none"
      /\ registered = ctl.before \cup ctl.begun /\ ctl.before \cap ctl.begun = {}
      /\ started = registered \cup {m} /\ ToStart # {}
  BY DEF StartFailed, HubInv, TypeOK, Ownership, Registration
<1>2. m \notin registered
  <2>1. ToStart \in SUBSET Classes
    BY DEF HubInv, TypeOK, ToStart, CallRecord
  <2> QED
    BY <1>1, <2>1, MinIsAMember DEF ToStart
<1>3. registered' = ctl.before /\ started' = ctl.before
  BY <1>1, <1>2 DEF StartFailed, RolledBack
<1>4. /\ UNCHANGED <<nextId, task, wakes, emits>> /\ Cancelled(ctl.id)
      /\ ctl' = Call("idle") /\ ctl' \in CallRecord /\ ctl'.op = "idle"
  BY CallTypes DEF StartFailed, Idle
<1>5. /\ subs' \in [Ids -> SubscriberRecord] /\ log' \in [Ids -> LogRecord]
      /\ live' = live \ {ctl.id} /\ \A j \in Ids \ live' : log'[j] = NoLog
      /\ \A j \in live' : Stream(j)'
  BY <1>1, <1>4, CancelledStreams
<1>6. TypeOK'
  BY <1>1, <1>3, <1>4, <1>5 DEF HubInv, TypeOK
<1>7. Ownership'
  BY <1>1, <1>4, <1>5 DEF HubInv, Ownership
<1>8. Registration'
  BY <1>3, <1>4 DEF Registration
<1> QED
  BY <1>3, <1>5, <1>6, <1>7, <1>8 DEF HubInv

\* OpenDone: the caller receives the subscription.
LEMMA OpenDoneInv ==
    ASSUME HubInv, OpenDone
    PROVE  HubInv'
<1> DEFINE i == ctl.id
<1>1. /\ i \in live /\ i \in Ids /\ task[i] = "none" /\ started = registered
      /\ task' = [task EXCEPT ![i] = "idle"] /\ ctl' \in CallRecord /\ ctl'.op = "idle"
      /\ UNCHANGED <<subs, live, nextId, wakes, registered, started, emits, log>>
  BY CallTypes DEF OpenDone, HubInv, TypeOK, Ownership, Registration, Idle
<1>2. task' \in [Ids -> TaskStates] /\ task'[i] = "idle"
      /\ \A j \in Ids \ {i} : task'[j] = task[j]
  BY <1>1 DEF HubInv, TypeOK, TaskStates
<1> HIDE DEF i
<1>3. TypeOK'
  BY <1>1, <1>2 DEF HubInv, TypeOK
<1>4. Ownership'
  BY <1>1, <1>2 DEF HubInv, Ownership
<1>5. Registration'
  BY <1>1 DEF Registration
<1>6. ASSUME NEW j \in live'
      PROVE  Stream(j)'
  <2>1. Stream(j) /\ j \in Ids /\ UNCHANGED <<subs, log, wakes>>
    BY <1>1, <1>6 DEF HubInv, TypeOK
  <2>2. task'[j] = "idle" \/ task'[j] = task[j]
    BY <1>2, <2>1
  <2> QED
    BY <2>1, <2>2 DEF Stream
<1> QED
  BY <1>3, <1>4, <1>5, <1>6 DEF HubInv
-----------------------------------------------------------------------------
(* The results.                                                             *)

\* The invariant holds initially: nothing is registered, nobody subscribed.
LEMMA HubInvInit == Init => HubInv
<1> SUFFICES ASSUME Init PROVE HubInv
  OBVIOUS
<1>1. Call("idle") \in CallRecord /\ Call("idle").op = "idle"
  BY CallTypes
<1>2. TypeOK
  BY <1>1, BlankTypes DEF Init, TypeOK, Idle, TaskStates
<1>3. Ownership
  BY <1>1 DEF Init, Ownership, Idle
<1>4. Registration
  BY <1>1 DEF Init, Registration, Idle
<1> QED
  BY <1>2, <1>3, <1>4 DEF HubInv, Init

\* Every step keeps it.
LEMMA HubInvStep == HubInv /\ [Next]_vars => HubInv'
<1> SUFFICES ASSUME HubInv, [Next]_vars PROVE HubInv'
  OBVIOUS
<1>1. CASE \E classes \in SUBSET Classes, capacity \in Capacities : Open(classes, capacity)
  BY <1>1, OpenInv
<1>2. CASE StartClass
  BY <1>2, StartClassInv
<1>3. CASE StartOk
  BY <1>3, StartOkInv
<1>4. CASE StartFailed
  BY <1>4, StartFailedInv
<1>5. CASE OpenDone
  BY <1>5, OpenDoneInv
<1>6. CASE \E class \in Classes : Unregister(class)
  BY <1>6, UnregisterInv
<1>7. CASE UnregisterAll \/ UnregisterAllDone \/ DropStop
  BY <1>7, BookkeepingInv
<1>8. CASE UnregisterNext
  BY <1>8, UnregisterNextInv
<1>9. CASE BackendFail \/ DropControl
  BY <1>9, FailInv
<1>10. CASE \E class \in Classes \cup {NoClass} : Emit(class)
  BY <1>10, EmitInv
<1>11. CASE \E i \in Ids : Wake(i)
  BY <1>11, WakeInv
<1>12. CASE \E i \in Ids : CallNext(i) \/ \E amount \in Amounts : Request(i, amount)
  BY <1>12, RequestInv
<1>13. CASE \E i \in Ids : PollNext(i)
  BY <1>13, PollNextInv
<1>14. CASE \E i \in Ids : AbandonNext(i)
  BY <1>14, AbandonNextInv
<1>15. CASE \E i \in Ids : Cancel(i)
  BY <1>15, CancelInv
<1>16. CASE UNCHANGED vars
  <2>1. /\ UNCHANGED <<subs, live, nextId, task, wakes, registered, started, ctl, emits, log>>
    BY <1>16 DEF vars
  <2>2. TypeOK' /\ Ownership'
    BY <2>1 DEF HubInv, TypeOK, Ownership
  <2> QED
    BY <2>1, <2>2, ControlUntouched, StreamsUntouched DEF HubInv
<1> QED
  BY <1>1, <1>2, <1>3, <1>4, <1>5, <1>6, <1>7, <1>8, <1>9, <1>10, <1>11, <1>12, <1>13,
     <1>14, <1>15, <1>16 DEF Next

\* The inductive invariant of the hub and its Control.
THEOREM HubInvariant == Spec => []HubInv
BY HubInvInit, HubInvStep, PTL DEF Spec

\* The variables of the hub and of its Control keep their types.
THEOREM HubTypes == Spec => []TypeOK
<1>1. HubInv => TypeOK
  BY DEF HubInv
<1> QED
  BY <1>1, HubInvariant, PTL

\* Hub::emit, close and fail never leave a parked consumer asleep with an event
\* or a terminal error to deliver.
THEOREM WakeupsAreNotLost == Spec => []NoLostWakeup
<1>1. HubInv => NoLostWakeup
  BY DEF HubInv, Stream, NoLostWakeup
<1> QED
  BY <1>1, HubInvariant, PTL

\* Subscription::next never sleeps through a loss.
THEOREM NextSeesEveryLoss == Spec => []NextNeverMissesALoss
<1>1. HubInv => NextNeverMissesALoss
  BY DEF HubInv, Stream, NextNeverMissesALoss
<1> QED
  BY <1>1, HubInvariant, PTL

\* Every event a subscription was offered is polled, held, or reported as lost.
THEOREM EveryLossIsAccounted == Spec => []LossIsAccounted
<1>1. HubInv => LossIsAccounted
  BY DEF HubInv, Stream, Accounted, LossIsAccounted
<1> QED
  BY <1>1, HubInvariant, PTL

\* No subscription is handed more than it granted, nor queues past its capacity.
THEOREM BackpressureHolds == Spec => []Backpressure
<1>1. HubInv => Backpressure
  BY DEF HubInv, Stream, Accounted, Backpressure
<1> QED
  BY <1>1, HubInvariant, PTL

\* Control::registered and the classes the backend runs agree between calls.
THEOREM RegistrationIsExact == Spec => []RegistrationAgrees
<1>1. HubInv => RegistrationAgrees
  <2>1. Idle.op = "idle"
    BY CallTypes DEF Idle
  <2> QED
    BY <2>1 DEF HubInv, Registration, RegistrationAgrees
<1> QED
  BY <1>1, HubInvariant, PTL

\* An open that fails half-way leaves every class exactly as it found it.
THEOREM FailedOpenRollsBack == Spec => FailedOpenRestores
<1>1. HubInv /\ [Next]_vars =>
        [ctl.op = "starting" /\ ctl' = Idle
           => registered' = ctl.before /\ started' = ctl.before]_vars
  <2> SUFFICES ASSUME HubInv, Next, ctl.op = "starting", ctl' = Idle
               PROVE  registered' = ctl.before /\ started' = ctl.before
    BY DEF vars
  <2>1. Idle.op = "idle" /\ ctl'.op = "idle" /\ ctl # Idle /\ ctl' # ctl
    BY CallTypes DEF Idle
  <2>2. ~StartOk
    <3>1. StartOk => ctl'.op = "open"
      BY DEF StartOk, HubInv, TypeOK, CallRecord
    <3> QED
      BY <2>1, <3>1
  <2>3. StartFailed
    BY <2>1, <2>2 DEF Next, Open, StartClass, OpenDone, Unregister, UnregisterAll,
      UnregisterNext, UnregisterAllDone, DropControl, DropStop, Emit, BackendFail, Wake,
      CallNext, Request, PollNext, AbandonNext, Cancel
  <2> QED
    BY <2>3, StartFailedInv
<1> QED
  BY <1>1, HubInvariant, PTL DEF Spec, FailedOpenRestores
=============================================================================
