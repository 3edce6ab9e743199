---------------------------- MODULE LinuxBackend ----------------------------
(***************************************************************************)
(* The keyboard class of the Linux backend (kuitui-control-linux), from    *)
(* the kernel's evdev nodes to the shared keyboard state: lib.rs opens the *)
(* nodes and rescans for new ones, the class task of task.rs adopts,       *)
(* reads and retires them, and what it emits is applied to KeyboardState   *)
(* or lost in the queue of the subscription.                               *)
(*                                                                         *)
(* The kernel acts between any two steps of the thread that calls poll.    *)
(* What it does is external: every open of a node has a queue of its own,  *)
(* an overrun leaves a marker and the newest record, and after an unplug   *)
(* a read fails at once.  A node that is plugged in again has the same     *)
(* device number, which is the DeviceId.                                   *)
(***************************************************************************)
EXTENDS KeyboardState, FiniteSets, Sequences, SequencesExt

CONSTANTS
    Devices,    \* device numbers of the keyboards
    KeysOf,     \* the key codes of each keyboard
    Hashes,     \* the hash functions that native_start may be
    QueueSize,  \* records in the kernel's queue of an open node
    MaxKeys,    \* bound: key transitions
    MaxPlugs,   \* bound: nodes plugged in or unplugged
    MaxStarts,  \* bound: registrations of the class
    MaxFaults,  \* bound: scans, opens and reads that fail
    MaxLost     \* bound: events dropped by the subscription's queue

ASSUME LinuxConstants ==
    /\ IsFiniteSet(Devices) /\ KeysOf \in [Devices -> SUBSET Codes]
    /\ Hashes \subseteq [Native -> Indices]
    /\ QueueSize \in Nat \ {0, 1}
    /\ {"SYN_DROPPED", "SHIFT"} \cap Codes = {}
    /\ {MaxKeys, MaxPlugs, MaxStarts, MaxFaults, MaxLost} \subseteq Nat

VARIABLES
    node,       \* kernel: whether a node exists and which of its keys are down
    session,    \* the class is registered
    pc,         \* where the thread is: "app", or inside poll
    inbox,      \* opens found by a rescan and not yet adopted
    devices,    \* the opens the task reads, with their decoding state
    index,      \* position of drain in devices
    published,  \* the device ids that devices() answers
    keyboard,   \* the shared keyboard state
    missed,     \* history: codes of which a transition was not delivered in order or found
                \* no slot, and "SHIFT" when the task itself missed one of a shift
    count       \* what the bounds count

vars == <<node, session, pc, inbox, devices, index, published, keyboard, missed, count>>

Plugged == {d \in Devices : node[d].plugged}
Down == UNION {node[d].down : d \in Devices}

\* An open node: dead after an unplug; shift is the modifier the task has seen held.
Opened(d) == [id |-> d, dead |-> FALSE, shift |-> FALSE, queue |-> <<>>]
Opens == devices \o inbox
Ids(opens) == {o.id : o \in Range(opens)}
Live(opens) == {o.id : o \in {p \in Range(opens) : ~ p.dead}}

Record(code, state) == [code |-> code, state |-> state]
Dropped == Record("SYN_DROPPED", "none")
\* The codes that open nodes other than d's, or that d's, have records of.
Pending(opens) == {r.code : r \in UNION {Range(o.queue) : o \in opens}} \ {Dropped.code}
PendingOf(d) == Pending({o \in Range(Opens) : o.id = d})
PendingElsewhere(d) == Pending({o \in Range(Opens) : o.id # d})

Init ==
    /\ node \in [Devices -> [plugged : BOOLEAN, down : {{}}]]
    /\ session = FALSE /\ pc = "app"
    /\ inbox = <<>> /\ devices = <<>> /\ index = 1
    /\ published = {}
    /\ \E start \in Hashes : keyboard = NewKeyboard(start)
    /\ missed = {}
    /\ count = [keys |-> 0, plugs |-> 0, starts |-> 0, faults |-> 0, lost |-> 0]

Count(what, max) == count[what] < max /\ count' = [count EXCEPT ![what] = @ + 1]
Faulty(fails) == IF fails THEN Count("faults", MaxFaults) ELSE UNCHANGED count
-----------------------------------------------------------------------------
(* The kernel and the user.                                                 *)

Plug(d) ==
    /\ ~ node[d].plugged /\ Count("plugs", MaxPlugs)
    /\ node' = [node EXCEPT ![d].plugged = TRUE]
    /\ UNCHANGED <<session, pc, inbox, devices, index, published, keyboard, missed>>

\* Every open of the node fails from now on, and its records are gone.
Killed(opens, d) ==
    [i \in DOMAIN opens |->
        IF opens[i].id = d THEN [opens[i] EXCEPT !.dead = TRUE, !.queue = <<>>] ELSE opens[i]]

Unplug(d) ==
    /\ node[d].plugged /\ Count("plugs", MaxPlugs)
    /\ node' = [node EXCEPT ![d] = [plugged |-> FALSE, down |-> {}]]
    /\ devices' = Killed(devices, d) /\ inbox' = Killed(inbox, d)
    /\ missed' = missed \cup node[d].down \cup PendingOf(d)
    /\ UNCHANGED <<session, pc, index, published, keyboard>>

Enqueued(opens, d, record) ==
    [i \in DOMAIN opens |->
        IF opens[i].id # d \/ opens[i].dead THEN opens[i]
        ELSE [opens[i] EXCEPT !.queue =
                IF Len(@) < QueueSize THEN Append(@, record) ELSE <<Dropped, record>>]]

\* A key of d changes; the kernel queues a record for every open of the node.  Repeats,
\* which change no state that is modelled, are left out.
Key(d, code, state) ==
    /\ node[d].plugged /\ code \in KeysOf[d] /\ Count("keys", MaxKeys)
    /\ (state = "press") = (code \notin node[d].down)
    /\ node' = [node EXCEPT ![d].down = CASE state = "press"   -> @ \cup {code}
                                          [] state = "release" -> @ \ {code}]
    /\ devices' = Enqueued(devices, d, Record(code, state))
    /\ inbox' = Enqueued(inbox, d, Record(code, state))
    /\ LET overrun == \E o \in Range(Opens) : o.id = d /\ Len(o.queue) >= QueueSize
           shared == \/ code \in PendingElsewhere(d)
                     \/ \E e \in Devices \ {d} : code \in node[e].down
       IN  missed' = missed \cup (IF overrun THEN PendingOf(d) ELSE {})
                       \cup (IF overrun /\ PendingOf(d) \cap Shifts # {} THEN {"SHIFT"} ELSE {})
                       \cup (IF d \notin Live(Opens) \/ shared THEN {code} ELSE {})
    /\ UNCHANGED <<session, pc, index, published, keyboard>>
-----------------------------------------------------------------------------
(* Backend: start and stop.                                                 *)

\* scan and epoll_add: the nodes that could be opened, in the order of the directory.
Scan(wanted, order) ==
    /\ order \in SetToAllKPermutations(wanted)
    /\ Faulty(ToSet(order) # wanted)

NewOpens(order) == [i \in DOMAIN order |-> Opened(order[i])]

\* start: the first devices are published without a DeviceAdded.  A scan that is denied
\* everything fails the start.
Start(order) ==
    /\ pc = "app" /\ ~ session /\ count.starts < MaxStarts
    /\ order \in SetToAllKPermutations(Plugged)
    /\ ToSet(order) # Plugged => count.faults < MaxFaults
    /\ session' = TRUE
    /\ devices' = NewOpens(order)
    /\ published' = ToSet(order)
    /\ count' = [count EXCEPT !.starts = @ + 1,
                              !.faults = IF ToSet(order) = Plugged THEN @ ELSE @ + 1]
    /\ UNCHANGED <<node, pc, inbox, index, keyboard, missed>>

\* stop and release: the task ends at once and closes its devices, read or not.
Stop ==
    /\ pc = "app" /\ session
    /\ session' = FALSE
    /\ devices' = <<>> /\ inbox' = <<>> /\ published' = {}
    /\ missed' = missed \cup Pending(Range(Opens))
    /\ UNCHANGED <<node, pc, index, keyboard, count>>
-----------------------------------------------------------------------------
(* LinuxBackend::poll.                                                      *)

Ready == \E o \in Range(Opens) : o.dead \/ o.queue # <<>>

\* epoll_wait times out with nothing ready, and the timeout was not zero.
TimedOut ==
    /\ pc = "app" /\ session /\ ~ Ready
    /\ pc' = "rescan"
    /\ UNCHANGED <<node, session, inbox, devices, index, published, keyboard, missed, count>>

\* A device is ready: no rescan.  A call with a zero timeout, or one that a signal
\* interrupts, does the same, or nothing at all.
Returned ==
    /\ pc = "app" /\ session /\ Ready
    /\ pc' = "adopt"
    /\ UNCHANGED <<node, session, inbox, devices, index, published, keyboard, missed, count>>

\* Mutant: what is published is not looked at.
KnownInInbox == Ids(inbox)

\* The ids that rescan passes over.
Known == published \cup Ids(inbox)

\* rescan: nodes that are not known are opened, watched and handed to the task.
Rescan(order) ==
    /\ pc = "rescan"
    /\ Scan(Plugged \ Known, order)
    /\ inbox' = inbox \o NewOpens(order)
    /\ pc' = "adopt"
    /\ UNCHANGED <<node, session, devices, index, published, keyboard, missed>>

\* ClassTask::poll, adopt: DeviceAdded, publish and read them from now on.
Adopt ==
    /\ pc = "adopt"
    /\ devices' = Opens /\ inbox' = <<>>
    /\ published' = published \cup Ids(inbox)
    /\ index' = 1 /\ pc' = "drain"
    /\ UNCHANGED <<node, session, keyboard, missed, count>>

\* DeviceState::key for the record at j of a batch, and what becomes of the event it
\* emits: applied, or lost.  The native set may have no slot for an applied press.  The
\* history forgets a miss when an event that reports how the key really is was applied
\* last; a native code may by then be stored twice.
DecodedRecord(d, records, lost, j, st) ==
    LET r == records[j]
        shift == CASE r.code \in Shifts /\ r.state = "press" -> TRUE
                   [] r.code \in Shifts /\ r.state = "release" -> FALSE
                   [] OTHER -> st.shift
        refused == r.code \in Native /\ r.state = "press" /\ ~ HasSlot(st.keyboard, r.code)
        settles == /\ r.code \in Normalized \ PendingElsewhere(d)
                   /\ \A i \in j + 1..Len(records) : records[i].code # r.code
                   /\ (r.state = "press") = (r.code \in Down)
    IN  CASE r = Dropped -> st
          [] r # Dropped /\ j \in lost ->
               [st EXCEPT !.shift = shift, !.missed = @ \cup {r.code}]
          [] OTHER ->
               [shift |-> shift,
                keyboard |-> Applied(st.keyboard, r.code, r.state, shift),
                missed |-> CASE settles -> st.missed \ {r.code}
                             [] refused -> st.missed \cup {r.code}
                             [] OTHER -> st.missed]

\* The records of a batch, one after the other.
Decoded(d, records, lost) ==
    LET st[j \in 0..Len(records)] ==
            IF j = 0 THEN [shift |-> devices[index].shift, keyboard |-> keyboard, missed |-> missed]
            ELSE DecodedRecord(d, records, lost, j, st[j - 1])
    IN  st[Len(records)]

\* read_available: a read returns what is queued, and the next read goes on.
ReadBatch(lost) ==
    /\ pc = "drain" /\ index <= Len(devices)
    /\ ~ devices[index].dead /\ devices[index].queue # <<>>
    /\ LET records == devices[index].queue
           after == Decoded(devices[index].id, records, lost)
       IN  /\ lost \subseteq {j \in DOMAIN records : records[j] # Dropped}
           /\ count.lost + Cardinality(lost) <= MaxLost
           /\ count' = [count EXCEPT !.lost = @ + Cardinality(lost)]
           /\ devices' = [devices EXCEPT ![index].queue = <<>>, ![index].shift = after.shift]
           /\ keyboard' = after.keyboard
           /\ missed' = after.missed
    /\ UNCHANGED <<node, session, pc, inbox, index, published>>

\* EAGAIN, or an error that leaves the device open: drain goes on to the next device.
ReadEnds ==
    /\ pc = "drain" /\ index <= Len(devices) /\ ~ devices[index].dead
    /\ Faulty(devices[index].queue # <<>>)
    /\ index' = index + 1
    /\ UNCHANGED <<node, session, pc, inbox, devices, published, keyboard, missed>>

\* Mutant: the entry of the device stays in the snapshot.
NotUnpublished(id) == published

\* unpublish
Unpublished(id) == published \ {id}

\* ENODEV, or the end of file or EIO of a node that is still there, read or not: swap_remove,
\* DeviceRemoved and unpublish; the index stays.
Retire ==
    /\ pc = "drain" /\ index <= Len(devices)
    /\ Faulty(~ devices[index].dead)
    /\ devices' = SubSeq([devices EXCEPT ![index] = devices[Len(devices)]], 1, Len(devices) - 1)
    /\ published' = Unpublished(devices[index].id)
    /\ missed' = missed \cup Pending({devices[index]})
    /\ UNCHANGED <<node, session, pc, inbox, index, keyboard>>

\* The task is pending again and poll returns.
DrainDone ==
    /\ pc = "drain" /\ index > Len(devices)
    /\ pc' = "app" /\ index' = 1
    /\ UNCHANGED <<node, session, inbox, devices, published, keyboard, missed, count>>

InPoll ==
    \/ \E order \in SetToAllKPermutations(Devices) : Rescan(order)
    \/ Adopt
    \/ \E lost \in SUBSET (1..QueueSize) : ReadBatch(lost)
    \/ ReadEnds \/ Retire \/ DrainDone

Next ==
    \/ \E d \in Devices : Plug(d) \/ Unplug(d)
    \/ \E d \in Devices, code \in Codes, state \in {"press", "release"} :
           Key(d, code, state)
    \/ \E order \in SetToAllKPermutations(Devices) : Start(order)
    \/ Stop
    \/ TimedOut \/ Returned
    \/ InPoll

\* The caller keeps calling poll with a bounded timeout.
Fairness == WF_vars(InPoll \/ Returned \/ TimedOut)

Spec == Init /\ [][Next]_vars /\ Fairness
-----------------------------------------------------------------------------
(* Properties *)

\* rescan against adopt, drain, hotplug and a device number that is used again: what
\* devices() answers is what the task reads, and no node is read through two opens, which
\* would deliver each of its events twice.
OneReaderPerDevice ==
    /\ published = Ids(devices)
    /\ \A i, j \in DOMAIN Opens : i # j => Opens[i].id # Opens[j].id

\* From the kernel to is_pressed and modifiers, over hotplug, restarts, batches, lost
\* events and overruns: a key of which no record is on its way, and which missed no
\* transition since it was last reported as it is, is held in the keyboard state exactly
\* when it is down on some keyboard; and the shift flag then agrees with the shifts, unless
\* an overrun hid a transition of one from the task.
KeyboardIsCurrent ==
    LET known == Codes \ (missed \cup Pending(Range(Opens)))
    IN  /\ \A c \in known : IsPressed(keyboard, c) <=> c \in Down
        /\ Shifts \subseteq known /\ "SHIFT" \notin missed => (keyboard.held <=> Shifts \cap Down # {})

\* "a bounded timeout ... is what turns a plugged device into DeviceAdded and DeviceRemoved
\* events" (lib.rs): while the class stays registered, and the nodes do not come and go for
\* ever, the task comes to read exactly the nodes that exist.
HotplugIsNoticed ==
    []<>(session => Ids(devices) = Plugged /\ Live(devices) = Plugged)
=============================================================================
