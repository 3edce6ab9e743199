--------------------------- MODULE DescriptorRing ---------------------------
(***************************************************************************)
(* The two ring devices of the OpenCL driver: the AMP peer                 *)
(* (ocl-bare/src/devices/amp.rs) and the accelerator (accel.rs).  Their    *)
(* rings are the same protocol: a host publishes a launch in the slot at   *)
(* tail, rings the doorbell, and later reaps the slot through progress;    *)
(* the service loop consumes the slots from head.  In remote mode the      *)
(* service loop runs on an engine of its own; in cooperative mode every    *)
(* host runs it inside progress.                                           *)
(*                                                                         *)
(* The doorbell is the accelerator's control word, and the event register  *)
(* the AMP peer's firmware sleeps on.  A host thread calls wfe between two *)
(* polls: on the board it sleeps until a sev has set its event register,   *)
(* in a hosted build wfe returns at once (Sleeps).  A launch is executed   *)
(* as a whole (run_all, or the opcode's handler) and may fail.  An index   *)
(* is a u32 that wraps (IndexMod); the slot's payload is the launch.       *)
(***************************************************************************)
EXTENDS Naturals, FiniteSets

CONSTANTS
    Hosts,          \* threads that submit launches and wait for them
    CooperativeHosts,  \* the ones that use a device whose ring has no engine
    Modes,          \* ServiceModes a device may have: "remote", "cooperative"
    Sleeping,       \* the modes in which wfe sleeps until an event (the board); in
                    \* the others it returns at once (hosted)
    Slots,          \* AMP_SLOTS, ACCEL_SLOTS
    IndexMod,       \* 2^32: head and tail are free-running AtomicU32s
    MaxAttempts,    \* Slots * 4: polls of a full ring before giving up
    MaxLaunches,    \* bound: launches submitted in a behaviour
    Engine,         \* the agent that runs the service loop in remote mode
    NoHost          \* a lock is free

ASSUME RingConstants ==
    /\ CooperativeHosts \subseteq Hosts
    /\ Modes \subseteq {"remote", "cooperative"} /\ Sleeping \subseteq Modes
    /\ Slots \in Nat \ {0} /\ IndexMod \in Nat
    /\ IndexMod > Slots /\ IndexMod % Slots = 0
    /\ MaxAttempts \in Nat /\ MaxLaunches \in Nat
    /\ Engine \notin Hosts /\ NoHost \notin Hosts

VARIABLES
    mode,         \* the device's ServiceMode, which never changes
    head, tail,   \* the ring's indices
    slots,        \* each slot's status word (with the result) and payload
    bell,         \* the doorbell
    submit,       \* the submit lock
    reaping,      \* the inflight lock, held across a reap
    inflight,     \* the in-flight list: pairs of slot and launch
    agent,        \* where each host and the engine are, and their locals
    wake,         \* each host's event register
    jobs          \* the launches: event status, executions, outcome

vars == <<mode, head, tail, slots, bell, submit, reaping, inflight, agent, wake, jobs>>

Cooperative == mode = "cooperative"
Sleeps == mode \in Sleeping

Launches == 1..MaxLaunches
Agents == Hosts \cup {Engine}
SlotIds == 0..Slots - 1
SlotOf(index) == index % Slots

Succ(index) == (index + 1) % IndexMod

\* launch: the one being published or awaited (0: all of them); slot: where it was
\* published; attempts: polls of the full ring; head, served, ok: the descriptor
\* service is at; scan: in-flight entries progress has yet to look at; back: where
\* progress returns to.
NewAgent(pc) == [pc |-> pc, launch |-> 0, slot |-> 0, attempts |-> 0, head |-> 0,
                 served |-> 0, ok |-> TRUE, scan |-> {}, back |-> "out"]

Init ==
    /\ mode \in Modes
    /\ head = 0 /\ tail = 0
    /\ slots = [s \in SlotIds |-> [status |-> "EMPTY", launch |-> 0]]
    /\ bell = FALSE
    /\ submit = NoHost /\ reaping = NoHost
    /\ inflight = {}
    /\ agent = [a \in Agents |-> NewAgent(IF a = Engine THEN "asleep" ELSE "out")]
    /\ wake = [h \in Hosts |-> FALSE]
    /\ jobs = [l \in Launches |-> [status |-> "queued", ran |-> 0, failed |-> FALSE]]

Goto(a, pc) == agent' = [agent EXCEPT ![a].pc = pc]

\* progress: service the ring first in cooperative mode, then reap.
ProgressEntry == IF Cooperative THEN "serve" ELSE "reap"

\* service has one consumer: without an engine only some threads use the device.
MayUse(h) == Cooperative => h \in CooperativeHosts
-----------------------------------------------------------------------------
(* dispatch and publish.                                                    *)

\* The event becomes CL_SUBMITTED before the submit lock is taken.
Submit(h, l) ==
    /\ agent[h].pc = "out" /\ MayUse(h)
    /\ jobs[l].status = "queued" /\ \A k \in Launches : k < l => jobs[k].status # "queued"
    /\ jobs' = [jobs EXCEPT ![l].status = "submitted"]
    /\ agent' = [agent EXCEPT ![h] = [NewAgent("lock") EXCEPT !.launch = l]]
    /\ UNCHANGED <<mode, head, tail, slots, bell, submit, reaping, inflight, wake>>

\* The accelerator has no opcode for the kernel: refused before the lock is taken.
Unsupported(h) ==
    /\ agent[h].pc = "lock"
    /\ jobs' = [jobs EXCEPT ![agent[h].launch].status = "refused"]
    /\ agent' = [agent EXCEPT ![h] = NewAgent("out")]
    /\ UNCHANGED <<mode, head, tail, slots, bell, submit, reaping, inflight, wake>>

LockSubmit(h) ==
    /\ agent[h].pc = "lock" /\ submit = NoHost
    /\ submit' = h
    /\ Goto(h, "reserve")
    /\ UNCHANGED <<mode, head, tail, slots, bell, reaping, inflight, wake, jobs>>

\* A failure before the publish point: the error is returned, the lock released.
GiveUp(h) ==
    /\ jobs' = [jobs EXCEPT ![agent[h].launch].status = "refused"]
    /\ submit' = NoHost
    /\ agent' = [agent EXCEPT ![h] = NewAgent("out")]
    /\ UNCHANGED <<mode, head, tail, slots, bell, reaping, inflight, wake>>

\* Reserving room in the in-flight list may fail for want of memory.
ReserveFails(h) == agent[h].pc = "reserve" /\ reaping = NoHost /\ GiveUp(h)
Reserve(h) ==
    /\ agent[h].pc = "reserve" /\ reaping = NoHost
    /\ Goto(h, "find")
    /\ UNCHANGED <<mode, head, tail, slots, bell, submit, reaping, inflight, wake, jobs>>

\* Mutant: the slot at tail is taken whatever its status.
FindAnySlot(h) ==
    /\ agent[h].pc = "find"
    /\ Goto(h, "write")
    /\ UNCHANGED <<mode, head, tail, slots, bell, submit, reaping, inflight, wake, jobs>>

\* The slot at tail is free.
FindSlot(h) ==
    /\ agent[h].pc = "find" /\ slots[SlotOf(tail)].status = "EMPTY"
    /\ Goto(h, "write")
    /\ UNCHANGED <<mode, head, tail, slots, bell, submit, reaping, inflight, wake, jobs>>

\* It is not: count the attempt, make progress, sleep, look again.
RingFull(h) ==
    /\ agent[h].pc = "find" /\ slots[SlotOf(tail)].status # "EMPTY"
    /\ agent[h].attempts < MaxAttempts
    /\ agent' = [agent EXCEPT ![h].attempts = @ + 1, ![h].pc = ProgressEntry,
                              ![h].back = "nap find"]
    /\ UNCHANGED <<mode, head, tail, slots, bell, submit, reaping, inflight, wake, jobs>>

OutOfResources(h) ==
    /\ agent[h].pc = "find" /\ slots[SlotOf(tail)].status # "EMPTY"
    /\ agent[h].attempts = MaxAttempts
    /\ GiveUp(h)

\* The payload write, from the moment "write" is reached.
WritePayload(h) ==
    /\ agent[h].pc = "write"
    /\ slots' = [slots EXCEPT ![SlotOf(tail)].launch = agent[h].launch]
    /\ Goto(h, "publish")
    /\ UNCHANGED <<mode, head, tail, bell, submit, reaping, inflight, wake, jobs>>

Publish(h) ==
    /\ agent[h].pc = "publish"
    /\ slots' = [slots EXCEPT ![SlotOf(tail)].status = "PENDING"]
    /\ Goto(h, "tail")
    /\ UNCHANGED <<mode, head, tail, bell, submit, reaping, inflight, wake, jobs>>

AdvanceTail(h) ==
    /\ agent[h].pc = "tail"
    /\ tail' = Succ(tail)
    /\ agent' = [agent EXCEPT ![h].pc = "ring", ![h].slot = SlotOf(tail)]
    /\ UNCHANGED <<mode, head, slots, bell, submit, reaping, inflight, wake, jobs>>

\* Mutant: the engine is not told.
RingNothing(h) ==
    /\ agent[h].pc = "ring"
    /\ Goto(h, "running")
    /\ UNCHANGED <<mode, head, tail, slots, bell, submit, reaping, inflight, wake, jobs>>

RingDoorbell(h) ==
    /\ agent[h].pc = "ring"
    /\ bell' = TRUE
    /\ wake' = [k \in Hosts |-> TRUE]
    /\ Goto(h, "running")
    /\ UNCHANGED <<mode, head, tail, slots, submit, reaping, inflight, jobs>>

SetRunning(h) ==
    /\ agent[h].pc = "running"
    /\ jobs' = [jobs EXCEPT ![agent[h].launch].status = "running"]
    /\ Goto(h, "push")
    /\ UNCHANGED <<mode, head, tail, slots, bell, submit, reaping, inflight, wake>>

\* Mutant: the launch does not join the in-flight list.
PushNothing(h) ==
    /\ agent[h].pc = "push" /\ reaping = NoHost
    /\ agent' = [agent EXCEPT ![h].pc = ProgressEntry, ![h].back = "unlock"]
    /\ UNCHANGED <<mode, head, tail, slots, bell, submit, reaping, inflight, wake, jobs>>

\* The launch joins the in-flight list; the eager progress ends dispatch.
PushInflight(h) ==
    /\ agent[h].pc = "push" /\ reaping = NoHost
    /\ inflight' = inflight \cup {[slot |-> agent[h].slot, launch |-> agent[h].launch]}
    /\ agent' = [agent EXCEPT ![h].pc = ProgressEntry, ![h].back = "unlock"]
    /\ UNCHANGED <<mode, head, tail, slots, bell, submit, reaping, wake, jobs>>

\* Mutant: the submit lock is kept.
KeepSubmit(h) ==
    /\ agent[h].pc = "unlock"
    /\ agent' = [agent EXCEPT ![h] = NewAgent("out")]
    /\ UNCHANGED <<mode, head, tail, slots, bell, submit, reaping, inflight, wake, jobs>>

UnlockSubmit(h) ==
    /\ agent[h].pc = "unlock"
    /\ submit' = NoHost
    /\ agent' = [agent EXCEPT ![h] = NewAgent("out")]
    /\ UNCHANGED <<mode, head, tail, slots, bell, reaping, inflight, wake, jobs>>
-----------------------------------------------------------------------------
(* Event::wait for one launch, Device::wait_all for all of them (launch 0), *)
(* and wfe.                                                                 *)

BeginWait(h, l) ==
    /\ agent[h].pc = "out" /\ MayUse(h)
    /\ l # 0 => jobs[l].status = "running"
    /\ agent' = [agent EXCEPT ![h] = [NewAgent("wait") EXCEPT !.launch = l]]
    /\ UNCHANGED <<mode, head, tail, slots, bell, submit, reaping, inflight, wake, jobs>>

Awaited(h) == IF agent[h].launch = 0 THEN inflight = {}
              ELSE jobs[agent[h].launch].status \in {"complete", "error"}

WaitReturns(h) ==
    /\ agent[h].pc = "wait" /\ Awaited(h)
    /\ agent[h].launch = 0 => reaping = NoHost
    /\ agent' = [agent EXCEPT ![h] = NewAgent("out")]
    /\ UNCHANGED <<mode, head, tail, slots, bell, submit, reaping, inflight, wake, jobs>>

WaitPolls(h) ==
    /\ agent[h].pc = "wait" /\ ~Awaited(h)
    /\ agent[h].launch = 0 => reaping = NoHost
    /\ agent' = [agent EXCEPT ![h].pc = ProgressEntry, ![h].back = "nap wait"]
    /\ UNCHANGED <<mode, head, tail, slots, bell, submit, reaping, inflight, wake, jobs>>

WaitForEvent(h) ==
    /\ agent[h].pc \in {"nap wait", "nap find"} /\ (Sleeps => wake[h])
    /\ wake' = [wake EXCEPT ![h] = FALSE]
    /\ Goto(h, IF agent[h].pc = "nap wait" THEN "wait" ELSE "find")
    /\ UNCHANGED <<mode, head, tail, slots, bell, submit, reaping, inflight, jobs>>
-----------------------------------------------------------------------------
(* progress: the reap, under the inflight lock.                             *)

LockInflight(h) ==
    /\ agent[h].pc = "reap" /\ reaping = NoHost
    /\ reaping' = h
    /\ agent' = [agent EXCEPT ![h].pc = "scan", ![h].scan = inflight]
    /\ UNCHANGED <<mode, head, tail, slots, bell, submit, inflight, wake, jobs>>

\* Mutants: a slot that still waits is reaped; a failed slot is not.
NotEmpty(s) == slots[s].status # "EMPTY"
Succeeded(s) == slots[s].status = "DONE"

Finished(s) == slots[s].status \in {"DONE", "ERROR"}

\* One in-flight entry: if its slot is finished its event completes, and then the
\* slot is freed; a publisher that looks in between finds the ring full as before.
ReapEntry(h, e) ==
    /\ agent[h].pc = "scan" /\ e \in agent[h].scan
    /\ agent' = [agent EXCEPT ![h].scan = @ \ {e}]
    /\ IF Finished(e.slot)
       THEN /\ jobs' = [jobs EXCEPT ![e.launch].status =
                          IF slots[e.slot].status = "DONE" THEN "complete" ELSE "error"]
            /\ slots' = [slots EXCEPT ![e.slot].status = "EMPTY"]
            /\ inflight' = inflight \ {e}
       ELSE UNCHANGED <<jobs, slots, inflight>>
    /\ UNCHANGED <<mode, head, tail, bell, submit, reaping, wake>>

UnlockInflight(h) ==
    /\ agent[h].pc = "scan" /\ agent[h].scan = {}
    /\ reaping' = NoHost
    /\ Goto(h, agent[h].back)
    /\ UNCHANGED <<mode, head, tail, slots, bell, submit, inflight, wake, jobs>>
-----------------------------------------------------------------------------
(* service, on the engine or inside a cooperative progress.                 *)

\* The doorbell interrupt, or the end of the firmware's wfe.
AckDoorbell ==
    /\ ~Cooperative
    /\ agent[Engine].pc = "asleep" /\ bell
    /\ bell' = FALSE
    /\ Goto(Engine, "serve")
    /\ UNCHANGED <<mode, head, tail, slots, submit, reaping, inflight, wake, jobs>>

Available == head # tail /\ slots[SlotOf(head)].status = "PENDING"

ServeNext(a) ==
    /\ agent[a].pc = "serve" /\ Available
    /\ agent' = [agent EXCEPT ![a].pc = "copy", ![a].head = head]
    /\ UNCHANGED <<mode, head, tail, slots, bell, submit, reaping, inflight, wake, jobs>>

ServeDone(a) ==
    /\ agent[a].pc = "serve" /\ ~Available
    /\ Goto(a, IF a = Engine THEN "asleep" ELSE "reap")
    /\ UNCHANGED <<mode, head, tail, slots, bell, submit, reaping, inflight, wake, jobs>>

\* The payload copy, from the moment "copy" is reached.
CopyPayload(a) ==
    /\ agent[a].pc = "copy"
    /\ agent' = [agent EXCEPT ![a].pc = "run", ![a].served = slots[SlotOf(agent[a].head)].launch]
    /\ UNCHANGED <<mode, head, tail, slots, bell, submit, reaping, inflight, wake, jobs>>

\* The launch's record after an execution.
Executed(job, ok) == [job EXCEPT !.ran = @ + 1, !.failed = @ \/ ~ok]

\* run_all, or the opcode's handler.
RunLaunch(a, ok) ==
    /\ agent[a].pc = "run"
    /\ jobs' = [jobs EXCEPT ![agent[a].served] = Executed(@, ok)]
    /\ agent' = [agent EXCEPT ![a].pc = "post", ![a].ok = ok]
    /\ UNCHANGED <<mode, head, tail, slots, bell, submit, reaping, inflight, wake>>

PostResult(a) ==
    /\ agent[a].pc = "post"
    /\ slots' = [slots EXCEPT ![SlotOf(agent[a].head)].status =
                   IF agent[a].ok THEN "DONE" ELSE "ERROR"]
    /\ Goto(a, "advance")
    /\ UNCHANGED <<mode, head, tail, bell, submit, reaping, inflight, wake, jobs>>

AdvanceHead(a) ==
    /\ agent[a].pc = "advance"
    /\ head' = Succ(agent[a].head)
    /\ Goto(a, "sev")
    /\ UNCHANGED <<mode, tail, slots, bell, submit, reaping, inflight, wake, jobs>>

SendEvent(a) ==
    /\ agent[a].pc = "sev"
    /\ wake' = [h \in Hosts |-> TRUE]
    /\ Goto(a, "serve")
    /\ UNCHANGED <<mode, head, tail, slots, bell, submit, reaping, inflight, jobs>>
-----------------------------------------------------------------------------
Service(a) ==
    \/ ServeNext(a) \/ ServeDone(a) \/ CopyPayload(a)
    \/ \E ok \in BOOLEAN : RunLaunch(a, ok)
    \/ PostResult(a) \/ AdvanceHead(a) \/ SendEvent(a)

Dispatch(h) ==
    \/ LockSubmit(h) \/ ReserveFails(h) \/ Reserve(h)
    \/ FindSlot(h) \/ RingFull(h) \/ OutOfResources(h) \/ WritePayload(h)
    \/ Publish(h) \/ AdvanceTail(h) \/ RingDoorbell(h) \/ SetRunning(h)
    \/ PushInflight(h) \/ UnlockSubmit(h)

Progress(h) ==
    \/ Service(h) \/ LockInflight(h) \/ UnlockInflight(h)
    \/ \E e \in agent[h].scan : ReapEntry(h, e)

Wait(h) == WaitReturns(h) \/ WaitPolls(h) \/ WaitForEvent(h)

Next ==
    \/ \E h \in Hosts, l \in Launches : Submit(h, l)
    \/ \E h \in Hosts, l \in Launches \cup {0} : BeginWait(h, l)
    \/ \E h \in Hosts : Unsupported(h) \/ Dispatch(h) \/ Progress(h) \/ Wait(h)
    \/ AckDoorbell \/ Service(Engine)

\* Threads and the engine keep running: a call that was entered goes on, the
\* doorbell starts the engine.  No call is promised, nor that a thread which spins on a
\* lock gets it before others do, nor that the accelerator refuses a kernel, and wfe
\* returns only as Sleeps says.
Fairness ==
    /\ \A h \in Hosts : WF_vars(Dispatch(h) \/ Progress(h) \/ Wait(h))
    /\ WF_vars(AckDoorbell \/ Service(Engine))

Spec == Init /\ [][Next]_vars /\ Fairness
-----------------------------------------------------------------------------
(* Properties.                                                              *)

PublishPc == {"write", "publish", "tail", "ring", "running", "push"}
ServicePc == {"serve", "copy", "run", "post", "advance", "sev"}
DispatchPc == {"lock", "reserve", "find", "nap find", "unlock"} \cup PublishPc
Entries == [slot : SlotIds, launch : Launches]

\* Every variable holds what the code's types allow.
TypeOK ==
    /\ mode \in Modes
    /\ head \in 0..IndexMod - 1 /\ tail \in 0..IndexMod - 1
    /\ slots \in [SlotIds -> [status : {"EMPTY", "PENDING", "DONE", "ERROR"},
                              launch : Launches \cup {0}]]
    /\ bell \in BOOLEAN
    /\ submit \in Hosts \cup {NoHost} /\ reaping \in Hosts \cup {NoHost}
    /\ inflight \subseteq Entries
    /\ agent \in [Agents ->
         [pc : {"out", "asleep", "wait", "nap wait", "reap", "scan"} \cup DispatchPc \cup ServicePc,
          launch : Launches \cup {0}, slot : SlotIds, attempts : 0..MaxAttempts,
          head : 0..IndexMod - 1, served : Launches \cup {0}, ok : BOOLEAN,
          scan : SUBSET Entries, back : {"out", "nap find", "nap wait", "unlock"}]]
    /\ wake \in [Hosts -> BOOLEAN]
    /\ jobs \in [Launches -> [ran : Nat, failed : BOOLEAN,
                              status : {"queued", "submitted", "running", "complete",
                                        "error", "refused"}]]

\* The unsafe Sync for AmpSlot and AccelSlot: no host writes the payload of a slot
\* that a service loop is copying, although neither takes the other's lock.
PayloadImmutable ==
    \A h \in Hosts, a \in Agents : agent[h].pc = "write" /\ agent[a].pc = "copy"
        => SlotOf(tail) # SlotOf(agent[a].head)

\* The ring is never wedged: every slot that is not EMPTY is going to be reaped,
\* because it is in flight or the publisher is about to put it there.
NoSlotLeaks ==
    \A s \in SlotIds : slots[s].status # "EMPTY" =>
        \/ \E e \in inflight : e.slot = s
        \/ \E h \in Hosts :
             \/ agent[h].pc = "tail" /\ SlotOf(tail) = s
             \/ agent[h].pc \in {"ring", "running", "push"} /\ agent[h].slot = s

\* The doorbell races with the engine going to sleep: the engine never sleeps,
\* with no doorbell pending, over a published descriptor.
NoLostDoorbell ==
    ~Cooperative /\ agent[Engine].pc = "asleep" /\ ~bell =>
        head = tail \/ \E h \in Hosts : agent[h].pc = "ring"

\* A host that sleeps in the wfe after a progress of its own, with no event for it.
Overslept(h, pc) == Sleeps /\ ~Cooperative /\ agent[h].pc = pc /\ ~wake[h]

\* Waiting for a launch, or for all of them, comes back, whatever other hosts do with
\* the ring and its locks, with one exception: on a board, next to a remote engine, the
\* wfe of the wait loop may come after the last event and never return.
WaitsEndOrOversleep ==
    \A h \in Hosts : agent[h].pc = "wait" ~>
        agent[h].pc = "out" \/ []Overslept(h, "nap wait")

\* A launch is published or refused: a full ring and two contended locks do not hold a
\* dispatch forever, with the same exception in the loop that waits for a slot, which
\* keeps the submit lock from every other dispatch.
SubmitsEndOrOversleep ==
    \A h \in Hosts : agent[h].pc \in DispatchPc ~>
        agent[h].pc = "out" \/ \E g \in Hosts : []Overslept(g, "nap find")

\* "Blocks until every in-flight command has completed, polling Device::progress and
\* sleeping in between" (device.rs), "Waits until the command retires" (objects.rs):
\* the two wait loops return, the launches they wait for being executed in the end.
WaitsEnd ==
    \A h \in Hosts : agent[h].pc = "wait" ~> agent[h].pc = "out"

\* The device keeps the promise every back end makes.
Contract == INSTANCE LaunchContract WITH
    MaxUnits <- 1,
    status <- [l \in Launches |-> jobs[l].status],
    units  <- [l \in Launches |-> IF jobs[l].status = "queued" THEN 0 ELSE 1],
    ran    <- [l \in Launches |-> jobs[l].ran],
    failed <- [l \in Launches |-> jobs[l].failed]
KeepsContract == Contract!Spec
=============================================================================
