# TLA+ verification of Codevar

Codevar is a Rust workspace of about seventy crates: a text editor engine, a
retained-mode user-interface toolkit, GPU back ends, an OpenCL compiler and a
bare-metal OpenCL driver, and the platform and runtime crates below them. This
directory models the parts of it in which several actors meet, checks them with
TLC on small instances and proves all of their safety properties with TLAPS for
every value of the constants that meets the assumptions part 4 names.

- Part 1 is the inventory: the components and what makes each one hard.
- Part 2 describes the modules: state, actions, and how they correspond to the code.
- Part 3 lists the runs, with their bounds and the fairness they assume.
- Part 4 describes the proofs.
- Part 5 lists the disagreements between code and documentation.
- Part 6 is what is not modelled, and the plan.

`PROJECT.json` maps every definition to the lines it models.

## 1. Inventory

### Modelled

| Component | State | Operations | What is hard | What makes it correct |
|---|---|---|---|---|
| Input hub (`kuitui-control`: `hub.rs`, `stream.rs`, `control.rs`, `backend.rs`) | per subscription a bounded queue, a demand counter, a drop counter, a terminal error and a parked waker; the set of registered classes | `open`, `unregister`, `unregister_all`, drop; `emit`, `fail`; `request`, `poll_next`, `next`, `cancel` | backend threads emit while consumers park; wakers are woken after the lock is released; an open of several classes fails half-way | no lost wake-up, no silent loss, backpressure, exact rollback, streams end |
| Input pump (`kuitui/src/input/pump.rs`) | spent demand, drop count, two frame buffers | `pump`, `poll_pump`, `finish_frame`, `cancel` | demand is granted again in batches; motion is coalesced over several drains; the backend emits between two polls | demand is conserved, the frame is faithful, the loop is woken |
| Executor (`inssched`: `executor.rs`, `policy.rs`, `task.rs`) | task control blocks, ready queue, pending list, timer wheel, virtual clock, one signal per task | `spawn`, `run`, `run_until_idle`, `tick`, wakers, `Sleep`, `YieldNow` | wakers are used from other threads at any moment; charging cycles fires deadlines; dropped sleeps leave entries behind | no wake lost, every sleeper covered, queues agree with states, the clock adds up, the policy picks the best |
| SMP device (`ocl-bare`: `devices/smp.rs`, `exec.rs`) | one job descriptor, epoch, claim and done counters, per-worker acknowledgements | `submit`, `worker_loop`, `wait_workers`, `run_claimed` | workers read the descriptor without a lock; `wfe`/`sev`; cores boot late; the epoch wraps | the descriptor is stable, each work-group runs once, errors belong to their launch, launches retire |
| Ring devices (`ocl-bare`: `devices/amp.rs`, `devices/accel.rs`, `Event::wait`) | ring indices, slots, doorbell, in-flight list, two locks | `submit`, `progress`, `service`, `wait`, `wait_all` | host and engine share slots without a common lock; full ring; wrapping indices; sleeping between polls | payload immutable, executed once, no slot leaks, no doorbell lost, waits end unless the host oversleeps |
| Keyboard and pointer state (`kuitui/src/input/keyboard`, `pointer`) | a sequence counter over a dozen atomics; the pressed keys, an open-addressed set of native codes, the held modifiers | `apply`, `finish_frame`, `snapshot`, `is_pressed` | readers copy field by field while the pump stores; loads and stores of fields are relaxed; colliding native codes and tombstones; two sides of a modifier | a snapshot is one transition wherever the counter orders its loads; a key is held exactly when it is down |
| Linux backend (`kuitui-control-linux`: `lib.rs`, `task.rs`, `device.rs`) | per class the open nodes, the inbox of a rescan, the published devices; per node its modifiers and, in the kernel, a bounded queue | `start`, `stop`, `poll` with its rescan, and the class task that adopts, reads and retires nodes | nodes come and go between any two steps and reuse their numbers; records and events are lost; several keyboards feed one state | each node read once, hotplug noticed, the keyboard state right wherever it can be |
| WebSocket connection (`wsocket`: `connection.rs`, `client.rs`, `server.rs`, `stream.rs`) | per endpoint the life-cycle state, two buffers, the message queue, the fragments of a message, the two Close flags, a sticky error | `process`, `send_*`, `close`, `fail`; `read`, `write`, `flush`, `close` of the stream | two endpoints close, ping, fail and drop at the same time; control frames between fragments; errors skip a flush | nothing follows a Close, messages whole and in order, no half-open side, no reader blocked for ever |

The hub and the pump meet in one subscription: the pump requests and polls, the
hub queues and wakes. `Subscriber` holds the operators both modules use, so that
the two models cannot drift apart. The two device families implement the same
trait; `LaunchContract` states what the trait promises and both are checked
against it. The Linux backend is the source of what the hub queues, and the
keyboard state the sink of what the pump drains: `LinuxBackend` goes from the
kernel's key to `is_pressed` with the queue between them reduced to "delivered or
lost", which is what `InputHub` and `InputPump` show of it; `KeyboardState` says
what is stored and `SeqLock` how.

### Not modelled

`PROJECT.json` lists every other component with its reason. In short:

- the fonts, the OpenCL compiler, the regular-expression compiler and the
  utilities, together most of the workspace's lines, are sequential code whose
  correctness is about data: a parsed table, a rasterised outline, a program and
  its translation. A model of them that TLC could check would be the program
  again, on inputs too small to matter;
- the graphics, launcher and ICD crates are calls into foreign interfaces, and so
  are the Windows, macOS and browser input backends;
- `tls` rests on its cryptographic primitives and on exact encodings;
- the pointer class of the Linux backend has the control of the keyboard class
  and other decoding, and what a pointer event stores is sequential arithmetic;
- the reactive engine, the editor's shared buffers, `dbus`, `wayland`, the
  reference counts of the OpenCL objects and the instruction scheduler are
  candidates for later modules (part 6).

## 2. Modules

| Module | Models | Role |
|---|---|---|
| `Subscriber` | one subscription of the hub, operation by operation | shared operators |
| `InputHub` | hub, subscriptions, control, backend contract | component |
| `InputPump` | the frame loop's consumer over one `Subscriber` | component, composed with the subscription |
| `Executor` | executor thread, policies, timer, foreign wakers | component |
| `ExecutorHistory` | `Executor` with a history variable: who was dispatched while a task waited | for one property |
| `LaunchContract` | what a device promises of its launches | abstract specification |
| `SmpDevice` | SMP back end | component, implements `LaunchContract` |
| `DescriptorRing` | AMP and accelerator back ends | component, implements `LaunchContract` |
| `KeyboardState` | what a key event makes of the keyboard state | shared operators |
| `SeqLock` | the sequence lock of keyboard and pointer state | component |
| `LinuxBackend`, `LinuxBackendMC` | kernel, Linux backend and keyboard state | composition of `KeyboardState` with the backend; its instance |
| `WebSocket` | two connections and the transport between them | component |
| `ExecutorMC` | | instance of `ExecutorHistory` |
| `InputHubProofs`, `InputPumpProofs`, `ExecutorProofs`, `SmpDeviceProofs`, `DescriptorRingProofs`, `SeqLockProofs`, `WebSocketProofs`, `LinuxBackendProofs` | | theorems and proofs, one module per component |

A cfg gives the constants of a component module their values directly; the two
MC modules define constants that are functions. Definitions introduced by a comment
"Mutant" are plausible mistakes in the definition that follows them. They are
used only to show that each property can fail.

### InputHub

Each hub operation runs under the hub's lock, so it is one step on `subs` (the
subscriber records) and `live` (the ids in the hub). The wakers an operation
collects are woken after the lock is released, so they travel through `wakes`
and `Wake` delivers them. `task` is what the consumer does: `idle`, `polling`,
or `parked` after a poll answered `Pending`. A consumer in `NextCallers` calls
`Subscription::next` (request one, then poll until ready), any other one
requests and polls by hand; either may drop a pending future (`AbandonNext`),
which leaves its waker behind, and either may cancel.

`Control` is `&mut self`: one call at a time. `open` is several steps, because the
backend may emit from the moment `start` is entered: `Open`, then `StartClass`
and `StartOk` per class that is not registered, then `OpenDone`, or `StartFailed`
with its rollback. `started` is the backend's side: classes whose `start` was
entered and whose `stop` has not returned. That a backend emits nothing after
`stop` returned is its contract (`backend.rs`), and is assumed.

### InputPump

One subscription and its pump. `pc` is `app` between calls, `loop` inside
`drain`, `parked` after `poll_pump` answered `Pending`. Each request and each
poll inside the drain takes and releases the hub's lock, so `Emit` and
`EndStream` happen between any two of them. Events are reduced to what staging
tells apart: a press or release of one key, a motion of one unit, a button, and
everything else. `log` keeps the raw events of a frame, against which the staged
and the delivered frames are compared, position by position (`CoalescesTo`). `drain`'s branch for `Ready(None)` and the
failing `request` cannot be reached by an open pump (a terminal error cancels
the subscription in the same step) and have no action.

### Executor

`pc` follows the executor thread: `turn` (top of the loop), `dispatch`, `poll`,
`polled`, `idle`. `Harvest`, `Dispatch`, the poll and `Settle` are separate steps,
so that foreign wakes fall between the two takes of the signal in `run_task`. A
future is anything built from what the crate offers: it may finish, yield,
sleep, wait for an event of another thread, or race the last two, dropping the
`Sleep`. A foreign source first makes its event visible (`Fire`), then uses the
waker (`WakeTask`). `swap_remove` in `harvest` scrambles the order of arrivals,
modelled as any order. The policy is chosen once, at the start (`core.policy`
from `Policies`). The wheel is a set of entries: the heap's order matters
only for `next_deadline`, which is a minimum.

Futures end: a task is polled `MaxPolls` times at most. `WokenIsPolled` rests on that.
Without it the property is false under two of the three policies: `Priority` and
`ShortestJobFirst` pick an urgent task that yields on every turn (`policy.rs:92`, `:132`),
and a woken one behind it is never polled. What round robin promises next to tasks that
yield for ever is `NobodyPassesTwice`, a safety property: nobody is dispatched twice while
another task waits. `ExecutorHistory` adds the variable it is stated with; it changes
nothing else.

### SmpDevice

`core[c].pc` follows each host in `execute` and each worker in `worker_loop`. One
action is one shared-memory access (or a run of accesses to private state); the
descriptor write and the descriptor copy are spans, in progress from the moment
their label is reached, and `DescriptorStable` says that they never overlap. The
atomics are sequentially consistent in the model; the code's release/acquire
pairs order exactly the accesses the argument uses. `wake[w]` is the core's event
register: `sev` sets it, `wfe` waits for it and clears it (external to the
repository's sources, modelled from how the driver uses it and describes it,
`smp.rs:38`). `WaitsForWorkers` says whether the program calls `wait_workers`
before it submits; the epoch is an integer modulo `EpochMod` (2^32 in the code).

### DescriptorRing

The AMP ring and the accelerator ring are the same protocol in two files; the
map points most actions at `amp.rs` and the composite ones at `accel.rs`.
`mode` is the device's `ServiceMode`, fixed at the start and drawn from `Modes`:
an engine of its own ("remote"), or service inside every `progress`
("cooperative"). `CooperativeHosts` are the threads that use the device in the second
case: the ring has one consumer (`amp.rs:21`). `Sleeping` is the set of modes in which
`wfe` sleeps until the thread's event register is set, as on the board; in the others it
returns at once, as in a hosted build. Both locks are spin locks that any thread may win.
Reserving
room for the in-flight entry may fail; a launch may fail; the accelerator may
have no opcode for a kernel. The event's completion and the freeing of the slot
are one step of `ReapEntry`: a publisher that looks in between finds the slot
taken, as it does before.

### LaunchContract

A launch goes from queued to submitted, running, and complete or error, or is
refused before anything ran. It runs each of its units once, with no unit of
another launch while it is half-way, and retires only after all of them, with an
error exactly when one of them failed. A unit is a work-group for the SMP device and the whole
range for the ring devices. For the SMP device the status "error" is the error
`submit` returns; the event itself stays at `CL_RUNNING` there.

### SeqLock

The writer's `fetch_add`, each store of a field, the reader's two loads of the
counter and each load of a field are steps. A field's value is the number of times
it was stored, so that any mix of two transitions shows. Which fields an event
stores, how often and in which order is arbitrary, which covers both states,
`finish_frame` included. There is one writer, as `state.rs:101` says: the pump.
A step is taken when the access becomes visible. `Gaps` says which relaxed accesses the
build lets pass the counter, and both gaps follow from the orderings in the code:

- "loads": the second load of the counter may be performed before any field load.
  `Acquire` keeps what follows it behind it and says nothing of what precedes it.
- "stores": a field may be stored before the increment that announces it is visible
  (`StoreAhead`). `AcqRel` keeps later accesses behind the load of the `fetch_add`, not
  behind its store. The second `fetch_add` is a `Release`, which keeps the stores before it.

A reader marks as `loose` each field whose load the counter did not validate: one
performed after the second load of the counter, or of a store ahead of the first
increment.

### KeyboardState and LinuxBackend

`KeyboardState` has the pressed set, the native set with its probe, insertion and
tombstones, and one modifier family (shift) with its two keys. The hash
is any function of the constant `Hashes`, so that codes collide in two slots as they do
in 32.

`LinuxBackend` puts it behind the backend. The kernel's side is external: a node
exists or not and has keys down; every open of it has a queue of `QueueSize`
records; an overrun leaves `SYN_DROPPED` and the newest record; an unplug makes
every read fail and its queue vanish. `pc` follows the one thread inside `poll`:
`TimedOut` or `Returned` from `epoll_wait`, then `Rescan`, `Adopt`, and one step per
read of `drain`. A kernel step may fall between any two of them. A scan, an open, a
watch or a read may fail (`MaxFaults`), a read also in the way that retires a node which is
still there (`Ok(0)` or `EIO`; the next rescan opens it again), and any decoded event may be lost on its way to the
state (`MaxLost`): a full queue of the subscription, as `InputHub` models it.
Repeats change nothing that is modelled.

`missed` is history: the codes of which a transition did not reach the state, or
reached it out of the order in which it happened. It grows at an overrun, an
unplug with keys down, a stop or a retirement with records queued, a key pressed while nobody reads
its node, a lost event, a press for which the native set has no slot, and when two
keyboards use the same code at once; it
shrinks when an event that says how a normalized key really is was applied
last. Native codes stay in it, because of the duplicate that part 5 describes.
`KeyboardIsCurrent` claims the state for every code outside it.

### WebSocket

Two endpoints, each with its `CommonState` (`conn`), driven by one thread that is
between calls (`Idle`) or inside `process`. The unit is a frame; a read returns any
number of frames, and `process` handles them one step at a time. `Flushed` and
`Kept` tell the calls that flush at once (`write`, `close` of the stream, a read) from the ones
that only queue (`send_frame`, `send_ping`, `send_pong`). An error of `process` skips
the flush behind it, as in `fill_app_rx`, so what `fail` queued waits for a `flush` that
the application may or may not call. `AutoPong` and `AutoCloseReply` are
the configuration of each side, `MaxMessageSize` counts payloads.

An application sends whole messages, fragments, pings, pongs and closes at any
time, and reads. Once a read has failed it drops its stream; the endpoints in `MayDrop` may
do so at any time. A dropped stream drops the transport: what is written
to it is lost, and the other side reads the end of the stream after what is still
on its way. The application is assumed not to send frames before the handshake is
complete and to send fragments in the order the protocol requires; `send_frame`
checks neither.

## 3. Runs

All runs end in states in which the system may rightly stop (everything bounded
was done and all consumers are parked), so deadlock is not checked; that nothing
gets stuck earlier is what the liveness properties say.

| Run | Bounds | Checks |
|---|---|---|
| `hub_control` | 2 subscriptions over 2 classes, 1 event | `RegistrationAgrees` (control, subscriptions and backend agree on the running classes), `FailedOpenRestores` |
| `hub_stream` | 2 subscriptions one after the other, the first polling by hand, the second on `next`; queue 1 or 2, 3 events, 3 requests | `NoLostWakeup`, `NextNeverMissesALoss`, `LossIsAccounted`, `Backpressure`, and that a parked stream ends once its control is dropped (`EndsAfterDrop`) |
| `pump_drain` | queue 4 (batch 2), 5 events of 4 kinds, 2 frames | `FrameIsFaithful` (frame and snapshot against the raw events), `KeyStateFollows`, `DemandConserved`, `FedUnlessLagging`, `LossIsCounted`, `PumpNeverSleepsOnEvents`, `EverythingIsDrained` |
| `exec_run` | 3 tasks with different priorities and costs, 2 polls each, 1 foreign event, the three policies | `QueuesAgree`, `NoWakeLost`, `SleeperIsCovered`, `CyclesAddUp`, `PickIsBest`, `NobodyPassesTwice`, `WokenIsPolled` |
| `smp_launch` | 2 hosts, 2 workers, 2 launches of 2 groups | `DescriptorStable`, `OneLaunchPerCounter`, `EachGroupOnce`, `KeepsContract`, `LaunchesRetire` |
| `ring_calls` | 2 hosts next to a remote engine, or 1 of them with a cooperative ring; 1 slot, indices modulo 2, 2 launches, 1 attempt on a full ring; `wfe` sleeps in both modes | `PayloadImmutable`, `NoSlotLeaks`, `NoLostDoorbell`, `KeepsContract`, `WaitsEndOrOversleep`, `SubmitsEndOrOversleep` |
| `seqlock` | 2 fields, 2 readers, 2 transitions of at most 2 stores, both gaps | `OnlyLooseFieldsMix` |
| `linux_keys` | 2 keyboards with a shift each and a native code in common, 2 colliding native codes; 3 key transitions, 2 plugs, 2 registrations, 1 fault, 1 lost event, kernel queue 2 | `OneReaderPerDevice`, `KeyboardIsCurrent`, `HotplugIsNoticed` |
| `ws_close` | 3 data frames, 1 ping or pong, messages of at most 2 payloads; both sides answer pings, only the server a Close; the client may drop at any time | `CloseIsLast`, `DeliveredInOrder`, `NoHalfOpen`, `ReadersAreReleased` |

Three more runs, `pump_starved`, `seqlock_weak` and `ring_asleep`, end with a
counterexample; part 5 describes them. The type invariants hold under the bounds of
the runs too and are left out of the cfgs, where they would say little; the proofs have
them.

The bounds are the smallest at which the interesting cases happen: a queue that
overflows more than once and is drained in between, a lag report with and without
demand left, two classes of which the second fails, a batch larger than one, a
motion on both sides of a button, a task woken while new, queued, polled, parked
and terminated, a group claimed by either core after the other one finished,
more launches than slots, indices that wrap with a slot in flight, two hosts that
spin on the locks of a full ring, a counter that
moves between every two loads of a reader, a node that is unplugged and plugged in
again between two polls, a removed native code in the way of a held one, an
overrun, and a Close that meets a Close, a fragment, a ping or an error on its way.
`linux_keys` is the largest instance that ends in minutes. Without the liveness
property, and with the invariant of part 4 beside it, `KeyboardIsCurrent` was also checked
with up to 8 key transitions on one keyboard and up to 5 on two.
The constants whose names begin with `Max` bound behaviours. `MaxMessageSize` and
`MaxAttempts` are limits the code has. The others model nothing where a safety property is
concerned, and the theorems hold for every value of them; a liveness property they
help is an assumption on the environment: futures end (`WokenIsPolled`), keys and hotplug
pause (`HotplugIsNoticed`), launches stop coming (`SubmitsEndOrOversleep`). `EndsAfterDrop` excepts a
consumer that has used up `MaxRequested`.

Fairness. Weak fairness of an actor's own steps says that its thread keeps
running once it is inside an operation: `InputHub` (a call of the control goes
on, a taken waker is woken, a scheduled task is polled, a consumer in `NextCallers`
loops), `InputPump` (the frame loop drains), `Executor` (the executor thread
inside a call, and a source that has shown its event), `SmpDevice` and
`DescriptorRing` (every core and the engine). In `LinuxBackend` the caller keeps
calling `poll` with a bounded timeout, as `poll`'s documentation asks (`lib.rs:106`);
nothing is assumed of when keys are pressed, but the bounds end, so that a wait
times out in the end. Under input that never pauses it would not, and hotplug would
go unnoticed: `lib.rs:124`. In `WebSocket` both applications read until a read fails
and then drop the stream; that a read goes on and flushes first is what `fill_app_rx`
does, and nothing is assumed of writes, pings, closes, early drops or an explicit flush. `SeqLock`
has no fairness and no liveness property: a reader that meets a writer every time
starts over for ever (part 5). Nothing is assumed of emitting,
opening, submitting, refusing a kernel, waiting, cancelling, or of calling `run` again. Locks are
not assumed to be fair. In `ring_calls` two hosts compete for both of them, and no run is
lost to starvation, because every round of a wait or of a full ring sleeps in `wfe` and the
launches are finite. That does not carry over to a hosted build, where `wfe` returns at
once: a thread that polls for ever may win the in-flight lock each time from a
publisher that spins on it, and no run claims liveness there. The ring theorems cover
both builds, and any number of slots, where `ring_calls` has one.

## 4. Proofs

TLAPS proves these for every value of the constants that satisfies the named
assumptions of the modules, and for behaviours of any length.

| Module | Theorem | States |
|---|---|---|
| `InputHubProofs` | `HubInvariant`, `HubTypes` | `HubInv`, `TypeOK` |
| | `WakeupsAreNotLost`, `NextSeesEveryLoss` | `NoLostWakeup`, `NextNeverMissesALoss` |
| | `EveryLossIsAccounted`, `BackpressureHolds` | `LossIsAccounted`, `Backpressure` |
| | `RegistrationIsExact`, `FailedOpenRollsBack` | `RegistrationAgrees`, the action property `FailedOpenRestores` |
| `InputPumpProofs` | `PumpTypeCorrect`, `PumpInvariantHolds` | `TypeOK`, `PumpInvariant` |
| | `DemandIsConserved`, `BackendStaysFed`, `LossesAreCounted` | `DemandConserved`, `FedUnlessLagging`, `LossIsCounted` |
| | `PumpWakes`, `KeyboardFollowsDevice` | `PumpNeverSleepsOnEvents`, `KeyStateFollows` |
| | `FramesAreFaithful` | `FrameIsFaithful` |
| `ExecutorProofs` | `ExecutorInvariant`, `ExecutorTypes`, `QueuesMatchStates` | `QueueInv`, `TypeOK`, `QueuesAgree` |
| | `PicksTheBest`, `RoundRobinIsFair` | the action properties `PickIsBest`, `NobodyPassesTwice` |
| | `CyclesBalance` | `CyclesAddUp` |
| | `WakesAreKept`, `WakesAreNotLost`, `SleepersAreNotForgotten` | `WakeInv`, `NoWakeLost`, `SleeperIsCovered` |
| `SmpDeviceProofs` | `SmpTypeCorrect`, `ProtocolHolds` | `TypeOK`, `Protocol` |
| | `DescriptorIsStable`, `CountersServeOneLaunch` | `DescriptorStable`, `OneLaunchPerCounter` |
| | `WorkIsAccounted`, `GroupsRunOnce` | `Work`, `EachGroupOnce` |
| | `OutcomesAreKept`, `SmpKeepsContract` | `Outcome`, the refinement `KeepsContract` |
| | `EpochDoesNotWrap`, `SmpIsCorrect` | `NoWrap`, and the four properties with it discharged |
| `DescriptorRingProofs` | `RingInvariant`, `RingTypes` | `Users /\ RingInv`, `TypeOK` |
| | `PayloadsAreNotShared`, `SlotsAreReaped` | `PayloadImmutable`, `NoSlotLeaks` |
| | `RingIsOrdered`, `DoorbellIsNotLost` | `Ordered`, `NoLostDoorbell` |
| | `RingKeepsContract` | the refinement `KeepsContract` |
| `SeqLockProofs` | `LockInvariantHolds`, `SnapshotsMixOnlyLooseFields` | `LockInvariant`, `OnlyLooseFieldsMix` |
| `WebSocketProofs` | `HandshakesAreOrderly`, `ConnectionTypes` | `TypeOK /\ Orderly`, `TypeOK` |
| | `CloseComesLast`, `ConnectionsAreNotHalfOpen` | `CloseIsLast`, `NoHalfOpen` |
| | `MessagesArriveInOrder` | `DeliveredInOrder` |
| `LinuxBackendProofs` | `ReadersAgree`, `NodesAreReadOnce` | `Readers`, `OneReaderPerDevice` |
| | `KeyboardFollows`, `KeyboardStaysCurrent` | `Following`, `KeyboardIsCurrent` |
| | `NativeSetStaysExact`, `NativeSetHasRoom` | `NativeSetIsExact`, `NativeSetHolds` |

### InputHubProofs

Under `HubConstants`. `HubInv` has, beside the types, `Ownership` (identifiers are granted
once, only a live subscription has a consumer, the one an `open` is building has none
yet), `Registration` (what runs at every point of every `Control` call, in terms of what
is registered) and `Stream(i)` of every live subscription. `Stream` holds the books
(`Accounted`: the two sums) and the wake-up facts. A parked consumer has a wake on its
way, or its waker is registered and there is nothing to read. For a consumer in `next` that
is not enough: a drop wakes nobody. While it polls or is parked it has demand
left or an event queued, because `next` requests one first; so when it parks there is
room and demand for the next event, and an event cannot be dropped before
another one has woken it. That is the strengthening `NextNeverMissesALoss` needs.
`FailedOpenRestores` is an action property and follows from `Registration` at "starting".

### InputPumpProofs

Under `PumpConstants` (any capacity above zero, any set of event kinds, any bounds).
`PumpInvariant` is the types, the three invariants that are conserved sums or wake-up
facts, and `SpentBelowBatch` (outside the loop less than a batch is spent). The last is
what makes `FedUnlessLagging` follow: with less than a batch spent, an empty queue and no
demand, conservation would put more than `Capacity - Batch` on lag reports.
`KeyStateFollows` speaks of an empty queue and is not inductive; `KeyTrail` is: as
long as nothing was lost, the last key transition in the queue says where the device's key is,
and with none queued the keyboard state does.

`FrameIsFaithful` compares a staged frame with the raw events of any number of drains. Its
reference, `CoalescesTo`, filters and counts nothing recursively: each of the frame's three lists
stands for a set of positions of the raw events (the keys; the buttons and the first motion after
each, `Starts`; the rest), an event's place in its list is its rank in that set (`Rank`), and an
update carries as many units as there are motions from its position to the next button (`Run`).
One more raw event adds at most one
position, which is the last (`OneMorePosition`, `KeepsStep`), so that the ranks of the others
stand; a motion behind a motion adds none, and one unit to the last run (`LastUpdate`,
`OneMoreMotion`). That is `StageIsFaithful`, the lemma about `stage`. The invariant adds to the
property that the motion staged for the pointer is that of the raw events, as long as nothing was
cancelled; `finish_frame` makes it the snapshot.

### ExecutorProofs

Under `ExecutorConstants`. `QueueInv` is the types, `QueuesAgree` and where the executor
thread may be (a poll has a task, a dispatch a queue that is not empty). `PickIsBest` is
about a scan over a queue of any length. It is proved by taking the shortest prefix for which the
scan is not defined, or does not hold the best of its entries, which the well-ordering of the
naturals gives, and showing that the prefix before it is one too; two lemmas
say that the comparison is transitive and that no two tasks tie. `CyclesAddUp` follows from
`Account`, which also bills the tasks that are not finished: each was polled for no
longer than since its arrival. `WakeInv` extends `NoWakeLost` and
`SleeperIsCovered` to the task that was polled and is not settled yet, and says that a
deadline to come is in the wheel whether its task is parked or not: a charge that moves the
clock past it signals the task before it can be parked.

`RoundRobinIsFair` is about `HistorySpec` and needs no assumption on how often a future
yields. Its invariant, `Behind`, says that a task that was dispatched while another one
waited is behind it in the ready queue or not in it. A task that joins the queue, by
arrival, wake or requeue, joins at the tail and starts with an empty history
(`JoinBehind`), and the head of the queue has been passed by nobody who is still in
it (`HeadIsNew`).

### SmpDeviceProofs

Under `SmpConstants`, for any number of hosts, workers, launches and groups, assuming that
the workers were waited for (`WaitsForWorkers`) and that the epoch does not wrap
(`[]NoWrap`). Both are needed: part 5 says what happens without the first and what a wrap
does. The second is discharged by `EpochDoesNotWrap` for `MaxLaunches + 1 < EpochMod`, less
than 2^32 - 1 launches in the code: a launch publishes once, so the epoch is
at most the number of published launches. `SmpIsCorrect` states the results so.

`Protocol` has these parts: the lock is held by the host that is between `Lock` and
`Retire` (`LockHeld`); the descriptor and the counters are that host's from its writes on
(`SlotIsMine`), and so is the epoch (`EpochIsMine`); once a host is past `wait_workers`
every worker is registered (`AllRegistered`); a worker that is not registered is
still booting (`Unregistered`); a registered worker's acknowledgement is the epoch it has
retired, and while it copies or claims it holds the current epoch, with the launch of the
descriptor (`Registered`); and outside the span from publication to the end of the
acknowledgement wait every worker has acknowledged the current epoch (`Quiescent`). The last
one is what the quiescence wait establishes and what the descriptor write relies on.

`Work` adds who owns which launch and what the claim counter means: the groups below it have
run once, except those that a core is executing, each of them on one core, and who
leaves the claim loop leaves a counter that has passed every group. `EachGroupOnce` is that
at the retirement. `Outcome` adds the errors: from publication to retirement a failure
is in the slot or still on the core that met it, and belongs to this launch.
`SmpKeepsContract` takes the steps one by one: with these three invariants each
is a step of `LaunchContract` or leaves its variable alone.

### DescriptorRingProofs

Under `RingConstants`, for any number of slots, hosts, launches and attempts, and any index
width the slots divide. All theorems have the premise `SoleConsumer`: in
cooperative mode one host uses the device (`CooperativeHosts`; `Users` says that the others
stay out). In remote mode it says nothing. Two hosts that
share a cooperative device execute a launch twice (part 5), so that the
theorems are false without it.

`RingInv` says who holds which lock (`Roles`), that a launch belongs to one submitter until it
runs and to no slot until it is published (`Submitters`), what the publisher's slot is
(`Publishers`), that the slot the service loop works on stays `PENDING` under it
(`Servers`), what an occupied slot and an in-flight entry say of their launch (`Occupied`,
`InFlight`: executed or not, failed or not, before and after the result is posted), and that no
launch is executed twice. `PayloadImmutable` follows without any arithmetic: the payload
that is written is in an `EMPTY` slot, the one that is copied in a `PENDING` one.

The refinement needs no more than `RingInv` either.

`NoLostDoorbell` compares the indices and needs the order of the ring. `Ordered` says that there are positions b and t, numbers that never wrap, of which `head` and `tail` are the
remainders, such that the `PENDING` slots are exactly those from b to t (one more while a
publisher is between the publication and the store of `tail`). Its lemmas are the arithmetic of
remainders: different positions of a window no longer than the ring have different slots.

### SeqLockProofs

Under `SeqLockConstants`, for any fields, any number of readers, transitions and stores, and
any `Gaps`: nothing is assumed of the order of relaxed accesses. The invariant has
the types and four parts. `Counter`: the counter is twice the number of finished
transitions, plus one while the writer is active. `Settled`: between transitions the fields are
those the last one left, except for those stored ahead of the next increment. `Growing`: no
field is older than a finished transition left it. `Copying`, of each reader: its counter
value stands for the transition recorded with it; what it has loaded is not older; and the
fields that are not loose are that transition's (`Exact`), as long as the counter has not
moved and for good once the second load has found it unmoved. The property itself is not
inductive: it says nothing of a copy that is half made. On a build without gaps no
field is ever loose, and the theorem then is `SnapshotIsOneTransition`.

### WebSocketProofs

Under `WebSocketConstants`, for any configuration of the two endpoints, any message size and any number
of frames. The invariants are about the two streams of frames in flight: what one endpoint has
queued, what is on the wire and what the other one has read and not handled, as one sequence. Each handler
is classified once (`Moves`: which frame it takes, what it sends, how its state moves), and the
invariants are shown for the classes. `Orderly` has three parts.
`Handshake`: greetings come first, one in each direction; an established endpoint has the
other's greeting behind it. `CloseOrder`: behind a Close there are only Pongs, and a Close that is
on its way or was received is known to its sender. `Answerable`: `NoHalfOpen`
itself, of one endpoint.

`DeliveredInOrder` needs an account of every payload. Payloads are numbered by their
sender, so a message is an interval of numbers; `Numbered` says this of the messages sent and
of the one that is being sent. As long as the receiver takes data (`InSync`), `Tracks` says that its
fragment is an interval that begins where the last delivered message ends, that the stream carries
exactly the payloads after it, in order, and that FIN is set on the last of each message
(`Carries`, `Framed`). What else the endpoints do only cuts frames out of a stream whose receiver no longer
takes data, or adds control frames.

### LinuxBackendProofs

Under `LinuxConstants`. `Readers`: the opens that are read and the ones in the inbox are
of different nodes, and `published` has the ids of the former. The rescan skips
what is published and opens each node once, so the new inbox meets it; `swap_remove` in
`retire` moves the last open to the place of the one that goes, which keeps the ids
of the others (`RetiredOpens`, a lemma about sequences).

The other theorems are about the keyboard state behind it, for any number of keyboards, any queue
size, any number of slots, any hash and batches of any length. They have four layers.

- The native set (`WellFormed`): a probe meets no empty slot before a stored code. Removal
  writes a tombstone and insertion fills what the probe stops at, so both keep it, and then the
  bounded scan answers exactly whether the code is in a slot (`ContainsIsStored`). `Once` says
  that it is in one slot only; without it a release leaves the code pressed (part 5).
- A queue (`Was`, `Truthful`): what a waiting record says its key was before and after, read from the
  next record of the same key or, without one, from the keyboard itself. Stated this way it
  survives an overrun, which drops records without a word of which keys they were of.
- The invariant (`Following`, `Follows` of the opens, the keys down, the state and `missed`): a key
  that missed nothing is in the state as the one queue with records of it says it was, or as it is when
  none waits (`KeyExact`); a shift that the task reports with a press is really held as far as
  the queue has been read (`ShiftSeen`), which is what keeps the flag from being set by a
  stale report. `KeyboardIsCurrent` is this for keys with nothing on its way.
- A batch: `Decoding` is the same with the first j records of the queue applied, any of them
  lost and any of them refused by the native set. That it holds after all of them is proved by taking
  the least j at which it does not (`DecodingBatch`).

`NativeSetIsExact` is the first layer as a statement about the program. `NativeSetHolds` is a count: if
a press finds no slot and no native code has missed a transition, each slot holds another
code that is held, so `Slots` of them are.

### What is only model-checked

The liveness properties, since the prover handles neither fairness nor `ENABLED`: `EndsAfterDrop`,
`EverythingIsDrained`, `WokenIsPolled`, `LaunchesRetire`, `WaitsEndOrOversleep`,
`SubmitsEndOrOversleep`, `HotplugIsNoticed`, `ReadersAreReleased`. Every other property of a passing run is stated by a
theorem.

Where an induction over data was needed and could be avoided, the proofs use the
well-ordering of the naturals, which the library states without an operator parameter.

## 5. Disagreements between code and documentation

Three are runs that TLC ends with a counterexample; `PROJECT.json` quotes the lines.

| Run | What happens |
|---|---|
| `pump_starved` | demand charged by lag reports is never granted again; after enough of them the stream starves (`QueueStaysFed`) |
| `seqlock_weak` | a field load performed after the acquire load that validates it puts a value of the next transition into the snapshot (`SnapshotIsOneTransition`). With `Gaps = {"stores"}` the property is violated too, by a store that is visible before the increment; with no gaps it holds |
| `ring_asleep` | a host waits for its launch on a board with a remote engine; its own `progress` completes the event after the engine's `sev` was consumed, and the `wfe` behind it never returns, because the loop does not look at the event in between (`WaitsEnd`) |

Others are behaviours the models have, or that reading the code for them showed, and
that no run states as a property (paths under `src/crates/`):

- `kuitui-control/src/hub.rs:224`: a stream whose terminal error was delivered
  gets events again when another subscription opens its class;
  `stream.rs:101` says that it then yields `None`.
- `kuitui-control/src/hub.rs:155`: a dropped event does not wake a parked
  consumer that has no demand left, although the waker is documented as the
  "Task to wake when an event or a lag notice arrives" (`hub.rs:60`).
  `NextNeverMissesALoss` shows that consumers on `next` are not affected.
- `kuitui-control/src/hub.rs:155`: a full queue drops the newest event, so a lost
  release leaves the key pressed; `kuitui/src/input/pump.rs:418` says that the
  queue keeps the newest. Hence the premise `pump.dropped = 0` of
  `KeyStateFollows`.
- `kuitui/src/input/pump.rs:398`: after `cancel` the next snapshot carries motion
  that is in no frame, against `pump.rs:376`. Hence the premise `~cancelled`
  in `FrameIsFaithful`.
- `inssched/src/executor.rs:393`: `run` answers `Stalled` although a task was
  woken after the last harvest, against `executor.rs:378`.
- `inssched/src/executor.rs:409`: `run_until_idle` charges its polls to the
  virtual clock, which wakes sleepers, against `executor.rs:403`.
- `ocl-bare/src/devices/smp.rs:292`: a wrapped epoch passes the acknowledgement
  wait at once, against `smp.rs:279`; 2^32 launches in a build without
  overflow checks.
- `ocl-bare/src/devices/smp.rs:313`: a core that enters `worker_loop` during a
  launch is skipped by the acknowledgement wait and may copy the descriptor while the
  next submitter writes it, against `smp.rs:42` and `smp.rs:279`. With
  `WaitsForWorkers = FALSE` the model violates `DescriptorStable`.
- `ocl-bare/src/devices/amp.rs:345`: in cooperative mode `progress` calls `service`
  without a lock, so two host threads consume the same descriptor, and the launch runs
  twice, against "one producer, one consumer" (`amp.rs:20`). With two hosts in that
  mode the model violates `KeepsContract`.
- `ocl-bare/src/devices/amp.rs:314`, `devices/accel.rs:577`: the loop that waits for a free
  slot sleeps, as the wait of `ring_asleep` does, after the `progress` that may have
  freed it and seen the last event. The attempts are bounded, so that a full ring is
  to be reported ("the descriptor ring is full after waiting", `device.rs:159`), but a
  sleep nobody ends is not: the dispatch stays there with the submit lock, and every
  other dispatch behind it. One host, three launches on one slot and two attempts are
  enough; `SubmitsEndOrOversleep` is what is left of the promise.
- `inssched/src/policy.rs:92`, `:132`: under `Priority` and `ShortestJobFirst` a task that
  yields on every poll may starve the others for ever. No line promises otherwise; it
  is why `WokenIsPolled` assumes that futures end.
- `kuitui/src/input/keyboard/state.rs:103`: two threads in `apply` at once do more than
  leave "the counters and the last fields" in some order: two increments make the
  counter even in the middle of both updates, and a snapshot is accepted.
- `kuitui/src/input/keyboard/snapshot.rs:34`: the retry of a reader is not bounded by one
  critical section; every writer that arrives during a copy costs another round.
- `kuitui/src/input/keyboard/state.rs:273`: `refresh_modifier` clears the flag and sets it
  again, so a reader of `modifiers` without a snapshot sees shift up for a moment while
  the other shift is held.
- `kuitui/src/input/keyboard/state.rs:322`: `native_insert` reuses a tombstone before it
  has looked further for the same code. A press whose release was lost is stored twice
  by the next press, and one release leaves the code pressed. The copy also takes a slot, so that
  a press may find none although fewer codes are held than "may be held at the same time"
  (`state.rs:33`). The proof of `KeyboardIsCurrent` failed on this: it takes six key
  transitions, more than `linux_keys` has. `NativeSetHasRoom` shows that it takes a lost one too.
- `kuitui-control-linux/src/task.rs:148`: `SYN_DROPPED` is ignored, so an overrun of the
  kernel's queue leaves keys and reported modifiers as they were until the key
  changes again; and a node that is unplugged with a key down never yields its release.
- `kuitui-control-linux/src/task.rs:168`: the release of one shift removes the flag from
  what the device reports although the other shift is down, against "Modifiers and
  lock state held by this device" (`task.rs:119`). The shared state does not suffer, since
  a press only adds flags to it.
- `kuitui-control-linux/src/task.rs:334`: devices are drained one after the other, not by
  timestamp, so transitions of the same code on two keyboards may be applied in
  the other order, and the state keeps the last one applied.
- `wsocket/src/connection.rs:414`: data frames that arrive after the own Close are dropped
  "to keep state simple", but a message whose first fragment was dropped fails the
  connection at its next fragment.
- `wsocket/src/stream.rs:226`: after an error of `process` the stream returns without a
  flush, so neither the Close of `fail` nor the version rejection of the server
  (`server.rs:160`) is sent unless the application calls `flush`. Dropping the stream
  ends the connection all the same, which is why `ReadersAreReleased` holds.
- `wsocket/src/client.rs:206`: the sticky error is returned before messages that were
  received completely and are still queued.
- `wsocket/src/connection.rs:300`: `close` during the handshake closes the endpoint
  without a word to the other side, which waits for the end of the stream.

## 6. What is left, and the plan

Next, in this order:

1. `Objects`: reference counts and queues of `ocl-bare` (`objects.rs`, `api.rs`)
   above `LaunchContract`, including events waited on by several threads.
2. The pointer class of `LinuxBackend`, with what `pointer/state.rs` makes of its
   events, and `InputHub` in place of "delivered or lost".
3. The connection state machines of `dbus` and `wayland`.
4. `kuitui-rea`'s lanes and wakeables; the frames in flight of `gpu-vk`; the
   shared gap buffer and block bitmap of `wredit`.
5. `inssched`'s list scheduler as an operator checked against its dependence
   graph.

Further theorems worth proving: that the published devices of `LinuxBackend` change only by
adoption and retirement, and the safety half of the liveness properties (what a
helpful step leaves enabled until it is taken).
