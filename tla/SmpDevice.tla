----------------------------- MODULE SmpDevice ------------------------------
(***************************************************************************)
(* The SMP device of the OpenCL driver (ocl-bare/src/devices/smp.rs): host *)
(* threads submit launches one at a time through a shared job slot, and    *)
(* the cores of the cluster claim work-groups of the published launch from *)
(* an atomic counter (run_claimed, exec.rs).  There is no lock on the      *)
(* workers' side: a worker copies the descriptor after it saw the epoch    *)
(* move, and the acknowledgement of that epoch is what lets the next       *)
(* submitter overwrite it.                                                 *)
(*                                                                         *)
(* The descriptor is written and copied in several machine steps, so a     *)
(* core stays at "write" or "copy" for as long as its access lasts; the    *)
(* kernel and the geometry are abstracted to the launch and its number of  *)
(* work-groups.  wfe and sev are the Arm event register: a sev sets the    *)
(* register of every core and a wfe consumes its own.                      *)
(***************************************************************************)
EXTENDS Naturals, FiniteSets

CONSTANTS
    Hosts,            \* threads that submit launches
    Workers,          \* secondary cores
    WaitsForWorkers,  \* TRUE: the program calls wait_workers before it submits
    EpochMod,         \* 2^32: the epoch is an AtomicU32 (small in one run)
    GroupCounts,      \* numbers of work-groups a launch may have
    MaxLaunches,      \* bound: launches submitted in a behaviour
    NoHost            \* the submit lock is free

Cores == Hosts \cup Workers
Launches == 1..MaxLaunches
Groups == 0..(CHOOSE n \in GroupCounts : \A m \in GroupCounts : m <= n) - 1

ASSUME SmpConstants ==
    /\ IsFiniteSet(Hosts) /\ IsFiniteSet(Workers) /\ Hosts \cap Workers = {}
    /\ NoHost \notin Hosts
    /\ WaitsForWorkers \in BOOLEAN
    /\ EpochMod \in Nat \ {0} /\ MaxLaunches \in Nat
    /\ GroupCounts \subseteq Nat \ {0} /\ GroupCounts # {} /\ IsFiniteSet(GroupCounts)

VARIABLES
    slot,      \* JobSlot: epoch, claim, done, error
    desc,      \* JobSlot::desc: the launch and its total
    lock,      \* SmpDevice::submit
    started,   \* SmpDevice::started
    acks,      \* SmpDevice::acks
    core,      \* where each core is, and its local variables
    wake,      \* each worker's event register
    jobs       \* the launches: total, event status, groups executed, failure

vars == <<slot, desc, lock, started, acks, core, wake, jobs>>

\* epoch: the one a host published or a worker saw; mine: a worker's my_epoch.
NewCore(pc) == [pc |-> pc, launch |-> 0, total |-> 0, index |-> 0, failed |-> FALSE,
                epoch |-> 0, mine |-> 0]

Init ==
    /\ slot = [epoch |-> 0, claim |-> 0, done |-> 0, error |-> FALSE]
    /\ desc = [launch |-> 0, total |-> 1]
    /\ lock = NoHost
    /\ started = [w \in Workers |-> FALSE]
    /\ acks = [w \in Workers |-> 0]
    /\ core = [c \in Cores |-> IF c \in Hosts
                               THEN NewCore(IF WaitsForWorkers THEN "boot" ELSE "out")
                               ELSE NewCore("off")]
    /\ wake = [w \in Workers |-> FALSE]
    /\ jobs = [l \in Launches |-> [total |-> 0, status |-> "queued", failed |-> FALSE,
                                   ran |-> [g \in Groups |-> 0]]]

Goto(c, pc) == core' = [core EXCEPT ![c].pc = pc]
-----------------------------------------------------------------------------
(* Submitters: wait_workers and execute.                                    *)

WaitWorkers(h) ==
    /\ core[h].pc = "boot" /\ \A w \in Workers : started[w]
    /\ Goto(h, "out")
    /\ UNCHANGED <<slot, desc, lock, started, acks, wake, jobs>>

\* The event becomes CL_SUBMITTED before the submit lock is taken.
Submit(h, l, total) ==
    /\ core[h].pc = "out"
    /\ jobs[l].status = "queued" /\ \A k \in Launches : k < l => jobs[k].status # "queued"
    /\ jobs' = [jobs EXCEPT ![l].total = total, ![l].status = "submitted"]
    /\ core' = [core EXCEPT ![h].pc = "lock", ![h].launch = l, ![h].total = total]
    /\ UNCHANGED <<slot, desc, lock, started, acks, wake>>

\* The submit lock, and the previous launch's error forgotten.
Lock(h) ==
    /\ core[h].pc = "lock" /\ lock = NoHost
    /\ lock' = h
    /\ slot' = [slot EXCEPT !.error = FALSE]
    /\ Goto(h, "write")
    /\ UNCHANGED <<desc, started, acks, wake, jobs>>

\* The descriptor write, from the moment "write" is reached.
WriteDescriptor(h) ==
    /\ core[h].pc = "write"
    /\ desc' = [launch |-> core[h].launch, total |-> core[h].total]
    /\ Goto(h, "reset")
    /\ UNCHANGED <<slot, lock, started, acks, wake, jobs>>

\* Mutant: the counters of the previous launch are kept.
KeepCounters(h) ==
    /\ core[h].pc = "reset"
    /\ Goto(h, "publish")
    /\ UNCHANGED <<slot, desc, lock, started, acks, wake, jobs>>

ResetCounters(h) ==
    /\ core[h].pc = "reset"
    /\ slot' = [slot EXCEPT !.claim = 0, !.done = 0]
    /\ Goto(h, "publish")
    /\ UNCHANGED <<desc, lock, started, acks, wake, jobs>>

\* epoch.fetch_add(1) + 1, in 32 bits.
Publish(h) ==
    /\ core[h].pc = "publish"
    /\ LET epoch == (slot.epoch + 1) % EpochMod
       IN  /\ slot' = [slot EXCEPT !.epoch = epoch]
           /\ core' = [core EXCEPT ![h].pc = "sev", ![h].epoch = epoch]
    /\ UNCHANGED <<desc, lock, started, acks, wake, jobs>>

\* Mutant: no sev.
SendNoEvent(h) ==
    /\ core[h].pc = "sev"
    /\ jobs' = [jobs EXCEPT ![core[h].launch].status = "running"]
    /\ Goto(h, "claim")
    /\ UNCHANGED <<slot, desc, lock, started, acks, wake>>

\* sev, then CL_RUNNING.
SendEvent(h) ==
    /\ core[h].pc = "sev"
    /\ wake' = [w \in Workers |-> TRUE]
    /\ jobs' = [jobs EXCEPT ![core[h].launch].status = "running"]
    /\ Goto(h, "claim")
    /\ UNCHANGED <<slot, desc, lock, started, acks>>

WaitDone(h) ==
    /\ core[h].pc = "wait done" /\ slot.done >= core[h].total
    /\ Goto(h, "wait acks")
    /\ UNCHANGED <<slot, desc, lock, started, acks, wake, jobs>>

\* Mutant: the quiescence wait is left out.
AcknowledgedAnyway(w, epoch) == TRUE

\* Workers that have not registered are skipped.
Acknowledged(w, epoch) == ~started[w] \/ acks[w] >= epoch

WaitAcks(h) ==
    /\ core[h].pc = "wait acks" /\ \A w \in Workers : Acknowledged(w, core[h].epoch)
    /\ Goto(h, "retire")
    /\ UNCHANGED <<slot, desc, lock, started, acks, wake, jobs>>

\* take_error, then the event completes or the error is returned; unlock.
Retire(h) ==
    /\ core[h].pc = "retire"
    /\ jobs' = [jobs EXCEPT ![core[h].launch].status =
                  IF slot.error THEN "error" ELSE "complete"]
    /\ slot' = [slot EXCEPT !.error = FALSE]
    /\ lock' = NoHost
    /\ core' = [core EXCEPT ![h] = NewCore("out")]
    /\ UNCHANGED <<desc, started, acks, wake>>
-----------------------------------------------------------------------------
(* run_claimed, on the submitter and on the workers.                        *)

\* claim.fetch_add(1): a group of the launch this core holds, or the end.
Claim(c) ==
    /\ core[c].pc = "claim"
    /\ slot' = [slot EXCEPT !.claim = @ + 1]
    /\ core' = [core EXCEPT ![c].index = slot.claim,
                            ![c].pc = IF slot.claim >= core[c].total
                                      THEN "record" ELSE "run"]
    /\ UNCHANGED <<desc, lock, started, acks, wake, jobs>>

\* A launch after one of its groups was executed.
WithGroup(job, group, ok) == [job EXCEPT !.ran[group] = @ + 1, !.failed = @ \/ ~ok]

\* run_group: a failure does not stop the loop.
RunGroup(c, ok) ==
    /\ core[c].pc = "run"
    /\ jobs' = [jobs EXCEPT ![core[c].launch] = WithGroup(@, core[c].index, ok)]
    /\ core' = [core EXCEPT ![c].failed = @ \/ ~ok, ![c].pc = "post"]
    /\ UNCHANGED <<slot, desc, lock, started, acks, wake>>

Post(c) ==
    /\ core[c].pc = "post"
    /\ slot' = [slot EXCEPT !.done = @ + 1]
    /\ Goto(c, "claim")
    /\ UNCHANGED <<desc, lock, started, acks, wake, jobs>>

\* Mutant: a worker's error is dropped.
RecordOnHosts(c) ==
    /\ core[c].pc = "record"
    /\ slot' = [slot EXCEPT !.error = @ \/ (c \in Hosts /\ core[c].failed)]
    /\ Goto(c, IF c \in Hosts THEN "wait done" ELSE "ack")
    /\ UNCHANGED <<desc, lock, started, acks, wake, jobs>>

\* run_claimed returned; JobSlot::record keeps the first error.
Record(c) ==
    /\ core[c].pc = "record"
    /\ slot' = [slot EXCEPT !.error = @ \/ core[c].failed]
    /\ Goto(c, IF c \in Hosts THEN "wait done" ELSE "ack")
    /\ UNCHANGED <<desc, lock, started, acks, wake, jobs>>
-----------------------------------------------------------------------------
(* worker_loop.                                                             *)

\* The secondary core boots and reads the current epoch ...
Boot(w) ==
    /\ core[w].pc = "off"
    /\ core' = [core EXCEPT ![w].pc = "register", ![w].mine = slot.epoch]
    /\ UNCHANGED <<slot, desc, lock, started, acks, wake, jobs>>

\* ... acknowledges it, and only then counts as started.
Register(w) ==
    /\ core[w].pc = "register"
    /\ acks' = [acks EXCEPT ![w] = core[w].mine]
    /\ started' = [started EXCEPT ![w] = TRUE]
    /\ Goto(w, "poll")
    /\ UNCHANGED <<slot, desc, lock, wake, jobs>>

PollEpoch(w) ==
    /\ core[w].pc = "poll"
    /\ core' = [core EXCEPT ![w].epoch = slot.epoch,
                            ![w].pc = IF slot.epoch = core[w].mine THEN "wfe" ELSE "copy"]
    /\ UNCHANGED <<slot, desc, lock, started, acks, wake, jobs>>

WaitForEvent(w) ==
    /\ core[w].pc = "wfe" /\ wake[w]
    /\ wake' = [wake EXCEPT ![w] = FALSE]
    /\ Goto(w, "poll")
    /\ UNCHANGED <<slot, desc, lock, started, acks, jobs>>

\* The descriptor copy, from the moment "copy" is reached.
CopyDescriptor(w) ==
    /\ core[w].pc = "copy"
    /\ core' = [core EXCEPT ![w].pc = "claim", ![w].launch = desc.launch,
                            ![w].total = desc.total, ![w].failed = FALSE]
    /\ UNCHANGED <<slot, desc, lock, started, acks, wake, jobs>>

Acknowledge(w) ==
    /\ core[w].pc = "ack"
    /\ acks' = [acks EXCEPT ![w] = core[w].epoch]
    /\ core' = [core EXCEPT ![w] = [NewCore("poll") EXCEPT !.mine = core[w].epoch]]
    /\ UNCHANGED <<slot, desc, lock, started, wake, jobs>>
-----------------------------------------------------------------------------
ClaimLoop(c) == Claim(c) \/ (\E ok \in BOOLEAN : RunGroup(c, ok)) \/ Post(c) \/ Record(c)

Execute(h) ==
    \/ WaitWorkers(h) \/ Lock(h) \/ WriteDescriptor(h) \/ ResetCounters(h) \/ Publish(h)
    \/ SendEvent(h) \/ ClaimLoop(h) \/ WaitDone(h) \/ WaitAcks(h) \/ Retire(h)

WorkerLoop(w) ==
    \/ Boot(w) \/ Register(w) \/ PollEpoch(w) \/ WaitForEvent(w) \/ CopyDescriptor(w)
    \/ ClaimLoop(w) \/ Acknowledge(w)

Next ==
    \/ \E h \in Hosts, l \in Launches, total \in GroupCounts : Submit(h, l, total)
    \/ \E h \in Hosts : Execute(h)
    \/ \E w \in Workers : WorkerLoop(w)

\* Every core keeps running.  A spinning submitter gets the lock once the others
\* have nothing left to submit: spin::Mutex itself is not fair.
Fairness == /\ \A h \in Hosts : WF_vars(Execute(h))
            /\ \A w \in Workers : WF_vars(WorkerLoop(w))

Spec == Init /\ [][Next]_vars /\ Fairness
-----------------------------------------------------------------------------
(* Properties.                                                              *)

HostPc == {"boot", "out", "lock", "write", "reset", "publish", "sev", "wait done",
           "wait acks", "retire"}
ClaimPc == {"claim", "run", "post", "record"}
WorkerPc == {"off", "register", "poll", "wfe", "copy", "ack"}

\* Every variable holds what the code's types allow.
TypeOK ==
    /\ slot \in [epoch : 0..EpochMod - 1, claim : Nat, done : Nat, error : BOOLEAN]
    /\ desc \in [launch : Launches \cup {0}, total : Nat]
    /\ lock \in Hosts \cup {NoHost}
    /\ started \in [Workers -> BOOLEAN]
    /\ acks \in [Workers -> 0..EpochMod - 1]
    /\ core \in [Cores -> [pc : HostPc \cup ClaimPc \cup WorkerPc,
                           launch : Launches \cup {0}, total : Nat, index : Nat,
                           failed : BOOLEAN, epoch : 0..EpochMod - 1,
                           mine : 0..EpochMod - 1]]
    /\ \A h \in Hosts : core[h].pc \in HostPc \cup ClaimPc
    /\ \A w \in Workers : core[w].pc \in WorkerPc \cup ClaimPc
    /\ wake \in [Workers -> BOOLEAN]
    /\ jobs \in [Launches -> [total : Nat, failed : BOOLEAN, ran : [Groups -> Nat],
                              status : {"queued", "submitted", "running", "complete", "error"}]]

\* The unsafe Sync for JobSlot: a submitter writes the descriptor only while no
\* worker is copying it, although the workers take no lock.
DescriptorStable ==
    ~\E h \in Hosts, w \in Workers : core[h].pc = "write" /\ core[w].pc = "copy"

\* run_claimed's safety contract: no core claims from the counters of another
\* launch than the one it holds.
OneLaunchPerCounter ==
    \A c, d \in Cores : core[c].pc \in ClaimPc /\ core[d].pc \in ClaimPc =>
        core[c].launch = core[d].launch

\* Whatever the cores' speeds, no work-group is executed twice, and a launch
\* retires with every one of its groups executed.
EachGroupOnce ==
    \A l \in Launches, g \in Groups :
        /\ jobs[l].ran[g] <= (IF g < jobs[l].total THEN 1 ELSE 0)
        /\ jobs[l].status \in {"complete", "error"} =>
             jobs[l].ran[g] = (IF g < jobs[l].total THEN 1 ELSE 0)

\* Every submitted launch retires: no submitter waits forever for a worker that
\* sleeps through the sev.
LaunchesRetire ==
    \A l \in Launches :
        jobs[l].status = "submitted" ~> jobs[l].status \in {"complete", "error"}

\* The device keeps the promise every back end makes.
GroupsRun(l) == Cardinality({g \in Groups : jobs[l].ran[g] > 0})
Contract == INSTANCE LaunchContract WITH
    MaxUnits <- Cardinality(Groups),
    status <- [l \in Launches |-> jobs[l].status],
    units  <- [l \in Launches |-> jobs[l].total],
    ran    <- [l \in Launches |-> GroupsRun(l)],
    failed <- [l \in Launches |-> jobs[l].failed]
KeepsContract == Contract!Spec
=============================================================================
