-------------------------- MODULE SmpDeviceProofs ---------------------------
(***************************************************************************)
(* Proofs about the SMP device's job slot, for any number of submitting    *)
(* threads and worker cores, any numbers of work-groups and behaviours of  *)
(* any length: the variables keep their types; and when the program waits  *)
(* for the workers before it submits, then for as long as the 32-bit epoch *)
(* has not wrapped the descriptor is never written under a worker that     *)
(* copies it, no two cores claim work-groups of different launches, every  *)
(* work-group is executed exactly once, and the device implements the      *)
(* contract of every back end, LaunchContract.  The epoch does not wrap    *)
(* within as many launches as it can count.                                *)
(***************************************************************************)
EXTENDS SmpDevice, FiniteSetTheorems, NaturalsInduction, WellFoundedInduction, TLAPS

CoreRecord ==
    [pc : HostPc \cup ClaimPc \cup WorkerPc, launch : Launches \cup {0}, total : Nat,
     index : Nat, failed : BOOLEAN, epoch : 0..EpochMod - 1, mine : 0..EpochMod - 1]
JobRecord ==
    [total : Nat, failed : BOOLEAN, ran : [Groups -> Nat],
     status : {"queued", "submitted", "running", "complete", "error"}]
SlotRecord == [epoch : 0..EpochMod - 1, claim : Nat, done : Nat, error : BOOLEAN]

\* Adding to the epoch in 32 bits stays in 32 bits, and is + 1 below the limit.
LEMMA EpochArithmetic ==
    /\ 0 \in 0..EpochMod - 1
    /\ \A x \in Nat : x % EpochMod \in 0..EpochMod - 1
    /\ \A x \in Nat : x < EpochMod => x % EpochMod = x
<1>1. EpochMod \in Nat \ {0}
  BY SmpConstants
<1>2. \A m \in Nat \ {0}, x \in Nat : x % m \in 0..m - 1 /\ (x < m => x % m = x)
  OBVIOUS
<1>3. 0 \in 0..EpochMod - 1
  BY <1>1
<1> QED
  BY <1>1, <1>2, <1>3, Zenon

\* A core before it takes part in a launch.
LEMMA NewCoreType ==
    ASSUME NEW p \in HostPc \cup ClaimPc \cup WorkerPc, NEW m \in 0..EpochMod - 1
    PROVE  /\ NewCore(p) \in CoreRecord
           /\ [NewCore(p) EXCEPT !.mine = m] \in CoreRecord
           /\ [NewCore(p) EXCEPT !.mine = m].pc = p
           /\ [NewCore(p) EXCEPT !.mine = m].mine = m
BY EpochArithmetic DEF NewCore, CoreRecord

\* What TypeOK says of one core, whoever runs it.
LEMMA CoreTypes ==
    ASSUME TypeOK, NEW c \in Cores
    PROVE  /\ core[c] \in CoreRecord
           /\ core[c].launch \in Launches \cup {0} /\ core[c].total \in Nat
           /\ core[c].index \in Nat /\ core[c].failed \in BOOLEAN
           /\ core[c].epoch \in 0..EpochMod - 1 /\ core[c].mine \in 0..EpochMod - 1
           /\ c \in Hosts => c \notin Workers
BY SmpConstants DEF TypeOK, CoreRecord, Cores

\* A step that moves one core within the control points of its side keeps the
\* types of all of them.
LEMMA OneCoreMoves ==
    ASSUME TypeOK, NEW c \in Cores, NEW r \in CoreRecord,
           core' = [core EXCEPT ![c] = r],
           c \in Hosts => r.pc \in HostPc \cup ClaimPc,
           c \in Workers => r.pc \in WorkerPc \cup ClaimPc
    PROVE  /\ core' \in [Cores -> CoreRecord]
           /\ \A h \in Hosts : core'[h].pc \in HostPc \cup ClaimPc
           /\ \A w \in Workers : core'[w].pc \in WorkerPc \cup ClaimPc
<1>1. core \in [Cores -> CoreRecord]
  BY DEF TypeOK, CoreRecord
<1>2. core' \in [Cores -> CoreRecord]
  BY <1>1
<1>3. \A h \in Hosts : core'[h].pc \in HostPc \cup ClaimPc
  BY <1>1 DEF TypeOK, Cores
<1>4. \A w \in Workers : core'[w].pc \in WorkerPc \cup ClaimPc
  BY <1>1 DEF TypeOK, Cores
<1> QED
  BY <1>2, <1>3, <1>4

\* ... in particular one that only goes to another control point.
LEMMA GotoMoves ==
    ASSUME TypeOK, NEW c \in Cores, NEW p, Goto(c, p),
           c \in Hosts => p \in HostPc \cup ClaimPc,
           c \in Workers => p \in WorkerPc \cup ClaimPc
    PROVE  /\ core' \in [Cores -> CoreRecord]
           /\ \A h \in Hosts : core'[h].pc \in HostPc \cup ClaimPc
           /\ \A w \in Workers : core'[w].pc \in WorkerPc \cup ClaimPc
<1> DEFINE r == [core[c] EXCEPT !.pc = p]
<1>1. core' = [core EXCEPT ![c] = r]
  BY DEF Goto
<1>2. p \in HostPc \cup ClaimPc \cup WorkerPc
  BY DEF Cores
<1>3. r \in CoreRecord /\ r.pc = p
  BY <1>2, CoreTypes DEF CoreRecord
<1> HIDE DEF r
<1> QED
  BY <1>1, <1>3, OneCoreMoves
-----------------------------------------------------------------------------
(* Type correctness.                                                        *)

\* execute, up to the publication of the epoch.
LEMMA SubmitterTypes ==
    ASSUME TypeOK, NEW h \in Hosts,
           \/ WaitWorkers(h) \/ Lock(h) \/ WriteDescriptor(h) \/ ResetCounters(h)
           \/ WaitDone(h) \/ WaitAcks(h)
    PROVE  TypeOK'
<1>0. h \in Cores /\ h \notin Workers
  BY SmpConstants DEF Cores
<1>1. \E p \in HostPc : Goto(h, p)
  BY DEF WaitWorkers, Lock, WriteDescriptor, ResetCounters, WaitDone, WaitAcks, HostPc
<1>2. /\ core' \in [Cores -> CoreRecord]
      /\ \A k \in Hosts : core'[k].pc \in HostPc \cup ClaimPc
      /\ \A w \in Workers : core'[w].pc \in WorkerPc \cup ClaimPc
  BY <1>0, <1>1, GotoMoves
<1>3. slot' \in SlotRecord
  <2>1. slot \in SlotRecord /\ 0 \in Nat
    BY DEF TypeOK, SlotRecord
  <2>2. CASE Lock(h)
    BY <2>1, <2>2 DEF Lock, SlotRecord
  <2>3. CASE ResetCounters(h)
    <3> DEFINE z == 0
    <3>1. z \in Nat /\ slot' = [slot EXCEPT !.claim = z, !.done = z]
      BY <2>3 DEF ResetCounters
    <3> HIDE DEF z
    <3> QED
      BY <2>1, <3>1 DEF SlotRecord
  <2> QED
    BY <2>1, <2>2, <2>3 DEF WaitWorkers, WriteDescriptor, WaitDone, WaitAcks
<1>4. desc' \in [launch : Launches \cup {0}, total : Nat]
  <2>1. CASE WriteDescriptor(h)
    BY <1>0, <2>1, CoreTypes DEF WriteDescriptor
  <2>2. CASE ~WriteDescriptor(h)
    BY <2>2 DEF WaitWorkers, Lock, ResetCounters, WaitDone, WaitAcks, TypeOK
  <2> QED
    BY <2>1, <2>2
<1>5. /\ lock' \in Hosts \cup {NoHost} /\ started' \in [Workers -> BOOLEAN]
      /\ wake' \in [Workers -> BOOLEAN]
  BY DEF WaitWorkers, Lock, WriteDescriptor, ResetCounters, WaitDone, WaitAcks, TypeOK
<1>6. acks' \in [Workers -> 0..EpochMod - 1] /\ jobs' \in [Launches -> JobRecord]
  BY DEF WaitWorkers, Lock, WriteDescriptor, ResetCounters, WaitDone, WaitAcks, TypeOK,
         JobRecord
<1> QED
  BY <1>2, <1>3, <1>4, <1>5, <1>6 DEF TypeOK, CoreRecord, SlotRecord, JobRecord

\* submit, the publication, the sev with CL_RUNNING, and the end of execute.
LEMMA LaunchTypes ==
    ASSUME TypeOK, NEW h \in Hosts,
           \/ \E l \in Launches, total \in GroupCounts : Submit(h, l, total)
           \/ Publish(h) \/ SendEvent(h) \/ Retire(h)
    PROVE  TypeOK'
<1>0. h \in Cores /\ h \notin Workers /\ slot.epoch \in Nat
  BY SmpConstants DEF Cores, TypeOK
<1>1. /\ core' \in [Cores -> CoreRecord]
      /\ \A k \in Hosts : core'[k].pc \in HostPc \cup ClaimPc
      /\ \A w \in Workers : core'[w].pc \in WorkerPc \cup ClaimPc
  <2>1. ASSUME NEW l \in Launches, NEW total \in GroupCounts, Submit(h, l, total)
        PROVE  \E r \in CoreRecord : core' = [core EXCEPT ![h] = r] /\ r.pc \in HostPc
    <3> DEFINE r == [core[h] EXCEPT !.pc = "lock", !.launch = l, !.total = total]
    <3>1. r \in CoreRecord /\ r.pc = "lock"
      BY <1>0, CoreTypes, SmpConstants DEF CoreRecord, HostPc
    <3>2. core' = [core EXCEPT ![h] = r]
      BY <2>1 DEF Submit
    <3> HIDE DEF r
    <3> QED
      BY <3>1, <3>2 DEF HostPc
  <2>2. ASSUME Publish(h)
        PROVE  \E r \in CoreRecord : core' = [core EXCEPT ![h] = r] /\ r.pc \in HostPc
    <3> DEFINE e == (slot.epoch + 1) % EpochMod
               r == [core[h] EXCEPT !.pc = "sev", !.epoch = e]
    <3>1. e \in 0..EpochMod - 1
      BY <1>0, EpochArithmetic
    <3>2. core' = [core EXCEPT ![h] = r]
      BY <2>2 DEF Publish
    <3> HIDE DEF e
    <3>3. r \in CoreRecord /\ r.pc = "sev"
      BY <1>0, <3>1, CoreTypes DEF CoreRecord, HostPc
    <3> HIDE DEF r
    <3> QED
      BY <3>2, <3>3 DEF HostPc
  <2>3. ASSUME Retire(h)
        PROVE  \E r \in CoreRecord : core' = [core EXCEPT ![h] = r] /\ r.pc \in HostPc
    <3>1. NewCore("out") \in CoreRecord /\ NewCore("out").pc = "out"
      BY <1>0, EpochArithmetic DEF NewCore, CoreRecord, HostPc
    <3> QED
      BY <2>3, <3>1 DEF Retire, HostPc
  <2>4. CASE SendEvent(h)
    BY <1>0, <2>4, GotoMoves DEF SendEvent, ClaimPc
  <2> QED
    BY <1>0, <2>1, <2>2, <2>3, <2>4, OneCoreMoves
<1>2. slot' \in SlotRecord
  <2>1. CASE Publish(h)
    <3> DEFINE e == (slot.epoch + 1) % EpochMod
    <3>1. e \in 0..EpochMod - 1
      BY <1>0, EpochArithmetic
    <3>2. slot' = [slot EXCEPT !.epoch = e]
      BY <2>1 DEF Publish
    <3> HIDE DEF e
    <3> QED
      BY <3>1, <3>2 DEF TypeOK, SlotRecord
  <2>2. CASE ~Publish(h)
    BY <2>2 DEF Submit, SendEvent, Retire, TypeOK, SlotRecord
  <2> QED
    BY <2>1, <2>2
<1>3. jobs' \in [Launches -> JobRecord]
  <2>1. jobs \in [Launches -> JobRecord]
    BY DEF TypeOK, JobRecord
  <2>2. ASSUME NEW l \in Launches, NEW total \in GroupCounts, Submit(h, l, total)
        PROVE  jobs' \in [Launches -> JobRecord]
    BY <2>1, <2>2, SmpConstants DEF Submit, JobRecord
  <2>3. CASE Publish(h)
    BY <2>1, <2>3 DEF Publish
  <2>4. CASE SendEvent(h)
    BY <2>1, <2>4 DEF SendEvent, JobRecord
  <2>5. CASE Retire(h)
    <3> DEFINE st == IF slot.error THEN "error" ELSE "complete"
               l == core[h].launch
    <3>1. st \in {"complete", "error"}
      OBVIOUS
    <3>2. jobs' = [jobs EXCEPT ![l].status = st]
      BY <2>5 DEF Retire
    <3> HIDE DEF st, l
    <3> QED
      BY <2>1, <3>1, <3>2 DEF JobRecord
  <2> QED
    BY <2>2, <2>3, <2>4, <2>5
<1>4. /\ lock' \in Hosts \cup {NoHost} /\ started' \in [Workers -> BOOLEAN]
      /\ wake' \in [Workers -> BOOLEAN]
  BY DEF Submit, Publish, SendEvent, Retire, TypeOK
<1>5. acks' \in [Workers -> 0..EpochMod - 1] /\ desc' \in [launch : Launches \cup {0}, total : Nat]
  BY DEF Submit, Publish, SendEvent, Retire, TypeOK
<1> QED
  BY <1>1, <1>2, <1>3, <1>4, <1>5 DEF TypeOK, CoreRecord, SlotRecord, JobRecord

\* Executing a group, whatever its number, leaves a launch a launch.
LEMMA WithGroupType ==
    ASSUME NEW job \in JobRecord, NEW group, NEW ok \in BOOLEAN
    PROVE  WithGroup(job, group, ok) \in JobRecord
<1> DEFINE n == [job.ran EXCEPT ![group] = job.ran[group] + 1]
           f == job.failed \/ ~ok
<1>1. WithGroup(job, group, ok) = [job EXCEPT !.ran = n, !.failed = f]
  BY DEF WithGroup, JobRecord
<1>2. n \in [Groups -> Nat]
  <2>1. job.ran \in [Groups -> Nat]
    BY DEF JobRecord
  <2>2. CASE group \in Groups
    BY <2>1, <2>2
  <2>3. CASE group \notin Groups
    BY <2>1, <2>3
  <2> QED
    BY <2>2, <2>3
<1>3. f \in BOOLEAN
  OBVIOUS
<1> HIDE DEF n, f
<1> QED
  BY <1>1, <1>2, <1>3 DEF JobRecord

\* run_claimed on any core.
LEMMA ClaimTypes ==
    ASSUME TypeOK, NEW c \in Cores, ClaimLoop(c)
    PROVE  TypeOK'
<1>0. c \in Hosts => c \notin Workers
  BY SmpConstants
<1>1. UNCHANGED <<desc, lock, started, acks, wake>>
  BY DEF ClaimLoop, Claim, RunGroup, Post, Record
<1>2. slot' \in SlotRecord
  <2>0. slot \in SlotRecord /\ core[c].failed \in BOOLEAN
    BY CoreTypes DEF TypeOK, SlotRecord
  <2>1. CASE Claim(c)
    <3>1. slot.claim + 1 \in Nat
      BY <2>0 DEF SlotRecord
    <3> QED
      BY <2>0, <2>1, <3>1 DEF Claim, SlotRecord
  <2>2. ASSUME NEW ok \in BOOLEAN, RunGroup(c, ok) PROVE slot' \in SlotRecord
    BY <2>0, <2>2 DEF RunGroup
  <2>3. CASE Post(c)
    <3>1. slot.done + 1 \in Nat
      BY <2>0 DEF SlotRecord
    <3> QED
      BY <2>0, <2>3, <3>1 DEF Post, SlotRecord
  <2>4. CASE Record(c)
    BY <2>0, <2>4 DEF Record, SlotRecord
  <2> QED
    BY <2>1, <2>2, <2>3, <2>4 DEF ClaimLoop
<1>3. /\ core' \in [Cores -> CoreRecord]
      /\ \A k \in Hosts : core'[k].pc \in HostPc \cup ClaimPc
      /\ \A w \in Workers : core'[w].pc \in WorkerPc \cup ClaimPc
  <2>1. ASSUME Claim(c)
        PROVE  \E r \in CoreRecord : core' = [core EXCEPT ![c] = r] /\ r.pc \in ClaimPc
    <3> DEFINE p == IF slot.claim >= core[c].total THEN "record" ELSE "run"
               r == [core[c] EXCEPT !.index = slot.claim, !.pc = p]
    <3>1. core' = [core EXCEPT ![c] = r]
      BY <2>1 DEF Claim
    <3>2. p \in ClaimPc /\ slot.claim \in Nat
      BY DEF ClaimPc, TypeOK
    <3> HIDE DEF p
    <3>3. r \in CoreRecord /\ r.pc = p
      BY <3>2, CoreTypes DEF CoreRecord
    <3> HIDE DEF r
    <3> QED
      BY <3>1, <3>2, <3>3
  <2>2. ASSUME NEW ok \in BOOLEAN, RunGroup(c, ok)
        PROVE  \E r \in CoreRecord : core' = [core EXCEPT ![c] = r] /\ r.pc \in ClaimPc
    <3> DEFINE f == core[c].failed \/ ~ok
               r == [core[c] EXCEPT !.failed = f, !.pc = "post"]
    <3>1. core' = [core EXCEPT ![c] = r]
      BY <2>2 DEF RunGroup
    <3>2. f \in BOOLEAN
      OBVIOUS
    <3> HIDE DEF f
    <3>3. r \in CoreRecord /\ r.pc = "post"
      BY <3>2, CoreTypes DEF CoreRecord, ClaimPc
    <3> HIDE DEF r
    <3> QED
      BY <3>1, <3>3 DEF ClaimPc
  <2>3. CASE Post(c)
    BY <2>3, GotoMoves DEF Post, ClaimPc
  <2>4. CASE Record(c)
    BY <1>0, <2>4, GotoMoves DEF Record, HostPc, WorkerPc
  <2> QED
    BY <2>1, <2>2, <2>3, <2>4, OneCoreMoves DEF ClaimLoop
<1>4. jobs' \in [Launches -> JobRecord]
  <2>0. jobs \in [Launches -> JobRecord]
    BY DEF TypeOK, JobRecord
  <2>1. ASSUME NEW ok \in BOOLEAN, RunGroup(c, ok) PROVE jobs' \in [Launches -> JobRecord]
    <3> DEFINE l == core[c].launch
               j == WithGroup(jobs[l], core[c].index, ok)
    <3>1. jobs' = [jobs EXCEPT ![l] = j]
      BY <2>1 DEF RunGroup
    <3>4. l \in Launches => j \in JobRecord
      BY <2>0, WithGroupType
    <3> HIDE DEF j
    <3> QED
      BY <2>0, <3>1, <3>4
  <2> QED
    BY <2>0, <2>1 DEF ClaimLoop, Claim, Post, Record
<1> QED
  BY <1>1, <1>2, <1>3, <1>4 DEF TypeOK, CoreRecord, SlotRecord, JobRecord

\* worker_loop around run_claimed.
LEMMA WorkerTypes ==
    ASSUME TypeOK, NEW w \in Workers,
           \/ Boot(w) \/ Register(w) \/ PollEpoch(w) \/ WaitForEvent(w)
           \/ CopyDescriptor(w) \/ Acknowledge(w)
    PROVE  TypeOK'
<1>0. /\ w \in Cores /\ w \notin Hosts /\ slot.epoch \in 0..EpochMod - 1
      /\ desc.launch \in Launches \cup {0} /\ desc.total \in Nat
  BY SmpConstants DEF Cores, TypeOK
<1>1. UNCHANGED <<slot, desc, lock, jobs>>
  BY DEF Boot, Register, PollEpoch, WaitForEvent, CopyDescriptor, Acknowledge
<1>2. started' \in [Workers -> BOOLEAN] /\ wake' \in [Workers -> BOOLEAN]
  BY DEF Boot, Register, PollEpoch, WaitForEvent, CopyDescriptor, Acknowledge, TypeOK
<1>3. acks' \in [Workers -> 0..EpochMod - 1]
  BY <1>0, CoreTypes DEF Boot, Register, PollEpoch, WaitForEvent, CopyDescriptor,
                         Acknowledge, TypeOK
<1>4. /\ core' \in [Cores -> CoreRecord]
      /\ \A k \in Hosts : core'[k].pc \in HostPc \cup ClaimPc
      /\ \A v \in Workers : core'[v].pc \in WorkerPc \cup ClaimPc
  <2>1. CASE Register(w) \/ WaitForEvent(w)
    BY <1>0, <2>1, GotoMoves DEF Register, WaitForEvent, WorkerPc
  <2>2. ASSUME Boot(w)
        PROVE  \E r \in CoreRecord : core' = [core EXCEPT ![w] = r]
                                     /\ r.pc \in WorkerPc \cup ClaimPc
    <3> DEFINE r == [core[w] EXCEPT !.pc = "register", !.mine = slot.epoch]
    <3>1. core' = [core EXCEPT ![w] = r]
      BY <2>2 DEF Boot
    <3>2. r \in CoreRecord /\ r.pc = "register"
      BY <1>0, CoreTypes DEF CoreRecord, WorkerPc
    <3> HIDE DEF r
    <3> QED
      BY <3>1, <3>2 DEF WorkerPc
  <2>3. ASSUME PollEpoch(w)
        PROVE  \E r \in CoreRecord : core' = [core EXCEPT ![w] = r]
                                     /\ r.pc \in WorkerPc \cup ClaimPc
    <3> DEFINE p == IF slot.epoch = core[w].mine THEN "wfe" ELSE "copy"
               r == [core[w] EXCEPT !.epoch = slot.epoch, !.pc = p]
    <3>1. core' = [core EXCEPT ![w] = r]
      BY <2>3 DEF PollEpoch
    <3>2. p \in WorkerPc
      BY DEF WorkerPc
    <3> HIDE DEF p
    <3>3. r \in CoreRecord /\ r.pc = p
      BY <1>0, <3>2, CoreTypes DEF CoreRecord
    <3> HIDE DEF r
    <3> QED
      BY <3>1, <3>2, <3>3
  <2>4. ASSUME CopyDescriptor(w)
        PROVE  \E r \in CoreRecord : core' = [core EXCEPT ![w] = r]
                                     /\ r.pc \in WorkerPc \cup ClaimPc
    <3> DEFINE r == [core[w] EXCEPT !.pc = "claim", !.launch = desc.launch,
                                    !.total = desc.total, !.failed = FALSE]
    <3>1. core' = [core EXCEPT ![w] = r]
      BY <2>4 DEF CopyDescriptor
    <3>2. r \in CoreRecord /\ r.pc = "claim"
      BY <1>0, CoreTypes DEF CoreRecord, ClaimPc
    <3> HIDE DEF r
    <3> QED
      BY <3>1, <3>2 DEF ClaimPc
  <2>5. ASSUME Acknowledge(w)
        PROVE  \E r \in CoreRecord : core' = [core EXCEPT ![w] = r]
                                     /\ r.pc \in WorkerPc \cup ClaimPc
    <3>1. core[w].epoch \in 0..EpochMod - 1 /\ "poll" \in WorkerPc
      BY <1>0, CoreTypes DEF WorkerPc
    <3> QED
      <4> DEFINE r == [NewCore("poll") EXCEPT !.mine = core[w].epoch]
      <4>1. core' = [core EXCEPT ![w] = r]
        BY <2>5 DEF Acknowledge
      <4>2. "poll" \in HostPc \cup ClaimPc \cup WorkerPc
        BY <3>1
      <4>3. r \in CoreRecord /\ r.pc = "poll"
        BY <3>1, <4>2, NewCoreType
      <4> HIDE DEF r
      <4> QED
        BY <3>1, <4>1, <4>3
  <2> QED
    BY <1>0, <2>1, <2>2, <2>3, <2>4, <2>5, OneCoreMoves
<1> QED
  BY <1>1, <1>2, <1>3, <1>4 DEF TypeOK, CoreRecord, SlotRecord, JobRecord

\* SmpDevice: every variable of the device, its submitters and its workers
\* keeps its type.
THEOREM SmpTypeCorrect == Spec => []TypeOK
<1>1. Init => TypeOK
  <2> SUFFICES ASSUME Init PROVE TypeOK
    OBVIOUS
  <2>1. core \in [Cores -> CoreRecord]
    <3>1. \A p \in {"boot", "out", "off"} : NewCore(p) \in CoreRecord
      BY EpochArithmetic DEF NewCore, CoreRecord, HostPc, WorkerPc
    <3> QED
      BY <3>1 DEF Init
  <2>2. /\ \A h \in Hosts : core[h].pc \in HostPc \cup ClaimPc
        /\ \A w \in Workers : core[w].pc \in WorkerPc \cup ClaimPc
    BY SmpConstants DEF Init, NewCore, HostPc, WorkerPc, Cores
  <2>3. slot \in SlotRecord /\ acks \in [Workers -> 0..EpochMod - 1]
    BY EpochArithmetic DEF Init, SlotRecord
  <2>4. jobs \in [Launches -> JobRecord]
    BY DEF Init, JobRecord
  <2> QED
    BY <2>1, <2>2, <2>3, <2>4 DEF Init, TypeOK, CoreRecord, SlotRecord, JobRecord
<1>2. TypeOK /\ [Next]_vars => TypeOK'
  <2> SUFFICES ASSUME TypeOK, [Next]_vars PROVE TypeOK'
    OBVIOUS
  <2>1. CASE UNCHANGED vars
    BY <2>1 DEF vars, TypeOK
  <2>2. ASSUME NEW h \in Hosts, Execute(h) PROVE TypeOK'
    <3>1. h \in Cores
      BY DEF Cores
    <3> QED
      BY <2>2, <3>1, SubmitterTypes, LaunchTypes, ClaimTypes DEF Execute
  <2>3. ASSUME NEW w \in Workers, WorkerLoop(w) PROVE TypeOK'
    <3>1. w \in Cores
      BY DEF Cores
    <3> QED
      BY <2>3, <3>1, WorkerTypes, ClaimTypes DEF WorkerLoop
  <2> QED
    BY <2>1, <2>2, <2>3, LaunchTypes DEF Next
<1> QED
  BY <1>1, <1>2, PTL DEF Spec
-----------------------------------------------------------------------------
(* The publication protocol of the job slot.                                *)

\* Where a submitter holds the lock, where its descriptor is in the slot, and
\* where the epoch it published may still be read by workers.
PublishedPc == ClaimPc \cup {"sev", "wait done", "wait acks"}
WrittenPc == PublishedPc \cup {"reset", "publish", "retire"}
LockedPc == WrittenPc \cup {"write"}

\* Where a worker reads the descriptor or works from its copy.
ReadingPc == ClaimPc \cup {"copy", "ack"}

\* One submitter at a time, and the slot holds what it wrote.
LockHeld == \A h \in Hosts : core[h].pc \in LockedPc => lock = h
SlotIsMine == \A h \in Hosts : core[h].pc \in WrittenPc => core[h].launch = desc.launch
EpochIsMine == \A h \in Hosts : core[h].pc \in PublishedPc => core[h].epoch = slot.epoch

\* Nothing is published before every worker has registered.
AllRegistered == \A h \in Hosts : core[h].pc # "boot" => \A w \in Workers : started[w]
Unregistered == \A w \in Workers : ~started[w] =>
    /\ slot.epoch = 0 /\ core[w].mine = 0 /\ acks[w] = 0
    /\ core[w].pc \in {"off", "register"}

\* A registered worker waits with the epoch it acknowledged, or reads the
\* current one, which it has not acknowledged.
Registered == \A w \in Workers : started[w] =>
    /\ core[w].pc \notin {"off", "register"}
    /\ acks[w] <= slot.epoch
    /\ core[w].pc \in {"poll", "wfe"} => core[w].mine = acks[w]
    /\ core[w].pc \in ReadingPc => core[w].epoch = slot.epoch /\ acks[w] < slot.epoch
    /\ core[w].pc \in ClaimPc => core[w].launch = desc.launch

\* Between two publications every worker has acknowledged the current epoch.
Quiescent == (\A h \in Hosts : core[h].pc \notin PublishedPc) =>
                 \A w \in Workers : acks[w] = slot.epoch

Protocol ==
    /\ LockHeld /\ SlotIsMine /\ EpochIsMine
    /\ AllRegistered /\ Unregistered /\ Registered /\ Quiescent

\* The epoch has not reached its last value, so the next publication adds one.
NoWrap == slot.epoch + 1 < EpochMod

\* While a submitter holds the lock and has published nothing yet, no worker
\* touches the descriptor.
LEMMA NobodyReads ==
    ASSUME TypeOK, Protocol, NEW h \in Hosts, core[h].pc \in {"write", "reset", "publish"}
    PROVE  /\ \A w \in Workers : /\ started[w] /\ acks[w] = slot.epoch
                                 /\ core[w].pc \notin ReadingPc
           /\ \A k \in Hosts \ {h} : core[k].pc \notin LockedPc
<1>1. \A w \in Workers : started[w]
  BY DEF Protocol, AllRegistered
<1>2. \A k \in Hosts \ {h} : core[k].pc \notin LockedPc
  BY DEF Protocol, LockHeld, LockedPc, WrittenPc
<1>3. \A k \in Hosts : core[k].pc \notin PublishedPc
  BY <1>2 DEF PublishedPc, WrittenPc, LockedPc, ClaimPc
<1>4. \A w \in Workers : acks[w] = slot.epoch
  BY <1>3 DEF Protocol, Quiescent
<1>5. \A w \in Workers : core[w].pc \notin ReadingPc
  <2> SUFFICES ASSUME NEW w \in Workers, core[w].pc \in ReadingPc PROVE FALSE
    OBVIOUS
  <2>1. acks[w] < slot.epoch /\ acks[w] = slot.epoch /\ slot.epoch \in Nat
    BY <1>1, <1>4 DEF Protocol, Registered, TypeOK
  <2> QED
    BY <2>1
<1> QED
  BY <1>1, <1>2, <1>4, <1>5

\* A submitter that moves without entering or leaving the published region
\* keeps the protocol.
LEMMA HostMoves ==
    ASSUME TypeOK, Protocol, NEW h \in Hosts, UNCHANGED <<desc, lock, started, acks>>,
           slot'.epoch = slot.epoch, core[h].pc # "boot",
           \A c \in Cores \ {h} : core'[c] = core[c],
           core'[h].epoch = core[h].epoch,
           core'[h].pc \in WrittenPc => core'[h].launch = desc.launch,
           core'[h].pc \in PublishedPc <=> core[h].pc \in PublishedPc,
           core'[h].pc \in LockedPc => core[h].pc \in LockedPc
    PROVE  Protocol'
<1>0. h \in Cores /\ h \notin Workers /\ Workers \subseteq Cores /\ Hosts \subseteq Cores
  BY SmpConstants DEF Cores
<1>1. \A w \in Workers : core'[w] = core[w]
  BY <1>0
<1>2. LockHeld' /\ SlotIsMine' /\ EpochIsMine'
  BY <1>0 DEF Protocol, LockHeld, SlotIsMine, EpochIsMine
<1>3. AllRegistered' /\ Quiescent'
  BY <1>0 DEF Protocol, AllRegistered, Quiescent
<1>4. Unregistered' /\ Registered'
  BY <1>1 DEF Protocol, Unregistered, Registered
<1> QED
  BY <1>2, <1>3, <1>4 DEF Protocol

\* A worker that moves within the region it is in keeps the protocol.
LEMMA WorkerMoves ==
    ASSUME TypeOK, Protocol, NEW w \in Workers, UNCHANGED <<desc, lock, started, acks>>,
           slot'.epoch = slot.epoch, started[w],
           \A c \in Cores \ {w} : core'[c] = core[c],
           core'[w].mine = core[w].mine,
           core'[w].pc \notin {"off", "register"},
           core'[w].pc \in {"poll", "wfe"} => core[w].pc \in {"poll", "wfe"},
           core'[w].pc \in ReadingPc =>
               core'[w].epoch = slot.epoch /\ acks[w] < slot.epoch,
           core'[w].pc \in ClaimPc => core'[w].launch = desc.launch
    PROVE  Protocol'
<1>0. w \in Cores /\ w \notin Hosts /\ Workers \subseteq Cores /\ Hosts \subseteq Cores
  BY SmpConstants DEF Cores
<1>1. \A h \in Hosts : core'[h] = core[h]
  BY <1>0
<1>2. LockHeld' /\ SlotIsMine' /\ EpochIsMine' /\ AllRegistered' /\ Quiescent'
  BY <1>1 DEF Protocol, LockHeld, SlotIsMine, EpochIsMine, AllRegistered, Quiescent
<1>3. Unregistered' /\ Registered'
  BY <1>0 DEF Protocol, Unregistered, Registered
<1> QED
  BY <1>2, <1>3 DEF Protocol

\* What a Goto does to the cores.
LEMMA GotoCores ==
    ASSUME TypeOK, NEW c \in Cores, NEW p, Goto(c, p)
    PROVE  /\ core'[c].pc = p /\ core'[c].epoch = core[c].epoch
           /\ core'[c].launch = core[c].launch /\ core'[c].mine = core[c].mine
           /\ \A d \in Cores \ {c} : core'[d] = core[d]
BY DEF Goto, TypeOK

\* run_claimed: the counters of the slot move, the epoch and the descriptor stay.
LEMMA ClaimCores ==
    ASSUME TypeOK, NEW c \in Cores, ClaimLoop(c)
    PROVE  /\ core[c].pc \in ClaimPc
           /\ core'[c].pc \in ClaimPc \cup {IF c \in Hosts THEN "wait done" ELSE "ack"}
           /\ core'[c].epoch = core[c].epoch /\ core'[c].mine = core[c].mine
           /\ core'[c].launch = core[c].launch
           /\ \A d \in Cores \ {c} : core'[d] = core[d]
           /\ slot'.epoch = slot.epoch /\ UNCHANGED <<desc, lock, started, acks>>
<1>1. CASE Claim(c)
  BY <1>1 DEF Claim, ClaimPc, TypeOK
<1>2. ASSUME NEW ok \in BOOLEAN, RunGroup(c, ok)
      PROVE  /\ core[c].pc \in ClaimPc /\ core'[c].pc \in ClaimPc
             /\ core'[c].epoch = core[c].epoch /\ core'[c].mine = core[c].mine
             /\ core'[c].launch = core[c].launch
             /\ \A d \in Cores \ {c} : core'[d] = core[d]
             /\ slot'.epoch = slot.epoch /\ UNCHANGED <<desc, lock, started, acks>>
  BY <1>2 DEF RunGroup, ClaimPc, TypeOK
<1>3. CASE Post(c)
  <2>1. slot'.epoch = slot.epoch
    BY <1>3 DEF Post, TypeOK
  <2> QED
    BY <1>3, <2>1, GotoCores DEF Post, ClaimPc
<1>4. CASE Record(c)
  <2>1. slot'.epoch = slot.epoch
    BY <1>4 DEF Record, TypeOK
  <2> QED
    BY <1>4, <2>1, GotoCores DEF Record, ClaimPc
<1> QED
  BY <1>1, <1>2, <1>3, <1>4 DEF ClaimLoop

\* The steps of a submitter.
LEMMA HostStep ==
    ASSUME TypeOK, Protocol, NoWrap, NEW h \in Hosts, Execute(h)
    PROVE  Protocol'
<1>0. h \in Cores /\ h \notin Workers /\ Workers \subseteq Cores /\ Hosts \subseteq Cores
  BY SmpConstants DEF Cores
<1>1. CASE WaitWorkers(h)
  <2>1. /\ core'[h].pc = "out" /\ \A c \in Cores \ {h} : core'[c] = core[c]
        /\ UNCHANGED <<slot, desc, lock, started, acks>> /\ \A w \in Workers : started[w]
    BY <1>0, <1>1, GotoCores DEF WaitWorkers
  <2>2. \A w \in Workers : core'[w] = core[w]
    BY <1>0, <2>1
  <2>3. core'[h].pc \notin LockedPc /\ core[h].pc \notin LockedPc
    BY <1>1, <2>1 DEF WaitWorkers, LockedPc, WrittenPc, PublishedPc, ClaimPc
  <2>4. LockHeld' /\ SlotIsMine' /\ EpochIsMine'
    BY <1>0, <2>1, <2>3
    DEF Protocol, LockHeld, SlotIsMine, EpochIsMine, LockedPc, WrittenPc
  <2>5. AllRegistered' /\ Unregistered' /\ Registered'
    BY <2>1, <2>2 DEF Protocol, AllRegistered, Unregistered, Registered
  <2>6. Quiescent'
    BY <1>0, <2>1, <2>3 DEF Protocol, Quiescent, LockedPc, WrittenPc
  <2> QED
    BY <2>4, <2>5, <2>6 DEF Protocol
<1>2. CASE Lock(h)
  <2>1. /\ core[h].pc = "lock" /\ core'[h].pc = "write" /\ lock = NoHost /\ lock' = h
        /\ \A c \in Cores \ {h} : core'[c] = core[c]
        /\ UNCHANGED <<desc, started, acks>>
    BY <1>0, <1>2, GotoCores DEF Lock
  <2>2. slot'.epoch = slot.epoch
    BY <1>2 DEF Lock, TypeOK
  <2>3. \A k \in Hosts : core[k].pc \notin LockedPc
    BY <2>1, SmpConstants DEF Protocol, LockHeld
  <2>4. LockHeld' /\ SlotIsMine' /\ EpochIsMine'
    BY <1>0, <2>1, <2>3
    DEF LockHeld, SlotIsMine, EpochIsMine, LockedPc, WrittenPc, PublishedPc, ClaimPc
  <2>5. \A w \in Workers : core'[w] = core[w]
    BY <1>0, <2>1
  <2>6. AllRegistered'
    BY <1>0, <2>1 DEF Protocol, AllRegistered
  <2>7. Unregistered' /\ Registered'
    BY <2>1, <2>2, <2>5 DEF Protocol, Unregistered, Registered
  <2>8. Quiescent'
    BY <2>1, <2>2, <2>3 DEF Protocol, Quiescent, LockedPc, WrittenPc
  <2> QED
    BY <2>4, <2>6, <2>7, <2>8 DEF Protocol
<1>3. CASE WriteDescriptor(h)
  <2>1. /\ core[h].pc = "write" /\ core'[h].pc = "reset"
        /\ core'[h].launch = core[h].launch /\ desc'.launch = core[h].launch
        /\ \A c \in Cores \ {h} : core'[c] = core[c]
        /\ UNCHANGED <<slot, lock, started, acks>>
    BY <1>0, <1>3, GotoCores DEF WriteDescriptor
  <2>2. /\ \A w \in Workers : core[w].pc \notin ReadingPc
        /\ \A k \in Hosts \ {h} : core[k].pc \notin LockedPc
    BY <2>1, NobodyReads
  <2>3. \A w \in Workers : core'[w] = core[w]
    BY <1>0, <2>1
  <2>4. LockHeld' /\ SlotIsMine' /\ EpochIsMine'
    BY <1>0, <2>1, <2>2
    DEF Protocol, LockHeld, SlotIsMine, EpochIsMine, LockedPc, WrittenPc, PublishedPc, ClaimPc
  <2>5. AllRegistered'
    BY <1>0, <2>1 DEF Protocol, AllRegistered
  <2>6. Unregistered' /\ Registered'
    BY <2>1, <2>2, <2>3 DEF Protocol, Unregistered, Registered, ReadingPc
  <2>7. Quiescent'
    BY <1>0, <2>1, <2>2 DEF Protocol, Quiescent, LockedPc, WrittenPc, PublishedPc, ClaimPc
  <2> QED
    BY <2>4, <2>5, <2>6, <2>7 DEF Protocol
<1>4. CASE ResetCounters(h) \/ SendEvent(h) \/ WaitDone(h)
  <2>1. /\ core[h].pc \in {"reset", "sev", "wait done"}
        /\ core'[h].pc = IF core[h].pc = "reset" THEN "publish"
                         ELSE IF core[h].pc = "sev" THEN "claim" ELSE "wait acks"
        /\ core'[h].launch = core[h].launch /\ core'[h].epoch = core[h].epoch
        /\ \A c \in Cores \ {h} : core'[c] = core[c]
        /\ UNCHANGED <<desc, lock, started, acks>>
    BY <1>0, <1>4, GotoCores DEF ResetCounters, SendEvent, WaitDone
  <2>2. slot'.epoch = slot.epoch
    BY <1>4 DEF ResetCounters, SendEvent, WaitDone, TypeOK
  <2>3. core[h].launch = desc.launch
    BY <2>1 DEF Protocol, SlotIsMine, WrittenPc, PublishedPc
  <2>4. core'[h].pc \in PublishedPc <=> core[h].pc \in PublishedPc
    BY <2>1 DEF PublishedPc, ClaimPc
  <2>5. core[h].pc \in LockedPc /\ core[h].pc # "boot"
    BY <2>1 DEF LockedPc, WrittenPc, PublishedPc
  <2> QED
    BY <2>1, <2>2, <2>3, <2>4, <2>5, HostMoves
<1>5. CASE Publish(h)
  <2> DEFINE e == (slot.epoch + 1) % EpochMod
  <2>1. /\ core[h].pc = "publish" /\ slot' = [slot EXCEPT !.epoch = e]
        /\ core' = [core EXCEPT ![h].pc = "sev", ![h].epoch = e]
        /\ UNCHANGED <<desc, lock, started, acks>>
    BY <1>5 DEF Publish
  <2>2. e = slot.epoch + 1 /\ slot.epoch \in Nat
    BY EpochArithmetic DEF NoWrap, TypeOK
  <2> HIDE DEF e
  <2>3. /\ core'[h].pc = "sev" /\ core'[h].epoch = e /\ core'[h].launch = core[h].launch
        /\ slot'.epoch = e /\ \A c \in Cores \ {h} : core'[c] = core[c]
    BY <1>0, <2>1 DEF TypeOK
  <2>4. /\ \A w \in Workers : /\ started[w] /\ acks[w] = slot.epoch
                              /\ core[w].pc \notin ReadingPc
        /\ \A k \in Hosts \ {h} : core[k].pc \notin LockedPc
    BY <2>1, NobodyReads
  <2>5. \A w \in Workers : core'[w] = core[w]
    BY <1>0, <2>3
  <2>6. LockHeld' /\ SlotIsMine' /\ EpochIsMine'
    BY <1>0, <2>1, <2>3, <2>4
    DEF Protocol, LockHeld, SlotIsMine, EpochIsMine, LockedPc, WrittenPc, PublishedPc
  <2>7. AllRegistered' /\ Unregistered'
    BY <2>1, <2>4 DEF AllRegistered, Unregistered
  <2>8. Registered'
    <3> SUFFICES ASSUME NEW w \in Workers
                 PROVE  /\ core[w].pc \notin {"off", "register"}
                        /\ acks[w] <= e
                        /\ core[w].pc \in {"poll", "wfe"} => core[w].mine = acks[w]
                        /\ core[w].pc \notin ReadingPc /\ core[w].pc \notin ClaimPc
      BY <2>1, <2>3, <2>5 DEF Registered
    <3>1. acks[w] = slot.epoch /\ core[w].pc \notin ReadingPc /\ started[w]
      BY <2>4
    <3>2. acks[w] <= e
      BY <2>2, <3>1
    <3>3. core[w].pc \notin {"off", "register"}
          /\ (core[w].pc \in {"poll", "wfe"} => core[w].mine = acks[w])
      BY <3>1 DEF Protocol, Registered
    <3> QED
      BY <3>1, <3>2, <3>3 DEF ReadingPc
  <2>9. Quiescent'
    BY <2>3 DEF Quiescent, PublishedPc
  <2> QED
    BY <2>6, <2>7, <2>8, <2>9 DEF Protocol
<1>6. CASE ClaimLoop(h)
  <2>1. /\ core[h].pc \in ClaimPc /\ core'[h].pc \in ClaimPc \cup {"wait done"}
        /\ core'[h].epoch = core[h].epoch /\ core'[h].launch = core[h].launch
        /\ \A d \in Cores \ {h} : core'[d] = core[d]
        /\ slot'.epoch = slot.epoch /\ UNCHANGED <<desc, lock, started, acks>>
    BY <1>0, <1>6, ClaimCores
  <2>2. /\ core[h].pc \in PublishedPc /\ core'[h].pc \in PublishedPc
        /\ core[h].pc \in WrittenPc /\ core[h].pc \in LockedPc /\ core[h].pc # "boot"
    BY <2>1 DEF PublishedPc, WrittenPc, LockedPc, ClaimPc
  <2>3. core[h].launch = desc.launch
    BY <2>2 DEF Protocol, SlotIsMine
  <2> QED
    BY <2>1, <2>2, <2>3, HostMoves
<1>7. CASE WaitAcks(h)
  <2>1. /\ core[h].pc = "wait acks" /\ core'[h].pc = "retire"
        /\ core'[h].launch = core[h].launch
        /\ \A c \in Cores \ {h} : core'[c] = core[c]
        /\ UNCHANGED <<slot, desc, lock, started, acks>>
    BY <1>0, <1>7, GotoCores DEF WaitAcks
  <2>2. \A w \in Workers : acks[w] = slot.epoch
    <3> SUFFICES ASSUME NEW w \in Workers PROVE acks[w] = slot.epoch
      OBVIOUS
    <3>1. started[w] /\ core[h].epoch = slot.epoch
      BY <2>1 DEF Protocol, AllRegistered, EpochIsMine, PublishedPc
    <3>2. acks[w] >= slot.epoch
      BY <1>7, <3>1 DEF WaitAcks, Acknowledged
    <3>3. acks[w] <= slot.epoch /\ acks[w] \in Nat /\ slot.epoch \in Nat
      BY <3>1 DEF Protocol, Registered, TypeOK
    <3> QED
      BY <3>2, <3>3
  <2>3. \A w \in Workers : core'[w] = core[w]
    BY <1>0, <2>1
  <2>4. LockHeld' /\ SlotIsMine' /\ EpochIsMine'
    BY <1>0, <2>1
    DEF Protocol, LockHeld, SlotIsMine, EpochIsMine, LockedPc, WrittenPc, PublishedPc, ClaimPc
  <2>5. AllRegistered'
    BY <1>0, <2>1 DEF Protocol, AllRegistered
  <2>6. Unregistered' /\ Registered'
    BY <2>1, <2>3 DEF Protocol, Unregistered, Registered
  <2>7. Quiescent'
    BY <2>1, <2>2 DEF Quiescent
  <2> QED
    BY <2>4, <2>5, <2>6, <2>7 DEF Protocol
<1>8. CASE Retire(h)
  <2>1. /\ core[h].pc = "retire" /\ core' = [core EXCEPT ![h] = NewCore("out")]
        /\ UNCHANGED <<desc, started, acks>> /\ lock' = NoHost
    BY <1>8 DEF Retire
  <2>2. core'[h].pc = "out" /\ \A c \in Cores \ {h} : core'[c] = core[c]
    BY <1>0, <2>1 DEF TypeOK, NewCore
  <2>3. slot'.epoch = slot.epoch
    BY <1>8 DEF Retire, TypeOK
  <2>4. \A k \in Hosts : core'[k].pc \notin LockedPc /\ core[k].pc \notin PublishedPc
    <3>1. \A k \in Hosts \ {h} : core[k].pc \notin LockedPc
      BY <2>1 DEF Protocol, LockHeld, LockedPc, WrittenPc
    <3> QED
      BY <1>0, <2>1, <2>2, <3>1 DEF LockedPc, WrittenPc, PublishedPc, ClaimPc
  <2>5. \A w \in Workers : core'[w] = core[w]
    BY <1>0, <2>2
  <2>6. LockHeld' /\ SlotIsMine' /\ EpochIsMine'
    BY <2>4 DEF LockHeld, SlotIsMine, EpochIsMine, LockedPc, WrittenPc
  <2>7. AllRegistered'
    BY <1>0, <2>1, <2>2 DEF Protocol, AllRegistered
  <2>8. Unregistered' /\ Registered'
    BY <2>1, <2>3, <2>5 DEF Protocol, Unregistered, Registered
  <2>9. Quiescent'
    BY <2>1, <2>3, <2>4 DEF Protocol, Quiescent
  <2> QED
    BY <2>6, <2>7, <2>8, <2>9 DEF Protocol
<1> QED
  BY <1>1, <1>2, <1>3, <1>4, <1>5, <1>6, <1>7, <1>8 DEF Execute

\* The steps of a worker.
LEMMA WorkerStep ==
    ASSUME TypeOK, Protocol, NEW w \in Workers, WorkerLoop(w)
    PROVE  Protocol'
<1>0. w \in Cores /\ w \notin Hosts /\ Workers \subseteq Cores /\ Hosts \subseteq Cores
  BY SmpConstants DEF Cores
<1>1. CASE Boot(w)
  <2>1. /\ core[w].pc = "off" /\ core'[w].pc = "register" /\ core'[w].mine = slot.epoch
        /\ \A c \in Cores \ {w} : core'[c] = core[c]
        /\ UNCHANGED <<slot, desc, lock, started, acks>>
    BY <1>0, <1>1 DEF Boot, TypeOK
  <2>2. ~started[w] /\ slot.epoch = 0
    BY <2>1 DEF Protocol, Registered, Unregistered
  <2>3. \A h \in Hosts : core'[h] = core[h]
    BY <1>0, <2>1
  <2>4. LockHeld' /\ SlotIsMine' /\ EpochIsMine' /\ AllRegistered' /\ Quiescent'
    BY <2>1, <2>3
    DEF Protocol, LockHeld, SlotIsMine, EpochIsMine, AllRegistered, Quiescent
  <2>5. Unregistered' /\ Registered'
    BY <1>0, <2>1, <2>2 DEF Protocol, Unregistered, Registered
  <2> QED
    BY <2>4, <2>5 DEF Protocol
<1>2. CASE Register(w)
  <2>1. /\ core[w].pc = "register" /\ core'[w].pc = "poll" /\ core'[w].mine = core[w].mine
        /\ \A c \in Cores \ {w} : core'[c] = core[c]
        /\ UNCHANGED <<slot, desc, lock>>
    BY <1>0, <1>2, GotoCores DEF Register
  <2>2. slot.epoch = 0 /\ core[w].mine = 0
    BY <2>1 DEF Protocol, Registered, Unregistered
  <2>3. /\ started'[w] = TRUE /\ acks'[w] = 0
        /\ \A v \in Workers \ {w} : started'[v] = started[v] /\ acks'[v] = acks[v]
    BY <1>2, <2>2 DEF Register, TypeOK
  <2>4. \A h \in Hosts : core'[h] = core[h]
    BY <1>0, <2>1
  <2>5. LockHeld' /\ SlotIsMine' /\ EpochIsMine'
    BY <2>1, <2>4 DEF Protocol, LockHeld, SlotIsMine, EpochIsMine
  <2>6. AllRegistered'
    BY <2>3, <2>4 DEF Protocol, AllRegistered
  <2>7. Quiescent'
    BY <2>1, <2>2, <2>3, <2>4 DEF Protocol, Quiescent
  <2>8. Unregistered'
    BY <1>0, <2>1, <2>3 DEF Protocol, Unregistered
  <2>9. Registered'
    BY <1>0, <2>1, <2>2, <2>3 DEF Protocol, Registered, ReadingPc, ClaimPc
  <2> QED
    BY <2>5, <2>6, <2>7, <2>8, <2>9 DEF Protocol
<1>3. CASE PollEpoch(w)
  <2>1. /\ core[w].pc = "poll" /\ core'[w].epoch = slot.epoch /\ core'[w].mine = core[w].mine
        /\ core'[w].pc = IF slot.epoch = core[w].mine THEN "wfe" ELSE "copy"
        /\ \A c \in Cores \ {w} : core'[c] = core[c]
        /\ UNCHANGED <<slot, desc, lock, started, acks>>
    BY <1>0, <1>3 DEF PollEpoch, TypeOK
  <2>2. started[w] /\ core[w].mine = acks[w] /\ acks[w] <= slot.epoch
    BY <2>1 DEF Protocol, Registered, Unregistered
  <2>3. core'[w].pc \in ReadingPc => acks[w] < slot.epoch
    <3>1. acks[w] \in Nat /\ slot.epoch \in Nat
      BY DEF TypeOK
    <3> QED
      BY <2>1, <2>2, <3>1 DEF ReadingPc, ClaimPc
  <2>4. core'[w].pc \in {"wfe", "copy"} /\ core'[w].pc \notin ClaimPc
    BY <2>1 DEF ClaimPc
  <2> QED
    BY <2>1, <2>2, <2>3, <2>4, WorkerMoves
<1>4. CASE WaitForEvent(w)
  <2>1. /\ core[w].pc = "wfe" /\ core'[w].pc = "poll" /\ core'[w].mine = core[w].mine
        /\ \A c \in Cores \ {w} : core'[c] = core[c]
        /\ UNCHANGED <<slot, desc, lock, started, acks>>
    BY <1>0, <1>4, GotoCores DEF WaitForEvent
  <2>2. started[w]
    BY <2>1 DEF Protocol, Unregistered
  <2>3. core'[w].pc \notin ReadingPc /\ core'[w].pc \notin ClaimPc
    BY <2>1 DEF ReadingPc, ClaimPc
  <2> QED
    BY <2>1, <2>2, <2>3, WorkerMoves
<1>5. CASE CopyDescriptor(w)
  <2>1. /\ core[w].pc = "copy" /\ core'[w].pc = "claim" /\ core'[w].mine = core[w].mine
        /\ core'[w].epoch = core[w].epoch /\ core'[w].launch = desc.launch
        /\ \A c \in Cores \ {w} : core'[c] = core[c]
        /\ UNCHANGED <<slot, desc, lock, started, acks>>
    BY <1>0, <1>5 DEF CopyDescriptor, TypeOK
  <2>2. started[w] /\ core[w].epoch = slot.epoch /\ acks[w] < slot.epoch
    BY <2>1 DEF Protocol, Registered, Unregistered, ReadingPc
  <2> QED
    BY <2>1, <2>2, WorkerMoves
<1>6. CASE ClaimLoop(w)
  <2>1. /\ core[w].pc \in ClaimPc /\ core'[w].pc \in ClaimPc \cup {"ack"}
        /\ core'[w].epoch = core[w].epoch /\ core'[w].mine = core[w].mine
        /\ core'[w].launch = core[w].launch
        /\ \A d \in Cores \ {w} : core'[d] = core[d]
        /\ slot'.epoch = slot.epoch /\ UNCHANGED <<desc, lock, started, acks>>
    BY <1>0, <1>6, ClaimCores
  <2>2. /\ started[w] /\ core[w].epoch = slot.epoch /\ acks[w] < slot.epoch
        /\ core[w].launch = desc.launch
    BY <2>1 DEF Protocol, Registered, Unregistered, ReadingPc, ClaimPc
  <2>3. core'[w].pc \notin {"off", "register", "poll", "wfe"}
    BY <2>1 DEF ClaimPc
  <2> QED
    BY <2>1, <2>2, <2>3, WorkerMoves
<1>7. CASE Acknowledge(w)
  <2> DEFINE r == [NewCore("poll") EXCEPT !.mine = core[w].epoch]
  <2>1. /\ core[w].pc = "ack" /\ core' = [core EXCEPT ![w] = r]
        /\ acks' = [acks EXCEPT ![w] = core[w].epoch]
        /\ UNCHANGED <<slot, desc, lock, started>>
    BY <1>7 DEF Acknowledge
  <2>2. r.pc = "poll" /\ r.mine = core[w].epoch
    BY DEF NewCore
  <2> HIDE DEF r
  <2>3. /\ core'[w] = r /\ \A c \in Cores \ {w} : core'[c] = core[c]
        /\ acks'[w] = core[w].epoch /\ \A v \in Workers \ {w} : acks'[v] = acks[v]
    BY <1>0, <2>1 DEF TypeOK
  <2>4. started[w] /\ core[w].epoch = slot.epoch /\ slot.epoch \in Nat
    BY <2>1 DEF Protocol, Registered, Unregistered, ReadingPc, TypeOK
  <2>5. \A h \in Hosts : core'[h] = core[h]
    BY <1>0, <2>3
  <2>6. LockHeld' /\ SlotIsMine' /\ EpochIsMine' /\ AllRegistered'
    BY <2>1, <2>5 DEF Protocol, LockHeld, SlotIsMine, EpochIsMine, AllRegistered
  <2>7. Quiescent'
    BY <2>1, <2>3, <2>4, <2>5 DEF Protocol, Quiescent
  <2>8. Unregistered'
    BY <1>0, <2>1, <2>3, <2>4 DEF Protocol, Unregistered
  <2>9. Registered'
    BY <1>0, <2>1, <2>2, <2>3, <2>4 DEF Protocol, Registered, ReadingPc, ClaimPc
  <2> QED
    BY <2>6, <2>7, <2>8, <2>9 DEF Protocol
<1> QED
  BY <1>1, <1>2, <1>3, <1>4, <1>5, <1>6, <1>7 DEF WorkerLoop

\* Every step, for as long as the epoch has not reached its last value.
LEMMA ProtocolStep ==
    ASSUME TypeOK, Protocol, NoWrap, [Next]_vars
    PROVE  Protocol'
<1>1. ASSUME NEW h \in Hosts, NEW l \in Launches, NEW total \in GroupCounts,
             Submit(h, l, total)
      PROVE  Protocol'
  <2>0. h \in Cores
    BY DEF Cores
  <2>1. /\ core[h].pc = "out" /\ core'[h].pc = "lock" /\ core'[h].epoch = core[h].epoch
        /\ \A c \in Cores \ {h} : core'[c] = core[c]
        /\ UNCHANGED <<slot, desc, lock, started, acks>>
    BY <1>1, <2>0 DEF Submit, TypeOK
  <2>2. core'[h].pc \notin LockedPc /\ core'[h].pc \notin WrittenPc
        /\ core'[h].pc \notin PublishedPc /\ core[h].pc \notin PublishedPc
    BY <2>1 DEF LockedPc, WrittenPc, PublishedPc, ClaimPc
  <2> QED
    BY <2>1, <2>2, HostMoves
<1>2. CASE UNCHANGED vars
  BY <1>2 DEF vars, Protocol, LockHeld, SlotIsMine, EpochIsMine, AllRegistered,
              Unregistered, Registered, Quiescent
<1> QED
  BY <1>1, <1>2, HostStep, WorkerStep DEF Next
-----------------------------------------------------------------------------
(* The theorems.                                                            *)

\* Before the first launch the protocol holds.
LEMMA InitProtocol ==
    ASSUME WaitsForWorkers, Init
    PROVE  Protocol
<1>1. \A h \in Hosts : core[h].pc = "boot"
  BY DEF Init, NewCore, Cores
<1>2. \A w \in Workers : core[w].pc = "off" /\ core[w].mine = 0
  BY SmpConstants DEF Init, NewCore, Cores
<1>3. LockHeld /\ SlotIsMine /\ EpochIsMine /\ AllRegistered
  BY <1>1 DEF LockHeld, SlotIsMine, EpochIsMine, AllRegistered, LockedPc, WrittenPc,
              PublishedPc, ClaimPc
<1>4. Unregistered /\ Registered /\ Quiescent
  BY <1>2 DEF Init, Unregistered, Registered, Quiescent
<1> QED
  BY <1>3, <1>4 DEF Protocol

\* When the program waits for the workers first, the publication protocol holds
\* for as long as the epoch does not wrap.
THEOREM ProtocolHolds ==
    ASSUME WaitsForWorkers
    PROVE  Spec /\ []NoWrap => []Protocol
<1>1. Init => Protocol
  BY InitProtocol
<1>2. TypeOK /\ NoWrap /\ Protocol /\ [Next]_vars => Protocol'
  BY ProtocolStep
<1> QED
  BY <1>1, <1>2, SmpTypeCorrect, PTL DEF Spec

\* The claim behind `unsafe impl Sync for JobSlot`: no submitter writes the
\* descriptor while a worker copies it, for any number of cores.
THEOREM DescriptorIsStable ==
    ASSUME WaitsForWorkers
    PROVE  Spec /\ []NoWrap => []DescriptorStable
<1>1. TypeOK /\ Protocol => DescriptorStable
  <2> SUFFICES ASSUME TypeOK, Protocol, NEW h \in Hosts, NEW w \in Workers,
                      core[h].pc = "write", core[w].pc = "copy"
               PROVE  FALSE
    BY DEF DescriptorStable
  <2> QED
    BY NobodyReads DEF ReadingPc
<1> QED
  BY <1>1, SmpTypeCorrect, ProtocolHolds, PTL

\* run_claimed's safety contract: all cores that claim hold the same launch.
THEOREM CountersServeOneLaunch ==
    ASSUME WaitsForWorkers
    PROVE  Spec /\ []NoWrap => []OneLaunchPerCounter
<1>1. TypeOK /\ Protocol => OneLaunchPerCounter
  <2> SUFFICES ASSUME TypeOK, Protocol PROVE OneLaunchPerCounter
    OBVIOUS
  <2>1. \A h \in Hosts : core[h].pc \in ClaimPc => core[h].launch = desc.launch
    BY DEF Protocol, SlotIsMine, WrittenPc, PublishedPc
  <2>2. \A w \in Workers : core[w].pc \in ClaimPc => core[w].launch = desc.launch
    BY DEF Protocol, Registered, Unregistered, ClaimPc
  <2> QED
    BY <2>1, <2>2 DEF OneLaunchPerCounter, Cores
<1> QED
  BY <1>1, SmpTypeCorrect, ProtocolHolds, PTL
-----------------------------------------------------------------------------
(* The work-groups.                                                         *)

\* A set of naturals that is not empty has a least element.
LEMMA LeastNatural ==
    ASSUME NEW S, S \subseteq Nat, S # {}
    PROVE  \E x \in S : \A y \in S : x <= y
<1> DEFINE R == {p \in Nat \X Nat : p[1] < p[2]}
<1>1. IsWellFoundedOn(R, Nat)
  BY NatLessThanWellFounded, Zenon DEF OpToRel
<1> HIDE DEF R
<1>2. PICK x \in S : \A y \in S : <<y, x>> \notin R
  BY <1>1, WFMin, Zenon
<1>3. \A y \in S : ~(y < x)
  BY <1>2 DEF R
<1> QED
  BY <1>3

\* The largest number of work-groups exists, so the groups are counted from 0
\* and the groups of every launch are among them.
LEMMA LargestCount ==
    \E m \in GroupCounts : /\ m \in Nat \ {0} /\ Groups = 0..m - 1
                           /\ \A n \in GroupCounts : n <= m
<1>1. PICK k \in Nat : ExistsSurjection(1..k, GroupCounts)
  BY SmpConstants, FS_NatSurjection
<1>2. PICK f \in [1..k -> GroupCounts] : \A n \in GroupCounts : \E i \in 1..k : f[i] = n
  BY <1>1 DEF ExistsSurjection, Surjection
<1>3. \A i \in 1..k : f[i] \in Nat \ {0} /\ f[i] \in GroupCounts
  BY <1>2, SmpConstants
<1>4. k # 0
  <2>1. PICK n \in GroupCounts : TRUE
    BY SmpConstants
  <2>2. PICK i \in 1..k : f[i] = n
    BY <1>2
  <2> QED
    BY <2>2
<1> DEFINE B == {x \in 1..k : ~\E j \in 1..x : \A i \in 1..x : f[i] <= f[j]}
<1>5. B = {}
  <2> SUFFICES ASSUME B # {} PROVE FALSE
    OBVIOUS
  <2>1. B \subseteq Nat
    BY SMT
  <2>2. PICK x \in B : \A y \in B : x <= y
    BY <2>1, LeastNatural
  <2>3. x \in 1..k /\ ~\E j \in 1..x : \A i \in 1..x : f[i] <= f[j]
    BY <2>2
  <2>4. x # 1
    <3>1. f[1] <= f[1]
      BY <1>3, <1>4
    <3>2. x = 1 => \A i \in 1..x : i = 1
      BY <2>3
    <3> QED
      BY <2>3, <3>1, <3>2
  <2>5. x - 1 \in 1..k /\ x - 1 \notin B
    <3>1. x - 1 \in 1..k /\ ~(x <= x - 1)
      BY <2>3, <2>4
    <3> QED
      BY <2>2, <3>1
  <2>6. PICK j \in 1..x - 1 : \A i \in 1..x - 1 : f[i] <= f[j]
    BY <2>5
  <2>7. f[j] \in Nat /\ f[x] \in Nat /\ j \in 1..x /\ x \in 1..x
    BY <1>3, <2>3, <2>6
  <2>8. \A i \in 1..x : i \in 1..x - 1 \/ i = x
    BY <2>3
  <2>9. CASE f[x] <= f[j]
    BY <2>3, <2>6, <2>7, <2>8, <2>9
  <2>10. CASE f[j] <= f[x]
    <3>1. \A i \in 1..x - 1 : f[i] <= f[x]
      <4> SUFFICES ASSUME NEW i \in 1..x - 1 PROVE f[i] <= f[x]
        OBVIOUS
      <4>1. f[i] \in Nat /\ f[i] <= f[j]
        BY <1>3, <2>3, <2>6
      <4> QED
        BY <2>7, <2>10, <4>1
    <3> QED
      BY <2>3, <2>7, <2>8, <3>1
  <2> QED
    BY <2>7, <2>9, <2>10
<1>6. PICK j \in 1..k : \A i \in 1..k : f[i] <= f[j]
  <2>1. k \in 1..k
    BY <1>4
  <2> QED
    BY <1>5, <2>1
<1>7. f[j] \in GroupCounts /\ f[j] \in Nat \ {0} /\ \A n \in GroupCounts : n <= f[j]
  BY <1>2, <1>3, <1>6
<1> DEFINE m == CHOOSE n \in GroupCounts : \A q \in GroupCounts : q <= n
<1>8. m \in GroupCounts /\ \A n \in GroupCounts : n <= m
  BY <1>7
<1>9. Groups = 0..m - 1
  BY DEF Groups
<1> HIDE DEF m
<1> QED
  BY <1>8, <1>9, SmpConstants

\* Where a submitter owns a launch, where the launch is not yet running, where
\* the counters are its own, and where the counters are used up.
OwningPc == LockedPc \cup {"lock"}
SubmittedPc == {"lock", "write", "reset", "publish", "sev"}
CountedPc == PublishedPc \cup {"publish", "retire"}
EndedPc == {"record", "wait done", "wait acks", "retire"}

\* A core executes the group g: claimed, and not yet counted in ran.
Runs(g) == \E c \in Cores : core[c].pc = "run" /\ core[c].index = g

\* Every submitter between submit and its return owns a launch of its own, and
\* a launch that has neither retired nor is queued has such an owner.
OwnLaunch == \A h \in Hosts : core[h].pc \in OwningPc =>
    /\ core[h].launch \in Launches /\ core[h].total = jobs[core[h].launch].total
    /\ jobs[core[h].launch].status =
         IF core[h].pc \in SubmittedPc THEN "submitted" ELSE "running"
OwnersDiffer == \A h, k \in Hosts :
    core[h].pc \in OwningPc /\ core[k].pc \in OwningPc /\ h # k =>
        core[h].launch # core[k].launch
Owned == \A l \in Launches : jobs[l].status \in {"submitted", "running"} =>
    \E h \in Hosts : core[h].pc \in OwningPc /\ core[h].launch = l

\* The bound of the claim loop is the descriptor's, on every core.
TotalsAgree ==
    /\ \A h \in Hosts : core[h].pc \in WrittenPc => core[h].total = desc.total
    /\ \A w \in Workers : core[w].pc \in ClaimPc => core[w].total = desc.total

\* Nothing of a launch has run before its publication, and all of it afterwards.
Untouched ==
    /\ \A l \in Launches : jobs[l].status = "queued" => \A g \in Groups : jobs[l].ran[g] = 0
    /\ \A h \in Hosts : core[h].pc \in {"lock", "write", "reset"} =>
         \A g \in Groups : jobs[core[h].launch].ran[g] = 0
Finished == \A l \in Launches : jobs[l].status \in {"complete", "error"} =>
    \A g \in Groups : jobs[l].ran[g] = IF g < jobs[l].total THEN 1 ELSE 0

\* In between, the groups below the claim counter have run, except those that a
\* core is executing, each of them on one core; and the loop is left when the
\* counter has passed every group.
Counted == \A h \in Hosts : core[h].pc \in CountedPc => \A g \in Groups :
    jobs[desc.launch].ran[g] =
        IF g < slot.claim /\ g < desc.total /\ ~Runs(g) THEN 1 ELSE 0
Claims ==
    /\ \A c \in Cores : core[c].pc = "run" =>
         core[c].index < slot.claim /\ core[c].index < desc.total
    /\ \A c, d \in Cores : core[c].pc = "run" /\ core[d].pc = "run" /\ c # d =>
         core[c].index # core[d].index
Exhausted == \A c \in Cores : core[c].pc \in EndedPc => slot.claim >= desc.total

Work ==
    /\ OwnLaunch /\ OwnersDiffer /\ Owned /\ TotalsAgree
    /\ Untouched /\ Finished /\ Counted /\ Claims /\ Exhausted

\* A core that claims works on the published launch, whose submitter is still
\* there and is the only one that holds the lock.
LEMMA ClaimersHavePublisher ==
    ASSUME TypeOK, Protocol, Work, NEW c \in Cores, core[c].pc \in ClaimPc
    PROVE  /\ core[c].launch = desc.launch /\ core[c].total = desc.total
           /\ desc.launch \in Launches /\ desc.total = jobs[desc.launch].total
           /\ \E h \in Hosts : /\ core[h].pc \in PublishedPc /\ core[h].launch = desc.launch
                               /\ \A k \in Hosts \ {h} : core[k].pc \notin LockedPc
           /\ jobs[desc.launch].status \in {"submitted", "running"}
<1>1. \E h \in Hosts : core[h].pc \in PublishedPc
  <2>1. CASE c \in Hosts
    BY <2>1 DEF PublishedPc
  <2>2. CASE c \in Workers
    <3>1. acks[c] < slot.epoch /\ acks[c] \in Nat /\ slot.epoch \in Nat
      BY <2>2 DEF Protocol, Registered, Unregistered, ReadingPc, TypeOK, ClaimPc
    <3> QED
      BY <2>2, <3>1 DEF Protocol, Quiescent
  <2> QED
    BY <2>1, <2>2 DEF Cores
<1>2. PICK h \in Hosts : core[h].pc \in PublishedPc
  BY <1>1
<1>3. core[h].pc \in WrittenPc /\ core[h].pc \in LockedPc /\ core[h].pc \in OwningPc
  BY <1>2 DEF WrittenPc, LockedPc, OwningPc
<1>4. \A k \in Hosts \ {h} : core[k].pc \notin LockedPc
  BY <1>3 DEF Protocol, LockHeld
<1>5. core[h].launch = desc.launch /\ core[h].total = desc.total
  BY <1>3 DEF Protocol, SlotIsMine, Work, TotalsAgree
<1>6. /\ core[h].launch \in Launches /\ core[h].total = jobs[core[h].launch].total
      /\ jobs[core[h].launch].status \in {"submitted", "running"}
  BY <1>3 DEF Work, OwnLaunch
<1>7. core[c].launch = desc.launch /\ core[c].total = desc.total
  <2>1. CASE c \in Hosts
    <3>1. core[c].pc \in WrittenPc
      BY DEF WrittenPc, PublishedPc
    <3> QED
      BY <2>1, <3>1 DEF Protocol, SlotIsMine, Work, TotalsAgree
  <2>2. CASE c \in Workers
    BY <2>2 DEF Protocol, Registered, Unregistered, ClaimPc, Work, TotalsAgree
  <2> QED
    BY <2>1, <2>2 DEF Cores
<1> QED
  BY <1>2, <1>4, <1>5, <1>6, <1>7

\* A step of one core that touches neither a launch nor the descriptor nor the
\* claim counter, and neither takes nor ends the execution of a group.
LEMMA QuietStep ==
    ASSUME TypeOK, Protocol, Work, NEW c \in Cores,
           \A d \in Cores \ {c} : core'[d] = core[d],
           UNCHANGED <<jobs, desc>>, slot'.claim = slot.claim,
           core[c].pc # "run", core'[c].pc # "run",
           c \in Hosts =>
             /\ core'[c].pc \in OwningPc <=> core[c].pc \in OwningPc
             /\ core'[c].pc \in OwningPc =>
                  /\ core'[c].launch = core[c].launch /\ core'[c].total = core[c].total
                  /\ core'[c].pc \in SubmittedPc <=> core[c].pc \in SubmittedPc
             /\ core'[c].pc \in WrittenPc => core[c].pc \in WrittenPc
             /\ core'[c].pc \in {"lock", "write", "reset"} => core[c].pc \in {"lock", "write"}
             /\ core'[c].pc \in CountedPc => core[c].pc \in CountedPc,
           c \in Workers /\ core'[c].pc \in ClaimPc => core'[c].total = desc.total,
           core'[c].pc \in EndedPc => core[c].pc \in EndedPc
    PROVE  Work'
<1>0. /\ Workers \subseteq Cores /\ Hosts \subseteq Cores
      /\ \A h \in Hosts : h \notin Workers
  BY SmpConstants DEF Cores
<1>1. OwnLaunch'
  <2> SUFFICES ASSUME NEW h \in Hosts, core'[h].pc \in OwningPc
               PROVE  /\ core'[h].launch \in Launches
                      /\ core'[h].total = jobs[core'[h].launch].total
                      /\ jobs[core'[h].launch].status =
                           IF core'[h].pc \in SubmittedPc THEN "submitted" ELSE "running"
    BY DEF OwnLaunch
  <2>1. CASE h = c
    BY <2>1 DEF Work, OwnLaunch
  <2>2. CASE h # c
    BY <1>0, <2>2 DEF Work, OwnLaunch
  <2> QED
    BY <2>1, <2>2
<1>2. OwnersDiffer'
  BY <1>0 DEF Work, OwnersDiffer
<1>3. Owned'
  <2> SUFFICES ASSUME NEW l \in Launches, jobs[l].status \in {"submitted", "running"}
               PROVE  \E h \in Hosts : core'[h].pc \in OwningPc /\ core'[h].launch = l
    BY DEF Owned
  <2>1. PICK h \in Hosts : core[h].pc \in OwningPc /\ core[h].launch = l
    BY DEF Work, Owned
  <2> QED
    BY <1>0, <2>1
<1>4. TotalsAgree'
  BY <1>0 DEF Work, TotalsAgree, OwningPc, LockedPc
<1>5. Untouched'
  <2>1. \A h \in Hosts : core'[h].pc \in {"lock", "write", "reset"} =>
           core[h].pc \in {"lock", "write", "reset"} /\ core'[h].launch = core[h].launch
    BY <1>0 DEF OwningPc, LockedPc, WrittenPc
  <2> QED
    BY <2>1 DEF Work, Untouched
<1>6. Finished'
  BY DEF Work, Finished
<1>7. \A g \in Groups : Runs(g)' <=> Runs(g)
  BY DEF Runs
<1>8. Counted'
  <2>1. \A h \in Hosts : core'[h].pc \in CountedPc => core[h].pc \in CountedPc
    BY <1>0
  <2> QED
    BY <1>7, <2>1 DEF Work, Counted
<1>9. Claims'
  BY DEF Work, Claims
<1>10. Exhausted'
  BY DEF Work, Exhausted
<1> QED
  BY <1>1, <1>2, <1>3, <1>4, <1>5, <1>6, <1>8, <1>9, <1>10 DEF Work

\* The steps of that kind: submitters waiting, locking and publishing; any core
\* posting and leaving the loop; a worker outside of it.
LEMMA QuietActions ==
    ASSUME TypeOK, Protocol, Work, NEW c \in Cores,
           \/ c \in Hosts /\ (WaitWorkers(c) \/ Lock(c) \/ Publish(c) \/ WaitDone(c) \/ WaitAcks(c))
           \/ Post(c) \/ Record(c)
           \/ c \in Workers /\ (Boot(c) \/ Register(c) \/ PollEpoch(c) \/ WaitForEvent(c)
                                \/ CopyDescriptor(c) \/ Acknowledge(c))
    PROVE  Work'
<1>0. c \in Hosts => c \notin Workers
  BY SmpConstants
<1>1. UNCHANGED <<jobs, desc>> /\ slot'.claim = slot.claim
  BY DEF WaitWorkers, Lock, Publish, WaitDone, WaitAcks, Post, Record, Boot, Register, PollEpoch,
         WaitForEvent, CopyDescriptor, Acknowledge, TypeOK
<1>2. CASE \/ c \in Hosts /\ (WaitWorkers(c) \/ Lock(c) \/ WaitDone(c) \/ WaitAcks(c))
           \/ Post(c) \/ Record(c)
  <2>1. PICK p : /\ Goto(c, p)
                 /\ <<core[c].pc, p>> \in {<<"boot", "out">>, <<"lock", "write">>,
                      <<"wait done", "wait acks">>, <<"wait acks", "retire">>, <<"post", "claim">>,
                      <<"record", "wait done">>, <<"record", "ack">>}
                 /\ p = "ack" => c \notin Hosts
                 /\ p \in {"out", "write", "wait done", "wait acks", "retire"} => c \in Hosts
    <3>1. CASE Record(c)
      <4> DEFINE p == IF c \in Hosts THEN "wait done" ELSE "ack"
      <4>1. core[c].pc = "record" /\ Goto(c, p)
        BY <3>1 DEF Record
      <4>2. (c \in Hosts /\ p = "wait done") \/ (c \notin Hosts /\ p = "ack")
        OBVIOUS
      <4> HIDE DEF p
      <4> QED
        BY <4>1, <4>2
    <3>2. CASE Post(c)
      <4>1. core[c].pc = "post" /\ Goto(c, "claim")
        BY <3>2 DEF Post
      <4>2. /\ <<core[c].pc, "claim">> = <<"post", "claim">>
            /\ "claim" \notin {"out", "write", "wait done", "wait acks", "retire", "ack"}
        BY <4>1
      <4> QED
        BY <4>1, <4>2, Zenon
    <3>3. CASE c \in Hosts /\ (WaitWorkers(c) \/ Lock(c) \/ WaitDone(c) \/ WaitAcks(c))
      BY <3>3 DEF WaitWorkers, Lock, WaitDone, WaitAcks
    <3> QED
      BY <1>2, <3>1, <3>2, <3>3
  <2>2. /\ core'[c].pc = p /\ core'[c].launch = core[c].launch
        /\ core'[c].total = core[c].total /\ \A d \in Cores \ {c} : core'[d] = core[d]
    BY <2>1 DEF Goto, TypeOK
  <2>3. c \in Workers /\ p \in ClaimPc => core[c].total = desc.total
    BY <2>1 DEF Work, TotalsAgree, ClaimPc
  <2> HIDE DEF Work
  <2> QED
    BY <1>0, <1>1, <2>1, <2>2, <2>3, QuietStep
    DEF OwningPc, LockedPc, WrittenPc, PublishedPc, ClaimPc, SubmittedPc, CountedPc, EndedPc
<1>3. CASE c \in Hosts /\ Publish(c)
  <2>1. /\ core[c].pc = "publish" /\ core'[c].pc = "sev" /\ core'[c].launch = core[c].launch
        /\ core'[c].total = core[c].total /\ \A d \in Cores \ {c} : core'[d] = core[d]
    BY <1>3 DEF Publish, TypeOK
  <2> QED
    BY <1>0, <1>1, <1>3, <2>1, QuietStep
    DEF OwningPc, LockedPc, WrittenPc, PublishedPc, ClaimPc, SubmittedPc, CountedPc, EndedPc
<1>4. CASE c \in Workers /\ (Boot(c) \/ Register(c) \/ PollEpoch(c) \/ WaitForEvent(c)
                             \/ CopyDescriptor(c))
  <2>1. /\ \A d \in Cores \ {c} : core'[d] = core[d]
        /\ core[c].pc \in {"off", "register", "poll", "wfe", "copy"}
        /\ core'[c].pc \in {"register", "poll", "wfe", "copy", "claim"}
        /\ core'[c].pc = "claim" => core'[c].total = desc.total
    BY <1>4 DEF Boot, Register, PollEpoch, WaitForEvent, CopyDescriptor, Goto, TypeOK
  <2> QED
    BY <1>0, <1>1, <1>4, <2>1, QuietStep DEF ClaimPc, EndedPc
<1>5. CASE c \in Workers /\ Acknowledge(c)
  <2>1. /\ \A d \in Cores \ {c} : core'[d] = core[d]
        /\ core[c].pc = "ack" /\ core'[c].pc = "poll"
    BY <1>5 DEF Acknowledge, NewCore, TypeOK
  <2> QED
    BY <1>0, <1>1, <1>5, <2>1, QuietStep DEF ClaimPc, EndedPc
<1> QED
  BY <1>2, <1>3, <1>4, <1>5

\* submit: a queued launch gets its owner; the owners so far hold others.
LEMMA SubmitWork ==
    ASSUME TypeOK, Protocol, Work, NEW h \in Hosts, NEW l \in Launches, NEW n \in GroupCounts,
           Submit(h, l, n)
    PROVE  Work'
<1>0. /\ Workers \subseteq Cores /\ Hosts \subseteq Cores /\ h \in Cores /\ h \notin Workers
  BY SmpConstants DEF Cores
<1>1. /\ core[h].pc = "out" /\ core'[h].pc = "lock" /\ core'[h].launch = l /\ core'[h].total = n
      /\ \A c \in Cores \ {h} : core'[c] = core[c]
  BY <1>0 DEF Submit, TypeOK
<1>2. /\ jobs[l].status = "queued" /\ jobs'[l].status = "submitted" /\ jobs'[l].total = n
      /\ \A g \in Groups : jobs'[l].ran[g] = jobs[l].ran[g]
      /\ \A m \in Launches \ {l} : jobs'[m] = jobs[m]
      /\ UNCHANGED <<slot, desc>>
  BY DEF Submit, TypeOK
<1>3. \A k \in Hosts : core[k].pc \in OwningPc => core[k].launch \in Launches \ {l} /\ k # h
  BY <1>1, <1>2 DEF Work, OwnLaunch, OwningPc, LockedPc, WrittenPc, PublishedPc, ClaimPc
<1>4. \A k \in Hosts \ {h} : core'[k] = core[k]
  BY <1>0, <1>1
<1>5. OwnLaunch' /\ OwnersDiffer'
  <2>1. OwnLaunch'
    <3> SUFFICES ASSUME NEW k \in Hosts, core'[k].pc \in OwningPc
                 PROVE  /\ core'[k].launch \in Launches
                        /\ core'[k].total = jobs'[core'[k].launch].total
                        /\ jobs'[core'[k].launch].status =
                             IF core'[k].pc \in SubmittedPc THEN "submitted" ELSE "running"
      BY DEF OwnLaunch
    <3>1. CASE k = h
      BY <1>1, <1>2, <3>1 DEF SubmittedPc
    <3>2. CASE k # h
      <4>1. core'[k] = core[k] /\ core[k].launch \in Launches \ {l}
        BY <1>3, <1>4, <3>2
      <4>2. jobs'[core[k].launch] = jobs[core[k].launch]
        BY <1>2, <4>1
      <4> QED
        BY <4>1, <4>2 DEF Work, OwnLaunch
    <3> QED
      BY <3>1, <3>2
  <2>2. OwnersDiffer'
    BY <1>1, <1>3, <1>4 DEF Work, OwnersDiffer
  <2> QED
    BY <2>1, <2>2
<1>6. Owned'
  <2> SUFFICES ASSUME NEW m \in Launches, jobs'[m].status \in {"submitted", "running"}
               PROVE  \E k \in Hosts : core'[k].pc \in OwningPc /\ core'[k].launch = m
    BY DEF Owned
  <2>1. CASE m = l
    BY <1>1, <2>1 DEF OwningPc
  <2>2. CASE m # l
    BY <1>2, <1>3, <1>4, <2>2 DEF Work, Owned
  <2> QED
    BY <2>1, <2>2
<1>7. TotalsAgree'
  <2>1. \A w \in Workers : core'[w] = core[w]
    BY <1>0, <1>1
  <2>2. core'[h].pc \notin WrittenPc
    BY <1>1 DEF WrittenPc, PublishedPc, ClaimPc
  <2> QED
    BY <1>2, <1>4, <2>1, <2>2 DEF Work, TotalsAgree
<1>8. Untouched'
  <2>1. \A m \in Launches : jobs'[m].status = "queued" => m # l
    BY <1>2
  <2>2. \A g \in Groups : jobs[l].ran[g] = 0
    BY <1>2 DEF Work, Untouched
  <2>3. \A k \in Hosts \ {h} : core[k].pc \in {"lock", "write", "reset"} =>
            core[k].launch \in Launches \ {l}
    BY <1>3 DEF OwningPc, LockedPc, WrittenPc
  <2> QED
    BY <1>1, <1>2, <1>4, <2>1, <2>2, <2>3 DEF Work, Untouched
<1>9. Finished'
  <2>1. \A m \in Launches : jobs'[m].status \in {"complete", "error"} => m # l
    BY <1>2
  <2> QED
    BY <1>2, <2>1 DEF Work, Finished
<1>10. \A g \in Groups : Runs(g)' <=> Runs(g)
  BY <1>0, <1>1 DEF Runs
<1>11. Counted'
  <2> SUFFICES ASSUME NEW k \in Hosts, core'[k].pc \in CountedPc, NEW g \in Groups
               PROVE  jobs'[desc.launch].ran[g] =
                        IF g < slot.claim /\ g < desc.total /\ ~Runs(g) THEN 1 ELSE 0
    BY <1>2, <1>10 DEF Counted
  <2>1. k # h
    BY <1>1 DEF CountedPc, PublishedPc, ClaimPc
  <2>2. core[k].pc \in CountedPc /\ core[k].pc \in WrittenPc /\ core[k].pc \in OwningPc
    BY <1>4, <2>1 DEF CountedPc, WrittenPc, OwningPc, LockedPc
  <2>3. desc.launch \in Launches \ {l}
    BY <1>3, <2>2 DEF Protocol, SlotIsMine
  <2> QED
    BY <1>2, <2>2, <2>3 DEF Work, Counted
<1>12. Claims' /\ Exhausted'
  BY <1>0, <1>1, <1>2 DEF Work, Claims, Exhausted, EndedPc
<1> QED
  BY <1>5, <1>6, <1>7, <1>8, <1>9, <1>11, <1>12 DEF Work

\* The descriptor write and the reset of the counters: nobody claims, and the
\* submitter's launch is untouched.
LEMMA PrepareWork ==
    ASSUME TypeOK, Protocol, Work, NEW h \in Hosts, WriteDescriptor(h) \/ ResetCounters(h)
    PROVE  Work'
<1>0. /\ Workers \subseteq Cores /\ Hosts \subseteq Cores /\ h \in Cores /\ h \notin Workers
      /\ \A k \in Hosts : k \notin Workers
  BY SmpConstants DEF Cores
<1>1. /\ core[h].pc \in {"write", "reset"}
      /\ core'[h].pc = (IF core[h].pc = "write" THEN "reset" ELSE "publish")
      /\ core'[h].launch = core[h].launch /\ core'[h].total = core[h].total
      /\ \A c \in Cores \ {h} : core'[c] = core[c]
      /\ jobs' = jobs
      /\ desc'.launch = core[h].launch /\ desc'.total = core[h].total
      /\ core'[h].pc = "publish" => slot'.claim = 0
      /\ slot'.claim \in Nat /\ desc'.total \in Nat
  <2>1. CASE WriteDescriptor(h)
    BY <1>0, <2>1 DEF WriteDescriptor, Goto, TypeOK
  <2>2. CASE ResetCounters(h)
    <3>1. core[h].launch = desc.launch /\ core[h].total = desc.total
      BY <2>2 DEF ResetCounters, Protocol, SlotIsMine, Work, TotalsAgree, WrittenPc
    <3>2. slot'.claim = 0 /\ desc' = desc /\ jobs' = jobs /\ core[h].pc = "reset"
      BY <2>2 DEF ResetCounters, TypeOK
    <3>3. /\ core'[h].pc = "publish" /\ core'[h].launch = core[h].launch
          /\ core'[h].total = core[h].total /\ \A c \in Cores \ {h} : core'[c] = core[c]
      BY <1>0, <2>2 DEF ResetCounters, Goto, TypeOK
    <3> QED
      BY <3>1, <3>2, <3>3 DEF TypeOK
  <2> QED
    BY <2>1, <2>2
<1>2. /\ \A w \in Workers : core[w].pc \notin ReadingPc
      /\ \A k \in Hosts \ {h} : core[k].pc \notin LockedPc
  BY <1>1, NobodyReads
<1>3. \A k \in Hosts \ {h} : core'[k] = core[k] /\ core[k].pc \notin WrittenPc
  BY <1>0, <1>1, <1>2 DEF LockedPc
<1>4. \A w \in Workers : core'[w] = core[w] /\ core[w].pc \notin ClaimPc
  BY <1>0, <1>1, <1>2 DEF ReadingPc
<1>5. OwnLaunch' /\ OwnersDiffer'
  <2>1. core[h].pc \in OwningPc /\ core[h].pc \in SubmittedPc /\ core'[h].pc \in SubmittedPc
    BY <1>1 DEF OwningPc, LockedPc, WrittenPc, SubmittedPc
  <2>2. OwnLaunch'
    <3> SUFFICES ASSUME NEW k \in Hosts, core'[k].pc \in OwningPc
                 PROVE  /\ core'[k].launch \in Launches
                        /\ core'[k].total = jobs[core'[k].launch].total
                        /\ jobs[core'[k].launch].status =
                             IF core'[k].pc \in SubmittedPc THEN "submitted" ELSE "running"
      BY <1>1 DEF OwnLaunch
    <3>1. CASE k = h
      BY <1>1, <2>1, <3>1 DEF Work, OwnLaunch
    <3>2. CASE k # h
      BY <1>3, <3>2 DEF Work, OwnLaunch
    <3> QED
      BY <3>1, <3>2
  <2>3. OwnersDiffer'
    BY <1>1, <1>3, <2>1 DEF Work, OwnersDiffer
  <2> QED
    BY <2>2, <2>3
<1>6. Owned'
  <2>1. core'[h].pc \in OwningPc
    BY <1>1 DEF OwningPc, LockedPc, WrittenPc
  <2> QED
    BY <1>1, <1>3, <2>1 DEF Work, Owned
<1>7. TotalsAgree'
  BY <1>1, <1>3, <1>4 DEF TotalsAgree
<1>8. Untouched'
  BY <1>1, <1>3 DEF Work, Untouched
<1>9. Finished'
  BY <1>1 DEF Work, Finished
<1>10. \A c \in Cores : core'[c].pc \notin {"run"} \cup EndedPc
  <2>1. "run" \in ClaimPc /\ \A p \in EndedPc : p \in ClaimPc \cup WrittenPc
    BY DEF ClaimPc, EndedPc, WrittenPc, PublishedPc
  <2>2. ClaimPc \subseteq WrittenPc
    BY DEF WrittenPc, PublishedPc
  <2>3. \A w \in Workers : core[w].pc \in WorkerPc \cup ClaimPc
    BY DEF TypeOK
  <2>4. \A w \in Workers : core'[w].pc \notin {"run"} \cup EndedPc
    BY <1>4, <2>1, <2>3 DEF WorkerPc, EndedPc
  <2>5. core'[h].pc \notin {"run"} \cup EndedPc
    BY <1>1 DEF EndedPc
  <2> QED
    BY <1>3, <2>1, <2>2, <2>4, <2>5 DEF Cores
<1>11. Counted'
  <2> SUFFICES ASSUME NEW k \in Hosts, core'[k].pc \in CountedPc, NEW g \in Groups
               PROVE  jobs[desc'.launch].ran[g] =
                        IF g < slot'.claim /\ g < desc'.total /\ ~Runs(g)' THEN 1 ELSE 0
    BY <1>1 DEF Counted
  <2>1. CountedPc \subseteq WrittenPc /\ "reset" \notin CountedPc
    BY DEF CountedPc, WrittenPc, PublishedPc, ClaimPc
  <2>2. k = h /\ core[h].pc = "reset" /\ core'[h].pc = "publish"
    BY <1>1, <1>3, <2>1
  <2>3. jobs[core[h].launch].ran[g] = 0
    BY <2>2 DEF Work, Untouched
  <2>4. slot'.claim = 0 /\ ~(g < 0)
    <3>1. g \in Nat
      BY LargestCount
    <3> QED
      BY <1>1, <2>2, <3>1
  <2> QED
    BY <1>1, <2>3, <2>4
<1>12. Claims' /\ Exhausted'
  BY <1>10 DEF Claims, Exhausted
<1> QED
  BY <1>5, <1>6, <1>7, <1>8, <1>9, <1>11, <1>12 DEF Work

\* CL_RUNNING, and the end of execute: the owner changes the status of its own
\* launch, and when it retires the launch nobody executes a group any more.
LEMMA StatusWork ==
    ASSUME TypeOK, Protocol, Work, NEW h \in Hosts, SendEvent(h) \/ Retire(h)
    PROVE  Work'
<1>0. /\ Workers \subseteq Cores /\ Hosts \subseteq Cores /\ h \in Cores /\ h \notin Workers
      /\ \A k \in Hosts : k \notin Workers
  BY SmpConstants DEF Cores
<1> DEFINE l == core[h].launch
<1>1. /\ core[h].pc \in {"sev", "retire"} /\ l \in Launches /\ l = desc.launch
      /\ core[h].total = desc.total /\ jobs[l].total = desc.total
  <2>1. core[h].pc \in {"sev", "retire"}
    BY DEF SendEvent, Retire
  <2>2. core[h].pc \in WrittenPc /\ core[h].pc \in OwningPc
    BY <2>1 DEF WrittenPc, OwningPc, LockedPc, PublishedPc
  <2> QED
    BY <2>1, <2>2 DEF Protocol, SlotIsMine, Work, TotalsAgree, OwnLaunch
<1>2. /\ core'[h].pc = (IF core[h].pc = "sev" THEN "claim" ELSE "out")
      /\ core[h].pc = "sev" => core'[h].launch = l /\ core'[h].total = core[h].total
      /\ \A c \in Cores \ {h} : core'[c] = core[c]
      /\ desc' = desc /\ slot'.claim = slot.claim
  <2>1. CASE SendEvent(h)
    BY <1>0, <2>1 DEF SendEvent, Goto, TypeOK
  <2>2. CASE Retire(h)
    <3>1. core[h].pc = "retire" /\ desc' = desc /\ slot'.claim = slot.claim
      BY <2>2 DEF Retire, TypeOK
    <3>2. core'[h].pc = "out" /\ \A c \in Cores \ {h} : core'[c] = core[c]
      BY <1>0, <2>2 DEF Retire, NewCore, TypeOK
    <3> QED
      BY <3>1, <3>2
  <2> QED
    BY <2>1, <2>2
<1>3. /\ jobs'[l].total = jobs[l].total /\ jobs'[l].ran = jobs[l].ran
      /\ core[h].pc = "sev" => jobs'[l].status = "running"
      /\ core[h].pc = "retire" => jobs'[l].status \in {"complete", "error"}
      /\ \A m \in Launches \ {l} : jobs'[m] = jobs[m]
  <2>1. CASE SendEvent(h)
    BY <1>1, <2>1 DEF SendEvent, TypeOK
  <2>2. CASE Retire(h)
    <3> DEFINE st == IF slot.error THEN "error" ELSE "complete"
    <3>1. st \in {"complete", "error"} /\ core[h].pc = "retire"
      BY <2>2 DEF Retire
    <3>2. jobs' = [jobs EXCEPT ![l].status = st]
      BY <2>2 DEF Retire
    <3> HIDE DEF st, l
    <3> QED
      BY <1>1, <3>1, <3>2 DEF TypeOK
  <2> QED
    BY <2>1, <2>2
<1> HIDE DEF l
<1>4. \A k \in Hosts \ {h} : core'[k] = core[k] /\ core[k].pc \notin LockedPc
  <2>1. core[h].pc \in LockedPc
    BY <1>1 DEF LockedPc, WrittenPc, PublishedPc
  <2> QED
    BY <1>0, <1>2, <2>1 DEF Protocol, LockHeld
<1>5. \A k \in Hosts \ {h} : core[k].pc \in OwningPc => core[k].launch \in Launches \ {l}
  <2>1. core[h].pc \in OwningPc
    BY <1>1 DEF OwningPc, LockedPc, WrittenPc, PublishedPc
  <2> QED
    BY <1>1, <2>1 DEF Work, OwnLaunch, OwnersDiffer, l
<1>6. OwnLaunch'
  <2> SUFFICES ASSUME NEW k \in Hosts, core'[k].pc \in OwningPc
               PROVE  /\ core'[k].launch \in Launches
                      /\ core'[k].total = jobs'[core'[k].launch].total
                      /\ jobs'[core'[k].launch].status =
                           IF core'[k].pc \in SubmittedPc THEN "submitted" ELSE "running"
    BY DEF OwnLaunch
  <2>1. CASE k = h
    <3>1. core[h].pc = "sev" /\ core'[h].pc = "claim"
      BY <1>1, <1>2, <2>1 DEF OwningPc, LockedPc, WrittenPc, PublishedPc, ClaimPc
    <3> QED
      BY <1>1, <1>2, <1>3, <2>1, <3>1 DEF SubmittedPc
  <2>2. CASE k # h
    <3>1. core'[k] = core[k] /\ core[k].launch \in Launches \ {l}
      BY <1>4, <1>5, <2>2
    <3>2. jobs'[core[k].launch] = jobs[core[k].launch]
      BY <1>3, <3>1
    <3> QED
      BY <3>1, <3>2 DEF Work, OwnLaunch
  <2> QED
    BY <2>1, <2>2
<1>7. OwnersDiffer'
  <2>1. core'[h].pc \in OwningPc => core'[h].launch = l
    BY <1>1, <1>2 DEF OwningPc, LockedPc, WrittenPc, PublishedPc, ClaimPc
  <2> QED
    BY <1>4, <1>5, <2>1 DEF Work, OwnersDiffer
<1>8. Owned'
  <2> SUFFICES ASSUME NEW m \in Launches, jobs'[m].status \in {"submitted", "running"}
               PROVE  \E k \in Hosts : core'[k].pc \in OwningPc /\ core'[k].launch = m
    BY DEF Owned
  <2>1. CASE m = l
    <3>1. core[h].pc = "sev"
      BY <1>1, <1>3, <2>1
    <3>2. core'[h].pc \in OwningPc /\ core'[h].launch = l
      BY <1>2, <3>1 DEF OwningPc, LockedPc, WrittenPc, PublishedPc, ClaimPc
    <3> QED
      BY <2>1, <3>2
  <2>2. CASE m # l
    <3>1. PICK k \in Hosts : core[k].pc \in OwningPc /\ core[k].launch = m
      BY <1>3, <2>2 DEF Work, Owned
    <3>2. k # h
      BY <2>2, <3>1 DEF l
    <3> QED
      BY <1>4, <3>1, <3>2
  <2> QED
    BY <2>1, <2>2
<1>9. TotalsAgree'
  <2>1. \A w \in Workers : core'[w] = core[w]
    BY <1>0, <1>2
  <2>2. core'[h].pc \in WrittenPc => core'[h].total = desc.total
    BY <1>1, <1>2 DEF WrittenPc, PublishedPc, ClaimPc
  <2> QED
    BY <1>2, <1>4, <2>1, <2>2 DEF Work, TotalsAgree
<1>10. Untouched'
  <2>1. \A m \in Launches : jobs'[m].status = "queued" => m # l
    BY <1>1, <1>3
  <2>2. \A k \in Hosts : core'[k].pc \in {"lock", "write", "reset"} =>
            k # h /\ core[k].launch \in Launches \ {l}
    BY <1>1, <1>2, <1>4, <1>5 DEF OwningPc, LockedPc, WrittenPc
  <2> QED
    BY <1>3, <1>4, <2>1, <2>2 DEF Work, Untouched
<1>11. \A g \in Groups : Runs(g)' <=> Runs(g)
  BY <1>0, <1>1, <1>2 DEF Runs
<1>12. Counted'
  <2> SUFFICES ASSUME NEW k \in Hosts, core'[k].pc \in CountedPc, NEW g \in Groups
               PROVE  jobs'[desc.launch].ran[g] =
                        IF g < slot.claim /\ g < desc.total /\ ~Runs(g) THEN 1 ELSE 0
    BY <1>2, <1>11 DEF Counted
  <2>1. core[k].pc \in CountedPc
    BY <1>1, <1>2, <1>4 DEF CountedPc, PublishedPc
  <2> QED
    BY <1>1, <1>3, <2>1 DEF Work, Counted
<1>13. Claims' /\ Exhausted'
  BY <1>0, <1>1, <1>2 DEF Work, Claims, Exhausted, EndedPc
<1>14. Finished'
  <2> SUFFICES ASSUME NEW m \in Launches, jobs'[m].status \in {"complete", "error"},
                      NEW g \in Groups
               PROVE  jobs'[m].ran[g] = IF g < jobs'[m].total THEN 1 ELSE 0
    BY DEF Finished
  <2>1. CASE m # l
    BY <1>3, <2>1 DEF Work, Finished
  <2>2. CASE m = l
    <3>1. core[h].pc = "retire"
      BY <1>1, <1>3, <2>2
    <3>2. \A k \in Hosts : core[k].pc \notin PublishedPc
      BY <1>4, <3>1 DEF LockedPc, WrittenPc, PublishedPc, ClaimPc
    <3>3. \A c \in Cores : core[c].pc # "run"
      <4> SUFFICES ASSUME NEW c \in Cores, core[c].pc = "run" PROVE FALSE
        OBVIOUS
      <4> QED
        BY <3>2, ClaimersHavePublisher DEF ClaimPc
    <3>4. ~Runs(g)
      BY <3>3 DEF Runs
    <3>5. slot.claim >= desc.total
      BY <1>0, <3>1 DEF Work, Exhausted, EndedPc
    <3>6. jobs[l].ran[g] = IF g < slot.claim /\ g < desc.total THEN 1 ELSE 0
      BY <1>1, <3>1, <3>4 DEF Work, Counted, CountedPc
    <3>7. g \in Nat /\ slot.claim \in Nat /\ desc.total \in Nat
      BY LargestCount DEF TypeOK
    <3>8. jobs[l].ran[g] = IF g < desc.total THEN 1 ELSE 0
      BY <3>5, <3>6, <3>7
    <3> QED
      BY <1>1, <1>3, <2>2, <3>8
  <2> QED
    BY <2>1, <2>2
<1> QED
  BY <1>6, <1>7, <1>8, <1>9, <1>10, <1>12, <1>13, <1>14 DEF Work

\* fetch_add on the claim counter: the group this core takes is a new one, or
\* the counter has passed the last group.
LEMMA ClaimWork ==
    ASSUME TypeOK, Protocol, Work, NEW c \in Cores, Claim(c)
    PROVE  Work'
<1>0. /\ Workers \subseteq Cores /\ Hosts \subseteq Cores
      /\ \A k \in Hosts : k \notin Workers
  BY SmpConstants DEF Cores
<1> DEFINE p == IF slot.claim >= core[c].total THEN "record" ELSE "run"
<1>1. /\ core[c].pc = "claim" /\ core'[c].pc = p /\ core'[c].index = slot.claim
      /\ core'[c].launch = core[c].launch /\ core'[c].total = core[c].total
      /\ \A d \in Cores \ {c} : core'[d] = core[d]
      /\ UNCHANGED <<desc, jobs>>
  BY DEF Claim, TypeOK
<1>2. slot'.claim = slot.claim + 1 /\ slot.claim \in Nat /\ desc.total \in Nat
  BY DEF Claim, TypeOK
<1>3. core[c].total = desc.total
  BY <1>1, ClaimersHavePublisher DEF ClaimPc
<1>4. \/ p = "record" /\ slot.claim >= desc.total
      \/ p = "run" /\ slot.claim < desc.total
  BY <1>2, <1>3
<1> HIDE DEF p
<1>5. OwnLaunch'
  <2> SUFFICES ASSUME NEW k \in Hosts, core'[k].pc \in OwningPc
               PROVE  /\ core'[k].launch \in Launches
                      /\ core'[k].total = jobs[core'[k].launch].total
                      /\ jobs[core'[k].launch].status =
                           IF core'[k].pc \in SubmittedPc THEN "submitted" ELSE "running"
    BY <1>1 DEF OwnLaunch
  <2>1. CASE k = c
    <3>1. core[k].pc \in OwningPc /\ core[k].pc \notin SubmittedPc /\ core'[k].pc \notin SubmittedPc
      BY <1>1, <1>4, <2>1
      DEF OwningPc, LockedPc, WrittenPc, PublishedPc, ClaimPc, SubmittedPc
    <3> QED
      BY <1>1, <2>1, <3>1 DEF Work, OwnLaunch
  <2>2. CASE k # c
    BY <1>0, <1>1, <2>2 DEF Work, OwnLaunch
  <2> QED
    BY <2>1, <2>2
<1>6. \A k \in Hosts : /\ core'[k].pc \in OwningPc <=> core[k].pc \in OwningPc
                       /\ core'[k].pc \in CountedPc <=> core[k].pc \in CountedPc
                       /\ core'[k].pc \in WrittenPc <=> core[k].pc \in WrittenPc
                       /\ core'[k].launch = core[k].launch /\ core'[k].total = core[k].total
                       /\ core'[k].pc \in {"lock", "write", "reset"}
                            => core[k].pc \in {"lock", "write", "reset"}
  <2> SUFFICES ASSUME NEW k \in Hosts
               PROVE  /\ core'[k].pc \in OwningPc <=> core[k].pc \in OwningPc
                      /\ core'[k].pc \in CountedPc <=> core[k].pc \in CountedPc
                      /\ core'[k].pc \in WrittenPc <=> core[k].pc \in WrittenPc
                      /\ core'[k].launch = core[k].launch /\ core'[k].total = core[k].total
                      /\ core'[k].pc \in {"lock", "write", "reset"}
                           => core[k].pc \in {"lock", "write", "reset"}
    OBVIOUS
  <2>1. CASE k = c
    BY <1>1, <1>4, <2>1 DEF OwningPc, LockedPc, WrittenPc, PublishedPc, ClaimPc, CountedPc
  <2>2. CASE k # c
    BY <1>0, <1>1, <2>2
  <2> QED
    BY <2>1, <2>2
<1>7. OwnersDiffer' /\ Owned'
  BY <1>1, <1>6 DEF Work, OwnersDiffer, Owned
<1>8. TotalsAgree'
  <2>1. \A w \in Workers : core'[w].pc \in ClaimPc => core'[w].total = desc.total
    BY <1>0, <1>1, <1>3 DEF Work, TotalsAgree
  <2> QED
    BY <1>1, <1>6, <2>1 DEF Work, TotalsAgree
<1>9. Untouched' /\ Finished'
  BY <1>1, <1>6 DEF Work, Untouched, Finished
<1>10. Claims'
  <2>1. \A d \in Cores : core'[d].pc = "run" =>
          core'[d].index < slot'.claim /\ core'[d].index < desc.total
    <3> SUFFICES ASSUME NEW d \in Cores, core'[d].pc = "run"
                 PROVE  core'[d].index < slot'.claim /\ core'[d].index < desc.total
      OBVIOUS
    <3>1. CASE d = c
      BY <1>1, <1>2, <1>4, <3>1
    <3>2. CASE d # c
      <4>1. core[d].index < slot.claim /\ core[d].index < desc.total /\ core[d].index \in Nat
        BY <1>1, <3>2, CoreTypes DEF Work, Claims
      <4> QED
        BY <1>1, <1>2, <3>2, <4>1
    <3> QED
      BY <3>1, <3>2
  <2>2. \A d \in Cores \ {c} : core[d].pc = "run" => core[d].index # slot.claim
    <3> SUFFICES ASSUME NEW d \in Cores \ {c}, core[d].pc = "run"
                 PROVE  core[d].index # slot.claim
      OBVIOUS
    <3>1. core[d].index < slot.claim /\ core[d].index \in Nat
      BY CoreTypes DEF Work, Claims
    <3> QED
      BY <1>2, <3>1
  <2> QED
    BY <1>1, <2>1, <2>2 DEF Work, Claims
<1>11. Exhausted'
  <2> SUFFICES ASSUME NEW d \in Cores, core'[d].pc \in EndedPc
               PROVE  slot'.claim >= desc.total
    BY <1>1 DEF Exhausted
  <2>1. slot.claim >= desc.total
    <3>1. CASE d = c
      BY <1>1, <1>4, <3>1 DEF EndedPc
    <3>2. CASE d # c
      BY <1>1, <3>2 DEF Work, Exhausted
    <3> QED
      BY <3>1, <3>2
  <2> QED
    BY <1>2, <2>1
<1>12. Counted'
  <2> SUFFICES ASSUME NEW k \in Hosts, core'[k].pc \in CountedPc, NEW g \in Groups
               PROVE  jobs[desc.launch].ran[g] =
                        IF g < slot'.claim /\ g < desc.total /\ ~Runs(g)' THEN 1 ELSE 0
    BY <1>1 DEF Counted
  <2>1. jobs[desc.launch].ran[g] =
          IF g < slot.claim /\ g < desc.total /\ ~Runs(g) THEN 1 ELSE 0
    BY <1>6 DEF Work, Counted
  <2>2. g \in Nat
    BY LargestCount
  <2>3. CASE g = slot.claim
    <3>1. g < desc.total => Runs(g)'
      <4> HAVE g < desc.total
      <4>1. core'[c].pc = "run" /\ core'[c].index = g
        BY <1>1, <1>2, <1>4, <2>2, <2>3
      <4> QED
        BY <4>1 DEF Runs
    <3>2. ~(g < slot.claim)
      BY <1>2, <2>3
    <3> QED
      BY <2>1, <3>1, <3>2
  <2>4. CASE g # slot.claim
    <3>1. Runs(g)' <=> Runs(g)
      BY <1>1, <2>4 DEF Runs
    <3>2. g < slot'.claim <=> g < slot.claim
      BY <1>2, <2>2, <2>4
    <3> QED
      BY <2>1, <3>1, <3>2
  <2> QED
    BY <2>3, <2>4
<1> QED
  BY <1>5, <1>7, <1>8, <1>9, <1>10, <1>11, <1>12 DEF Work

\* What executing a group does to its launch.
LEMMA WithGroupFacts ==
    ASSUME NEW job \in JobRecord, NEW group, NEW ok \in BOOLEAN
    PROVE  /\ WithGroup(job, group, ok).total = job.total
           /\ WithGroup(job, group, ok).status = job.status
           /\ WithGroup(job, group, ok).failed = (job.failed \/ ~ok)
           /\ \A g \in Groups : WithGroup(job, group, ok).ran[g] =
                                  IF g = group THEN job.ran[g] + 1 ELSE job.ran[g]
<1> DEFINE n == [job.ran EXCEPT ![group] = job.ran[group] + 1]
           f == job.failed \/ ~ok
<1>1. WithGroup(job, group, ok) = [job EXCEPT !.ran = n, !.failed = f]
  BY DEF WithGroup, JobRecord
<1>2. \A g \in Groups : n[g] = IF g = group THEN job.ran[g] + 1 ELSE job.ran[g]
  BY DEF JobRecord
<1> HIDE DEF n, f
<1>3. /\ WithGroup(job, group, ok).total = job.total
      /\ WithGroup(job, group, ok).status = job.status
      /\ WithGroup(job, group, ok).failed = f
      /\ WithGroup(job, group, ok).ran = n
  BY <1>1 DEF JobRecord
<1> QED
  BY <1>2, <1>3 DEF f

\* run_group: this core's group is counted, and no other core executes it.
LEMMA RunWork ==
    ASSUME TypeOK, Protocol, Work, NEW c \in Cores, NEW ok \in BOOLEAN, RunGroup(c, ok)
    PROVE  Work'
<1>0. /\ Workers \subseteq Cores /\ Hosts \subseteq Cores
      /\ \A k \in Hosts : k \notin Workers
  BY SmpConstants DEF Cores
<1> DEFINE l == desc.launch
           i == core[c].index
           j == WithGroup(jobs[l], i, ok)
<1>1. /\ core[c].pc = "run" /\ core'[c].pc = "post"
      /\ core'[c].launch = core[c].launch /\ core'[c].total = core[c].total
      /\ \A d \in Cores \ {c} : core'[d] = core[d]
      /\ UNCHANGED <<slot, desc>>
  BY DEF RunGroup, TypeOK
<1>2. /\ core[c].launch = l /\ core[c].total = desc.total /\ l \in Launches
      /\ jobs[l].status \in {"submitted", "running"} /\ jobs[l].total = desc.total
      /\ \E h \in Hosts : /\ core[h].pc \in PublishedPc /\ core[h].launch = l
                          /\ \A k \in Hosts \ {h} : core[k].pc \notin LockedPc
  BY <1>1, ClaimersHavePublisher DEF ClaimPc
<1>3. jobs' = [jobs EXCEPT ![l] = j]
  BY <1>2 DEF RunGroup
<1>4. /\ j.total = jobs[l].total /\ j.status = jobs[l].status
      /\ \A g \in Groups : j.ran[g] = IF g = i THEN jobs[l].ran[g] + 1 ELSE jobs[l].ran[g]
  <2>1. jobs[l] \in JobRecord
    BY <1>2 DEF TypeOK, JobRecord
  <2> QED
    BY <2>1, WithGroupFacts
<1> HIDE DEF j
<1>5. jobs'[l] = j /\ \A m \in Launches \ {l} : jobs'[m] = jobs[m]
  BY <1>2, <1>3 DEF TypeOK
<1>6. /\ i \in Nat /\ slot.claim \in Nat /\ desc.total \in Nat
      /\ i < slot.claim /\ i < desc.total
  BY <1>1, CoreTypes DEF Work, Claims, TypeOK
<1> HIDE DEF i, l
<1>7. \A m \in Launches : jobs'[m].total = jobs[m].total /\ jobs'[m].status = jobs[m].status
  BY <1>4, <1>5
<1>8. \A k \in Hosts : /\ core'[k].pc \in OwningPc <=> core[k].pc \in OwningPc
                       /\ core'[k].pc \in SubmittedPc <=> core[k].pc \in SubmittedPc
                       /\ core'[k].pc \in CountedPc <=> core[k].pc \in CountedPc
                       /\ core'[k].pc \in WrittenPc <=> core[k].pc \in WrittenPc
                       /\ core'[k].launch = core[k].launch /\ core'[k].total = core[k].total
                       /\ core'[k].pc \in {"lock", "write", "reset"}
                            => core[k].pc \in {"lock", "write", "reset"}
  <2> SUFFICES ASSUME NEW k \in Hosts
               PROVE  /\ core'[k].pc \in OwningPc <=> core[k].pc \in OwningPc
                      /\ core'[k].pc \in SubmittedPc <=> core[k].pc \in SubmittedPc
                      /\ core'[k].pc \in CountedPc <=> core[k].pc \in CountedPc
                      /\ core'[k].pc \in WrittenPc <=> core[k].pc \in WrittenPc
                      /\ core'[k].launch = core[k].launch /\ core'[k].total = core[k].total
                      /\ core'[k].pc \in {"lock", "write", "reset"}
                           => core[k].pc \in {"lock", "write", "reset"}
    OBVIOUS
  <2>1. CASE k = c
    BY <1>1, <2>1
    DEF OwningPc, LockedPc, WrittenPc, PublishedPc, ClaimPc, CountedPc, SubmittedPc
  <2>2. CASE k # c
    BY <1>0, <1>1, <2>2
  <2> QED
    BY <2>1, <2>2
<1>9. OwnLaunch' /\ OwnersDiffer'
  BY <1>7, <1>8 DEF Work, OwnLaunch, OwnersDiffer
<1>10. Owned'
  BY <1>7, <1>8 DEF Work, Owned
<1>11. TotalsAgree'
  <2>1. \A w \in Workers : core'[w].pc \in ClaimPc => core'[w].total = desc.total
    BY <1>0, <1>1, <1>2 DEF Work, TotalsAgree
  <2> QED
    BY <1>1, <1>8, <2>1 DEF Work, TotalsAgree
<1>12. Untouched' /\ Finished'
  <2>1. \A m \in Launches : jobs[m].status \in {"queued", "complete", "error"} => m # l
    BY <1>2
  <2>2. \A k \in Hosts : core[k].pc \in {"lock", "write", "reset"} =>
           core[k].launch \in Launches \ {l}
    <3> SUFFICES ASSUME NEW k \in Hosts, core[k].pc \in {"lock", "write", "reset"}
                 PROVE  core[k].launch \in Launches \ {l}
      OBVIOUS
    <3>1. PICK h \in Hosts : core[h].pc \in PublishedPc /\ core[h].launch = l
      BY <1>2
    <3>2. k # h /\ core[k].pc \in OwningPc /\ core[h].pc \in OwningPc
      BY <3>1 DEF OwningPc, LockedPc, WrittenPc, PublishedPc, ClaimPc
    <3> QED
      BY <3>1, <3>2 DEF Work, OwnersDiffer, OwnLaunch
  <2>3. Untouched'
    BY <1>5, <1>7, <1>8, <2>1, <2>2 DEF Work, Untouched
  <2>4. Finished'
    BY <1>5, <1>7, <2>1 DEF Work, Finished
  <2> QED
    BY <2>3, <2>4
<1>13. Claims' /\ Exhausted'
  BY <1>1 DEF Work, Claims, Exhausted, EndedPc
<1>14. Counted'
  <2> SUFFICES ASSUME NEW k \in Hosts, core'[k].pc \in CountedPc, NEW g \in Groups
               PROVE  j.ran[g] =
                        IF g < slot.claim /\ g < desc.total /\ ~Runs(g)' THEN 1 ELSE 0
    BY <1>1, <1>5 DEF Counted, l
  <2>1. jobs[l].ran[g] =
          IF g < slot.claim /\ g < desc.total /\ ~Runs(g) THEN 1 ELSE 0
    BY <1>8 DEF Work, Counted, l
  <2>2. CASE g = i
    <3>1. Runs(g)
      BY <1>1, <2>2 DEF Runs, i
    <3>2. ~Runs(g)'
      <4> SUFFICES ASSUME NEW d \in Cores, core'[d].pc = "run", core'[d].index = g PROVE FALSE
        BY DEF Runs
      <4>1. d # c
        BY <1>1
      <4>2. core[d].pc = "run" /\ core[d].index = core[c].index
        BY <1>1, <2>2, <4>1 DEF i
      <4> QED
        BY <1>1, <4>1, <4>2 DEF Work, Claims
    <3>3. jobs[l].ran[g] = 0
      BY <2>1, <3>1
    <3> QED
      BY <1>4, <1>6, <2>2, <3>2, <3>3
  <2>3. CASE g # i
    <3>1. Runs(g)' <=> Runs(g)
      BY <1>1, <2>3 DEF Runs, i
    <3> QED
      BY <1>4, <2>1, <2>3, <3>1
  <2> QED
    BY <2>2, <2>3
<1> QED
  BY <1>9, <1>10, <1>11, <1>12, <1>13, <1>14 DEF Work

\* Every step of the device keeps the accounting of the work-groups.
LEMMA WorkStep ==
    ASSUME TypeOK, Protocol, Work, [Next]_vars
    PROVE  Work'
<1>0. Hosts \subseteq Cores /\ Workers \subseteq Cores
  BY DEF Cores
<1>1. ASSUME NEW c \in Cores, ClaimLoop(c) PROVE Work'
  BY <1>1, ClaimWork, RunWork, QuietActions DEF ClaimLoop
<1>2. ASSUME NEW h \in Hosts, Execute(h) PROVE Work'
  BY <1>0, <1>1, <1>2, QuietActions, PrepareWork, StatusWork DEF Execute
<1>3. ASSUME NEW w \in Workers, WorkerLoop(w) PROVE Work'
  BY <1>0, <1>1, <1>3, QuietActions DEF WorkerLoop
<1>4. CASE UNCHANGED vars
  BY <1>4 DEF vars, Work, OwnLaunch, OwnersDiffer, Owned, TotalsAgree, Untouched, Finished,
              Counted, Claims, Exhausted, Runs
<1> QED
  BY <1>2, <1>3, <1>4, SubmitWork DEF Next

\* Before the first launch nothing has run.
LEMMA InitWork ==
    ASSUME WaitsForWorkers, Init
    PROVE  Work
<1>1. \A h \in Hosts : core[h].pc = "boot"
  BY DEF Init, NewCore, Cores
<1>2. \A w \in Workers : core[w].pc = "off"
  BY SmpConstants DEF Init, NewCore, Cores
<1>3. OwnLaunch /\ OwnersDiffer /\ TotalsAgree /\ Counted
  BY <1>1, <1>2 DEF OwnLaunch, OwnersDiffer, TotalsAgree, Counted, OwningPc, LockedPc,
                    WrittenPc, PublishedPc, ClaimPc, CountedPc
<1>4. Claims /\ Exhausted
  BY <1>1, <1>2 DEF Claims, Exhausted, EndedPc, Cores
<1>5. \A l \in Launches : jobs[l].status = "queued" /\ \A g \in Groups : jobs[l].ran[g] = 0
  BY DEF Init
<1>6. Owned /\ Untouched /\ Finished
  BY <1>1, <1>5 DEF Owned, Untouched, Finished
<1> QED
  BY <1>3, <1>4, <1>6 DEF Work

\* The accounting holds for as long as the epoch does not wrap.
THEOREM WorkIsAccounted ==
    ASSUME WaitsForWorkers
    PROVE  Spec /\ []NoWrap => []Work
<1>1. Init => Work
  BY InitWork
<1>2. TypeOK /\ Protocol /\ Work /\ [Next]_vars => Work'
  BY WorkStep
<1> QED
  BY <1>1, <1>2, SmpTypeCorrect, ProtocolHolds, PTL DEF Spec

\* How many times a group of a launch has run, whatever the launch's state.
LEMMA GroupsAreCounted ==
    ASSUME TypeOK, Protocol, Work
    PROVE  EachGroupOnce
<1> SUFFICES ASSUME NEW l \in Launches, NEW g \in Groups
             PROVE  /\ jobs[l].ran[g] <= (IF g < jobs[l].total THEN 1 ELSE 0)
                    /\ jobs[l].status \in {"complete", "error"} =>
                         jobs[l].ran[g] = (IF g < jobs[l].total THEN 1 ELSE 0)
  BY DEF EachGroupOnce
<1>1. g \in Nat /\ jobs[l].total \in Nat /\ jobs[l].ran[g] \in Nat
  BY LargestCount DEF TypeOK
<1>2. CASE jobs[l].status = "queued"
  BY <1>1, <1>2 DEF Work, Untouched
<1>3. CASE jobs[l].status \in {"complete", "error"}
  BY <1>1, <1>3 DEF Work, Finished
<1>4. CASE jobs[l].status \in {"submitted", "running"}
  <2>1. PICK h \in Hosts : core[h].pc \in OwningPc /\ core[h].launch = l
    BY <1>4 DEF Work, Owned
  <2>2. core[h].total = jobs[l].total
    BY <2>1 DEF Work, OwnLaunch
  <2>3. CASE core[h].pc \in {"lock", "write", "reset"}
    BY <1>1, <1>4, <2>1, <2>3 DEF Work, Untouched
  <2>4. CASE core[h].pc \notin {"lock", "write", "reset"}
    <3>1. core[h].pc \in CountedPc /\ core[h].pc \in WrittenPc
      BY <2>1, <2>4 DEF OwningPc, LockedPc, WrittenPc, CountedPc
    <3>2. l = desc.launch /\ jobs[l].total = desc.total
      BY <2>1, <2>2, <3>1 DEF Protocol, SlotIsMine, Work, TotalsAgree
    <3>3. jobs[l].ran[g] = IF g < slot.claim /\ g < desc.total /\ ~Runs(g) THEN 1 ELSE 0
      BY <3>1, <3>2 DEF Work, Counted
    <3> QED
      BY <1>1, <1>4, <3>2, <3>3
  <2> QED
    BY <2>3, <2>4
<1> QED
  BY <1>2, <1>3, <1>4 DEF TypeOK

\* Every work-group is executed exactly once: none twice whatever the speeds of
\* the cores, and all of them by the time the launch retires.
THEOREM GroupsRunOnce ==
    ASSUME WaitsForWorkers
    PROVE  Spec /\ []NoWrap => []EachGroupOnce
<1>1. TypeOK /\ Protocol /\ Work => EachGroupOnce
  BY GroupsAreCounted
<1> QED
  BY <1>1, SmpTypeCorrect, ProtocolHolds, WorkIsAccounted, PTL
-----------------------------------------------------------------------------
(* Errors, and the contract of the device.                                  *)

\* A core holds a failure it has not recorded in the slot yet.
Failing == \E c \in Cores : core[c].pc \in ClaimPc /\ core[c].failed

\* The failure of a group is in the slot or still on the core that met it, from
\* the publication of a launch to its retirement, and nothing else is.
CleanSlot == \A h \in Hosts : core[h].pc \in {"write", "reset", "publish"} => ~slot.error
CleanHost == \A h \in Hosts : core[h].pc \in {"boot", "out"} \cup SubmittedPc => ~core[h].failed
CleanLaunch ==
    /\ \A l \in Launches : jobs[l].status = "queued" => ~jobs[l].failed
    /\ \A h \in Hosts : core[h].pc \in {"lock", "write", "reset"} => ~jobs[core[h].launch].failed
FailureKept == \A h \in Hosts : core[h].pc \in CountedPc =>
    (jobs[desc.launch].failed <=> slot.error \/ Failing)

\* The number of work-groups of every submitted launch is one of the constants.
TotalsGiven == \A l \in Launches : jobs[l].status # "queued" => jobs[l].total \in GroupCounts

Outcome == CleanSlot /\ CleanHost /\ CleanLaunch /\ FailureKept /\ TotalsGiven

\* A step of one core that neither changes a failure nor moves one.
LEMMA SameFailures ==
    ASSUME TypeOK, Outcome, NEW c \in Cores,
           \A d \in Cores \ {c} : core'[d] = core[d],
           desc' = desc, slot'.error <=> slot.error,
           \A l \in Launches :
             /\ jobs'[l].failed <=> jobs[l].failed
             /\ jobs'[l].total = jobs[l].total
             /\ jobs'[l].status = "queued" <=> jobs[l].status = "queued",
           core'[c].pc \in ClaimPc /\ core'[c].failed <=> core[c].pc \in ClaimPc /\ core[c].failed,
           c \in Hosts =>
             /\ core'[c].pc \in {"write", "reset", "publish"} =>
                  core[c].pc \in {"write", "reset", "publish"}
             /\ core'[c].pc \in CountedPc => core[c].pc \in CountedPc /\ desc.launch \in Launches
             /\ core'[c].pc \in {"boot", "out"} \cup SubmittedPc => ~core'[c].failed
             /\ core'[c].pc \notin {"lock", "write", "reset"},
           \A h \in Hosts \ {c} :
             /\ core[h].pc \in {"lock", "write", "reset"} => core[h].launch \in Launches
             /\ core[h].pc \in CountedPc => desc.launch \in Launches
    PROVE  Outcome'
<1>0. Hosts \subseteq Cores
  BY DEF Cores
<1>1. CleanSlot' /\ CleanHost'
  BY <1>0 DEF Outcome, CleanSlot, CleanHost
<1>2. CleanLaunch'
  BY <1>0 DEF Outcome, CleanLaunch
<1>3. Failing' <=> Failing
  BY DEF Failing
<1>4. FailureKept'
  <2> SUFFICES ASSUME NEW h \in Hosts, core'[h].pc \in CountedPc
               PROVE  jobs'[desc.launch].failed <=> slot'.error \/ Failing'
    BY DEF FailureKept
  <2>1. core[h].pc \in CountedPc /\ desc.launch \in Launches
    BY <1>0
  <2>2. jobs[desc.launch].failed <=> slot.error \/ Failing
    BY <2>1 DEF Outcome, FailureKept
  <2>3. jobs'[desc.launch].failed <=> jobs[desc.launch].failed
    BY <2>1
  <2> QED
    BY <1>3, <2>2, <2>3
<1>5. TotalsGiven'
  BY DEF Outcome, TotalsGiven
<1> QED
  BY <1>1, <1>2, <1>4, <1>5 DEF Outcome

\* What the accounting says of the launches that submitters hold.
LEMMA OwnersKnown ==
    ASSUME TypeOK, Protocol, Work
    PROVE  \A h \in Hosts :
             /\ core[h].pc \in {"lock", "write", "reset"} => core[h].launch \in Launches
             /\ core[h].pc \in CountedPc =>
                  /\ core[h].launch = desc.launch /\ desc.launch \in Launches
                  /\ \A k \in Hosts \ {h} : core[k].pc \notin LockedPc
<1> SUFFICES ASSUME NEW h \in Hosts
             PROVE  /\ core[h].pc \in {"lock", "write", "reset"} => core[h].launch \in Launches
                    /\ core[h].pc \in CountedPc =>
                         /\ core[h].launch = desc.launch /\ desc.launch \in Launches
                         /\ \A k \in Hosts \ {h} : core[k].pc \notin LockedPc
  OBVIOUS
<1>1. core[h].pc \in {"lock", "write", "reset"} => core[h].pc \in OwningPc
  BY DEF OwningPc, LockedPc, WrittenPc
<1>2. core[h].pc \in CountedPc =>
        core[h].pc \in OwningPc /\ core[h].pc \in WrittenPc /\ core[h].pc \in LockedPc
  BY DEF CountedPc, OwningPc, LockedPc, WrittenPc
<1> QED
  BY <1>1, <1>2 DEF Protocol, SlotIsMine, LockHeld, Work, OwnLaunch

\* The steps of that kind.
LEMMA SameFailuresActions ==
    ASSUME TypeOK, Protocol, Work, Outcome, NEW c \in Cores,
           \/ c \in Hosts /\ (WaitWorkers(c) \/ Publish(c) \/ SendEvent(c) \/ WaitDone(c)
                              \/ WaitAcks(c))
           \/ Claim(c) \/ Post(c)
           \/ c \in Workers /\ (Boot(c) \/ Register(c) \/ PollEpoch(c) \/ WaitForEvent(c)
                                \/ CopyDescriptor(c) \/ Acknowledge(c))
    PROVE  Outcome'
<1>0. c \in Hosts => c \notin Workers
  BY SmpConstants
<1>1. desc' = desc /\ (slot'.error <=> slot.error)
  <2>1. CASE c \in Hosts /\ (WaitWorkers(c) \/ SendEvent(c) \/ WaitDone(c) \/ WaitAcks(c))
    BY <2>1 DEF WaitWorkers, SendEvent, WaitDone, WaitAcks
  <2>2. CASE Publish(c) \/ Claim(c) \/ Post(c)
    BY <2>2 DEF Publish, Claim, Post, TypeOK
  <2>3. CASE c \in Workers /\ (Boot(c) \/ Register(c) \/ PollEpoch(c) \/ WaitForEvent(c)
                                \/ CopyDescriptor(c) \/ Acknowledge(c))
    BY <2>3 DEF Boot, Register, PollEpoch, WaitForEvent, CopyDescriptor, Acknowledge
  <2> QED
    BY <2>1, <2>2, <2>3
<1>2. \A l \in Launches : /\ jobs'[l].failed <=> jobs[l].failed
                          /\ jobs'[l].total = jobs[l].total
                          /\ jobs'[l].status = "queued" <=> jobs[l].status = "queued"
  <2>1. CASE c \in Hosts /\ SendEvent(c)
    <3>1. core[c].launch \in Launches /\ jobs[core[c].launch].status = "submitted"
      BY <2>1 DEF SendEvent, Work, OwnLaunch, OwningPc, LockedPc, WrittenPc, PublishedPc,
                  SubmittedPc
    <3> QED
      BY <2>1, <3>1 DEF SendEvent, TypeOK
  <2>2. CASE ~(c \in Hosts /\ SendEvent(c))
    <3>1. jobs' = jobs
      BY <2>2 DEF WaitWorkers, Publish, WaitDone, WaitAcks, Claim, Post, Boot, Register,
                  PollEpoch, WaitForEvent, CopyDescriptor, Acknowledge
    <3> QED
      BY <3>1
  <2> QED
    BY <2>1, <2>2
<1>3. \A h \in Hosts : /\ core[h].pc \in {"lock", "write", "reset"} => core[h].launch \in Launches
                       /\ core[h].pc \in CountedPc => desc.launch \in Launches
  BY OwnersKnown
<1>4. CASE c \in Hosts /\ (WaitWorkers(c) \/ SendEvent(c) \/ WaitDone(c) \/ WaitAcks(c))
  <2>1. PICK p : /\ Goto(c, p)
                 /\ <<core[c].pc, p>> \in {<<"boot", "out">>, <<"sev", "claim">>,
                      <<"wait done", "wait acks">>, <<"wait acks", "retire">>}
    BY <1>4 DEF WaitWorkers, SendEvent, WaitDone, WaitAcks
  <2>2. /\ core'[c].pc = p /\ core'[c].failed = core[c].failed
        /\ \A d \in Cores \ {c} : core'[d] = core[d]
    BY <2>1 DEF Goto, TypeOK
  <2>3. core[c].pc \in {"boot", "sev"} => ~core[c].failed
    BY <1>4 DEF Outcome, CleanHost, SubmittedPc
  <2> QED
    BY <1>0, <1>1, <1>2, <1>3, <1>4, <2>1, <2>2, <2>3, SameFailures
    DEF CountedPc, PublishedPc, ClaimPc, SubmittedPc
<1>5. CASE c \in Hosts /\ Publish(c)
  <2>1. /\ core[c].pc = "publish" /\ core'[c].pc = "sev" /\ core'[c].failed = core[c].failed
        /\ \A d \in Cores \ {c} : core'[d] = core[d]
    BY <1>5 DEF Publish, TypeOK
  <2>2. ~core[c].failed
    BY <1>5, <2>1 DEF Outcome, CleanHost, SubmittedPc
  <2> QED
    BY <1>0, <1>1, <1>2, <1>3, <1>5, <2>1, <2>2, SameFailures
    DEF CountedPc, PublishedPc, ClaimPc, SubmittedPc
<1>6. CASE Claim(c) \/ Post(c)
  <2>1. /\ core[c].pc \in {"claim", "post"} /\ core'[c].pc \in {"record", "run", "claim"}
        /\ core'[c].failed = core[c].failed /\ \A d \in Cores \ {c} : core'[d] = core[d]
    BY <1>6 DEF Claim, Post, Goto, TypeOK
  <2> QED
    BY <1>0, <1>1, <1>2, <1>3, <1>6, <2>1, SameFailures
    DEF CountedPc, PublishedPc, ClaimPc, SubmittedPc
<1>7. CASE c \in Workers /\ (Boot(c) \/ Register(c) \/ PollEpoch(c) \/ WaitForEvent(c)
                             \/ CopyDescriptor(c))
  <2>1. /\ core[c].pc \in {"off", "register", "poll", "wfe", "copy"}
        /\ core'[c].pc \in {"register", "poll", "wfe", "copy", "claim"}
        /\ core'[c].pc = "claim" => ~core'[c].failed
        /\ \A d \in Cores \ {c} : core'[d] = core[d]
    BY <1>7 DEF Boot, Register, PollEpoch, WaitForEvent, CopyDescriptor, Goto, TypeOK
  <2> QED
    BY <1>0, <1>1, <1>2, <1>3, <1>7, <2>1, SameFailures DEF ClaimPc
<1>8. CASE c \in Workers /\ Acknowledge(c)
  <2>1. /\ core[c].pc = "ack" /\ core'[c].pc = "poll" /\ \A d \in Cores \ {c} : core'[d] = core[d]
    BY <1>8 DEF Acknowledge, NewCore, TypeOK
  <2> QED
    BY <1>0, <1>1, <1>2, <1>3, <1>8, <2>1, SameFailures DEF ClaimPc
<1> QED
  BY <1>4, <1>5, <1>6, <1>7, <1>8

\* submit: a launch that has not run has not failed.
LEMMA SubmitOutcome ==
    ASSUME TypeOK, Protocol, Work, Outcome, NEW h \in Hosts, NEW l \in Launches,
           NEW n \in GroupCounts, Submit(h, l, n)
    PROVE  Outcome'
<1>0. /\ Hosts \subseteq Cores /\ h \in Cores
  BY DEF Cores
<1>1. /\ core[h].pc = "out" /\ core'[h].pc = "lock" /\ core'[h].launch = l
      /\ core'[h].failed = core[h].failed
      /\ \A c \in Cores \ {h} : core'[c] = core[c]
  BY <1>0 DEF Submit, TypeOK
<1>2. /\ jobs[l].status = "queued" /\ jobs'[l].status = "submitted" /\ jobs'[l].total = n
      /\ jobs'[l].failed = jobs[l].failed
      /\ \A m \in Launches \ {l} : jobs'[m] = jobs[m]
      /\ UNCHANGED <<slot, desc>>
  BY DEF Submit, TypeOK
<1>3. ~core[h].failed /\ ~jobs[l].failed
  BY <1>1, <1>2 DEF Outcome, CleanHost, CleanLaunch
<1>4. CleanSlot' /\ CleanHost'
  BY <1>0, <1>1, <1>2, <1>3 DEF Outcome, CleanSlot, CleanHost
<1>5. CleanLaunch'
  <2>1. \A m \in Launches : jobs'[m].failed <=> jobs[m].failed
    BY <1>2
  <2>2. \A m \in Launches : jobs'[m].status = "queued" => jobs[m].status = "queued"
    BY <1>2
  <2>3. \A k \in Hosts \ {h} : /\ core'[k] = core[k]
                               /\ core[k].pc \in {"lock", "write", "reset"} =>
                                    core[k].launch \in Launches
    BY <1>0, <1>1, OwnersKnown
  <2> QED
    BY <1>1, <1>3, <2>1, <2>2, <2>3 DEF Outcome, CleanLaunch
<1>6. Failing' <=> Failing
  BY <1>1 DEF Failing, ClaimPc
<1>7. FailureKept'
  <2> SUFFICES ASSUME NEW k \in Hosts, core'[k].pc \in CountedPc
               PROVE  jobs'[desc.launch].failed <=> slot.error \/ Failing
    BY <1>2, <1>6 DEF FailureKept
  <2>1. k # h /\ core[k].pc \in CountedPc
    BY <1>0, <1>1 DEF CountedPc, PublishedPc, ClaimPc
  <2>2. desc.launch \in Launches
    BY <2>1, OwnersKnown
  <2>3. jobs'[desc.launch].failed <=> jobs[desc.launch].failed
    BY <1>2, <2>2
  <2> QED
    BY <2>1, <2>3 DEF Outcome, FailureKept
<1>8. TotalsGiven'
  BY <1>2 DEF Outcome, TotalsGiven
<1> QED
  BY <1>4, <1>5, <1>7, <1>8 DEF Outcome

\* The lock, the descriptor and the counters: the slot is clean from here on, and
\* nobody else is at a launch.
LEMMA PrepareOutcome ==
    ASSUME TypeOK, Protocol, Work, Outcome, NEW h \in Hosts,
           Lock(h) \/ WriteDescriptor(h) \/ ResetCounters(h)
    PROVE  Outcome'
<1>0. /\ Hosts \subseteq Cores /\ h \in Cores /\ h \notin Workers
  BY SmpConstants DEF Cores
<1>1. /\ <<core[h].pc, core'[h].pc>> \in
           {<<"lock", "write">>, <<"write", "reset">>, <<"reset", "publish">>}
      /\ core'[h].failed = core[h].failed /\ core'[h].launch = core[h].launch
      /\ \A c \in Cores \ {h} : core'[c] = core[c]
      /\ jobs' = jobs
  <2>1. PICK p : Goto(h, p) /\ <<core[h].pc, p>> \in
           {<<"lock", "write">>, <<"write", "reset">>, <<"reset", "publish">>}
    BY DEF Lock, WriteDescriptor, ResetCounters
  <2>2. /\ core'[h].pc = p /\ core'[h].failed = core[h].failed
        /\ core'[h].launch = core[h].launch
        /\ \A c \in Cores \ {h} : core'[c] = core[c]
    BY <1>0, <2>1 DEF Goto, TypeOK
  <2>3. jobs' = jobs
    BY DEF Lock, WriteDescriptor, ResetCounters
  <2> QED
    BY <2>1, <2>2, <2>3
<1>2. ~slot'.error
  <2>1. CASE Lock(h)
    BY <2>1 DEF Lock, TypeOK
  <2>2. CASE WriteDescriptor(h)
    BY <2>2 DEF WriteDescriptor, Outcome, CleanSlot
  <2>3. CASE ResetCounters(h)
    <3>1. ~slot.error
      BY <2>3 DEF ResetCounters, Outcome, CleanSlot
    <3>2. slot'.error = slot.error
      BY <2>3 DEF ResetCounters, TypeOK
    <3> QED
      BY <3>1, <3>2
  <2> QED
    BY <2>1, <2>2, <2>3
<1>3. \A k \in Hosts \ {h} : core'[k] = core[k] /\ core[k].pc \notin LockedPc
  <2>1. CASE Lock(h)
    BY <1>0, <1>1, <2>1, SmpConstants DEF Lock, Protocol, LockHeld
  <2>2. CASE WriteDescriptor(h) \/ ResetCounters(h)
    <3>1. core[h].pc \in {"write", "reset", "publish"}
      BY <2>2 DEF WriteDescriptor, ResetCounters
    <3> QED
      BY <1>0, <1>1, <3>1, NobodyReads
  <2> QED
    BY <2>1, <2>2
<1>4. ~core[h].failed /\ ~jobs[core[h].launch].failed
  BY <1>1 DEF Outcome, CleanHost, CleanLaunch, SubmittedPc
<1>5. CleanSlot' /\ CleanHost'
  BY <1>1, <1>2, <1>3, <1>4 DEF Outcome, CleanSlot, CleanHost
<1>6. CleanLaunch' /\ TotalsGiven'
  BY <1>1, <1>3, <1>4 DEF Outcome, CleanLaunch, TotalsGiven
<1>7. FailureKept'
  <2> SUFFICES ASSUME NEW k \in Hosts, core'[k].pc \in CountedPc
               PROVE  ~jobs'[desc'.launch].failed /\ ~Failing'
    BY <1>2 DEF FailureKept
  <2>1. k = h /\ core'[h].pc = "publish" /\ core[h].pc = "reset" /\ ResetCounters(h)
    BY <1>1, <1>3
    DEF CountedPc, LockedPc, WrittenPc, PublishedPc, ClaimPc, Lock, WriteDescriptor
  <2>2. desc' = desc /\ core[h].launch = desc.launch
    BY <2>1 DEF ResetCounters, Protocol, SlotIsMine, WrittenPc
  <2>3. \A w \in Workers : core[w].pc \notin ReadingPc
    BY <2>1, NobodyReads
  <2>4. ~Failing'
    <3> SUFFICES ASSUME NEW c \in Cores, core'[c].pc \in ClaimPc PROVE FALSE
      BY DEF Failing
    <3>1. CASE c \in Workers
      BY <1>0, <1>1, <2>3, <3>1 DEF ReadingPc
    <3>2. CASE c \in Hosts
      BY <1>3, <2>1, <3>2 DEF LockedPc, WrittenPc, PublishedPc, ClaimPc
    <3> QED
      BY <3>1, <3>2 DEF Cores
  <2> QED
    BY <1>1, <1>4, <2>2, <2>4
<1> QED
  BY <1>5, <1>6, <1>7 DEF Outcome

\* JobSlot::record moves a failure from the core to the slot.
LEMMA RecordOutcome ==
    ASSUME TypeOK, Protocol, Work, Outcome, NEW c \in Cores, Record(c)
    PROVE  Outcome'
<1>0. Hosts \subseteq Cores
  BY DEF Cores
<1> DEFINE p == IF c \in Hosts THEN "wait done" ELSE "ack"
<1>1. core[c].pc = "record" /\ Goto(c, p) /\ jobs' = jobs /\ desc' = desc
  BY DEF Record
<1>2. (c \in Hosts /\ p = "wait done") \/ (c \notin Hosts /\ p = "ack")
  OBVIOUS
<1> HIDE DEF p
<1>3. core'[c].pc = p /\ \A d \in Cores \ {c} : core'[d] = core[d]
  BY <1>1 DEF Goto, TypeOK
<1>4. slot'.error <=> slot.error \/ core[c].failed
  BY DEF Record, TypeOK
<1>5. Failing <=> Failing' \/ core[c].failed
  BY <1>1, <1>2, <1>3 DEF Failing, ClaimPc
<1>6. FailureKept'
  <2> SUFFICES ASSUME NEW h \in Hosts, core'[h].pc \in CountedPc
               PROVE  jobs[desc.launch].failed <=> slot'.error \/ Failing'
    BY <1>1 DEF FailureKept
  <2>1. core[h].pc \in CountedPc
    BY <1>0, <1>1, <1>3 DEF CountedPc, PublishedPc, ClaimPc
  <2>2. jobs[desc.launch].failed <=> slot.error \/ Failing
    BY <2>1 DEF Outcome, FailureKept
  <2> QED
    BY <1>4, <1>5, <2>2
<1>7. CleanSlot'
  <2> SUFFICES ASSUME NEW h \in Hosts, core'[h].pc \in {"write", "reset", "publish"}
               PROVE  FALSE
    BY DEF CleanSlot
  <2>1. h # c
    BY <1>2, <1>3
  <2>2. core[h].pc \in {"write", "reset", "publish"}
    BY <1>0, <1>3, <2>1
  <2>3. \E k \in Hosts : core[k].pc \in PublishedPc /\ \A x \in Hosts \ {k} : core[x].pc \notin LockedPc
    BY <1>1, ClaimersHavePublisher DEF ClaimPc
  <2> QED
    BY <2>2, <2>3 DEF LockedPc, WrittenPc, PublishedPc, ClaimPc
<1>8. CleanHost' /\ CleanLaunch' /\ TotalsGiven'
  <2>1. \A h \in Hosts : core'[h].pc \in {"boot", "out"} \cup SubmittedPc => core'[h] = core[h]
    BY <1>0, <1>2, <1>3 DEF SubmittedPc
  <2>2. {"lock", "write", "reset"} \subseteq SubmittedPc
    BY DEF SubmittedPc
  <2> QED
    BY <1>1, <2>1, <2>2 DEF Outcome, CleanHost, CleanLaunch, TotalsGiven
<1> QED
  BY <1>6, <1>7, <1>8 DEF Outcome

\* run_group: a failure goes to the launch and to the core that met it.
LEMMA RunOutcome ==
    ASSUME TypeOK, Protocol, Work, Outcome, NEW c \in Cores, NEW ok \in BOOLEAN, RunGroup(c, ok)
    PROVE  Outcome'
<1>0. Hosts \subseteq Cores
  BY DEF Cores
<1> DEFINE l == desc.launch
           j == WithGroup(jobs[l], core[c].index, ok)
<1>1. /\ core[c].pc = "run" /\ core'[c].pc = "post"
      /\ \A d \in Cores \ {c} : core'[d] = core[d]
      /\ UNCHANGED <<slot, desc>>
  BY DEF RunGroup, TypeOK
<1>2. core'[c].failed <=> core[c].failed \/ ~ok
  BY DEF RunGroup, TypeOK
<1>3. /\ core[c].launch = l /\ l \in Launches
      /\ jobs[l].status \in {"submitted", "running"}
      /\ \E h \in Hosts : /\ core[h].pc \in PublishedPc /\ core[h].launch = l
                          /\ \A k \in Hosts \ {h} : core[k].pc \notin LockedPc
  BY <1>1, ClaimersHavePublisher DEF ClaimPc
<1>4. jobs' = [jobs EXCEPT ![l] = j]
  BY <1>3 DEF RunGroup
<1>5. /\ j.total = jobs[l].total /\ j.status = jobs[l].status
      /\ j.failed = (jobs[l].failed \/ ~ok)
  <2>1. jobs[l] \in JobRecord
    BY <1>3 DEF TypeOK, JobRecord
  <2> QED
    BY <2>1, WithGroupFacts
<1> HIDE DEF j
<1>6. jobs'[l] = j /\ \A m \in Launches \ {l} : jobs'[m] = jobs[m]
  BY <1>3, <1>4 DEF TypeOK
<1> HIDE DEF l
<1>7. TotalsGiven'
  BY <1>5, <1>6 DEF Outcome, TotalsGiven
<1>8. CleanSlot' /\ CleanHost'
  BY <1>0, <1>1 DEF Outcome, CleanSlot, CleanHost, SubmittedPc
<1>9. CleanLaunch'
  <2>1. \A m \in Launches : jobs'[m].status = "queued" => m # l /\ jobs[m].status = "queued"
    BY <1>3, <1>5, <1>6
  <2>2. \A k \in Hosts : core'[k].pc \in {"lock", "write", "reset"} =>
           /\ core'[k] = core[k] /\ core[k].launch \in Launches \ {l}
    <3> SUFFICES ASSUME NEW k \in Hosts, core'[k].pc \in {"lock", "write", "reset"}
                 PROVE  core'[k] = core[k] /\ core[k].launch \in Launches \ {l}
      OBVIOUS
    <3>1. PICK h \in Hosts : core[h].pc \in PublishedPc /\ core[h].launch = l
      BY <1>3
    <3>2. core'[k] = core[k]
      BY <1>0, <1>1
    <3>3. k # h /\ core[k].pc \in OwningPc /\ core[h].pc \in OwningPc
      BY <3>1, <3>2 DEF OwningPc, LockedPc, WrittenPc, PublishedPc, ClaimPc
    <3> QED
      BY <3>1, <3>2, <3>3 DEF Work, OwnersDiffer, OwnLaunch
  <2> QED
    BY <1>6, <2>1, <2>2 DEF Outcome, CleanLaunch
<1>10. Failing' <=> Failing \/ ~ok
  BY <1>1, <1>2 DEF Failing, ClaimPc
<1>11. FailureKept'
  <2> SUFFICES ASSUME NEW h \in Hosts, core'[h].pc \in CountedPc
               PROVE  j.failed <=> slot.error \/ Failing'
    BY <1>1, <1>6 DEF FailureKept, l
  <2>1. core[h].pc \in CountedPc
    BY <1>0, <1>1 DEF CountedPc, PublishedPc, ClaimPc
  <2>2. jobs[l].failed <=> slot.error \/ Failing
    BY <2>1 DEF Outcome, FailureKept, l
  <2> QED
    BY <1>5, <1>10, <2>2
<1> QED
  BY <1>7, <1>8, <1>9, <1>11 DEF Outcome

\* The end of execute forgets the error together with the launch.
LEMMA RetireOutcome ==
    ASSUME TypeOK, Protocol, Work, Outcome, NEW h \in Hosts, Retire(h)
    PROVE  Outcome'
<1>0. Hosts \subseteq Cores /\ h \in Cores
  BY DEF Cores
<1> DEFINE st == IF slot.error THEN "error" ELSE "complete"
           l == core[h].launch
<1>1. core[h].pc = "retire" /\ jobs' = [jobs EXCEPT ![l].status = st]
  BY DEF Retire
<1>2. st \in {"error", "complete"}
  OBVIOUS
<1> HIDE DEF st
<1>3. /\ core'[h].pc = "out" /\ ~core'[h].failed /\ \A c \in Cores \ {h} : core'[c] = core[c]
      /\ desc' = desc
  BY <1>0 DEF Retire, NewCore, TypeOK
<1>4. ~slot'.error
  BY DEF Retire, TypeOK
<1>5. l \in Launches /\ \A k \in Hosts \ {h} : core[k].pc \notin LockedPc
  BY <1>1, OwnersKnown DEF CountedPc
<1> HIDE DEF l
<1>6. /\ \A m \in Launches : (jobs'[m].failed <=> jobs[m].failed) /\ jobs'[m].total = jobs[m].total
      /\ \A m \in Launches \ {l} : jobs'[m] = jobs[m]
      /\ jobs'[l].status = st
  BY <1>1, <1>2, <1>5 DEF TypeOK
<1>7. jobs[l].status # "queued"
  BY <1>1 DEF Work, OwnLaunch, OwningPc, LockedPc, WrittenPc, SubmittedPc, l
<1>8. CleanSlot' /\ CleanHost' /\ TotalsGiven'
  <2>1. CleanSlot' /\ CleanHost'
    BY <1>0, <1>3, <1>4 DEF Outcome, CleanSlot, CleanHost
  <2>2. TotalsGiven'
    BY <1>6, <1>7 DEF Outcome, TotalsGiven
  <2> QED
    BY <2>1, <2>2
<1>9. CleanLaunch'
  <2>1. \A k \in Hosts : core'[k].pc \in {"lock", "write", "reset"} =>
           core'[k] = core[k] /\ core[k].launch \in Launches
    BY <1>0, <1>3, OwnersKnown
  <2>2. \A m \in Launches : jobs'[m].status = "queued" => jobs[m].status = "queued"
    BY <1>2, <1>6
  <2> QED
    BY <1>6, <2>1, <2>2 DEF Outcome, CleanLaunch
<1>10. FailureKept'
  BY <1>0, <1>3, <1>5
  DEF FailureKept, CountedPc, LockedPc, WrittenPc, PublishedPc, ClaimPc
<1> QED
  BY <1>8, <1>9, <1>10 DEF Outcome

\* The outcome of every launch is accounted for, for as long as the epoch does
\* not wrap.
THEOREM OutcomesAreKept ==
    ASSUME WaitsForWorkers
    PROVE  Spec /\ []NoWrap => []Outcome
<1>1. Init => Outcome
  <2> SUFFICES ASSUME Init PROVE Outcome
    OBVIOUS
  <2>1. \A h \in Hosts : core[h].pc = "boot" /\ ~core[h].failed
    BY DEF Init, NewCore, Cores
  <2>2. \A l \in Launches : jobs[l].status = "queued" /\ ~jobs[l].failed
    BY DEF Init
  <2> QED
    BY <2>1, <2>2 DEF Outcome, CleanSlot, CleanHost, CleanLaunch, FailureKept, TotalsGiven,
                      CountedPc, PublishedPc, ClaimPc
<1>2. TypeOK /\ Protocol /\ Work /\ Outcome /\ [Next]_vars => Outcome'
  <2> SUFFICES ASSUME TypeOK, Protocol, Work, Outcome, [Next]_vars PROVE Outcome'
    OBVIOUS
  <2>0. Hosts \subseteq Cores /\ Workers \subseteq Cores
    BY DEF Cores
  <2>1. ASSUME NEW c \in Cores, ClaimLoop(c) PROVE Outcome'
    BY <2>1, SameFailuresActions, RunOutcome, RecordOutcome DEF ClaimLoop
  <2>2. ASSUME NEW h \in Hosts, Execute(h) PROVE Outcome'
    BY <2>0, <2>1, <2>2, SameFailuresActions, PrepareOutcome, RetireOutcome DEF Execute
  <2>3. ASSUME NEW w \in Workers, WorkerLoop(w) PROVE Outcome'
    BY <2>0, <2>1, <2>3, SameFailuresActions DEF WorkerLoop
  <2>4. CASE UNCHANGED vars
    BY <2>4 DEF vars, Outcome, CleanSlot, CleanHost, CleanLaunch, FailureKept, TotalsGiven, Failing
  <2> QED
    BY <2>2, <2>3, <2>4, SubmitOutcome DEF Next
<1> QED
  BY <1>1, <1>2, SmpTypeCorrect, ProtocolHolds, WorkIsAccounted, PTL DEF Spec

\* The groups of a launch that has been submitted are the first total ones.
LEMMA FirstGroups ==
    ASSUME NEW n \in GroupCounts
    PROVE  /\ {g \in Groups : g < n} = 0..n - 1
           /\ IsFiniteSet(0..n - 1) /\ Cardinality(0..n - 1) = n
           /\ n \in 0..Cardinality(Groups) /\ n \in Nat \ {0}
<1>1. PICK m \in GroupCounts : /\ m \in Nat \ {0} /\ Groups = 0..m - 1
                               /\ \A k \in GroupCounts : k <= m
  BY LargestCount
<1>2. n \in Nat \ {0} /\ n <= m
  BY <1>1, SmpConstants
<1>3. {g \in Groups : g < n} = 0..n - 1
  BY <1>1, <1>2
<1>4. \A k \in Nat \ {0} : IsFiniteSet(0..k - 1) /\ Cardinality(0..k - 1) = k
  <2> SUFFICES ASSUME NEW k \in Nat \ {0}
               PROVE  IsFiniteSet(0..k - 1) /\ Cardinality(0..k - 1) = k
    OBVIOUS
  <2>1. 0 \in Int /\ k - 1 \in Int /\ ~(0 > k - 1) /\ k - 1 - 0 + 1 = k
    OBVIOUS
  <2> QED
    BY <2>1, FS_Interval
<1>5. Cardinality(Groups) = m
  BY <1>1, <1>4
<1> QED
  BY <1>1, <1>2, <1>3, <1>4, <1>5

\* How many groups of a launch have run: none of one that nobody started, all of
\* one that has retired, and never more than it has.
LEMMA GroupsRunCounts ==
    ASSUME TypeOK, Protocol, Work, Outcome, NEW l \in Launches
    PROVE  /\ (\A g \in Groups : jobs[l].ran[g] = 0) => GroupsRun(l) = 0
           /\ jobs[l].status \in {"complete", "error"} => GroupsRun(l) = jobs[l].total
           /\ jobs[l].status # "queued" =>
                /\ IsFiniteSet({g \in Groups : jobs[l].ran[g] > 0})
                /\ {g \in Groups : jobs[l].ran[g] > 0} \subseteq 0..jobs[l].total - 1
<1>1. ASSUME \A g \in Groups : jobs[l].ran[g] = 0 PROVE GroupsRun(l) = 0
  <2>1. {g \in Groups : jobs[l].ran[g] > 0} = {}
    BY <1>1
  <2> QED
    BY <2>1, FS_EmptySet DEF GroupsRun
<1>2. EachGroupOnce
  BY GroupsAreCounted
<1>3. ASSUME jobs[l].status # "queued"
      PROVE  /\ IsFiniteSet({g \in Groups : jobs[l].ran[g] > 0})
             /\ {g \in Groups : jobs[l].ran[g] > 0} \subseteq 0..jobs[l].total - 1
             /\ jobs[l].status \in {"complete", "error"} => GroupsRun(l) = jobs[l].total
  <2> DEFINE n == jobs[l].total
             S == {g \in Groups : jobs[l].ran[g] > 0}
  <2>1. n \in GroupCounts
    BY <1>3 DEF Outcome, TotalsGiven
  <2>2. /\ {g \in Groups : g < n} = 0..n - 1
        /\ IsFiniteSet(0..n - 1) /\ Cardinality(0..n - 1) = n
    BY <2>1, FirstGroups
  <2>3. \A g \in Groups : /\ jobs[l].ran[g] \in Nat
                          /\ jobs[l].ran[g] <= (IF g < n THEN 1 ELSE 0)
                          /\ jobs[l].status \in {"complete", "error"} =>
                               jobs[l].ran[g] = (IF g < n THEN 1 ELSE 0)
    BY <1>2 DEF EachGroupOnce, TypeOK
  <2> HIDE DEF n
  <2>4. S \subseteq {g \in Groups : g < n}
    BY <2>3
  <2>5. jobs[l].status \in {"complete", "error"} => S = {g \in Groups : g < n}
    BY <2>3
  <2>6. GroupsRun(l) = Cardinality(S)
    BY DEF GroupsRun
  <2> HIDE DEF S
  <2>7. IsFiniteSet(S)
    BY <2>2, <2>4, FS_Subset
  <2>8. jobs[l].status \in {"complete", "error"} => Cardinality(S) = n
    BY <2>2, <2>5
  <2> QED
    BY <2>2, <2>4, <2>6, <2>7, <2>8 DEF n, S
<1> QED
  BY <1>1, <1>3

\* submit, CL_RUNNING and the end of execute are the contract's own steps.
LEMMA StatusContract ==
    ASSUME TypeOK, Protocol, Work, Outcome, NEW h \in Hosts,
           \/ \E l \in Launches, n \in GroupCounts : Submit(h, l, n)
           \/ SendEvent(h) \/ Retire(h)
    PROVE  Contract!Next
<1>1. CASE \E l \in Launches, n \in GroupCounts : Submit(h, l, n)
  <2>1. PICK l \in Launches, n \in GroupCounts : Submit(h, l, n)
    BY <1>1
  <2>2. /\ jobs[l].status = "queued" /\ jobs'[l].status = "submitted" /\ jobs'[l].total = n
        /\ \A m \in Launches \ {l} : jobs'[m] = jobs[m]
        /\ \A m \in Launches : jobs'[m].ran = jobs[m].ran /\ jobs'[m].failed = jobs[m].failed
    BY <2>1 DEF Submit, TypeOK
  <2>3. n \in 0..Cardinality(Groups)
    BY FirstGroups
  <2>4. Contract!Submit(l, n)
    <3>1. [k \in Launches |-> jobs[k].status][l] = "queued"
      BY <2>2
    <3>2. [k \in Launches |-> jobs'[k].status] =
            [[k \in Launches |-> jobs[k].status] EXCEPT ![l] = "submitted"]
      BY <2>2
    <3>3. [k \in Launches |-> jobs'[k].total] =
            [[k \in Launches |-> jobs[k].total] EXCEPT ![l] = n]
      BY <2>2
    <3>4. /\ [k \in Launches |-> GroupsRun(k)'] = [k \in Launches |-> GroupsRun(k)]
          /\ [k \in Launches |-> jobs'[k].failed] = [k \in Launches |-> jobs[k].failed]
      BY <2>2 DEF GroupsRun
    <3> QED
      BY <3>1, <3>2, <3>3, <3>4 DEF Contract!Submit
  <2> QED
    BY <2>3, <2>4 DEF Contract!Next
<1>2. CASE SendEvent(h)
  <2>1. core[h].pc = "sev" /\ jobs' = [jobs EXCEPT ![core[h].launch].status = "running"]
    BY <1>2 DEF SendEvent
  <2>2. PICK m \in Launches : m = core[h].launch /\ jobs[m].status = "submitted"
    BY <2>1 DEF Work, OwnLaunch, OwningPc, LockedPc, WrittenPc, PublishedPc, SubmittedPc
  <2>3. /\ jobs'[m].status = "running"
        /\ \A k \in Launches : k # m => jobs'[k] = jobs[k]
        /\ \A k \in Launches : /\ jobs'[k].ran = jobs[k].ran /\ jobs'[k].failed = jobs[k].failed
                               /\ jobs'[k].total = jobs[k].total
    BY <2>1, <2>2 DEF TypeOK
  <2>4. Contract!Start(m)
    <3>1. [k \in Launches |-> jobs[k].status][m] = "submitted"
      BY <2>2
    <3>2. [k \in Launches |-> jobs'[k].status] =
            [[k \in Launches |-> jobs[k].status] EXCEPT ![m] = "running"]
      BY <2>3
    <3>3. /\ [k \in Launches |-> GroupsRun(k)'] = [k \in Launches |-> GroupsRun(k)]
          /\ [k \in Launches |-> jobs'[k].failed] = [k \in Launches |-> jobs[k].failed]
          /\ [k \in Launches |-> jobs'[k].total] = [k \in Launches |-> jobs[k].total]
      BY <2>3 DEF GroupsRun
    <3> QED
      BY <3>1, <3>2, <3>3 DEF Contract!Start
  <2> QED
    BY <2>4 DEF Contract!Next
<1>3. CASE Retire(h)
  <2> DEFINE st == IF slot.error THEN "error" ELSE "complete"
  <2>1. core[h].pc = "retire" /\ jobs' = [jobs EXCEPT ![core[h].launch].status = st]
    BY <1>3 DEF Retire
  <2>2. PICK m \in Launches : m = core[h].launch /\ jobs[m].status = "running"
    BY <2>1 DEF Work, OwnLaunch, OwningPc, LockedPc, WrittenPc, PublishedPc, SubmittedPc
  <2>3. m = desc.launch /\ \A k \in Hosts \ {h} : core[k].pc \notin LockedPc
    BY <2>1, <2>2, OwnersKnown DEF CountedPc
  <2>4. ~Failing
    <3>1. \A k \in Hosts : core[k].pc \notin PublishedPc
      BY <2>1, <2>3 DEF LockedPc, WrittenPc, PublishedPc, ClaimPc
    <3> SUFFICES ASSUME NEW c \in Cores, core[c].pc \in ClaimPc PROVE FALSE
      BY DEF Failing
    <3> QED
      BY <3>1, ClaimersHavePublisher
  <2>5. jobs[m].failed <=> slot.error
    BY <2>1, <2>3, <2>4 DEF Outcome, FailureKept, CountedPc
  <2>6. st = (IF jobs[m].failed THEN "error" ELSE "complete") /\ st \in {"error", "complete"}
    BY <2>5
  <2>7. Work'
    BY <1>3, StatusWork
  <2> HIDE DEF st
  <2>8. /\ jobs'[m].status = st
        /\ \A k \in Launches : k # m => jobs'[k] = jobs[k]
        /\ \A k \in Launches : /\ jobs'[k].ran = jobs[k].ran /\ jobs'[k].failed = jobs[k].failed
                               /\ jobs'[k].total = jobs[k].total
    BY <2>1, <2>2, <2>6 DEF TypeOK
  <2>9. GroupsRun(m) = jobs[m].total
    <3> DEFINE n == jobs[m].total
               S == {g \in Groups : jobs[m].ran[g] > 0}
    <3>1. n \in GroupCounts
      BY <2>2 DEF Outcome, TotalsGiven
    <3>2. {g \in Groups : g < n} = 0..n - 1 /\ Cardinality(0..n - 1) = n
      BY <3>1, FirstGroups
    <3>3. \A g \in Groups : jobs[m].ran[g] = IF g < n THEN 1 ELSE 0
      BY <2>6, <2>7, <2>8 DEF Work, Finished
    <3> HIDE DEF n
    <3>4. S = {g \in Groups : g < n}
      BY <3>3
    <3> QED
      BY <3>2, <3>4 DEF GroupsRun, n
  <2>10. Contract!Retire(m)
    <3>1. /\ [k \in Launches |-> jobs[k].status][m] = "running"
          /\ [k \in Launches |-> GroupsRun(k)][m] = [k \in Launches |-> jobs[k].total][m]
      BY <2>2, <2>9
    <3>2. [k \in Launches |-> jobs'[k].status] =
            [[k \in Launches |-> jobs[k].status] EXCEPT ![m] =
                IF [k \in Launches |-> jobs[k].failed][m] THEN "error" ELSE "complete"]
      BY <2>6, <2>8
    <3>3. /\ [k \in Launches |-> GroupsRun(k)'] = [k \in Launches |-> GroupsRun(k)]
          /\ [k \in Launches |-> jobs'[k].failed] = [k \in Launches |-> jobs[k].failed]
          /\ [k \in Launches |-> jobs'[k].total] = [k \in Launches |-> jobs[k].total]
      BY <2>8 DEF GroupsRun
    <3> QED
      BY <3>1, <3>2, <3>3 DEF Contract!Retire
  <2> QED
    BY <2>10 DEF Contract!Next
<1> QED
  BY <1>1, <1>2, <1>3

\* A group that runs is a new one of a launch that has not run them all, and no
\* other launch is half-way through its own.
LEMMA RunContract ==
    ASSUME TypeOK, Protocol, Work, Outcome, NEW c \in Cores, NEW ok \in BOOLEAN, RunGroup(c, ok)
    PROVE  Contract!Next
<1>1. core[c].pc = "run"
  BY DEF RunGroup
<1>2. PICK l \in Launches : l = desc.launch
  BY <1>1, ClaimersHavePublisher DEF ClaimPc
<1>3. /\ core[c].launch = l /\ jobs[l].total = desc.total
      /\ jobs[l].status \in {"submitted", "running"}
  BY <1>1, <1>2, ClaimersHavePublisher DEF ClaimPc
<1>4. PICK h \in Hosts : /\ core[h].pc \in PublishedPc /\ core[h].launch = l
                         /\ \A k \in Hosts \ {h} : core[k].pc \notin LockedPc
  BY <1>1, <1>2, ClaimersHavePublisher DEF ClaimPc
<1>5. PICK i \in Nat : i = core[c].index /\ i < desc.total /\ i < slot.claim
  BY <1>1, CoreTypes DEF Work, Claims
<1> DEFINE n == jobs[l].total
           S == {g \in Groups : jobs[l].ran[g] > 0}
<1>6. n \in GroupCounts /\ n = desc.total
  BY <1>3 DEF Outcome, TotalsGiven
<1>7. /\ {g \in Groups : g < n} = 0..n - 1
      /\ IsFiniteSet(0..n - 1) /\ Cardinality(0..n - 1) = n /\ n \in Nat
  BY <1>6, FirstGroups
<1>8. i \in 0..n - 1 /\ i \in Groups
  BY <1>5, <1>6, <1>7
<1>9. i \notin S
  <2>1. Runs(i) /\ core[h].pc \in CountedPc
    BY <1>1, <1>4, <1>5 DEF Runs, CountedPc
  <2>2. jobs[l].ran[i] = 0
    BY <1>2, <1>8, <2>1 DEF Work, Counted
  <2> QED
    BY <2>2
<1>10. IsFiniteSet(S) /\ S \subseteq 0..n - 1
  BY <1>3, GroupsRunCounts
<1>11. /\ jobs'[l].total = n /\ jobs'[l].status = jobs[l].status
       /\ jobs'[l].failed = (jobs[l].failed \/ ~ok)
       /\ \A g \in Groups : jobs'[l].ran[g] = IF g = i THEN jobs[l].ran[g] + 1 ELSE jobs[l].ran[g]
       /\ \A m \in Launches : m # l => jobs'[m] = jobs[m]
  <2> DEFINE j == WithGroup(jobs[l], i, ok)
  <2>1. jobs' = [jobs EXCEPT ![l] = j]
    BY <1>3, <1>5 DEF RunGroup
  <2>2. jobs[l] \in JobRecord
    BY DEF TypeOK, JobRecord
  <2>3. /\ j.total = n /\ j.status = jobs[l].status /\ j.failed = (jobs[l].failed \/ ~ok)
        /\ \A g \in Groups : j.ran[g] = IF g = i THEN jobs[l].ran[g] + 1 ELSE jobs[l].ran[g]
    BY <2>2, WithGroupFacts
  <2> HIDE DEF j
  <2>4. jobs'[l] = j /\ \A m \in Launches : m # l => jobs'[m] = jobs[m]
    BY <2>1 DEF TypeOK
  <2> QED
    BY <2>3, <2>4
<1>12. {g \in Groups : jobs'[l].ran[g] > 0} = S \cup {i}
  <2>1. \A g \in Groups : jobs[l].ran[g] \in Nat
    BY DEF TypeOK
  <2>2. \A g \in Groups : jobs'[l].ran[g] > 0 <=> jobs[l].ran[g] > 0 \/ g = i
    <3> SUFFICES ASSUME NEW g \in Groups
                 PROVE  jobs'[l].ran[g] > 0 <=> jobs[l].ran[g] > 0 \/ g = i
      OBVIOUS
    <3>1. /\ jobs'[l].ran[g] = IF g = i THEN jobs[l].ran[g] + 1 ELSE jobs[l].ran[g]
          /\ jobs[l].ran[g] \in Nat
      BY <1>11, <2>1
    <3> QED
      BY <3>1
  <2> QED
    BY <1>8, <2>2
<1>13. GroupsRun(l) = Cardinality(S) /\ GroupsRun(l)' = Cardinality(S \cup {i})
  BY <1>12 DEF GroupsRun
<1> HIDE DEF S, n
<1>14. /\ Cardinality(S) \in Nat /\ Cardinality(S \cup {i}) = Cardinality(S) + 1
       /\ Cardinality(S) < n
  <2>1. /\ Cardinality(S) \in Nat /\ IsFiniteSet(S \cup {i})
        /\ Cardinality(S \cup {i}) = Cardinality(S) + 1
    BY <1>9, <1>10, FS_AddElement, FS_CardinalityType
  <2>2. S \cup {i} \in SUBSET (0..n - 1)
    BY <1>8, <1>10
  <2>3. Cardinality(S \cup {i}) <= n
    BY <1>7, <2>2, FS_Subset
  <2> QED
    BY <1>7, <2>1, <2>3
<1>15. \A k \in Launches : k # l => GroupsRun(k) \in {0, jobs[k].total}
  <2> SUFFICES ASSUME NEW k \in Launches, k # l PROVE GroupsRun(k) \in {0, jobs[k].total}
    OBVIOUS
  <2>1. CASE jobs[k].status = "queued"
    <3>1. \A g \in Groups : jobs[k].ran[g] = 0
      BY <2>1 DEF Work, Untouched
    <3> QED
      BY <3>1, GroupsRunCounts
  <2>2. CASE jobs[k].status \in {"complete", "error"}
    BY <2>2, GroupsRunCounts
  <2>3. CASE jobs[k].status \in {"submitted", "running"}
    <3>1. PICK o \in Hosts : core[o].pc \in OwningPc /\ core[o].launch = k
      BY <2>3 DEF Work, Owned
    <3>2. o # h
      BY <1>4, <3>1
    <3>3. core[o].pc = "lock"
      BY <1>4, <3>1, <3>2 DEF OwningPc
    <3>4. \A g \in Groups : jobs[k].ran[g] = 0
      BY <3>1, <3>3 DEF Work, Untouched
    <3> QED
      BY <3>4, GroupsRunCounts
  <2> QED
    BY <2>1, <2>2, <2>3 DEF TypeOK
<1>16. Contract!Execute(l, ok)
  <2>1. /\ [k \in Launches |-> jobs[k].status][l] \in {"submitted", "running"}
        /\ [k \in Launches |-> GroupsRun(k)][l] < [k \in Launches |-> jobs[k].total][l]
        /\ \A k \in Launches \ {l} : [m \in Launches |-> GroupsRun(m)][k] \in
             {0, [m \in Launches |-> jobs[m].total][k]}
    BY <1>3, <1>13, <1>14, <1>15 DEF n
  <2>2. [k \in Launches |-> GroupsRun(k)'] =
          [[k \in Launches |-> GroupsRun(k)] EXCEPT ![l] = @ + 1]
    <3>1. \A k \in Launches : k # l => GroupsRun(k)' = GroupsRun(k)
      BY <1>11 DEF GroupsRun
    <3>2. GroupsRun(l)' = GroupsRun(l) + 1
      BY <1>13, <1>14
    <3> QED
      BY <3>1, <3>2
  <2>3. [k \in Launches |-> jobs'[k].failed] =
          [[k \in Launches |-> jobs[k].failed] EXCEPT ![l] = @ \/ ~ok]
    BY <1>11, Zenon
  <2>4. /\ [k \in Launches |-> jobs'[k].status] = [k \in Launches |-> jobs[k].status]
        /\ [k \in Launches |-> jobs'[k].total] = [k \in Launches |-> jobs[k].total]
    BY <1>11 DEF n
  <2> QED
    BY <2>1, <2>2, <2>3, <2>4 DEF Contract!Execute
<1> QED
  BY <1>16 DEF Contract!Next

\* Every step of the device is a step of the contract, or leaves it alone.
LEMMA NextContract ==
    ASSUME TypeOK, Protocol, Work, Outcome, [Next]_vars
    PROVE  [Contract!Next]_(Contract!contract)
<1>0. Hosts \subseteq Cores /\ Workers \subseteq Cores
  BY DEF Cores
<1>1. jobs' = jobs => UNCHANGED Contract!contract
  BY DEF Contract!contract, GroupsRun
<1>2. ASSUME NEW c \in Cores, ClaimLoop(c) PROVE Contract!Next \/ jobs' = jobs
  BY <1>2, RunContract DEF ClaimLoop, Claim, Post, Record
<1>3. ASSUME NEW h \in Hosts, Execute(h) PROVE Contract!Next \/ jobs' = jobs
  BY <1>0, <1>2, <1>3, StatusContract
  DEF Execute, WaitWorkers, Lock, WriteDescriptor, ResetCounters, Publish, WaitDone, WaitAcks
<1>4. ASSUME NEW w \in Workers, WorkerLoop(w) PROVE Contract!Next \/ jobs' = jobs
  BY <1>0, <1>2, <1>4
  DEF WorkerLoop, Boot, Register, PollEpoch, WaitForEvent, CopyDescriptor, Acknowledge
<1>5. ASSUME NEW h \in Hosts, NEW l \in Launches, NEW n \in GroupCounts, Submit(h, l, n)
      PROVE  Contract!Next
  BY <1>5, StatusContract
<1>6. UNCHANGED vars => jobs' = jobs
  BY DEF vars
<1> QED
  BY <1>1, <1>3, <1>4, <1>5, <1>6 DEF Next

\* The SMP device implements the contract of every back end: a launch runs each of
\* its work-groups, no other launch's in between, and retires when all of them have
\* run, with an error exactly when one of them failed.
THEOREM SmpKeepsContract ==
    ASSUME WaitsForWorkers
    PROVE  Spec /\ []NoWrap => KeepsContract
<1>1. Init => Contract!Init
  <2> SUFFICES ASSUME Init PROVE Contract!Init
    OBVIOUS
  <2>1. \A l \in Launches : GroupsRun(l) = 0
    <3> SUFFICES ASSUME NEW l \in Launches PROVE GroupsRun(l) = 0
      OBVIOUS
    <3>1. {g \in Groups : jobs[l].ran[g] > 0} = {}
      BY DEF Init
    <3> QED
      BY <3>1, FS_EmptySet DEF GroupsRun
  <2>2. \A l \in Launches : /\ jobs[l].status = "queued" /\ jobs[l].total = 0
                            /\ jobs[l].failed = FALSE
    BY DEF Init
  <2> QED
    BY <2>1, <2>2, Zenon DEF Contract!Init
<1>2. TypeOK /\ Protocol /\ Work /\ Outcome /\ [Next]_vars
        => [Contract!Next]_(Contract!contract)
  BY NextContract
<1> QED
  BY <1>1, <1>2, SmpTypeCorrect, ProtocolHolds, WorkIsAccounted, OutcomesAreKept, PTL
  DEF Spec, KeepsContract, Contract!Spec
-----------------------------------------------------------------------------
(* The epoch.                                                               *)

\* The launches whose epoch was published.
StartedStatus == {"running", "complete", "error"}
Published ==
    {l \in Launches : \/ jobs[l].status \in StartedStatus
                      \/ \E h \in Hosts : core[h].pc = "sev" /\ core[h].launch = l}

\* No launch is published twice, so the epoch is at most their number.
EpochCounted == slot.epoch <= Cardinality(Published)

\* The step keeps every published launch among the published ones.
Remembers ==
    /\ \A l \in Launches : jobs[l].status \in StartedStatus => jobs'[l].status \in StartedStatus
    /\ \A h \in Hosts : core[h].pc = "sev" =>
         \/ core'[h].pc = "sev" /\ core'[h].launch = core[h].launch
         \/ jobs'[core[h].launch].status \in StartedStatus

\* There are at most MaxLaunches of them.
LEMMA FewLaunches ==
    ASSUME NEW S, S \subseteq Launches
    PROVE  /\ IsFiniteSet(S) /\ Cardinality(S) \in Nat
           /\ Cardinality(S) <= MaxLaunches
<1>1. IsFiniteSet(Launches) /\ Cardinality(Launches) = MaxLaunches /\ MaxLaunches \in Nat
  <2>1. MaxLaunches \in Nat /\ 1 \in Int /\ MaxLaunches \in Int
    BY SmpConstants
  <2>2. IsFiniteSet(1..MaxLaunches)
        /\ Cardinality(1..MaxLaunches) = IF 1 > MaxLaunches THEN 0 ELSE MaxLaunches - 1 + 1
    BY <2>1, FS_Interval
  <2> QED
    BY <2>1, <2>2 DEF Launches
<1>2. IsFiniteSet(S) /\ Cardinality(S) <= Cardinality(Launches)
  BY <1>1, FS_Subset
<1> QED
  BY <1>1, <1>2, FS_CardinalityType

\* No action but the publication moves the epoch, and none forgets a published launch.
LEMMA PublishedStays ==
    ASSUME TypeOK, Work, [Next]_vars
    PROVE  /\ Remembers
           /\ slot'.epoch = slot.epoch \/ \E h \in Hosts : Publish(h)
<1>0. Hosts \subseteq Cores /\ Workers \subseteq Cores /\ Hosts \cap Workers = {}
  BY SmpConstants DEF Cores
<1>1. CASE UNCHANGED vars
  BY <1>1 DEF vars, Remembers
<1>2. ASSUME NEW c \in Cores, core[c].pc # "sev", jobs' = jobs, slot'.epoch = slot.epoch,
             \A d \in Cores \ {c} : core'[d] = core[d]
      PROVE  Remembers /\ slot'.epoch = slot.epoch
  BY <1>0, <1>2 DEF Remembers
<1>3. ASSUME NEW c \in Cores, ClaimLoop(c)
      PROVE  Remembers /\ slot'.epoch = slot.epoch
  <2>1. /\ core[c].pc # "sev" /\ slot'.epoch = slot.epoch
        /\ \A d \in Cores \ {c} : core'[d] = core[d]
    BY <1>3, ClaimCores DEF ClaimPc
  <2>2. CASE jobs' = jobs
    BY <1>2, <2>1, <2>2
  <2>3. ASSUME NEW ok \in BOOLEAN, RunGroup(c, ok)
        PROVE  Remembers
    <3>1. \A l \in Launches : jobs'[l].status = jobs[l].status
      <4>1. jobs \in [Launches -> JobRecord]
        BY DEF TypeOK, JobRecord
      <4>2. jobs' = [jobs EXCEPT ![core[c].launch] =
                       WithGroup(jobs[core[c].launch], core[c].index, ok)]
        BY <2>3 DEF RunGroup
      <4>3. \A l \in Launches : WithGroup(jobs[l], core[c].index, ok).status = jobs[l].status
        BY <4>1, WithGroupFacts
      <4> QED
        BY <4>1, <4>2, <4>3
    <3> QED
      BY <1>0, <2>1, <3>1 DEF Remembers
  <2> QED
    BY <1>3, <2>1, <2>2, <2>3 DEF ClaimLoop, Claim, Post, Record
<1>4. ASSUME NEW h \in Hosts, NEW l \in Launches, NEW total \in GroupCounts, Submit(h, l, total)
      PROVE  Remembers /\ slot'.epoch = slot.epoch
  <2>1. /\ jobs[l].status = "queued" /\ core[h].pc # "sev" /\ slot' = slot
        /\ jobs' = [jobs EXCEPT ![l].total = total, ![l].status = "submitted"]
        /\ \A d \in Cores \ {h} : core'[d] = core[d]
    BY <1>0, <1>4 DEF Submit, TypeOK
  <2>2. \A k \in Launches \ {l} : jobs'[k] = jobs[k]
    BY <2>1 DEF TypeOK
  <2>3. \A k \in Hosts : core[k].pc = "sev" => core'[k] = core[k]
    BY <1>0, <2>1
  <2> QED
    BY <2>1, <2>2, <2>3 DEF Remembers, StartedStatus
<1>5. ASSUME NEW h \in Hosts, Execute(h)
      PROVE  Remembers /\ (slot'.epoch = slot.epoch \/ Publish(h))
  <2>0. h \in Cores
    BY <1>0
  <2>1. CASE WaitWorkers(h) \/ WriteDescriptor(h) \/ WaitDone(h) \/ WaitAcks(h)
    <3>1. slot' = slot /\ jobs' = jobs /\ core[h].pc # "sev" /\ \E q : Goto(h, q)
      BY <2>1 DEF WaitWorkers, WriteDescriptor, WaitDone, WaitAcks
    <3> QED
      BY <1>2, <2>0, <3>1, GotoCores
  <2>2. CASE Lock(h) \/ ResetCounters(h)
    <3>1. /\ jobs' = jobs /\ core[h].pc # "sev" /\ \E q : Goto(h, q)
      BY <2>2 DEF Lock, ResetCounters
    <3>2. slot'.epoch = slot.epoch
      BY <2>2 DEF Lock, ResetCounters, TypeOK
    <3> QED
      BY <1>2, <2>0, <3>1, <3>2, GotoCores
  <2>3. CASE Publish(h)
    <3>1. jobs' = jobs /\ core[h].pc # "sev" /\ \A d \in Cores \ {h} : core'[d] = core[d]
      BY <2>0, <2>3 DEF Publish, TypeOK
    <3> QED
      BY <1>0, <2>3, <3>1 DEF Remembers
  <2>4. CASE SendEvent(h)
    <3>1. /\ slot' = slot /\ core[h].pc = "sev" /\ Goto(h, "claim")
          /\ jobs' = [jobs EXCEPT ![core[h].launch].status = "running"]
      BY <2>4 DEF SendEvent
    <3>2. core[h].launch \in Launches
      BY <3>1 DEF Work, OwnLaunch, OwningPc, LockedPc, WrittenPc, PublishedPc
    <3>3. /\ jobs'[core[h].launch].status = "running"
          /\ \A k \in Launches \ {core[h].launch} : jobs'[k] = jobs[k]
      BY <3>1, <3>2 DEF TypeOK
    <3>4. \A d \in Cores \ {h} : core'[d] = core[d]
      BY <2>0, <3>1, GotoCores
    <3> QED
      BY <1>0, <3>1, <3>3, <3>4 DEF Remembers, StartedStatus
  <2>5. CASE Retire(h)
    <3>1. /\ core[h].pc = "retire" /\ \A d \in Cores \ {h} : core'[d] = core[d]
          /\ \E q \in {"error", "complete"} : jobs' = [jobs EXCEPT ![core[h].launch].status = q]
      BY <2>0, <2>5 DEF Retire, TypeOK
    <3>2. core[h].launch \in Launches
      BY <3>1 DEF Work, OwnLaunch, OwningPc, LockedPc, WrittenPc
    <3>3. /\ jobs'[core[h].launch].status \in {"error", "complete"}
          /\ \A k \in Launches \ {core[h].launch} : jobs'[k] = jobs[k]
      BY <3>1, <3>2 DEF TypeOK
    <3>4. slot'.epoch = slot.epoch
      BY <2>5 DEF Retire, TypeOK
    <3> QED
      BY <1>0, <3>1, <3>3, <3>4 DEF Remembers, StartedStatus
  <2> QED
    BY <1>3, <1>5, <2>0, <2>1, <2>2, <2>3, <2>4, <2>5 DEF Execute
<1>6. ASSUME NEW w \in Workers, WorkerLoop(w)
      PROVE  Remembers /\ slot'.epoch = slot.epoch
  <2>0. w \in Cores /\ core[w].pc # "sev"
    BY <1>0 DEF TypeOK, WorkerPc, ClaimPc
  <2>1. CASE ClaimLoop(w)
    BY <1>3, <2>0, <2>1
  <2>2. CASE ~ClaimLoop(w)
    <3>1. jobs' = jobs /\ slot' = slot
      BY <1>6, <2>2 DEF WorkerLoop, Boot, Register, PollEpoch, WaitForEvent, CopyDescriptor,
                        Acknowledge
    <3>2. \A d \in Cores \ {w} : core'[d] = core[d]
      <4>1. CASE Register(w) \/ WaitForEvent(w)
        <5>1. \E q : Goto(w, q)
          BY <4>1 DEF Register, WaitForEvent
        <5> QED
          BY <2>0, <5>1, GotoCores
      <4>2. CASE Boot(w) \/ PollEpoch(w) \/ CopyDescriptor(w) \/ Acknowledge(w)
        BY <2>0, <4>2 DEF Boot, PollEpoch, CopyDescriptor, Acknowledge, TypeOK
      <4> QED
        BY <1>6, <2>2, <4>1, <4>2 DEF WorkerLoop
    <3> QED
      BY <1>2, <2>0, <3>1, <3>2
  <2> QED
    BY <2>1, <2>2
<1> QED
  BY <1>1, <1>4, <1>5, <1>6 DEF Next

\* A publication adds one to the epoch, or wraps it, and one launch to the published ones.
LEMMA EpochStep ==
    ASSUME TypeOK, TypeOK', Work, EpochCounted, [Next]_vars
    PROVE  EpochCounted'
<1> DEFINE P == Published
           Q == Published'
           m == Cardinality(P)
           n == Cardinality(Q)
<1>1. IsFiniteSet(P) /\ m \in Nat /\ IsFiniteSet(Q) /\ n \in Nat
  <2>1. P \subseteq Launches /\ Q \subseteq Launches
    BY DEF Published
  <2> HIDE DEF P, Q
  <2> QED
    BY <2>1, FewLaunches
<1>2. P \subseteq Q
  <2>1. Remembers
    BY PublishedStays
  <2> QED
    BY <2>1 DEF Published, Remembers
<1>3. m <= n
  BY <1>1, <1>2, FS_Subset
<1>4. slot.epoch \in Nat /\ slot'.epoch \in Nat /\ slot.epoch <= m
  BY SmpConstants DEF TypeOK, EpochCounted
<1>5. CASE slot'.epoch = slot.epoch
  <2> HIDE DEF m, n
  <2> QED
    BY <1>1, <1>3, <1>4, <1>5 DEF EpochCounted, n
<1>6. ASSUME NEW h \in Hosts, Publish(h)
      PROVE  EpochCounted'
  <2> DEFINE l == core[h].launch
  <2>0. h \in Cores
    BY DEF Cores
  <2>1. core[h].pc = "publish" /\ slot'.epoch = (slot.epoch + 1) % EpochMod
    BY <1>6 DEF Publish, TypeOK
  <2>2. core'[h].pc = "sev" /\ core'[h].launch = l
    BY <1>6, <2>0 DEF Publish, TypeOK
  <2>3. /\ l \in Launches /\ jobs[l].status = "submitted"
        /\ \A k \in Hosts : core[k].pc = "sev" => core[k].launch # l
    BY <2>1 DEF Work, OwnLaunch, OwnersDiffer, OwningPc, LockedPc, WrittenPc, PublishedPc,
                SubmittedPc
  <2>4. l \notin P /\ l \in Q
    BY <2>2, <2>3 DEF Published, StartedStatus
  <2>5. slot'.epoch <= slot.epoch + 1
    <3>1. \A x \in Nat, e \in Nat \ {0} : x % e <= x
      OBVIOUS
    <3> QED
      BY <1>4, <2>1, <3>1, SmpConstants
  <2>6. m + 1 <= n
    <3>1. IsFiniteSet(P \cup {l}) /\ Cardinality(P \cup {l}) = m + 1
      BY <1>1, <2>4, FS_AddElement
    <3>2. P \cup {l} \subseteq Q
      BY <1>2, <2>4
    <3> QED
      BY <1>1, <3>1, <3>2, FS_Subset
  <2> HIDE DEF m, n
  <2> QED
    BY <1>1, <1>4, <2>5, <2>6 DEF EpochCounted, n
<1> QED
  BY <1>5, <1>6, PublishedStays

\* The 32-bit epoch does not wrap before it has counted 2^32 launches: the hypothesis of the
\* theorems above holds in every behaviour with fewer launches than that.
THEOREM EpochDoesNotWrap ==
    ASSUME WaitsForWorkers, MaxLaunches + 1 < EpochMod
    PROVE  Spec => []NoWrap
<1>1. Init => Protocol /\ Work
  BY InitProtocol, InitWork
<1>2. Init /\ TypeOK => EpochCounted
  <2> SUFFICES ASSUME Init, TypeOK PROVE EpochCounted
    OBVIOUS
  <2>1. slot.epoch = 0 /\ Cardinality(Published) \in Nat
    BY FewLaunches DEF Init, Published
  <2> QED
    BY <2>1 DEF EpochCounted
<1>3. TypeOK /\ EpochCounted => NoWrap
  <2> SUFFICES ASSUME TypeOK, EpochCounted PROVE NoWrap
    OBVIOUS
  <2> DEFINE n == Cardinality(Published)
  <2>1. /\ slot.epoch \in Nat /\ n \in Nat /\ slot.epoch <= n /\ n <= MaxLaunches
        /\ MaxLaunches \in Nat /\ EpochMod \in Nat
    BY FewLaunches, SmpConstants DEF EpochCounted, TypeOK, Published
  <2> HIDE DEF n
  <2> QED
    BY <2>1 DEF NoWrap
<1>4. TypeOK /\ TypeOK' /\ Protocol /\ Work /\ EpochCounted /\ [Next]_vars
        => Protocol' /\ Work' /\ EpochCounted'
  BY <1>3, ProtocolStep, WorkStep, EpochStep
<1> QED
  BY <1>1, <1>2, <1>3, <1>4, SmpTypeCorrect, PTL DEF Spec

\* The SMP device, for as many launches as the epoch can count: the descriptor is never
\* written under a reader, no core claims from another launch's counters, every work-group
\* runs exactly once, and the device keeps the contract of every back end.
THEOREM SmpIsCorrect ==
    ASSUME WaitsForWorkers, MaxLaunches + 1 < EpochMod
    PROVE  Spec => /\ []DescriptorStable /\ []OneLaunchPerCounter /\ []EachGroupOnce
                   /\ KeepsContract
BY EpochDoesNotWrap, DescriptorIsStable, CountersServeOneLaunch, GroupsRunOnce,
   SmpKeepsContract, PTL
=============================================================================
