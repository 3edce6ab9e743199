------------------------------ MODULE Executor ------------------------------
(***************************************************************************)
(* The single-core cooperative executor (inssched/src/executor.rs), its    *)
(* task control blocks (task.rs), its scheduling policies (policy.rs) and  *)
(* its virtual-clock timer.                                                *)
(*                                                                         *)
(* The executor thread runs tick after tick; other threads hold clones of  *)
(* the tasks' wakers and use them between any two of its steps.  A task's  *)
(* future is any future built from what the crate offers: it may finish,   *)
(* yield, sleep, wait for an event of a foreign source, or wait for        *)
(* whichever of an event and a deadline comes first (dropping the Sleep).  *)
(* A foreign source makes its event visible, then wakes the task.          *)
(***************************************************************************)
EXTENDS Naturals, Sequences, FiniteSets

CONSTANTS
    N,           \* number of tasks the program spawns, in identifier order
    Policies,    \* policies the executor may be built with: "round-robin", "priority",
                 \* "shortest-job-first"
    PollCost,    \* Config::poll_cost
    SwitchCost,  \* Config::switch_cost
    Profiles,    \* priority, cost estimate and delay until its arrival a task may be spawned with
    Durations,   \* how many cycles a future may sleep
    MaxPolls,    \* bound: a future finishes no later than this poll
    MaxFires,    \* bound: events the foreign sources fire
    MaxRuns      \* bound: calls to run and run_until_idle

ASSUME ExecutorConstants ==
    /\ N \in Nat
    /\ Policies \subseteq {"round-robin", "priority", "shortest-job-first"}
    /\ PollCost \in Nat /\ SwitchCost \in Nat
    /\ Profiles \subseteq Nat \X Nat \X Nat
    /\ Durations \subseteq Nat \ {0}
    /\ MaxPolls \in Nat /\ MaxFires \in Nat /\ MaxRuns \in Nat

Tasks == 1..N
NoTask == 0

VARIABLES
    tasks,     \* Executor::tasks, a control block per task
    spawned,   \* number of tasks spawned so far
    ready,     \* Executor::ready, a sequence of task ids
    pending,   \* Executor::pending, as a set
    signal,    \* TaskSignal::ready of each task
    await,     \* what each task's future is suspended on
    wheel,     \* TimerShared::wheel, as a set of timer entries
    clock,     \* TimerShared::clock
    core,      \* the policy, last_ran, switches, overhead, busy, polls
    pc,        \* where the executor thread is
    mode,      \* the call it is in: "run" or "until idle"
    current,   \* the task being polled
    polled,    \* what its poll answered
    result,    \* what the last call returned
    event,     \* the foreign source's event of each task is visible
    firing,    \* tasks whose event is visible and whose wake is to come
    hist       \* history: cycles jumped over while idle, events fired, calls made

vars == <<tasks, spawned, ready, pending, signal, await, wheel, clock, core, pc,
          mode, current, polled, result, event, firing, hist>>

\* The executor thread's own variables, untouched by other threads.
threadVars == <<tasks, spawned, ready, pending, await, wheel, clock, core, pc, mode,
                current, polled, result>>

NotAwaiting == [kind |-> "none", deadline |-> 0]

\* Task::new; remaining starts at the cost estimate.
NewTask(priority, cost, arrival) ==
    [state |-> "New", priority |-> priority, remaining |-> cost, polls |-> 0,
     cpu |-> 0, arrival |-> arrival, done |-> FALSE, completion |-> 0]

Init ==
    /\ tasks = [t \in Tasks |-> NewTask(0, 0, 0)]
    /\ spawned = 0
    /\ ready = <<>>
    /\ pending = {}
    /\ signal = [t \in Tasks |-> FALSE]
    /\ await = [t \in Tasks |-> NotAwaiting]
    /\ wheel = {}
    /\ clock = 0
    /\ core \in [policy : Policies, lastRan : {NoTask}, switches : {0}, overhead : {0},
                 busy : {0}, polls : {0}]
    /\ pc = "out"
    /\ mode = "run"
    /\ current = NoTask
    /\ polled = "pending"
    /\ result = "none"
    /\ event = [t \in Tasks |-> FALSE]
    /\ firing = {}
    /\ hist = [jumped |-> 0, fires |-> 0, runs |-> 0]

Ids == 1..spawned
Terminated(t) == tasks[t].state = "Terminated"
ReadySet == {ready[i] : i \in DOMAIN ready}
-----------------------------------------------------------------------------
(* Timer.                                                                   *)

\* Mutant: an entry due exactly now is left in the wheel.
DueBefore(cycle) == {e \in wheel : e.deadline < cycle}

\* advance_to(cycle): the clock never moves backwards; every entry that came due
\* leaves the wheel, and the wakers of those not cancelled are woken.
Due(cycle) == {e \in wheel : e.deadline <= cycle}
WokenBy(cycle) == {e.task : e \in {x \in Due(cycle) : ~x.cancelled}}
AdvanceTo(cycle) ==
    /\ clock' = cycle
    /\ wheel' = wheel \ Due(cycle)

\* next_deadline: the earliest deadline of an entry that is not cancelled.
LiveDeadlines == {e.deadline : e \in {x \in wheel : ~x.cancelled}}

\* Task::arrival over Executor::pending, for next_arrival.
Arrivals == {tasks[t].arrival : t \in pending}

Earliest(S) == CHOOSE x \in S : \A y \in S : x <= y

\* Drop for Sleep: the task's entries are cancelled, and skipped when they are due.
Cancelled(t) == {IF e.task = t THEN [e EXCEPT !.cancelled = TRUE] ELSE e : e \in wheel}
-----------------------------------------------------------------------------
(* Policies.                                                                *)

ById(a, b) == tasks[a].arrival < tasks[b].arrival
              \/ (tasks[a].arrival = tasks[b].arrival /\ a < b)

\* better_priority and better_shortest.
BetterPriority(a, b) ==
    \/ tasks[a].priority > tasks[b].priority
    \/ tasks[a].priority = tasks[b].priority /\ ById(a, b)
BetterShortest(a, b) ==
    \/ tasks[a].remaining < tasks[b].remaining
    \/ tasks[a].remaining = tasks[b].remaining /\ ById(a, b)
Better(a, b) == IF core.policy = "priority" THEN BetterPriority(a, b) ELSE BetterShortest(a, b)

\* Mutant: an entry is compared with the one before it, not with the best so far.
PickBeatsPrevious ==
    IF core.policy = "round-robin" THEN Len(ready)
    ELSE LET best[i \in DOMAIN ready] ==
               IF i = 1 THEN 1
               ELSE IF Better(ready[i], ready[i - 1]) THEN i ELSE best[i - 1]
         IN  best[Len(ready)]

\* SchedulePolicy::pick: round robin takes the head, the others scan the queue
\* and keep the first entry that beats every entry before it.
Pick ==
    IF core.policy = "round-robin" THEN 1
    ELSE LET best[i \in DOMAIN ready] ==
               IF i = 1 THEN 1
               ELSE IF Better(ready[i], ready[best[i - 1]]) THEN i ELSE best[i - 1]
         IN  best[Len(ready)]

\* Vec::remove.
Without(q, i) == SubSeq(q, 1, i - 1) \o SubSeq(q, i + 1, Len(q))
-----------------------------------------------------------------------------
(* The program that owns the executor.                                      *)

\* spawn and spawn_with, outside a run.
Spawn(priority, cost, delay) ==
    /\ pc = "out" /\ spawned < N
    /\ LET t == spawned + 1
           new == NewTask(priority, cost, clock + delay)
       IN  /\ spawned' = t
           /\ IF delay = 0
              THEN /\ tasks' = [tasks EXCEPT ![t] = [new EXCEPT !.state = "Ready"]]
                   /\ ready' = Append(ready, t)
                   /\ UNCHANGED pending
              ELSE /\ tasks' = [tasks EXCEPT ![t] = new]
                   /\ pending' = pending \cup {t}
                   /\ UNCHANGED ready
    /\ UNCHANGED <<signal, await, wheel, clock, core, pc, mode, current, polled,
                   result, event, firing, hist>>

\* run() and run_until_idle().
Call(m) ==
    /\ pc = "out" /\ hist.runs < MaxRuns
    /\ pc' = "turn"
    /\ mode' = m
    /\ result' = "none"
    /\ hist' = [hist EXCEPT !.runs = @ + 1]
    /\ UNCHANGED <<tasks, spawned, ready, pending, signal, await, wheel, clock, core,
                   current, polled, event, firing>>

Return(r) ==
    /\ pc' = "out"
    /\ result' = r
    /\ UNCHANGED <<tasks, spawned, ready, pending, signal, await, core, mode, current,
                   polled, event, firing>>

\* The loop of run: every task has terminated.
Finished ==
    /\ pc = "turn" /\ mode = "run" /\ \A t \in Ids : Terminated(t)
    /\ Return("ok")
    /\ UNCHANGED <<wheel, clock, hist>>

\* The ways to line up a set of tasks.
Orderings(S) == {f \in [1..Cardinality(S) -> S] : \A t \in S : \E i \in DOMAIN f : f[i] = t}

\* Mutants: a signal queues the task whatever its state; parked tasks are skipped.
WokenInAnyState == {t \in Ids : signal[t]}
WokenUnlessParked == {t \in Ids : signal[t] /\ tasks[t].state = "Running"}

\* The tasks harvest admits, and the tasks whose fired signal makes them ready.
Arrived == {t \in pending : tasks[t].arrival <= clock}
WokenUp == {t \in Ids : signal[t] /\ tasks[t].state \in {"Running", "Blocked"}}

\* harvest(), the first half of tick: admit arrived tasks (swap_remove scrambles
\* their order), take every signal, queue the parked tasks that were woken in
\* identifier order.
Harvest ==
    /\ pc = "turn"
    /\ mode = "run" => \E t \in Ids : ~Terminated(t)
    /\ \E admitted \in Orderings(Arrived), woken \in Orderings(WokenUp) :
         /\ \A i, j \in DOMAIN woken : i < j => woken[i] < woken[j]
         /\ ready' = ready \o admitted \o woken
    /\ tasks' = [t \in Tasks |-> IF t \in Arrived \cup WokenUp
                                 THEN [tasks[t] EXCEPT !.state = "Ready"] ELSE tasks[t]]
    /\ pending' = pending \ Arrived
    /\ signal' = [t \in Tasks |-> FALSE]
    /\ pc' = IF ready' = <<>> THEN "idle" ELSE "dispatch"
    /\ UNCHANGED <<spawned, await, wheel, clock, core, mode, current, polled, result,
                   event, firing, hist>>

\* The second half of tick and run_task up to the poll: take the chosen task off
\* the queue, charge a context switch if another task ran last, forget the wake
\* that made it ready.
Dispatch ==
    /\ pc = "dispatch"
    /\ LET t == ready[Pick]
           switch == core.lastRan # t
           cycle == IF switch THEN clock + SwitchCost ELSE clock
       IN  /\ ready' = Without(ready, Pick)
           /\ tasks' = [tasks EXCEPT ![t].state = "Running"]
           /\ core' = IF switch
                      THEN [core EXCEPT !.lastRan = t, !.switches = @ + 1,
                                        !.overhead = @ + SwitchCost]
                      ELSE core
           /\ IF switch
              THEN /\ AdvanceTo(cycle)
                   /\ signal' = [u \in Tasks |-> IF u = t THEN FALSE
                                   ELSE signal[u] \/ u \in WokenBy(cycle)]
              ELSE /\ signal' = [signal EXCEPT ![t] = FALSE]
                   /\ UNCHANGED <<clock, wheel>>
           /\ current' = t
    /\ pc' = "poll"
    /\ UNCHANGED <<spawned, pending, await, mode, polled, result, event, firing, hist>>
-----------------------------------------------------------------------------
(* The future of the current task.                                          *)

\* Whether the future can go past the point it is suspended on.
Timely(t) == await[t].kind \in {"sleep", "either"} /\ clock >= await[t].deadline
Fired(t) == await[t].kind \in {"event", "either"} /\ event[t]
Resumes(t) == await[t].kind = "none" \/ Timely(t) \/ Fired(t)

Answer(a) == polled' = a /\ pc' = "polled"
Unmoved == UNCHANGED <<tasks, spawned, ready, pending, clock, core, mode, current,
                       result, firing, hist>>

\* A spurious wake: Sleep::poll and the event future answer Pending; the timer
\* entry was registered by the first poll.
PollStill ==
    /\ pc = "poll" /\ ~Resumes(current)
    /\ Answer("pending")
    /\ Unmoved /\ UNCHANGED <<signal, await, wheel, event>>

\* Going past the suspension consumes the event and drops the Sleep, if any.
Resume(t) ==
    /\ pc = "poll" /\ Resumes(t)
    /\ event' = [event EXCEPT ![t] = IF Fired(t) THEN FALSE ELSE @]

PollReady ==
    /\ Resume(current)
    /\ Answer("ready")
    /\ await' = [await EXCEPT ![current] = NotAwaiting]
    /\ wheel' = Cancelled(current)
    /\ Unmoved /\ UNCHANGED signal

\* YieldNow and Burn: wake the own task, answer Pending.
PollYield ==
    /\ Resume(current)
    /\ tasks[current].polls + 1 < MaxPolls
    /\ Answer("pending")
    /\ await' = [await EXCEPT ![current] = NotAwaiting]
    /\ wheel' = Cancelled(current)
    /\ signal' = [signal EXCEPT ![current] = TRUE]
    /\ Unmoved

\* Timer::sleep(d).await, and the same raced against an event.  A future that
\* waits for an event looks at it before it answers Pending.
PollSleep(kind, d) ==
    /\ Resume(current)
    /\ tasks[current].polls + 1 < MaxPolls
    /\ kind = "either" => ~event'[current]
    /\ Answer("pending")
    /\ await' = [await EXCEPT ![current] = [kind |-> kind, deadline |-> clock + d]]
    /\ wheel' = Cancelled(current)
                  \cup {[task |-> current, deadline |-> clock + d, cancelled |-> FALSE]}
    /\ Unmoved /\ UNCHANGED signal

\* Waiting for a foreign source that holds this task's waker.
PollWait ==
    /\ Resume(current)
    /\ tasks[current].polls + 1 < MaxPolls
    /\ ~event'[current]
    /\ Answer("pending")
    /\ await' = [await EXCEPT ![current] = [kind |-> "event", deadline |-> 0]]
    /\ wheel' = Cancelled(current)
    /\ Unmoved /\ UNCHANGED signal
-----------------------------------------------------------------------------
\* Mutant: the switch is charged to the task.
ChargeWithSwitch(task) ==
    [task EXCEPT !.polls = @ + 1, !.cpu = @ + PollCost + SwitchCost,
                 !.remaining = IF @ < PollCost THEN 0 ELSE @ - PollCost]

\* Task::advance: one more poll, its cycles, and the estimate run down to zero.
Charge(task) ==
    [task EXCEPT !.polls = @ + 1, !.cpu = @ + PollCost,
                 !.remaining = IF @ < PollCost THEN 0 ELSE @ - PollCost]

\* Mutant: the signal set while the task was being polled is forgotten.
StaysReadyOnDeadline(t, cycle) == t \in WokenBy(cycle)

\* Whether the polled task was woken before the poll was over.
StaysReady(t, cycle) == signal[t] \/ t \in WokenBy(cycle)

\* Mutant: it goes back to the head of the queue.
RequeuedFirst(t) == <<t>> \o ready

\* ... in which case it goes to the tail of the ready queue.
Requeued(t) == Append(ready, t)

\* run_task after the poll: charge it, advance the clock, then terminate, requeue
\* or park the task.  The signal is taken after the clock moved, so a deadline or
\* a foreign wake that came in time keeps the task ready.
Settle ==
    /\ pc = "polled"
    /\ LET t == current
           cycle == clock + PollCost
           woken == StaysReady(t, cycle)
           charged == Charge(tasks[t])
       IN  /\ core' = [core EXCEPT !.polls = @ + 1, !.busy = @ + PollCost]
           /\ AdvanceTo(cycle)
           /\ IF polled = "ready"
              THEN /\ tasks' = [tasks EXCEPT ![t] =
                         [charged EXCEPT !.state = "Terminated", !.done = TRUE,
                                         !.completion = cycle]]
                   /\ signal' = [u \in Tasks |-> signal[u] \/ u \in WokenBy(cycle)]
                   /\ UNCHANGED ready
              ELSE /\ tasks' = [tasks EXCEPT ![t] =
                         [charged EXCEPT !.state = IF woken THEN "Ready" ELSE "Blocked"]]
                   /\ signal' = [u \in Tasks |-> IF u = t THEN FALSE
                                   ELSE signal[u] \/ u \in WokenBy(cycle)]
                   /\ ready' = IF woken THEN Requeued(t) ELSE ready
    /\ current' = NoTask
    /\ pc' = "turn"
    /\ UNCHANGED <<spawned, pending, await, mode, polled, result, event, firing, hist>>

\* run_until_idle: tick answered Idle.
ReturnIdle ==
    /\ pc = "idle" /\ mode = "until idle"
    /\ Return("idle")
    /\ UNCHANGED <<wheel, clock, hist>>

\* run: nothing is ready, jump to the next deadline or arrival ...
Jump ==
    /\ pc = "idle" /\ mode = "run"
    /\ LiveDeadlines \cup Arrivals # {}
    /\ LET next == Earliest(LiveDeadlines \cup Arrivals)
           cycle == IF next > clock THEN next ELSE clock
       IN  /\ AdvanceTo(cycle)
           /\ signal' = [u \in Tasks |-> signal[u] \/ u \in WokenBy(cycle)]
           /\ hist' = [hist EXCEPT !.jumped = @ + (cycle - clock)]
    /\ pc' = "turn"
    /\ UNCHANGED <<tasks, spawned, ready, pending, await, core, mode, current, polled,
                   result, event, firing>>

\* ... or give up: next_deadline has popped every cancelled entry.
Stall ==
    /\ pc = "idle" /\ mode = "run"
    /\ LiveDeadlines \cup Arrivals = {}
    /\ Return("stalled")
    /\ wheel' = {}
    /\ UNCHANGED <<clock, hist>>
-----------------------------------------------------------------------------
(* The foreign sources, on threads of their own.                            *)

\* The event becomes visible to the task's future.
Fire(t) ==
    /\ hist.fires < MaxFires
    /\ t \in Ids /\ t \notin firing
    /\ event' = [event EXCEPT ![t] = TRUE]
    /\ firing' = firing \cup {t}
    /\ hist' = [hist EXCEPT !.fires = @ + 1]
    /\ UNCHANGED <<threadVars, signal>>

\* Waker::wake (or Executor::wake): TaskSignal::wake stores true.
WakeTask(t) ==
    /\ t \in firing
    /\ signal' = [signal EXCEPT ![t] = TRUE]
    /\ firing' = firing \ {t}
    /\ UNCHANGED <<threadVars, event, hist>>
-----------------------------------------------------------------------------
PollFuture ==
    \/ PollStill \/ PollReady \/ PollYield \/ PollWait
    \/ \E kind \in {"sleep", "either"}, d \in Durations : PollSleep(kind, d)

\* One step of the executor thread inside a call.
Step == Finished \/ Harvest \/ Dispatch \/ PollFuture \/ Settle
        \/ ReturnIdle \/ Jump \/ Stall

Next ==
    \/ \E profile \in Profiles : Spawn(profile[1], profile[2], profile[3])
    \/ Call("run") \/ Call("until idle")
    \/ Step
    \/ \E t \in Tasks : Fire(t) \/ WakeTask(t)

\* The executor thread takes its steps, and a foreign source that showed its
\* event wakes the task.  That the program calls run again is not assumed.
Fairness == WF_vars(Step) /\ \A t \in Tasks : WF_vars(WakeTask(t))

Spec == Init /\ [][Next]_vars /\ Fairness
-----------------------------------------------------------------------------
(* Properties.                                                              *)

TaskStates == {"New", "Ready", "Running", "Blocked", "Terminated"}
TaskRecord ==
    [state : TaskStates, priority : Nat, remaining : Nat, polls : Nat, cpu : Nat,
     arrival : Nat, done : BOOLEAN, completion : Nat]

\* Every variable holds what the code's types allow.
TypeOK ==
    /\ tasks \in [Tasks -> TaskRecord]
    /\ spawned \in 0..N
    /\ ready \in Seq(Tasks)
    /\ pending \subseteq Tasks
    /\ signal \in [Tasks -> BOOLEAN]
    /\ await \in [Tasks -> [kind : {"none", "sleep", "event", "either"}, deadline : Nat]]
    /\ wheel \subseteq [task : Tasks, deadline : Nat, cancelled : BOOLEAN]
    /\ clock \in Nat
    /\ core \in [policy : Policies, lastRan : Tasks \cup {NoTask}, switches : Nat, overhead : Nat,
                 busy : Nat, polls : Nat]
    /\ pc \in {"out", "turn", "dispatch", "poll", "polled", "idle"}
    /\ mode \in {"run", "until idle"}
    /\ current \in Tasks \cup {NoTask}
    /\ polled \in {"pending", "ready"}
    /\ result \in {"none", "ok", "idle", "stalled"}
    /\ event \in [Tasks -> BOOLEAN]
    /\ firing \subseteq Tasks
    /\ hist \in [jumped : Nat, fires : Nat, runs : Nat]

\* The ready queue and the task states never disagree: a task is queued exactly
\* when its state is Ready and never twice, it is pending exactly when it has not
\* arrived, and only the task being polled is Running.
QueuesAgree ==
    /\ ReadySet = {t \in Ids : tasks[t].state = "Ready"}
    /\ \A i, j \in DOMAIN ready : ready[i] = ready[j] => i = j
    /\ pending = {t \in Ids : tasks[t].state = "New"}
    /\ \A t \in Ids : tasks[t].state = "Running" <=> (pc \in {"poll", "polled"} /\ t = current)

\* TaskSignal races with run_task, which takes it before the poll and again after
\* it: a parked task whose event is visible was woken, or is about to be.
NoWakeLost ==
    \A t \in Ids : tasks[t].state = "Blocked" /\ Fired(t) => signal[t] \/ t \in firing

\* A parked sleeper is never forgotten: its deadline is in the wheel, not
\* cancelled, until the clock reaches it, and from then on its signal is set.
SleeperIsCovered ==
    \A t \in Ids :
        tasks[t].state = "Blocked" /\ await[t].kind \in {"sleep", "either"} =>
            \/ signal[t]
            \/ /\ clock < await[t].deadline
               /\ [task |-> t, deadline |-> await[t].deadline, cancelled |-> FALSE] \in wheel

\* The clock is exactly what was charged for polls and switches plus what was
\* jumped over while idle, so Stats::idle_cycles never saturates; each finished
\* task's turnaround covers the cycles it was polled for.
CyclesAddUp ==
    /\ clock = core.busy + core.overhead + hist.jumped
    /\ \A t \in Ids : tasks[t].done =>
         tasks[t].completion >= tasks[t].arrival + tasks[t].cpu

\* pick: the task that is dispatched beats every other task in the queue.
PickIsBest ==
    [][pc = "dispatch" /\ pc' = "poll" =>
         \A t \in ReadySet : t = current' \/ (IF core.policy = "round-robin"
                                            THEN current' = Head(ready)
                                            ELSE Better(current', t))]_vars

\* A task woken while the executor is in a call is polled again, if futures end (no later
\* than MaxPolls): under the priority and shortest-job-first policies an urgent task that
\* yields for ever is picked for ever, and nothing in the code keeps it from that.  What
\* round robin promises without the assumption is NobodyPassesTwice.
WokenIsPolled ==
    \A t \in Tasks :
        (pc \notin {"out", "idle"} /\ t \in Ids /\ tasks[t].state \in {"Ready", "Blocked"}
           /\ (signal[t] \/ tasks[t].state = "Ready"))
            ~> (tasks[t].state \in {"Running", "Terminated"})
=============================================================================
