-------------------------- MODULE ExecutorHistory --------------------------
(***************************************************************************)
(* The executor with a history of its ready queue: for each task that is   *)
(* waiting in it, the tasks that were dispatched in the meantime.          *)
(***************************************************************************)
EXTENDS Executor

VARIABLE passed

\* What a step adds to it; a task that is not waiting starts anew.
Passing ==
    passed' = [t \in Tasks |->
        IF tasks'[t].state # "Ready" THEN {}
        ELSE IF pc = "dispatch" /\ pc' = "poll" THEN passed[t] \cup {current'}
        ELSE passed[t]]

HistoryInit == Init /\ passed = [t \in Tasks |-> {}]

historyVars == <<vars, passed>>

HistorySpec == HistoryInit /\ [][Next /\ Passing]_historyVars /\ Fairness

\* Round robin starves nobody, even next to tasks that yield for ever: while a task waits
\* in the ready queue no other task is dispatched twice.  Yields, foreign wakes, deadlines
\* and arrivals may all add to the queue between the two.
NobodyPassesTwice ==
    [][core.policy = "round-robin" /\ pc = "dispatch" /\ pc' = "poll" =>
         \A t \in ReadySet \ {current'} : current' \notin passed[t]]_historyVars
=============================================================================
