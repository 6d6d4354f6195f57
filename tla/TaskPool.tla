------------------------------- MODULE TaskPool -------------------------------
(***************************************************************************)
(* What the scheduler promises its callers (component/scheduler.hpp): a    *)
(* task given to schedule, loop or once is called on its pipeline, not     *)
(* before its delay has passed and never while another task of that        *)
(* pipeline is being called; once tasks are called one time, loops again   *)
(* and again.                                                              *)
(***************************************************************************)
EXTENDS Naturals

CONSTANTS
    Task,        \* identities of scheduled tasks
    Pipeline,
    Intervals,   \* the delays callers pass
    Unscheduled  \* what a task is before it is scheduled

VARIABLES
    task,   \* [Task -> [pipeline, ends, interval] or Unscheduled]
    state   \* [Task -> State]

State == {"free", "waiting", "ready", "running", "done"}

Init ==
    /\ task = [t \in Task |-> Unscheduled]
    /\ state = [t \in Task |-> "free"]

(* A delay of zero is over at once.                                        *)
Rested(t) == IF task[t].interval = 0 THEN {"ready"} ELSE {"waiting", "ready"}

Schedule(t, r) ==
    /\ state[t] = "free"
    /\ task' = [task EXCEPT ![t] = r]
    /\ state' = [state EXCEPT ![t] = IF r.interval = 0 THEN "ready" ELSE "waiting"]

(* Time passes: the delays of some tasks are over.                         *)
Elapse(due) ==
    /\ \A t \in due : state[t] = "waiting"
    /\ state' = [t \in Task |-> IF t \in due THEN "ready" ELSE state[t]]
    /\ UNCHANGED task

Start(t) ==
    /\ state[t] = "ready"
    /\ \A u \in Task : state[u] = "running" => task[u].pipeline # task[t].pipeline
    /\ state' = [state EXCEPT ![t] = "running"]
    /\ UNCHANGED task

Finish(t) ==
    /\ state[t] = "running"
    /\ \E s \in IF task[t].ends THEN {"done"} ELSE Rested(t) :
           state' = [state EXCEPT ![t] = s]
    /\ UNCHANGED task

Next ==
    \/ \E t \in Task, p \in Pipeline, ends \in BOOLEAN, n \in Intervals :
           Schedule(t, [pipeline |-> p, ends |-> ends, interval |-> n])
    \/ \E due \in SUBSET Task : Elapse(due)
    \/ \E t \in Task : Start(t) \/ Finish(t)

Spec == Init /\ [][Next]_<<task, state>>
=============================================================================
