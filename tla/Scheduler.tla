------------------------------ MODULE Scheduler ------------------------------
(***************************************************************************)
(* The task pipelines of component/scheduler.cpp.  Any thread adds tasks   *)
(* to a pipeline's list of new tasks; one thread executes the pipeline:    *)
(* the game's renderer, server and main frames for three of them, the      *)
(* "Async Scheduler" thread for async, and a single call of the game's     *)
(* start for the two dvar pipelines.  execute merges the new tasks, then   *)
(* walks the list and calls every task whose interval has passed.          *)
(*                                                                         *)
(* Time is abstracted to wait[t], the part of the interval that has not    *)
(* passed since last_call: diff < interval in the code is wait[t] > 0.     *)
(***************************************************************************)
EXTENDS Naturals, Sequences

CONSTANTS
    MaxTasks,     \* bound: tasks scheduled; they are numbered in the order of add
    Pipeline,
    async,        \* the pipeline with a thread of its own
    Frames,       \* pipelines a frame of the game executes again and again
    Intervals,    \* the delays callers pass, in ticks
    Calls,        \* bound: the calls of schedule that are considered, in order
    Unscheduled

ASSUME SchedulerAssumption ==
    /\ Unscheduled \notin [pipeline : Pipeline, ends : BOOLEAN, interval : Intervals]
    /\ MaxTasks \in Nat
    /\ async \in Pipeline
    /\ Frames \subseteq Pipeline \ {async}
    /\ Intervals \subseteq Nat

Task == 1 .. MaxTasks

VARIABLES
    task,           \* [Task -> [pipeline, ends, interval] or Unscheduled]
    wait,           \* [Task -> Nat]: interval minus (now - last_call), not below 0
    new_callbacks,  \* [Pipeline -> Seq(Task)]
    callbacks,      \* [Pipeline -> Seq(Task)]
    cursor,         \* [Pipeline -> Nat]: the iterator of execute; 0 outside execute
    running,        \* [Pipeline -> BOOLEAN]: the handler at the cursor has been called
    kill,
    async_thread,   \* "none", "check" (of kill), "execute", "exited"
    destroyer       \* pre_destroy: "none", "joining", "done"

vars == <<task, wait, new_callbacks, callbacks, cursor, running,
          kill, async_thread, destroyer>>

lists == <<new_callbacks, callbacks>>
threads == <<kill, async_thread, destroyer>>

Current(p) == callbacks[p][cursor[p]]

Init ==
    /\ task = [t \in Task |-> Unscheduled]
    /\ wait = [t \in Task |-> 0]
    /\ new_callbacks = [p \in Pipeline |-> <<>>]
    /\ callbacks = [p \in Pipeline |-> <<>>]
    /\ cursor = [p \in Pipeline |-> 0]
    /\ running = [p \in Pipeline |-> FALSE]
    /\ kill = FALSE
    /\ async_thread = "none"
    /\ destroyer = "none"

-----------------------------------------------------------------------------
Fresh(t) == task[t] = Unscheduled /\ \A u \in 1 .. t - 1 : task[u] # Unscheduled

(* schedule, once (ends) and loop (~ends), from any thread and from inside *)
(* any handler: last_call is set to now, and add appends to new_callbacks_. *)
schedule(t, p, ends, interval) ==
    /\ Fresh(t)
    /\ task' = [task EXCEPT ![t] = [pipeline |-> p, ends |-> ends, interval |-> interval]]
    /\ wait' = [wait EXCEPT ![t] = interval]
    /\ new_callbacks' = [new_callbacks EXCEPT ![p] = Append(@, t)]
    /\ UNCHANGED <<callbacks, cursor, running, threads>>

(* The thread of a pipeline enters execute when a frame ends, when the     *)
(* async loop has seen kill unset, or when the game loads its dvars.       *)
MayExecute(p) == p = async => async_thread = "execute"

(* Mutant: the merge replaces the list.                                    *)
execute_begin_Overwrite(p) ==
    /\ MayExecute(p)
    /\ cursor[p] = 0
    /\ callbacks' = [callbacks EXCEPT ![p] = new_callbacks[p]]
    /\ new_callbacks' = [new_callbacks EXCEPT ![p] = <<>>]
    /\ cursor' = [cursor EXCEPT ![p] = 1]
    /\ UNCHANGED <<task, wait, running, threads>>

execute_begin(p) ==
    /\ MayExecute(p)
    /\ cursor[p] = 0
    /\ callbacks' = [callbacks EXCEPT ![p] = @ \o new_callbacks[p]]
    /\ new_callbacks' = [new_callbacks EXCEPT ![p] = <<>>]
    /\ cursor' = [cursor EXCEPT ![p] = 1]
    /\ UNCHANGED <<task, wait, running, threads>>

AtTask(p) == cursor[p] \in 1 .. Len(callbacks[p]) /\ ~running[p]

execute_skip(p) ==
    /\ AtTask(p)
    /\ wait[Current(p)] > 0
    /\ cursor' = [cursor EXCEPT ![p] = @ + 1]
    /\ UNCHANGED <<task, wait, lists, running, threads>>

execute_call(p) ==
    /\ AtTask(p)
    /\ wait[Current(p)] = 0
    /\ wait' = [wait EXCEPT ![Current(p)] = task[Current(p)].interval]
    /\ running' = [running EXCEPT ![p] = TRUE]
    /\ UNCHANGED <<task, lists, cursor, threads>>

Erase(s, i) == [k \in 1 .. Len(s) - 1 |-> IF k < i THEN s[k] ELSE s[k + 1]]

(* Mutants: the iterator moves on after an erase; a loop is not passed by. *)
execute_return_SkipsNext(p) ==
    /\ running[p]
    /\ running' = [running EXCEPT ![p] = FALSE]
    /\ callbacks' = IF task[Current(p)].ends
                    THEN [callbacks EXCEPT ![p] = Erase(@, cursor[p])] ELSE callbacks
    /\ cursor' = [cursor EXCEPT ![p] = @ + 1]
    /\ UNCHANGED <<task, wait, new_callbacks, threads>>

execute_return_Stays(p) ==
    /\ running[p]
    /\ running' = [running EXCEPT ![p] = FALSE]
    /\ callbacks' = IF task[Current(p)].ends
                    THEN [callbacks EXCEPT ![p] = Erase(@, cursor[p])] ELSE callbacks
    /\ UNCHANGED <<task, wait, new_callbacks, cursor, threads>>

(* The handler returns cond_end or cond_continue.                          *)
execute_return(p) ==
    /\ running[p]
    /\ running' = [running EXCEPT ![p] = FALSE]
    /\ IF task[Current(p)].ends
       THEN /\ callbacks' = [callbacks EXCEPT ![p] = Erase(@, cursor[p])]
            /\ UNCHANGED cursor
       ELSE /\ cursor' = [cursor EXCEPT ![p] = @ + 1]
            /\ UNCHANGED callbacks
    /\ UNCHANGED <<task, wait, new_callbacks, threads>>

execute_end(p) ==
    /\ cursor[p] > Len(callbacks[p])
    /\ cursor' = [cursor EXCEPT ![p] = 0]
    /\ async_thread' = IF p = async THEN "check" ELSE async_thread
    /\ UNCHANGED <<task, wait, lists, running, kill, destroyer>>

-----------------------------------------------------------------------------
(* The component: post_load starts the async thread, pre_destroy ends it.  *)

post_load ==
    /\ async_thread = "none"
    /\ destroyer = "none"
    /\ async_thread' = "check"
    /\ UNCHANGED <<task, wait, lists, cursor, running, kill, destroyer>>

(* Mutant: the loop does not look at kill.                                 *)
async_check_Forever ==
    /\ async_thread = "check"
    /\ async_thread' = "execute"
    /\ UNCHANGED <<task, wait, lists, cursor, running, kill, destroyer>>

async_check ==
    /\ async_thread = "check"
    /\ async_thread' = IF kill THEN "exited" ELSE "execute"
    /\ UNCHANGED <<task, wait, lists, cursor, running, kill, destroyer>>

pre_destroy ==
    /\ destroyer = "none"
    /\ kill' = TRUE
    /\ destroyer' = "joining"
    /\ UNCHANGED <<task, wait, lists, cursor, running, async_thread>>

(* Mutant: the thread is not waited for.                                   *)
join_Detach ==
    /\ destroyer = "joining"
    /\ destroyer' = "done"
    /\ UNCHANGED <<task, wait, lists, cursor, running, kill, async_thread>>

join ==
    /\ destroyer = "joining"
    /\ async_thread \in {"none", "exited"}
    /\ destroyer' = "done"
    /\ UNCHANGED <<task, wait, lists, cursor, running, kill, async_thread>>

Tick ==
    /\ \E t \in Task : wait[t] > 0
    /\ wait' = [t \in Task |-> IF wait[t] > 0 THEN wait[t] - 1 ELSE 0]
    /\ UNCHANGED <<task, lists, cursor, running, threads>>

execute(p) ==
    execute_begin(p) \/ execute_skip(p) \/ execute_call(p) \/ execute_return(p) \/ execute_end(p)

Next ==
    \/ \E t \in Task, p \in Pipeline, ends \in BOOLEAN, n \in Intervals :
        <<t, p, ends, n>> \in Calls /\ schedule(t, p, ends, n)
    \/ \E p \in Pipeline : execute(p)
    \/ post_load \/ async_check \/ pre_destroy \/ join
    \/ Tick

Spec == Init /\ [][Next]_vars

(* Frames go on, handlers return, the async thread is scheduled and time   *)
(* passes.  Nothing obliges anyone to start the component or to end it.    *)
Fairness ==
    /\ \A p \in Frames \cup {async} : WF_vars(execute(p))
    /\ WF_vars(async_check)
    /\ WF_vars(join)
    /\ WF_vars(Tick)

FairSpec == Spec /\ Fairness

-----------------------------------------------------------------------------
(* Properties. *)

TaskRecord == [pipeline : Pipeline, ends : BOOLEAN, interval : Intervals]

Elements(s) == {s[i] : i \in 1 .. Len(s)}

(* The variables have the shape of the code's, the iterator of a pass is   *)
(* valid (at a task while its handler runs, at most one past the end), and *)
(* no wait exceeds the interval it counts.                                 *)
TypeOK ==
    /\ task \in [Task -> TaskRecord \cup {Unscheduled}]
    /\ wait \in [Task -> Nat]
    /\ \A t \in Task : task[t] # Unscheduled => wait[t] <= task[t].interval
    /\ new_callbacks \in [Pipeline -> Seq(Task)]
    /\ callbacks \in [Pipeline -> Seq(Task)]
    /\ cursor \in [Pipeline -> Nat]
    /\ running \in [Pipeline -> BOOLEAN]
    /\ \A p \in Pipeline : /\ cursor[p] <= Len(callbacks[p]) + 1
                           /\ running[p] => cursor[p] \in 1 .. Len(callbacks[p])
    /\ kill \in BOOLEAN
    /\ async_thread \in {"none", "check", "execute", "exited"}
    /\ destroyer \in {"none", "joining", "done"}

(* What has become of a task, in the terms of TaskPool.                    *)
TaskState(t) ==
    IF task[t] = Unscheduled THEN "free"
    ELSE LET p == task[t].pipeline
         IN  IF running[p] /\ Current(p) = t THEN "running"
             ELSE IF t \notin Elements(callbacks[p]) \cup Elements(new_callbacks[p]) THEN "done"
             ELSE IF wait[t] = 0 THEN "ready" ELSE "waiting"

(* The pipelines keep the promise: no scheduled task is lost by a merge or *)
(* an erase, none is called early or while another of its pipeline is, and *)
(* a once task is called one time.                                         *)
Pool == INSTANCE TaskPool WITH state <- [t \in Task |-> TaskState(t)]
ImplementsTaskPool == Pool!Spec

(* Tasks scheduled with once and no delay are called in the order they     *)
(* were added, also when the pass that calls one erases others: a packet   *)
(* handler relies on it when it hands its work to the main pipeline.       *)
(* (With a delay the order is not kept: now is read anew for every task.)  *)
OnceInOrder ==
    \A t, u \in Task :
        /\ t < u
        /\ task[t] # Unscheduled /\ task[u] # Unscheduled
        /\ task[t].pipeline = task[u].pipeline
        /\ task[t].ends /\ task[t].interval = 0
        /\ task[u].ends /\ task[u].interval = 0
        /\ TaskState(u) # "ready"
        => TaskState(t) = "done"

(* A task of a frame pipeline is called, a loop again and again; a task of *)
(* async is called unless the component was never started or is destroyed. *)
Pending(t) == TaskState(t) \in {"waiting", "ready"}
EventuallyCalled ==
    \A t \in Task :
        /\ Pending(t) /\ task[t].pipeline \in Frames ~> TaskState(t) = "running"
        /\ Pending(t) /\ task[t].pipeline = async /\ async_thread # "none"
               ~> TaskState(t) = "running" \/ kill

(* pre_destroy returns, whatever pass or handler the async thread is in, ... *)
DestroyEnds == destroyer = "joining" ~> destroyer = "done"

(* ... and once it has, no async handler is running or will be started.    *)
QuietAfterDestroy ==
    destroyer = "done" => /\ cursor[async] = 0
                          /\ ~running[async]
                          /\ async_thread \in {"none", "exited"}

-----------------------------------------------------------------------------
(* Inductive strengthening: a listed task was scheduled on that pipeline   *)
(* and is listed once.                                                     *)
NoDuplicates(s) == \A i, j \in 1 .. Len(s) : s[i] = s[j] => i = j

ListedOnce ==
    \A p \in Pipeline :
        /\ \A t \in Elements(callbacks[p]) \cup Elements(new_callbacks[p]) :
              task[t] # Unscheduled /\ task[t].pipeline = p
        /\ NoDuplicates(callbacks[p])
        /\ NoDuplicates(new_callbacks[p])
        /\ Elements(callbacks[p]) \cap Elements(new_callbacks[p]) = {}

IInv == TypeOK /\ ListedOnce
=============================================================================
