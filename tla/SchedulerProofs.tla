--------------------------- MODULE SchedulerProofs ---------------------------
(* Proofs about Scheduler: its types, that a task is listed at most once,  *)
(* that the pipelines implement TaskPool, that the async thread is gone    *)
(* after pre_destroy, and the order of tasks without a delay.              *)
EXTENDS Scheduler, SequenceTheorems, TLAPS

(***************************************************************************)
(* Lemmas about the lists.                                                 *)
(***************************************************************************)

LEMMA ElementsAppend ==
    ASSUME NEW S, NEW s \in Seq(S), NEW t \in S
    PROVE  /\ Append(s, t) \in Seq(S)
           /\ Elements(Append(s, t)) = Elements(s) \cup {t}
           /\ NoDuplicates(s) /\ t \notin Elements(s) => NoDuplicates(Append(s, t))
<1>1. Len(Append(s, t)) = Len(s) + 1 /\ Len(s) \in Nat /\ Append(s, t) \in Seq(S)
  OBVIOUS
<1>2. \A i \in 1 .. Len(s) + 1 : Append(s, t)[i] = IF i = Len(s) + 1 THEN t ELSE s[i]
  OBVIOUS
<1>3. Elements(Append(s, t)) = Elements(s) \cup {t}
  BY <1>1, <1>2 DEF Elements
<1>4. NoDuplicates(s) /\ t \notin Elements(s) => NoDuplicates(Append(s, t))
  BY <1>1, <1>2 DEF Elements, NoDuplicates
<1>5. QED
  BY <1>1, <1>3, <1>4

LEMMA ElementsConcat ==
    ASSUME NEW S, NEW s \in Seq(S), NEW r \in Seq(S)
    PROVE  /\ s \o r \in Seq(S)
           /\ Len(s \o r) = Len(s) + Len(r)
           /\ Elements(s \o r) = Elements(s) \cup Elements(r)
           /\ NoDuplicates(s) /\ NoDuplicates(r) /\ Elements(s) \cap Elements(r) = {}
                => NoDuplicates(s \o r)
<1>1. Len(s \o r) = Len(s) + Len(r) /\ Len(s) \in Nat /\ Len(r) \in Nat /\ s \o r \in Seq(S)
  OBVIOUS
<1>2. \A i \in 1 .. Len(s) + Len(r) : (s \o r)[i] = IF i <= Len(s) THEN s[i] ELSE r[i - Len(s)]
  OBVIOUS
<1>3. Elements(s \o r) = Elements(s) \cup Elements(r)
  <2>1. Elements(s \o r) \subseteq Elements(s) \cup Elements(r)
    BY <1>1, <1>2 DEF Elements
  <2>2. ASSUME NEW i \in 1 .. Len(s) PROVE s[i] \in Elements(s \o r)
    BY <1>1, <1>2 DEF Elements
  <2>3. ASSUME NEW i \in 1 .. Len(r) PROVE r[i] \in Elements(s \o r)
    <3>1. (s \o r)[i + Len(s)] = r[i] /\ i + Len(s) \in 1 .. Len(s \o r)
      BY <1>1, <1>2
    <3>2. QED
      BY <3>1 DEF Elements
  <2>4. QED
    BY <2>1, <2>2, <2>3 DEF Elements
<1>4. NoDuplicates(s) /\ NoDuplicates(r) /\ Elements(s) \cap Elements(r) = {}
         => NoDuplicates(s \o r)
  <2> SUFFICES ASSUME NoDuplicates(s), NoDuplicates(r), Elements(s) \cap Elements(r) = {},
                      NEW i \in 1 .. Len(s) + Len(r), NEW j \in 1 .. Len(s) + Len(r),
                      (s \o r)[i] = (s \o r)[j]
               PROVE  i = j
    BY <1>1 DEF NoDuplicates
  <2>1. \A k \in 1 .. Len(s) : s[k] \notin Elements(r)
    BY DEF Elements
  <2>2. \A k \in 1 .. Len(s) + Len(r) : k > Len(s) => r[k - Len(s)] \in Elements(r)
    BY <1>1 DEF Elements
  <2>3. CASE i <= Len(s) /\ j <= Len(s)
    BY <1>1, <1>2, <2>3 DEF NoDuplicates
  <2>4. CASE i > Len(s) /\ j > Len(s)
    BY <1>1, <1>2, <2>4 DEF NoDuplicates
  <2>5. CASE i <= Len(s) /\ j > Len(s)
    BY <1>1, <1>2, <2>1, <2>2, <2>5
  <2>6. CASE i > Len(s) /\ j <= Len(s)
    BY <1>1, <1>2, <2>1, <2>2, <2>6
  <2>7. QED
    BY <1>1, <2>3, <2>4, <2>5, <2>6
<1>5. QED
  BY <1>1, <1>3, <1>4

LEMMA ElementsErase ==
    ASSUME NEW S, NEW s \in Seq(S), NEW n \in 1 .. Len(s), NoDuplicates(s)
    PROVE  /\ Erase(s, n) \in Seq(S)
           /\ Len(Erase(s, n)) = Len(s) - 1
           /\ Elements(Erase(s, n)) = Elements(s) \ {s[n]}
           /\ NoDuplicates(Erase(s, n))
<1>1. Len(s) \in Nat /\ Len(s) - 1 \in Nat
  OBVIOUS
<1>2. \A i \in 1 .. Len(s) - 1 : /\ Erase(s, n)[i] = IF i < n THEN s[i] ELSE s[i + 1]
                                 /\ Erase(s, n)[i] \in S
  BY <1>1 DEF Erase
<1>3. Erase(s, n) \in Seq(S) /\ Len(Erase(s, n)) = Len(s) - 1
  BY <1>1, <1>2, IsASeq DEF Erase
<1>4. Elements(Erase(s, n)) = Elements(s) \ {s[n]}
  <2>1. ASSUME NEW i \in 1 .. Len(s) - 1
        PROVE  Erase(s, n)[i] \in Elements(s) \ {s[n]}
    <3>1. PICK k \in 1 .. Len(s) : k # n /\ Erase(s, n)[i] = s[k]
      <4>1. CASE i < n
        BY <1>1, <1>2, <4>1
      <4>2. CASE ~(i < n)
        BY <1>1, <1>2, <4>2
      <4>3. QED
        BY <4>1, <4>2
    <3>2. QED
      BY <3>1 DEF Elements, NoDuplicates
  <2>2. ASSUME NEW i \in 1 .. Len(s), i # n
        PROVE  s[i] \in Elements(Erase(s, n))
    <3>1. CASE i < n
      BY <1>1, <1>2, <1>3, <3>1 DEF Elements
    <3>2. CASE i > n
      <4>1. i - 1 \in 1 .. Len(s) - 1 /\ Erase(s, n)[i - 1] = s[i]
        BY <1>1, <1>2, <3>2
      <4>2. QED
        BY <1>1, <1>3, <4>1 DEF Elements
    <3>3. QED
      BY <2>2, <3>1, <3>2
  <2>3. QED
    BY <1>1, <1>3, <2>1, <2>2 DEF Elements
<1>5. NoDuplicates(Erase(s, n))
  BY <1>1, <1>2, <1>3 DEF NoDuplicates
<1>6. QED
  BY <1>3, <1>4, <1>5

-----------------------------------------------------------------------------
(***************************************************************************)
(* The invariant.                                                          *)
(***************************************************************************)

LEMMA InitIInv == Init => IInv
<1> SUFFICES ASSUME Init PROVE IInv
  OBVIOUS
<1>1. \A p \in Pipeline : callbacks[p] = <<>> /\ new_callbacks[p] = <<>>
  BY DEF Init
<1>2. Elements(<<>>) = {} /\ NoDuplicates(<<>>)
  BY DEF Elements, NoDuplicates
<1>3. ListedOnce
  BY <1>1, <1>2 DEF ListedOnce
<1>4. task \in [Task -> TaskRecord \cup {Unscheduled}] /\ wait \in [Task -> Nat]
  BY DEF Init
<1>5. new_callbacks \in [Pipeline -> Seq(Task)] /\ callbacks \in [Pipeline -> Seq(Task)]
  BY DEF Init
<1>6. \A p \in Pipeline : cursor[p] <= Len(callbacks[p]) + 1 /\ ~running[p]
  BY <1>1 DEF Init
<1>7. TypeOK
  BY <1>4, <1>5, <1>6 DEF Init, TypeOK
<1>8. QED
  BY <1>3, <1>7 DEF IInv

(* While a handler runs, or the iterator is at a task, that task is listed *)
(* in its pipeline.                                                        *)
LEMMA CurrentListed ==
    ASSUME IInv, NEW p \in Pipeline, cursor[p] \in 1 .. Len(callbacks[p])
    PROVE  /\ Current(p) \in Elements(callbacks[p])
           /\ Current(p) \in Task
           /\ task[Current(p)] \in TaskRecord
           /\ task[Current(p)].pipeline = p
           /\ wait[Current(p)] \in Nat
<1>1. callbacks[p] \in Seq(Task)
  BY DEF IInv, TypeOK
<1>2. Current(p) \in Elements(callbacks[p]) /\ Current(p) \in Task
  BY <1>1 DEF Current, Elements
<1>3. task[Current(p)] # Unscheduled /\ task[Current(p)].pipeline = p
  BY <1>2 DEF IInv, ListedOnce
<1>4. QED
  BY <1>2, <1>3 DEF IInv, TypeOK

LEMMA ScheduleIInv ==
    ASSUME IInv, NEW t \in Task, NEW p \in Pipeline, NEW ends \in BOOLEAN, NEW n \in Intervals,
           schedule(t, p, ends, n)
    PROVE  IInv'
<1> DEFINE r == [pipeline |-> p, ends |-> ends, interval |-> n]
<1>1. r \in TaskRecord /\ r # Unscheduled /\ n \in Nat
  BY SchedulerAssumption DEF TaskRecord
<1>2. /\ task' = [task EXCEPT ![t] = r] /\ wait' = [wait EXCEPT ![t] = n]
      /\ new_callbacks' = [new_callbacks EXCEPT ![p] = Append(new_callbacks[p], t)]
      /\ callbacks' = callbacks /\ task[t] = Unscheduled
  BY DEF schedule, Fresh
<1>3. new_callbacks[p] \in Seq(Task)
  BY DEF IInv, TypeOK
<1>4. \A q \in Pipeline : t \notin Elements(callbacks[q]) \cup Elements(new_callbacks[q])
  BY <1>2 DEF IInv, ListedOnce
<1>5. /\ Append(new_callbacks[p], t) \in Seq(Task)
      /\ Elements(Append(new_callbacks[p], t)) = Elements(new_callbacks[p]) \cup {t}
      /\ NoDuplicates(Append(new_callbacks[p], t))
  BY <1>3, <1>4, ElementsAppend DEF IInv, ListedOnce
<1>6. TypeOK'
  <2>1. /\ task' \in [Task -> TaskRecord \cup {Unscheduled}]
        /\ wait' \in [Task -> Nat]
        /\ \A u \in Task : task'[u] # Unscheduled => wait'[u] <= task'[u].interval
    BY <1>1, <1>2 DEF IInv, TypeOK
  <2>2. new_callbacks' \in [Pipeline -> Seq(Task)]
    BY <1>2, <1>5 DEF IInv, TypeOK
  <2>3. QED
    BY <1>2, <2>1, <2>2 DEF IInv, TypeOK, schedule, threads
<1>7. ListedOnce'
  <2> SUFFICES ASSUME NEW q \in Pipeline
               PROVE  /\ \A u \in Elements(callbacks'[q]) \cup Elements(new_callbacks'[q]) :
                            task'[u] # Unscheduled /\ task'[u].pipeline = q
                      /\ NoDuplicates(callbacks'[q])
                      /\ NoDuplicates(new_callbacks'[q])
                      /\ Elements(callbacks'[q]) \cap Elements(new_callbacks'[q]) = {}
    BY DEF ListedOnce
  <2>1. \A u : u # t => task'[u] = task[u]
    BY <1>2 DEF IInv, TypeOK
  <2>2. task'[t] = r
    BY <1>2 DEF IInv, TypeOK
  <2>3. CASE q = p
    <3>1. new_callbacks'[q] = Append(new_callbacks[p], t) /\ callbacks'[q] = callbacks[q]
      BY <1>2, <2>3 DEF IInv, TypeOK
    <3>2. QED
      BY <1>1, <1>4, <1>5, <2>1, <2>2, <2>3, <3>1 DEF IInv, ListedOnce
  <2>4. CASE q # p
    <3>1. new_callbacks'[q] = new_callbacks[q] /\ callbacks'[q] = callbacks[q]
      BY <1>2, <2>4 DEF IInv, TypeOK
    <3>2. QED
      BY <1>4, <2>1, <3>1 DEF IInv, ListedOnce
  <2>5. QED
    BY <2>3, <2>4
<1>8. QED
  BY <1>6, <1>7 DEF IInv

LEMMA BeginIInv ==
    ASSUME IInv, NEW p \in Pipeline, execute_begin(p)
    PROVE  IInv'
<1>1. /\ callbacks' = [callbacks EXCEPT ![p] = callbacks[p] \o new_callbacks[p]]
      /\ new_callbacks' = [new_callbacks EXCEPT ![p] = <<>>]
      /\ cursor' = [cursor EXCEPT ![p] = 1] /\ cursor[p] = 0 /\ task' = task
  BY DEF execute_begin
<1>2. callbacks[p] \in Seq(Task) /\ new_callbacks[p] \in Seq(Task)
  BY DEF IInv, TypeOK
<1>3. /\ callbacks[p] \o new_callbacks[p] \in Seq(Task)
      /\ Elements(callbacks[p] \o new_callbacks[p])
            = Elements(callbacks[p]) \cup Elements(new_callbacks[p])
      /\ NoDuplicates(callbacks[p] \o new_callbacks[p])
  <2>1. /\ NoDuplicates(callbacks[p]) /\ NoDuplicates(new_callbacks[p])
        /\ Elements(callbacks[p]) \cap Elements(new_callbacks[p]) = {}
    BY DEF IInv, ListedOnce
  <2>2. QED
    BY <1>2, <2>1, ElementsConcat
<1>4. Elements(<<>>) = {} /\ NoDuplicates(<<>>)
  BY DEF Elements, NoDuplicates
<1>5. TypeOK'
  <2>1. /\ callbacks' \in [Pipeline -> Seq(Task)]
        /\ new_callbacks' \in [Pipeline -> Seq(Task)]
        /\ cursor' \in [Pipeline -> Nat]
    BY <1>1, <1>3 DEF IInv, TypeOK
  <2>2. running' = running /\ ~running[p]
    BY <1>1 DEF execute_begin, IInv, TypeOK
  <2>3. \A q \in Pipeline : /\ cursor'[q] <= Len(callbacks'[q]) + 1
                            /\ running'[q] => cursor'[q] \in 1 .. Len(callbacks'[q])
    <3> SUFFICES ASSUME NEW q \in Pipeline
                 PROVE  /\ cursor'[q] <= Len(callbacks'[q]) + 1
                        /\ running'[q] => cursor'[q] \in 1 .. Len(callbacks'[q])
      OBVIOUS
    <3>1. CASE q = p
      <4>1. cursor'[q] = 1 /\ Len(callbacks'[q]) \in Nat /\ ~running'[q]
        BY <2>1, <2>2, <3>1, <1>1 DEF IInv, TypeOK
      <4>2. QED
        BY <4>1
    <3>2. CASE q # p
      BY <1>1, <2>2, <3>2 DEF IInv, TypeOK
    <3>3. QED
      BY <3>1, <3>2
  <2>4. QED
    BY <2>1, <2>2, <2>3 DEF execute_begin, IInv, TypeOK, threads
<1>6. ListedOnce'
  <2> SUFFICES ASSUME NEW q \in Pipeline
               PROVE  /\ \A u \in Elements(callbacks'[q]) \cup Elements(new_callbacks'[q]) :
                            task'[u] # Unscheduled /\ task'[u].pipeline = q
                      /\ NoDuplicates(callbacks'[q])
                      /\ NoDuplicates(new_callbacks'[q])
                      /\ Elements(callbacks'[q]) \cap Elements(new_callbacks'[q]) = {}
    BY DEF ListedOnce
  <2>1. CASE q = p
    <3>1. callbacks'[q] = callbacks[q] \o new_callbacks[q] /\ new_callbacks'[q] = <<>>
      BY <1>1, <2>1 DEF IInv, TypeOK
    <3>2. QED
      BY <1>1, <1>3, <1>4, <2>1, <3>1 DEF IInv, ListedOnce
  <2>2. CASE q # p
    <3>1. callbacks'[q] = callbacks[q] /\ new_callbacks'[q] = new_callbacks[q]
      BY <1>1, <2>2 DEF IInv, TypeOK
    <3>2. QED
      BY <1>1, <3>1 DEF IInv, ListedOnce
  <2>3. QED
    BY <2>1, <2>2
<1>7. QED
  BY <1>5, <1>6 DEF IInv

(* A step that moves iterators of idle pipelines, waits and threads only.  *)
LEMMA ListsUnchanged ==
    ASSUME ListedOnce, task' = task, callbacks' = callbacks, new_callbacks' = new_callbacks
    PROVE  ListedOnce'
BY DEF ListedOnce

LEMMA SkipIInv ==
    ASSUME IInv, NEW p \in Pipeline, execute_skip(p)
    PROVE  IInv'
<1>1. /\ cursor' = [cursor EXCEPT ![p] = cursor[p] + 1] /\ cursor[p] \in 1 .. Len(callbacks[p])
      /\ ~running[p]
  BY DEF execute_skip, AtTask
<1>2. \A q \in Pipeline : /\ cursor'[q] <= Len(callbacks[q]) + 1
                          /\ running[q] => cursor'[q] \in 1 .. Len(callbacks[q])
  BY <1>1 DEF IInv, TypeOK
<1>3. cursor' \in [Pipeline -> Nat]
  BY <1>1 DEF IInv, TypeOK
<1>4. TypeOK'
  BY <1>2, <1>3 DEF IInv, TypeOK, execute_skip, lists, threads
<1>5. QED
  BY <1>4, ListsUnchanged DEF IInv, execute_skip, lists

LEMMA CallIInv ==
    ASSUME IInv, NEW p \in Pipeline, execute_call(p)
    PROVE  IInv'
<1> DEFINE t == Current(p)
<1>1. /\ cursor[p] \in 1 .. Len(callbacks[p])
      /\ wait' = [wait EXCEPT ![t] = task[t].interval]
      /\ running' = [running EXCEPT ![p] = TRUE]
      /\ task' = task /\ callbacks' = callbacks /\ new_callbacks' = new_callbacks
      /\ cursor' = cursor
  BY DEF execute_call, AtTask, lists
<1>2. t \in Task /\ task[t] \in TaskRecord /\ task[t].interval \in Nat
  BY <1>1, CurrentListed, SchedulerAssumption DEF TaskRecord
<1> HIDE DEF t
<1>3. wait' \in [Task -> Nat] /\ \A u \in Task : task[u] # Unscheduled => wait'[u] <= task[u].interval
  BY <1>1, <1>2 DEF IInv, TypeOK
<1>4. running' \in [Pipeline -> BOOLEAN]
      /\ \A q \in Pipeline : running'[q] => cursor[q] \in 1 .. Len(callbacks[q])
  BY <1>1 DEF IInv, TypeOK
<1>5. TypeOK'
  BY <1>1, <1>3, <1>4 DEF IInv, TypeOK, execute_call, threads
<1>6. QED
  BY <1>1, <1>5, ListsUnchanged DEF IInv

LEMMA ReturnIInv ==
    ASSUME IInv, NEW p \in Pipeline, execute_return(p)
    PROVE  IInv'
<1>1. /\ running[p] /\ running' = [running EXCEPT ![p] = FALSE]
      /\ task' = task /\ new_callbacks' = new_callbacks /\ wait' = wait
      /\ kill' = kill /\ async_thread' = async_thread /\ destroyer' = destroyer
  BY DEF execute_return, threads
<1>2. cursor[p] \in 1 .. Len(callbacks[p]) /\ callbacks[p] \in Seq(Task) /\ Len(callbacks[p]) \in Nat
  BY <1>1 DEF IInv, TypeOK
<1>3. CASE ~task[Current(p)].ends
  <2>1. callbacks' = callbacks /\ cursor' = [cursor EXCEPT ![p] = cursor[p] + 1]
    BY <1>3 DEF execute_return
  <2>2. cursor' \in [Pipeline -> Nat] /\ running' \in [Pipeline -> BOOLEAN]
    BY <1>1, <2>1 DEF IInv, TypeOK
  <2>3. \A q \in Pipeline : /\ cursor'[q] <= Len(callbacks[q]) + 1
                            /\ running'[q] => cursor'[q] \in 1 .. Len(callbacks[q])
    BY <1>1, <1>2, <2>1 DEF IInv, TypeOK
  <2>4. TypeOK'
    BY <1>1, <2>1, <2>2, <2>3 DEF IInv, TypeOK
  <2>5. QED
    BY <1>1, <2>1, <2>4, ListsUnchanged DEF IInv
<1>4. CASE task[Current(p)].ends
  <2> DEFINE s == Erase(callbacks[p], cursor[p])
  <2>1. callbacks' = [callbacks EXCEPT ![p] = s] /\ cursor' = cursor
    BY <1>4 DEF execute_return
  <2>2. NoDuplicates(callbacks[p])
    BY DEF IInv, ListedOnce
  <2>3. /\ s \in Seq(Task) /\ Len(s) = Len(callbacks[p]) - 1
        /\ Elements(s) \subseteq Elements(callbacks[p]) /\ NoDuplicates(s)
    BY <1>2, <2>2, ElementsErase
  <2> HIDE DEF s
  <2>4. callbacks' \in [Pipeline -> Seq(Task)] /\ running' \in [Pipeline -> BOOLEAN]
    BY <1>1, <2>1, <2>3 DEF IInv, TypeOK
  <2>5. \A q \in Pipeline : /\ cursor[q] <= Len(callbacks'[q]) + 1
                            /\ running'[q] => cursor[q] \in 1 .. Len(callbacks'[q])
    BY <1>1, <1>2, <2>1, <2>3 DEF IInv, TypeOK
  <2>6. TypeOK'
    BY <1>1, <2>1, <2>4, <2>5 DEF IInv, TypeOK
  <2>7. ListedOnce'
    BY <1>1, <2>1, <2>3 DEF IInv, TypeOK, ListedOnce
  <2>8. QED
    BY <2>6, <2>7 DEF IInv
<1>5. QED
  BY <1>3, <1>4

LEMMA EndIInv ==
    ASSUME IInv, NEW p \in Pipeline, execute_end(p)
    PROVE  IInv'
<1>1. cursor[p] > Len(callbacks[p]) /\ cursor' = [cursor EXCEPT ![p] = 0] /\ running' = running
      /\ callbacks' = callbacks
  BY DEF execute_end, lists
<1>2. \A q \in Pipeline : /\ cursor'[q] <= Len(callbacks[q]) + 1
                          /\ running[q] => cursor'[q] \in 1 .. Len(callbacks[q])
  BY <1>1 DEF IInv, TypeOK
<1>3. cursor' \in [Pipeline -> Nat]
  BY <1>1 DEF IInv, TypeOK
<1>4. TypeOK'
  BY <1>1, <1>2, <1>3 DEF IInv, TypeOK, execute_end, lists
<1>5. QED
  BY <1>4, ListsUnchanged DEF IInv, execute_end, lists

LEMMA ThreadsIInv ==
    ASSUME IInv, post_load \/ async_check \/ pre_destroy \/ join
    PROVE  IInv'
<1>1. TypeOK'
  BY DEF IInv, TypeOK, post_load, async_check, pre_destroy, join, lists
<1>2. QED
  BY <1>1, ListsUnchanged DEF IInv, post_load, async_check, pre_destroy, join, lists

LEMMA TickIInv ==
    ASSUME IInv, Tick
    PROVE  IInv'
<1>1. wait' \in [Task -> Nat] /\ \A t \in Task : wait'[t] <= wait[t]
  BY DEF IInv, TypeOK, Tick
<1>2. \A t \in Task : task[t] # Unscheduled => wait'[t] <= task[t].interval
  <2> SUFFICES ASSUME NEW t \in Task, task[t] # Unscheduled
               PROVE  wait'[t] <= task[t].interval
    OBVIOUS
  <2>1. task[t].interval \in Nat
    BY SchedulerAssumption DEF IInv, TypeOK, TaskRecord
  <2>2. QED
    BY <1>1, <2>1 DEF IInv, TypeOK
<1>3. TypeOK'
  BY <1>1, <1>2 DEF IInv, TypeOK, Tick, lists, threads
<1>4. QED
  BY <1>3, ListsUnchanged DEF IInv, Tick, lists

LEMMA StepIInv == IInv /\ [Next]_vars => IInv'
<1> SUFFICES ASSUME IInv, [Next]_vars PROVE IInv'
  OBVIOUS
<1>1. CASE \E t \in Task, p \in Pipeline, ends \in BOOLEAN, n \in Intervals :
                <<t, p, ends, n>> \in Calls /\ schedule(t, p, ends, n)
  BY <1>1, ScheduleIInv
<1>2. CASE \E p \in Pipeline : execute(p)
  BY <1>2, BeginIInv, SkipIInv, CallIInv, ReturnIInv, EndIInv DEF execute
<1>3. CASE post_load \/ async_check \/ pre_destroy \/ join
  BY <1>3, ThreadsIInv
<1>4. CASE Tick
  BY <1>4, TickIInv
<1>5. CASE UNCHANGED vars
  BY <1>5, ListsUnchanged DEF vars, IInv, TypeOK
<1>6. QED
  BY <1>1, <1>2, <1>3, <1>4, <1>5 DEF Next

(* A task is listed at most once, in its own pipeline, and the iterator of *)
(* a pass stays valid.                                                     *)
THEOREM Inductive == Spec => []IInv
BY InitIInv, StepIInv, PTL DEF Spec

(* The type invariant, for any number of tasks, pipelines and delays.      *)
THEOREM TypeCorrect == Spec => []TypeOK
<1>1. IInv => TypeOK
  BY DEF IInv
<1>2. QED
  BY <1>1, Inductive, PTL

-----------------------------------------------------------------------------
(***************************************************************************)
(* The refinement: what each action does to the state of a task.           *)
(***************************************************************************)

States == [t \in Task |-> TaskState(t)]

PoolNext == [Pool!Next]_<<task, States>>

(* A step that changes no task's state is a stutter of the pool.           *)
LEMMA Stutter ==
    ASSUME task' = task, \A t \in Task : TaskState(t)' = TaskState(t)
    PROVE  PoolNext
BY DEF PoolNext, States

(* A task's state is read off its own pipeline and its own wait.           *)
LEMMA StateLocal ==
    ASSUME IInv, NEW t \in Task, task'[t] = task[t], wait'[t] = wait[t],
           \A p \in Pipeline : (running'[p] <=> running[p]) /\ callbacks'[p] = callbacks[p]
                               /\ (running[p] => cursor'[p] = cursor[p])
                               /\ (t \in Elements(new_callbacks'[p]) <=> t \in Elements(new_callbacks[p]))
    PROVE  TaskState(t)' = TaskState(t)
<1>1. CASE task[t] = Unscheduled
  BY <1>1 DEF TaskState
<1>2. CASE task[t] # Unscheduled
  <2>1. task[t].pipeline \in Pipeline
    BY <1>2 DEF IInv, TypeOK, TaskRecord
  <2>2. QED
    BY <1>2, <2>1 DEF TaskState, Current
<1>3. QED
  BY <1>1, <1>2

LEMMA RefineInit == Init => Pool!Init
<1> SUFFICES ASSUME Init PROVE Pool!Init
  OBVIOUS
<1>1. \A t \in Task : TaskState(t) = "free"
  BY DEF Init, TaskState
<1>2. QED
  BY <1>1 DEF Init, Pool!Init

LEMMA RefineSchedule ==
    ASSUME IInv, NEW t \in Task, NEW p \in Pipeline, NEW ends \in BOOLEAN, NEW n \in Intervals,
           schedule(t, p, ends, n)
    PROVE  PoolNext
<1> DEFINE r == [pipeline |-> p, ends |-> ends, interval |-> n]
<1>1. /\ task' = [task EXCEPT ![t] = r] /\ wait' = [wait EXCEPT ![t] = n]
      /\ new_callbacks' = [new_callbacks EXCEPT ![p] = Append(new_callbacks[p], t)]
      /\ callbacks' = callbacks /\ cursor' = cursor /\ running' = running
      /\ task[t] = Unscheduled
  BY DEF schedule, Fresh
<1>2. r # Unscheduled
  BY SchedulerAssumption
<1>3. /\ new_callbacks[p] \in Seq(Task)
      /\ Elements(new_callbacks'[p]) = Elements(new_callbacks[p]) \cup {t}
  BY <1>1, ElementsAppend DEF IInv, TypeOK
<1>4. TaskState(t) = "free"
  BY <1>1 DEF TaskState
<1>5. TaskState(t)' = IF r.interval = 0 THEN "ready" ELSE "waiting"
  <2>1. task'[t] = r /\ wait'[t] = n
    BY <1>1 DEF IInv, TypeOK
  <2>2. ~(running'[p] /\ Current(p)' = t)
    <3>1. CASE running[p]
      <4>1. Current(p) \in Elements(callbacks[p])
        BY <3>1, CurrentListed DEF IInv, TypeOK
      <4>2. Current(p) # t
        BY <1>1, <4>1 DEF IInv, ListedOnce
      <4>3. QED
        BY <1>1, <4>2 DEF Current
    <3>2. CASE ~running[p]
      BY <1>1, <3>2
    <3>3. QED
      BY <3>1, <3>2
  <2>3. t \in Elements(callbacks'[p]) \cup Elements(new_callbacks'[p])
    BY <1>3
  <2>4. QED
    BY <1>2, <2>1, <2>2, <2>3 DEF TaskState
<1>6. ASSUME NEW u \in Task, u # t
      PROVE  TaskState(u)' = TaskState(u)
  <2>1. task'[u] = task[u] /\ wait'[u] = wait[u]
    BY <1>1, <1>6 DEF IInv, TypeOK
  <2>2. \A q \in Pipeline : u \in Elements(new_callbacks'[q]) <=> u \in Elements(new_callbacks[q])
    <3> SUFFICES ASSUME NEW q \in Pipeline
                 PROVE  u \in Elements(new_callbacks'[q]) <=> u \in Elements(new_callbacks[q])
      OBVIOUS
    <3>1. CASE q = p
      BY <1>3, <1>6, <3>1
    <3>2. CASE q # p
      BY <1>1, <3>2 DEF IInv, TypeOK
    <3>3. QED
      BY <3>1, <3>2
  <2>3. QED
    BY <1>1, <2>1, <2>2, StateLocal
<1>7. Pool!Schedule(t, r)
  <2>1. States' = [States EXCEPT ![t] = IF r.interval = 0 THEN "ready" ELSE "waiting"]
    <3> HIDE DEF r
    <3> QED BY <1>5, <1>6 DEF States
  <2>2. QED
    BY <1>1, <1>4, <2>1 DEF Pool!Schedule, States
<1>8. QED
  BY <1>7 DEF PoolNext, Pool!Next, States

LEMMA RefineBegin ==
    ASSUME IInv, NEW p \in Pipeline, execute_begin(p)
    PROVE  PoolNext
<1>1. /\ callbacks' = [callbacks EXCEPT ![p] = callbacks[p] \o new_callbacks[p]]
      /\ new_callbacks' = [new_callbacks EXCEPT ![p] = <<>>]
      /\ cursor' = [cursor EXCEPT ![p] = 1] /\ cursor[p] = 0
      /\ task' = task /\ wait' = wait /\ running' = running
  BY DEF execute_begin
<1>2. /\ Elements(callbacks[p] \o new_callbacks[p])
            = Elements(callbacks[p]) \cup Elements(new_callbacks[p])
      /\ Elements(<<>>) = {}
  <2>1. callbacks[p] \in Seq(Task) /\ new_callbacks[p] \in Seq(Task)
    BY DEF IInv, TypeOK
  <2>2. Elements(<<>>) = {}
    BY DEF Elements
  <2>3. QED
    BY <2>1, <2>2, ElementsConcat
<1>3. ~running[p]
  BY <1>1 DEF IInv, TypeOK
<1>4. ASSUME NEW t \in Task
      PROVE  TaskState(t)' = TaskState(t)
  <2>1. CASE task[t] = Unscheduled
    BY <1>1, <2>1 DEF TaskState
  <2>2. CASE task[t] # Unscheduled /\ task[t].pipeline = p
    <3>1. callbacks'[p] = callbacks[p] \o new_callbacks[p] /\ new_callbacks'[p] = <<>>
      BY <1>1 DEF IInv, TypeOK
    <3>2. QED
      BY <1>1, <1>2, <1>3, <2>2, <3>1 DEF TaskState
  <2>3. CASE task[t] # Unscheduled /\ task[t].pipeline # p
    <3>1. task[t].pipeline \in Pipeline
      BY <2>3 DEF IInv, TypeOK, TaskRecord
    <3>2. QED
      BY <1>1, <2>3, <3>1 DEF TaskState, Current, IInv, TypeOK
  <2>4. QED
    BY <2>1, <2>2, <2>3
<1>5. QED
  BY <1>1, <1>4, Stutter

LEMMA RefineSkip ==
    ASSUME IInv, NEW p \in Pipeline, execute_skip(p) \/ execute_end(p)
    PROVE  PoolNext
<1>1. /\ task' = task /\ wait' = wait /\ running' = running
      /\ callbacks' = callbacks /\ new_callbacks' = new_callbacks
      /\ ~running[p] /\ \A q \in Pipeline : q # p => cursor'[q] = cursor[q]
  BY DEF execute_skip, execute_end, AtTask, lists, IInv, TypeOK
<1>2. \A t \in Task : TaskState(t)' = TaskState(t)
  BY <1>1, StateLocal
<1>3. QED
  BY <1>1, <1>2, Stutter

LEMMA RefineThreads ==
    ASSUME IInv, post_load \/ async_check \/ pre_destroy \/ join
    PROVE  PoolNext
<1>1. /\ task' = task /\ wait' = wait /\ running' = running /\ cursor' = cursor
      /\ callbacks' = callbacks /\ new_callbacks' = new_callbacks
  BY DEF post_load, async_check, pre_destroy, join, lists
<1>2. \A t \in Task : TaskState(t)' = TaskState(t)
  BY <1>1, StateLocal
<1>3. QED
  BY <1>1, <1>2, Stutter

LEMMA RefineCall ==
    ASSUME IInv, NEW p \in Pipeline, execute_call(p)
    PROVE  PoolNext
<1>0. PICK t : t = Current(p)
  OBVIOUS
<1>1. /\ cursor[p] \in 1 .. Len(callbacks[p]) /\ ~running[p] /\ wait[t] = 0
      /\ wait' = [wait EXCEPT ![t] = task[t].interval]
      /\ running' = [running EXCEPT ![p] = TRUE]
      /\ task' = task /\ callbacks' = callbacks /\ new_callbacks' = new_callbacks
      /\ cursor' = cursor
  BY <1>0 DEF execute_call, AtTask, lists
<1>2. t \in Elements(callbacks[p]) /\ t \in Task /\ task[t] \in TaskRecord /\ task[t].pipeline = p
      /\ task[t] # Unscheduled
  <2>1. t \in Elements(callbacks[p]) /\ t \in Task /\ task[t] \in TaskRecord /\ task[t].pipeline = p
    BY <1>0, <1>1, CurrentListed
  <2>2. task[t] # Unscheduled
    BY <2>1 DEF IInv, ListedOnce
  <2>3. QED
    BY <2>1, <2>2
<1>3. Current(p)' = t /\ running'[p]
  BY <1>0, <1>1 DEF Current, IInv, TypeOK
<1>4. TaskState(t) = "ready"
  BY <1>1, <1>2 DEF TaskState
<1>5. TaskState(t)' = "running"
  BY <1>1, <1>2, <1>3 DEF TaskState
<1>6. ASSUME NEW u \in Task, u # t
      PROVE  TaskState(u)' = TaskState(u)
  <2>1. CASE task[u] = Unscheduled
    BY <1>1, <2>1 DEF TaskState
  <2>2. CASE task[u] # Unscheduled
    <3>1. task[u].pipeline \in Pipeline /\ wait'[u] = wait[u]
      BY <1>1, <1>6, <2>2 DEF IInv, TypeOK, TaskRecord
    <3>2. CASE task[u].pipeline = p
      BY <1>1, <1>3, <1>6, <2>2, <3>1, <3>2 DEF TaskState
    <3>3. CASE task[u].pipeline # p
      BY <1>1, <2>2, <3>1, <3>3 DEF TaskState, Current, IInv, TypeOK
    <3>4. QED
      BY <3>2, <3>3
  <2>3. QED
    BY <2>1, <2>2
<1>7. ASSUME NEW u \in Task, TaskState(u) = "running"
      PROVE  task[u].pipeline # task[t].pipeline
  BY <1>1, <1>2, <1>7 DEF TaskState
<1>8. Pool!Start(t)
  <2>1. States' = [States EXCEPT ![t] = "running"]
    BY <1>5, <1>6 DEF States
  <2>2. QED
    BY <1>1, <1>2, <1>4, <1>7, <2>1 DEF Pool!Start, States
<1>9. QED
  BY <1>2, <1>8 DEF PoolNext, Pool!Next, States

LEMMA RefineReturn ==
    ASSUME IInv, NEW p \in Pipeline, execute_return(p)
    PROVE  PoolNext
<1>0. PICK t : t = Current(p)
  OBVIOUS
<1>1. /\ running[p] /\ running' = [running EXCEPT ![p] = FALSE]
      /\ task' = task /\ new_callbacks' = new_callbacks /\ wait' = wait
  BY DEF execute_return, threads
<1>2. cursor[p] \in 1 .. Len(callbacks[p]) /\ callbacks[p] \in Seq(Task)
  BY <1>1 DEF IInv, TypeOK
<1>3. t \in Elements(callbacks[p]) /\ t \in Task /\ task[t] \in TaskRecord /\ task[t].pipeline = p
      /\ wait[t] \in Nat
  BY <1>0, <1>2, CurrentListed
<1>4. task[t] # Unscheduled /\ t \notin Elements(new_callbacks[p])
  BY <1>3 DEF IInv, ListedOnce
<1>5. TaskState(t) = "running"
  BY <1>0, <1>1, <1>3, <1>4 DEF TaskState
<1>6. ~running'[p] /\ \A q \in Pipeline : q # p => (running'[q] <=> running[q])
  BY <1>1 DEF IInv, TypeOK
<1>7. \A q \in Pipeline : q # p => callbacks'[q] = callbacks[q] /\ cursor'[q] = cursor[q]
  BY DEF execute_return, IInv, TypeOK
<1>8. \A u : u # t => (u \in Elements(callbacks'[p]) <=> u \in Elements(callbacks[p]))
  <2>1. CASE ~task[Current(p)].ends
    BY <2>1 DEF execute_return
  <2>2. CASE task[Current(p)].ends
    <3>1. callbacks'[p] = Erase(callbacks[p], cursor[p])
      BY <2>2 DEF execute_return, IInv, TypeOK
    <3>2. Elements(callbacks'[p]) = Elements(callbacks[p]) \ {callbacks[p][cursor[p]]}
      BY <1>2, <3>1, ElementsErase DEF IInv, ListedOnce
    <3>3. QED
      BY <1>0, <3>2 DEF Current
  <2>3. QED
    BY <2>1, <2>2
<1>9. ASSUME NEW u \in Task, u # t
      PROVE  TaskState(u)' = TaskState(u)
  <2>1. CASE task[u] = Unscheduled
    BY <1>1, <2>1 DEF TaskState
  <2>2. CASE task[u] # Unscheduled
    <3>1. task[u].pipeline \in Pipeline
      BY <2>2 DEF IInv, TypeOK, TaskRecord
    <3>2. CASE task[u].pipeline = p
      BY <1>0, <1>1, <1>6, <1>8, <1>9, <2>2, <3>2 DEF TaskState
    <3>3. CASE task[u].pipeline # p
      BY <1>1, <1>6, <1>7, <2>2, <3>1, <3>3 DEF TaskState, Current
    <3>4. QED
      BY <3>2, <3>3
  <2>3. QED
    BY <2>1, <2>2
<1>10. TaskState(t)' \in IF task[t].ends THEN {"done"} ELSE Pool!Rested(t)
  <2>1. CASE task[t].ends
    <3>1. callbacks'[p] = Erase(callbacks[p], cursor[p])
      BY <1>0, <2>1 DEF execute_return, IInv, TypeOK
    <3>2. t \notin Elements(callbacks'[p])
      BY <1>0, <1>2, <3>1, ElementsErase DEF IInv, ListedOnce, Current
    <3>3. QED
      BY <1>1, <1>3, <1>4, <1>6, <2>1, <3>2 DEF TaskState
  <2>2. CASE ~task[t].ends
    <3>1. callbacks' = callbacks
      BY <1>0, <2>2 DEF execute_return
    <3>2. TaskState(t)' = IF wait[t] = 0 THEN "ready" ELSE "waiting"
      BY <1>1, <1>3, <1>4, <1>6, <3>1 DEF TaskState
    <3>3. wait[t] <= task[t].interval
      BY <1>3, <1>4 DEF IInv, TypeOK
    <3>4. QED
      BY <1>3, <2>2, <3>2, <3>3 DEF Pool!Rested
  <2>3. QED
    BY <2>1, <2>2
<1>11. Pool!Finish(t)
  <2>1. States' = [States EXCEPT ![t] = TaskState(t)']
    BY <1>9 DEF States
  <2>2. QED
    BY <1>1, <1>3, <1>5, <1>10, <2>1 DEF Pool!Finish, States
<1>12. QED
  BY <1>3, <1>11 DEF PoolNext, Pool!Next, States

LEMMA RefineTick ==
    ASSUME IInv, Tick
    PROVE  PoolNext
<1> DEFINE due == {t \in Task : TaskState(t) = "waiting" /\ wait'[t] = 0}
<1>1. /\ wait' = [t \in Task |-> IF wait[t] > 0 THEN wait[t] - 1 ELSE 0]
      /\ task' = task /\ running' = running /\ cursor' = cursor
      /\ callbacks' = callbacks /\ new_callbacks' = new_callbacks
  BY DEF Tick, lists
<1>2. ASSUME NEW t \in Task
      PROVE  TaskState(t)' = IF t \in due THEN "ready" ELSE TaskState(t)
  <2>1. wait[t] = 0 => wait'[t] = 0
    BY <1>1
  <2>2. QED
    BY <1>1, <2>1 DEF TaskState, Current
<1>3. States' = [t \in Task |-> IF t \in due THEN "ready" ELSE States[t]]
  BY <1>2 DEF States
<1>4. \E d \in SUBSET Task : Pool!Elapse(d)
  <2>1. PICK d : d = due
    OBVIOUS
  <2>2. d \in SUBSET Task /\ \A t \in d : States[t] = "waiting"
    BY <2>1 DEF States
  <2>3. States' = [t \in Task |-> IF t \in d THEN "ready" ELSE States[t]]
    BY <1>3, <2>1
  <2>4. Pool!Elapse(d)
    BY <1>1, <2>2, <2>3 DEF Pool!Elapse, States
  <2>5. QED
    BY <2>2, <2>4
<1>5. QED
  BY <1>4 DEF PoolNext, Pool!Next, States

LEMMA RefineStep == IInv /\ [Next]_vars => PoolNext
<1> SUFFICES ASSUME IInv, [Next]_vars PROVE PoolNext
  OBVIOUS
<1>1. CASE \E t \in Task, p \in Pipeline, ends \in BOOLEAN, n \in Intervals :
                <<t, p, ends, n>> \in Calls /\ schedule(t, p, ends, n)
  BY <1>1, RefineSchedule
<1>2. CASE \E p \in Pipeline : execute(p)
  BY <1>2, RefineBegin, RefineSkip, RefineCall, RefineReturn DEF execute
<1>3. CASE post_load \/ async_check \/ pre_destroy \/ join
  BY <1>3, RefineThreads
<1>4. CASE Tick
  BY <1>4, RefineTick
<1>5. CASE UNCHANGED vars
  BY <1>5, Stutter DEF vars, TaskState, Current
<1>6. QED
  BY <1>1, <1>2, <1>3, <1>4, <1>5 DEF Next

(* The pipelines implement TaskPool: whatever is added from whatever       *)
(* thread, no task is lost, called early, called while another task of its *)
(* pipeline is, or, if it ends, called twice.                              *)
THEOREM Refinement == Spec => ImplementsTaskPool
<1>1. IInv /\ [Next]_vars => [Pool!Next]_<<task, [t \in Task |-> TaskState(t)]>>
  BY RefineStep DEF PoolNext, States
<1>2. QED
  BY <1>1, RefineInit, Inductive, PTL DEF Spec, ImplementsTaskPool, Pool!Spec

-----------------------------------------------------------------------------
(***************************************************************************)
(* The end of the async thread.                                            *)
(***************************************************************************)

(* The async pipeline is only walked by its thread, and a join that has    *)
(* returned found none.                                                    *)
Stopped ==
    /\ async_thread # "execute" => cursor[async] = 0
    /\ destroyer = "done" => async_thread \in {"none", "exited"}

LEMMA StepStopped == IInv /\ Stopped /\ [Next]_vars => Stopped'
<1> SUFFICES ASSUME IInv, Stopped, [Next]_vars PROVE Stopped'
  OBVIOUS
<1> USE SchedulerAssumption
<1>0. /\ cursor \in [Pipeline -> Nat] /\ async \in Pipeline
      /\ callbacks \in [Pipeline -> Seq(Task)] /\ Len(callbacks[async]) \in Nat
      /\ running[async] => cursor[async] \in 1 .. Len(callbacks[async])
  BY DEF IInv, TypeOK
<1>1. ASSUME NEW p \in Pipeline, execute_begin(p) PROVE Stopped'
  <2>1. p # async => cursor'[async] = cursor[async]
    BY <1>0, <1>1 DEF execute_begin
  <2> QED BY <1>1, <2>1 DEF execute_begin, MayExecute, Stopped, threads
<1>2. ASSUME NEW p \in Pipeline, execute_skip(p) \/ execute_return(p) PROVE Stopped'
  <2>1. p # async => cursor'[async] = cursor[async]
    BY <1>0, <1>2 DEF execute_skip, execute_return
  <2>2. p = async => cursor[async] \in 1 .. Len(callbacks[async])
    BY <1>0, <1>2 DEF execute_skip, AtTask, execute_return
  <2>3. p = async => async_thread = "execute"
    BY <1>0, <2>2 DEF Stopped
  <2>4. UNCHANGED <<async_thread, destroyer>>
    BY <1>2 DEF execute_skip, execute_return, threads
  <2> QED BY <2>1, <2>3, <2>4 DEF Stopped
<1>3. ASSUME NEW p \in Pipeline, execute_end(p) PROVE Stopped'
  <2>1. CASE p = async
    <3>1. cursor'[async] = 0 /\ async_thread' = "check" /\ destroyer' = destroyer
      BY <1>0, <1>3, <2>1 DEF execute_end
    <3>2. cursor[async] # 0
      BY <1>0, <1>3, <2>1 DEF execute_end
    <3> QED BY <3>1, <3>2 DEF Stopped
  <2>2. CASE p # async
    <3>1. cursor'[async] = cursor[async] /\ UNCHANGED <<async_thread, destroyer>>
      BY <1>0, <1>3, <2>2 DEF execute_end
    <3> QED BY <3>1 DEF Stopped
  <2> QED BY <2>1, <2>2
<1>4. ASSUME UNCHANGED <<cursor, async_thread, destroyer>> PROVE Stopped'
  BY <1>4 DEF Stopped
<1>5. ASSUME post_load \/ async_check \/ pre_destroy \/ join PROVE Stopped'
  BY <1>5 DEF post_load, async_check, pre_destroy, join, Stopped
<1> QED
  BY <1>1, <1>2, <1>3, <1>4, <1>5
  DEF Next, execute, schedule, execute_call, Tick, threads, vars

(* After pre_destroy no async handler is in progress and none will be      *)
(* started, whatever was being walked or called when it began.             *)
THEOREM Quiet == Spec => []QuietAfterDestroy
<1>1. Init => Stopped
  BY SchedulerAssumption DEF Init, Stopped
<1>2. IInv /\ Stopped => QuietAfterDestroy
  <2> SUFFICES ASSUME IInv, Stopped, destroyer = "done"
               PROVE  cursor[async] = 0 /\ ~running[async] /\ async_thread \in {"none", "exited"}
    BY DEF QuietAfterDestroy
  <2>1. async_thread \in {"none", "exited"} /\ cursor[async] = 0
    BY DEF Stopped
  <2>2. running[async] => cursor[async] \in 1 .. Len(callbacks[async])
    BY SchedulerAssumption DEF IInv, TypeOK
  <2> QED BY <2>1, <2>2
<1> QED BY <1>1, <1>2, StepStopped, Inductive, PTL DEF Spec

-----------------------------------------------------------------------------
(***************************************************************************)
(* The order of the tasks scheduled with once and no delay.                *)
(***************************************************************************)

Prompt(t) == task[t] # Unscheduled /\ task[t].ends /\ task[t].interval = 0

Listed(p) == Elements(callbacks[p]) \cup Elements(new_callbacks[p])

Increasing(s) == \A i, j \in 1 .. Len(s) : i < j => s[i] < s[j]

Below(S, T) == \A x \in S, y \in T : x < y

(* Tasks are numbered as they are added and keep that order in the lists;  *)
(* no pass has a prompt task behind it; and of two prompt tasks of a       *)
(* pipeline the later is not gone while the earlier is there.              *)
Numbered == \A u \in Task : task[u] # Unscheduled => \A t \in 1 .. u - 1 : task[t] # Unscheduled

Sorted ==
    \A p \in Pipeline : /\ Increasing(callbacks[p]) /\ Increasing(new_callbacks[p])
                        /\ Below(Elements(callbacks[p]), Elements(new_callbacks[p]))

Passed == \A p \in Pipeline, i \in Nat :
            i \in 1 .. Len(callbacks[p]) /\ i < cursor[p] => ~Prompt(callbacks[p][i])

GoneInOrder ==
    \A t, u \in Task :
        t < u /\ Prompt(t) /\ Prompt(u) /\ task[t].pipeline = task[u].pipeline
        /\ t \in Listed(task[t].pipeline) => u \in Listed(task[t].pipeline)

Ordered == Numbered /\ Sorted /\ Passed /\ GoneInOrder

LEMMA IncreasingAppend ==
    ASSUME NEW s \in Seq(Task), NEW t \in Task, Increasing(s), \A x \in Elements(s) : x < t
    PROVE  Increasing(Append(s, t))
<1>1. Len(Append(s, t)) = Len(s) + 1 /\ Len(s) \in Nat
  OBVIOUS
<1>2. \A i \in 1 .. Len(s) + 1 : Append(s, t)[i] = IF i = Len(s) + 1 THEN t ELSE s[i]
  OBVIOUS
<1>3. \A i \in 1 .. Len(s) : s[i] < t
  BY DEF Elements
<1> QED BY <1>1, <1>2, <1>3 DEF Increasing

LEMMA IncreasingConcat ==
    ASSUME NEW s \in Seq(Task), NEW r \in Seq(Task), Increasing(s), Increasing(r),
           Below(Elements(s), Elements(r))
    PROVE  Increasing(s \o r)
<1>1. Len(s \o r) = Len(s) + Len(r) /\ Len(s) \in Nat /\ Len(r) \in Nat
  OBVIOUS
<1>2. \A i \in 1 .. Len(s) + Len(r) : (s \o r)[i] = IF i <= Len(s) THEN s[i] ELSE r[i - Len(s)]
  OBVIOUS
<1>3. \A i \in 1 .. Len(s), j \in 1 .. Len(r) : s[i] < r[j]
  BY DEF Below, Elements
<1> SUFFICES ASSUME NEW i \in 1 .. Len(s) + Len(r), NEW j \in 1 .. Len(s) + Len(r), i < j
             PROVE  (s \o r)[i] < (s \o r)[j]
  BY <1>1 DEF Increasing
<1>4. CASE j <= Len(s)
  BY <1>1, <1>2, <1>4 DEF Increasing
<1>5. CASE i <= Len(s) /\ j > Len(s)
  <2>1. j - Len(s) \in 1 .. Len(r) /\ i \in 1 .. Len(s)
    BY <1>1, <1>5
  <2> QED BY <1>1, <1>2, <1>3, <1>5, <2>1
<1>6. CASE i > Len(s) /\ j > Len(s)
  <2>1. j - Len(s) \in 1 .. Len(r) /\ i - Len(s) \in 1 .. Len(r) /\ i - Len(s) < j - Len(s)
    BY <1>1, <1>6
  <2>2. r[i - Len(s)] < r[j - Len(s)]
    BY <2>1 DEF Increasing
  <2> QED BY <1>1, <1>2, <1>6, <2>2
<1> QED BY <1>1, <1>4, <1>5, <1>6

LEMMA IncreasingErase ==
    ASSUME NEW s \in Seq(Task), NEW n \in 1 .. Len(s), Increasing(s)
    PROVE  /\ Increasing(Erase(s, n))
           /\ Len(Erase(s, n)) = Len(s) - 1
           /\ \A i \in 1 .. n - 1 : Erase(s, n)[i] = s[i]
<1>1. Len(s) \in Nat /\ n \in Nat /\ Len(s) - 1 \in Nat
  OBVIOUS
<1>2. /\ Len(Erase(s, n)) = Len(s) - 1
      /\ \A i \in 1 .. Len(s) - 1 : Erase(s, n)[i] = s[IF i < n THEN i ELSE i + 1]
  <2>1. \A i \in 1 .. Len(s) - 1 : (IF i < n THEN s[i] ELSE s[i + 1]) \in Task
    BY <1>1
  <2>2. Erase(s, n) \in Seq(Task) /\ Len(Erase(s, n)) = Len(s) - 1
    BY <1>1, <2>1, IsASeq DEF Erase
  <2> QED BY <1>1, <2>2 DEF Erase
<1>3. \A i, j \in 1 .. Len(s) - 1 :
        i < j => (IF i < n THEN i ELSE i + 1) < (IF j < n THEN j ELSE j + 1)
  BY <1>1
<1>4. \A i \in 1 .. Len(s) - 1 : (IF i < n THEN i ELSE i + 1) \in 1 .. Len(s)
  BY <1>1
<1>5. Increasing(Erase(s, n))
  BY <1>2, <1>3, <1>4 DEF Increasing
<1> QED BY <1>1, <1>2, <1>5

LEMMA InitOrdered == Init => Ordered
<1> SUFFICES ASSUME Init PROVE Ordered
  OBVIOUS
<1>1. \A p \in Pipeline : callbacks[p] = <<>> /\ new_callbacks[p] = <<>>
  BY DEF Init
<1>2. \A t \in Task : task[t] = Unscheduled
  BY DEF Init
<1>3. Elements(<<>>) = {} /\ Increasing(<<>>)
  BY DEF Elements, Increasing
<1>4. Sorted
  BY <1>1, <1>3 DEF Sorted, Below
<1>5. Passed
  BY <1>1 DEF Passed
<1>6. Numbered /\ GoneInOrder
  BY <1>2 DEF Numbered, GoneInOrder, Prompt
<1> QED BY <1>4, <1>5, <1>6 DEF Ordered

(* A step that changes neither the lists nor what the tasks are.           *)
LEMMA SameOrder ==
    ASSUME Ordered, UNCHANGED <<task, callbacks, new_callbacks>>, Passed'
    PROVE  Ordered'
BY DEF Ordered, Numbered, Sorted, GoneInOrder, Prompt, Listed

LEMMA ScheduleOrdered ==
    ASSUME IInv, Ordered, NEW t \in Task, NEW p \in Pipeline, NEW ends \in BOOLEAN,
           NEW n \in Intervals, schedule(t, p, ends, n)
    PROVE  Ordered'
<1> DEFINE r == [pipeline |-> p, ends |-> ends, interval |-> n]
<1>1. /\ task' = [task EXCEPT ![t] = r]
      /\ new_callbacks' = [new_callbacks EXCEPT ![p] = Append(new_callbacks[p], t)]
      /\ callbacks' = callbacks /\ cursor' = cursor
  BY DEF schedule
<1>2. task[t] = Unscheduled /\ \A u \in 1 .. t - 1 : task[u] # Unscheduled
  BY DEF schedule, Fresh
<1>3. r # Unscheduled
  BY SchedulerAssumption
<1>4. task'[t] = r /\ \A u \in Task : u # t => task'[u] = task[u]
  BY <1>1 DEF IInv, TypeOK
<1>5. \A u \in Task : u > t => task[u] = Unscheduled
  BY <1>2, SchedulerAssumption DEF Ordered, Numbered, Task
<1>6. \A q \in Pipeline : \A x \in Listed(q) : x \in Task /\ x < t /\ task[x] # Unscheduled
  <2> SUFFICES ASSUME NEW q \in Pipeline, NEW x \in Listed(q)
               PROVE  x \in Task /\ x < t /\ task[x] # Unscheduled
    OBVIOUS
  <2>1. x \in Task
    BY DEF Listed, Elements, IInv, TypeOK
  <2>2. task[x] # Unscheduled
    BY DEF Listed, IInv, ListedOnce
  <2>3. x # t /\ ~(x > t)
    BY <1>2, <1>5, <2>1, <2>2
  <2> QED BY <2>1, <2>2, <2>3, SchedulerAssumption DEF Task
<1>7. /\ new_callbacks[p] \in Seq(Task)
      /\ Elements(Append(new_callbacks[p], t)) = Elements(new_callbacks[p]) \cup {t}
  BY ElementsAppend DEF IInv, TypeOK
<1>8. /\ new_callbacks'[p] = Append(new_callbacks[p], t)
      /\ \A q \in Pipeline : q # p => new_callbacks'[q] = new_callbacks[q]
  BY <1>1 DEF IInv, TypeOK
<1>9. Numbered'
  <2> SUFFICES ASSUME NEW u \in Task, task'[u] # Unscheduled, NEW v \in 1 .. u - 1
               PROVE  task'[v] # Unscheduled
    BY DEF Numbered
  <2>1. v \in Task
    BY SchedulerAssumption DEF Task
  <2>2. CASE u = t
    BY <1>2, <1>4, <2>1, <2>2, SchedulerAssumption DEF Task
  <2>3. CASE u # t
    <3>1. task[v] # Unscheduled
      BY <1>4, <2>3 DEF Ordered, Numbered
    <3> QED BY <1>2, <1>4, <2>1, <3>1
  <2> QED BY <2>2, <2>3
<1>10. Sorted'
  <2> SUFFICES ASSUME NEW q \in Pipeline
               PROVE  /\ Increasing(callbacks'[q]) /\ Increasing(new_callbacks'[q])
                      /\ Below(Elements(callbacks'[q]), Elements(new_callbacks'[q]))
    BY DEF Sorted
  <2>1. Increasing(callbacks[q]) /\ Increasing(new_callbacks[q])
        /\ Below(Elements(callbacks[q]), Elements(new_callbacks[q]))
    BY DEF Ordered, Sorted
  <2>2. CASE q = p
    <3>1. Increasing(new_callbacks'[q])
      BY <1>6, <1>7, <1>8, <2>1, <2>2, IncreasingAppend DEF Listed
    <3>2. Below(Elements(callbacks'[q]), Elements(new_callbacks'[q]))
      BY <1>1, <1>6, <1>7, <1>8, <2>1, <2>2 DEF Below, Listed
    <3> QED BY <1>1, <2>1, <3>1, <3>2
  <2>3. CASE q # p
    BY <1>1, <1>8, <2>1, <2>3
  <2> QED BY <2>2, <2>3
<1>11. Passed'
  <2> SUFFICES ASSUME NEW q \in Pipeline, NEW i \in Nat, i \in 1 .. Len(callbacks[q]), i < cursor[q]
               PROVE  ~Prompt(callbacks[q][i])'
    BY <1>1 DEF Passed, Prompt
  <2>1. callbacks[q][i] \in Listed(q) /\ ~Prompt(callbacks[q][i])
    BY DEF Listed, Elements, Ordered, Passed
  <2>2. callbacks[q][i] # t /\ callbacks[q][i] \in Task
    BY <1>2, <1>6, <2>1
  <2> QED BY <1>1, <1>4, <2>1, <2>2 DEF Prompt
<1>12. GoneInOrder'
  <2> SUFFICES ASSUME NEW v \in Task, NEW u \in Task, v < u, Prompt(v)', Prompt(u)',
                      task'[v].pipeline = task'[u].pipeline,
                      v \in Elements(callbacks'[task'[v].pipeline])
                              \cup Elements(new_callbacks'[task'[v].pipeline])
               PROVE  u \in Elements(callbacks'[task'[v].pipeline])
                              \cup Elements(new_callbacks'[task'[v].pipeline])
    BY DEF GoneInOrder, Prompt, Listed
  <2>1. v # t
    <3>1. v = t => u # t /\ u > t
      BY SchedulerAssumption DEF Task
    <3>2. task'[u] # Unscheduled
      BY DEF Prompt
    <3> QED BY <1>4, <1>5, <3>1, <3>2
  <2>2. task'[v] = task[v] /\ Prompt(v)
    BY <1>4, <2>1 DEF Prompt
  <2> DEFINE q == task[v].pipeline
  <2>3. q \in Pipeline
    BY <2>2 DEF Prompt, IInv, TypeOK, TaskRecord
  <2>4. v \in Listed(q)
    <3>1. v \in Elements(callbacks'[q]) \cup Elements(new_callbacks'[q])
      BY <2>2
    <3> HIDE DEF q
    <3>2. Elements(callbacks'[q]) = Elements(callbacks[q])
      BY <1>1
    <3>3. Elements(new_callbacks'[q]) \subseteq Elements(new_callbacks[q]) \cup {t}
      BY <1>7, <1>8, <2>3
    <3> QED BY <2>1, <3>1, <3>2, <3>3 DEF Listed
  <2>5. CASE u = t
    <3>1. q = p
      BY <1>4, <2>2, <2>5
    <3>2. t \in Elements(new_callbacks'[p])
      <4>1. t \in Elements(Append(new_callbacks[p], t))
        BY <1>7
      <4> QED BY <1>8, <4>1
    <3> QED BY <2>2, <2>5, <3>1, <3>2
  <2>6. CASE u # t
    <3>1. task'[u] = task[u] /\ Prompt(u)
      BY <1>4, <2>6 DEF Prompt
    <3>2. u \in Listed(q)
      BY <2>2, <2>4, <3>1 DEF Ordered, GoneInOrder
    <3>3. u \in Elements(callbacks'[q]) \cup Elements(new_callbacks'[q])
      <4> HIDE DEF q
      <4>1. Elements(new_callbacks[q]) \subseteq Elements(new_callbacks'[q])
        BY <1>7, <1>8, <2>3
      <4> QED BY <1>1, <3>2, <4>1 DEF Listed
    <3> QED BY <2>2, <3>3
  <2> QED BY <2>5, <2>6
<1> QED BY <1>9, <1>10, <1>11, <1>12 DEF Ordered

LEMMA BeginOrdered ==
    ASSUME IInv, Ordered, NEW p \in Pipeline, execute_begin(p)
    PROVE  Ordered'
<1>1. /\ callbacks' = [callbacks EXCEPT ![p] = callbacks[p] \o new_callbacks[p]]
      /\ new_callbacks' = [new_callbacks EXCEPT ![p] = <<>>]
      /\ cursor' = [cursor EXCEPT ![p] = 1] /\ task' = task
  BY DEF execute_begin
<1>2. callbacks[p] \in Seq(Task) /\ new_callbacks[p] \in Seq(Task)
  BY DEF IInv, TypeOK
<1>3. /\ callbacks'[p] = callbacks[p] \o new_callbacks[p]
      /\ new_callbacks'[p] = <<>> /\ cursor'[p] = 1
      /\ \A q \in Pipeline : q # p => /\ callbacks'[q] = callbacks[q]
                                      /\ new_callbacks'[q] = new_callbacks[q]
                                      /\ cursor'[q] = cursor[q]
  BY <1>1 DEF IInv, TypeOK
<1>4. Elements(<<>>) = {} /\ Increasing(<<>>)
  BY DEF Elements, Increasing
<1>5. Elements(callbacks'[p]) = Elements(callbacks[p]) \cup Elements(new_callbacks[p])
  BY <1>2, <1>3, ElementsConcat
<1>6. Increasing(callbacks'[p])
  BY <1>2, <1>3, IncreasingConcat DEF Ordered, Sorted
<1>7. Sorted'
  BY <1>3, <1>4, <1>6 DEF Ordered, Sorted, Below
<1>8. Passed'
  <2> SUFFICES ASSUME NEW q \in Pipeline, NEW i \in Nat, i \in 1 .. Len(callbacks'[q]),
                      i < cursor'[q]
               PROVE  ~Prompt(callbacks[q][i])'
    BY DEF Passed
  <2>1. q # p
    BY <1>3
  <2>2. callbacks'[q] = callbacks[q] /\ cursor'[q] = cursor[q]
    BY <1>3, <2>1
  <2>3. ~Prompt(callbacks[q][i])
    BY <2>2 DEF Ordered, Passed
  <2> HIDE DEF Prompt
  <2>4. callbacks'[q][i] = callbacks[q][i]
    BY <2>2
  <2> QED BY <1>1, <2>3, <2>4 DEF Prompt
<1>9. \A q \in Pipeline : Elements(callbacks'[q]) \cup Elements(new_callbacks'[q])
                            = Elements(callbacks[q]) \cup Elements(new_callbacks[q])
  BY <1>3, <1>4, <1>5
<1>10. \A t \in Task : Prompt(t) => task[t].pipeline \in Pipeline
  BY DEF Prompt, IInv, TypeOK, TaskRecord
<1>11. GoneInOrder'
  BY <1>1, <1>9, <1>10 DEF Ordered, GoneInOrder, Prompt, Listed
<1> QED BY <1>1, <1>7, <1>8, <1>11 DEF Ordered, Numbered

(* A prompt task waits for nothing, so a pass does not skip it.            *)
LEMMA SkipOrdered ==
    ASSUME IInv, Ordered, NEW p \in Pipeline, execute_skip(p)
    PROVE  Ordered'
<1>1. /\ cursor' = [cursor EXCEPT ![p] = cursor[p] + 1] /\ cursor[p] \in 1 .. Len(callbacks[p])
      /\ wait[Current(p)] > 0 /\ UNCHANGED <<task, callbacks, new_callbacks>>
  BY DEF execute_skip, AtTask, lists
<1>2. ~Prompt(Current(p))
  <2>1. Current(p) \in Task /\ wait[Current(p)] \in Nat
    BY <1>1, CurrentListed
  <2>2. task[Current(p)] # Unscheduled => wait[Current(p)] <= task[Current(p)].interval
    BY <2>1 DEF IInv, TypeOK
  <2> QED BY <1>1, <2>1, <2>2 DEF Prompt
<1>3. Passed'
  <2> SUFFICES ASSUME NEW q \in Pipeline, NEW i \in Nat, i \in 1 .. Len(callbacks[q]),
                      i < cursor'[q]
               PROVE  ~Prompt(callbacks[q][i])
    BY <1>1 DEF Passed, Prompt
  <2>1. i < cursor[q] \/ (q = p /\ i = cursor[p])
    BY <1>1 DEF IInv, TypeOK
  <2> QED BY <1>2, <2>1 DEF Ordered, Passed, Current
<1> QED BY <1>1, <1>3, SameOrder

LEMMA ReturnOrdered ==
    ASSUME IInv, Ordered, NEW p \in Pipeline, execute_return(p)
    PROVE  Ordered'
<1>1. /\ cursor[p] \in 1 .. Len(callbacks[p]) /\ callbacks[p] \in Seq(Task)
      /\ Len(callbacks[p]) \in Nat /\ cursor[p] \in Nat
      /\ task' = task /\ new_callbacks' = new_callbacks
  BY DEF execute_return, IInv, TypeOK
<1> DEFINE c == Current(p)
<1>2. CASE ~task[c].ends
  <2>1. callbacks' = callbacks /\ cursor' = [cursor EXCEPT ![p] = cursor[p] + 1]
    BY <1>2 DEF execute_return
  <2>2. Passed'
    <3> SUFFICES ASSUME NEW q \in Pipeline, NEW i \in Nat, i \in 1 .. Len(callbacks[q]),
                        i < cursor'[q]
                 PROVE  ~Prompt(callbacks[q][i])
      BY <1>1, <2>1 DEF Passed, Prompt
    <3>1. i < cursor[q] \/ (q = p /\ i = cursor[p])
      BY <1>1, <2>1 DEF IInv, TypeOK
    <3> QED BY <1>2, <3>1 DEF Ordered, Passed, Current, Prompt
  <2> QED BY <1>1, <2>1, <2>2, SameOrder
<1>3. CASE task[c].ends
  <2> DEFINE n == cursor[p]
             s == Erase(callbacks[p], n)
  <2>1. callbacks' = [callbacks EXCEPT ![p] = s] /\ cursor' = cursor
    BY <1>3 DEF execute_return
  <2>2. /\ Increasing(callbacks[p]) /\ NoDuplicates(callbacks[p])
        /\ Below(Elements(callbacks[p]), Elements(new_callbacks[p]))
    BY DEF Ordered, Sorted, IInv, ListedOnce
  <2>3. Elements(s) = Elements(callbacks[p]) \ {c}
    BY <1>1, <2>2, ElementsErase DEF Current
  <2>4. /\ Increasing(s) /\ Len(s) = Len(callbacks[p]) - 1
        /\ \A i \in 1 .. n - 1 : s[i] = callbacks[p][i]
    BY <1>1, <2>2, IncreasingErase
  <2>5. c \in Elements(callbacks[p]) /\ c \in Task /\ task[c].pipeline = p
    BY <1>1, CurrentListed
  <2> HIDE DEF s, c
  <2>6. /\ callbacks'[p] = s
        /\ \A q \in Pipeline : q # p => callbacks'[q] = callbacks[q]
    BY <2>1 DEF IInv, TypeOK
  <2>7. Sorted'
    <3>1. Below(Elements(s), Elements(new_callbacks[p]))
      BY <2>2, <2>3 DEF Below
    <3> QED BY <1>1, <2>4, <2>6, <3>1 DEF Ordered, Sorted
  <2>8. Passed'
    <3> SUFFICES ASSUME NEW q \in Pipeline, NEW i \in Nat, i \in 1 .. Len(callbacks'[q]),
                        i < cursor[q]
                 PROVE  ~Prompt(callbacks'[q][i])
      BY <1>1, <2>1 DEF Passed, Prompt
    <3>1. CASE q = p
      <4>1. callbacks'[q][i] = callbacks[p][i] /\ i \in 1 .. Len(callbacks[p]) /\ i < cursor[p]
        BY <1>1, <2>4, <2>6, <3>1
      <4> QED BY <4>1 DEF Ordered, Passed
    <3>2. CASE q # p
      <4>1. callbacks'[q] = callbacks[q]
        BY <2>6, <3>2
      <4> QED BY <4>1 DEF Ordered, Passed
    <3> QED BY <3>1, <3>2
  <2>9. \A t \in Task : t < c /\ Prompt(t) => t \notin Listed(p)
    <3> SUFFICES ASSUME NEW t \in Task, t < c, Prompt(t), t \in Listed(p) PROVE FALSE
      OBVIOUS
    <3>1. t \in Nat /\ c \in Nat
      BY <2>5, SchedulerAssumption DEF Task
    <3>2. t \notin Elements(new_callbacks[p])
      BY <2>2, <2>5, <3>1 DEF Below
    <3>3. PICK i \in 1 .. Len(callbacks[p]) : callbacks[p][i] = t
      BY <3>2 DEF Listed, Elements
    <3>4. callbacks[p][n] = c
      BY DEF Current, c
    <3>5. i < n
      <4>1. i # n
        BY <3>1, <3>3, <3>4
      <4>2. n < i => c < t
        BY <1>1, <2>2, <3>3, <3>4 DEF Increasing
      <4> QED BY <1>1, <3>1, <4>1, <4>2
    <3> QED BY <3>3, <3>5 DEF Ordered, Passed
  <2>10. GoneInOrder'
    <3> SUFFICES ASSUME NEW t \in Task, NEW u \in Task, t < u, Prompt(t), Prompt(u),
                        task[t].pipeline = task[u].pipeline,
                        t \in Elements(callbacks'[task[t].pipeline])
                              \cup Elements(new_callbacks[task[t].pipeline])
                 PROVE  u \in Elements(callbacks'[task[t].pipeline])
                              \cup Elements(new_callbacks[task[t].pipeline])
      BY <1>1 DEF GoneInOrder, Prompt, Listed
    <3> DEFINE q == task[t].pipeline
    <3>1. q \in Pipeline
      BY DEF Prompt, IInv, TypeOK, TaskRecord
    <3> HIDE DEF q
    <3>2. t \in Listed(q)
      BY <2>3, <2>6, <3>1 DEF Listed, q
    <3>3. u \in Listed(q)
      BY <3>2 DEF Ordered, GoneInOrder, q
    <3>4. CASE q # p
      BY <2>6, <3>1, <3>3, <3>4 DEF Listed, q
    <3>5. CASE q = p
      <4>1. u # c
        BY <2>9, <3>2, <3>5
      <4> QED BY <2>3, <2>6, <3>3, <3>5, <4>1 DEF Listed, q
    <3> QED BY <3>4, <3>5
  <2> QED BY <1>1, <2>7, <2>8, <2>10 DEF Ordered, Numbered
<1> QED BY <1>2, <1>3

LEMMA EndOrdered ==
    ASSUME IInv, Ordered, NEW p \in Pipeline, execute_end(p)
    PROVE  Ordered'
<1>1. cursor' = [cursor EXCEPT ![p] = 0] /\ UNCHANGED <<task, callbacks, new_callbacks>>
  BY DEF execute_end, lists
<1>2. \A q \in Pipeline, i \in Nat : i < cursor'[q] => i < cursor[q]
  BY <1>1 DEF IInv, TypeOK
<1>3. Passed'
  BY <1>1, <1>2 DEF Ordered, Passed, Prompt
<1> QED BY <1>1, <1>3, SameOrder

LEMMA StepOrdered == IInv /\ Ordered /\ [Next]_vars => Ordered'
<1> SUFFICES ASSUME IInv, Ordered, [Next]_vars PROVE Ordered'
  OBVIOUS
<1>1. CASE \E t \in Task, p \in Pipeline, ends \in BOOLEAN, n \in Intervals :
                <<t, p, ends, n>> \in Calls /\ schedule(t, p, ends, n)
  BY <1>1, ScheduleOrdered
<1>2. ASSUME UNCHANGED <<task, callbacks, new_callbacks, cursor>> PROVE Ordered'
  <2>1. Passed'
    BY <1>2 DEF Ordered, Passed, Prompt
  <2> QED BY <1>2, <2>1, SameOrder
<1>3. CASE \E p \in Pipeline : execute(p)
  BY <1>2, <1>3, BeginOrdered, SkipOrdered, ReturnOrdered, EndOrdered
     DEF execute, execute_call, lists
<1>4. CASE post_load \/ async_check \/ pre_destroy \/ join \/ Tick \/ UNCHANGED vars
  BY <1>2, <1>4 DEF post_load, async_check, pre_destroy, join, Tick, vars, lists
<1> QED BY <1>1, <1>3, <1>4 DEF Next

(* Once tasks without a delay are called in the order they were added, on  *)
(* every pipeline and from whatever threads: the next begins when the      *)
(* earlier has ended.                                                      *)
THEOREM InOrder == Spec => []OnceInOrder
<1>1. IInv /\ Ordered => OnceInOrder
  <2> SUFFICES ASSUME IInv, Ordered, NEW t \in Task, NEW u \in Task, t < u, Prompt(t), Prompt(u),
                      task[t].pipeline = task[u].pipeline, TaskState(u) # "ready"
               PROVE  TaskState(t) = "done"
    BY DEF OnceInOrder, Prompt
  <2> DEFINE p == task[t].pipeline
  <2>1. p \in Pipeline /\ p = task[u].pipeline
    BY DEF Prompt, IInv, TypeOK, TaskRecord
  <2>2. wait[u] = 0
    BY DEF Prompt, IInv, TypeOK
  <2> HIDE DEF p
  <2>3. u \in Listed(p) => running[p] /\ Current(p) = u
    BY <2>1, <2>2 DEF TaskState, Prompt, Listed
  <2>4. t \notin Listed(p)
    <3> SUFFICES ASSUME t \in Listed(p) PROVE FALSE
      OBVIOUS
    <3>1. u \in Listed(p)
      BY DEF Ordered, GoneInOrder, p
    <3>2. /\ Current(p) = u /\ cursor[p] \in 1 .. Len(callbacks[p]) /\ callbacks[p][cursor[p]] = u
      BY <2>1, <2>3, <3>1 DEF IInv, TypeOK, Current
    <3>3. t \in Nat /\ u \in Nat
      BY SchedulerAssumption DEF Task
    <3>4. u \in Elements(callbacks[p])
      BY <3>2 DEF Elements
    <3>5. t \notin Elements(new_callbacks[p])
      BY <2>1, <3>3, <3>4 DEF Ordered, Sorted, Below
    <3>6. PICK i \in 1 .. Len(callbacks[p]) : callbacks[p][i] = t
      BY <3>5 DEF Listed, Elements
    <3>7. Len(callbacks[p]) \in Nat /\ Increasing(callbacks[p])
      BY <2>1 DEF IInv, TypeOK, Ordered, Sorted
    <3>8. i < cursor[p]
      <4>1. i # cursor[p]
        BY <3>2, <3>3, <3>6
      <4>2. cursor[p] < i => u < t
        BY <3>2, <3>6, <3>7 DEF Increasing
      <4> QED BY <3>2, <3>3, <3>7, <4>1, <4>2
    <3> QED BY <2>1, <3>6, <3>8 DEF Ordered, Passed
  <2>5. ~(running[p] /\ Current(p) = t)
    <3>1. running[p] => Current(p) \in Elements(callbacks[p])
      BY <2>1, CurrentListed DEF IInv, TypeOK
    <3> QED BY <2>4, <3>1 DEF Listed
  <2> QED BY <2>4, <2>5 DEF TaskState, Prompt, Listed, p
<1> QED BY <1>1, InitOrdered, StepOrdered, Inductive, PTL DEF Spec
=============================================================================
