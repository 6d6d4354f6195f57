---------------------------- MODULE PartyProofs ----------------------------
(***************************************************************************)
(* Proofs about Party, for any servers, modes and bounds, carried by four  *)
(* invariants: Accounting says where each query is, in the list, timed out *)
(* and waiting for its callback, or answered; Newest ties the current join *)
(* to connect_host; Typed gives types; OneHolder says that one query, task *)
(* or download at a time may still hand a generation to the engine.        *)
(* The last part is about ServerBrowser, the other caller of query_server, *)
(* for any addresses and any number of lists: BrowserInv.                  *)
(***************************************************************************)
EXTENDS Party, ServerBrowser, TLAPS

Accounting ==
    /\ query \in Seq([host : Server, generation : 0 .. MaxJoins])
    /\ Len(query) <= MaxQueries
    /\ server_queries \subseteq 1 .. Len(query)
    /\ removed \subseteq 1 .. Len(query)
    /\ server_queries \cap removed = {}
    /\ answered \in [Query -> Nat]
    /\ \A q \in Query : q \notin 1 .. Len(query) => answered[q] = 0
    /\ AnsweredOnce

LEMMA InitAccounting == Init => Accounting
BY PartyAssumption DEF Init, Accounting, AnsweredOnce, Query

LEMMA InRange ==
    ASSUME Accounting
    PROVE  /\ Len(query) \in Nat /\ Len(query) <= MaxQueries
           /\ server_queries \subseteq Query /\ removed \subseteq Query
<1>1. Len(query) \in Nat /\ Len(query) <= MaxQueries
  BY DEF Accounting
<1>2. server_queries \subseteq 1 .. Len(query) /\ removed \subseteq 1 .. Len(query)
  BY DEF Accounting
<1> HIDE DEF Accounting
<1>3. 1 .. Len(query) \subseteq 1 .. MaxQueries
  BY <1>1, PartyAssumption
<1> QED BY <1>1, <1>2, <1>3 DEF Query

(* A new query: the one action that makes the list longer.                 *)
LEMMA QueryAccounting ==
    ASSUME Accounting, NEW s \in Server, NEW g \in 0 .. MaxJoins,
           query_server(s, g), destroyed' = destroyed
    PROVE  Accounting'
<1> USE PartyAssumption DEF query_server, Query
<1>1. /\ query' \in Seq([host : Server, generation : 0 .. MaxJoins])
      /\ Len(query') = Len(query) + 1
      /\ Len(query) \in Nat
      /\ Len(query') <= MaxQueries
  <2>1. [host |-> s, generation |-> g] \in [host : Server, generation : 0 .. MaxJoins]
    OBVIOUS
  <2> QED BY <2>1 DEF Accounting
<1>2. /\ server_queries' \subseteq 1 .. Len(query')
      /\ removed' \subseteq 1 .. Len(query')
      /\ server_queries' \cap removed' = {}
  <2>1. /\ server_queries \subseteq 1 .. Len(query)
        /\ removed \subseteq 1 .. Len(query)
        /\ server_queries \cap removed = {}
    BY DEF Accounting
  <2>2. server_queries' = server_queries \cup {Len(query) + 1} /\ removed' = removed
    OBVIOUS
  <2>3. 1 .. Len(query') = 1 .. Len(query) \cup {Len(query) + 1}
    BY <1>1
  <2>4. Len(query) + 1 \notin 1 .. Len(query)
    BY <1>1
  <2> QED BY <2>1, <2>2, <2>3, <2>4
<1>3. Len(query) + 1 \in Query /\ answered[Len(query) + 1] = 0
  BY <1>1 DEF Accounting
<1>4. \A q \in 1 .. Len(query') : q = Len(query) + 1 \/ q \in 1 .. Len(query)
  BY <1>1
<1>5. AnsweredOnce'
  BY <1>1, <1>3, <1>4 DEF Accounting, AnsweredOnce
<1>6. \A q \in Query : q \notin 1 .. Len(query') => answered'[q] = 0
  BY <1>1 DEF Accounting
<1> QED BY <1>1, <1>2, <1>5, <1>6 DEF Accounting

(* Queries move from the list to the timed out ones, or out of either with *)
(* a call of their callback.                                               *)
LEMMA MoveAccounting ==
    ASSUME Accounting,
           NEW gone \in SUBSET (server_queries \cup removed),
           UNCHANGED query,
           server_queries' \subseteq server_queries,
           removed' \subseteq server_queries \cup removed,
           server_queries' \cap removed' = {},
           server_queries' \cup removed' = (server_queries \cup removed) \ gone,
           answered' = [q \in Query |-> IF q \in gone THEN answered[q] + 1 ELSE answered[q]],
           destroyed' = destroyed
    PROVE  Accounting'
<1> USE PartyAssumption DEF Query
<1>1. Len(query) \in Nat /\ Len(query) <= MaxQueries
  BY DEF Accounting
<1>2. answered' \in [Query -> Nat]
  BY DEF Accounting
<1>3. gone \subseteq 1 .. Len(query)
  BY DEF Accounting
<1>4. \A q \in Query : q \notin 1 .. Len(query') => answered'[q] = 0
  BY <1>3 DEF Accounting
<1>5. AnsweredOnce'
  <2> SUFFICES ASSUME NEW q \in 1 .. Len(query)
               PROVE  /\ answered'[q] <= 1
                      /\ q \in server_queries' \cup removed' => answered'[q] = 0
                      /\ destroyed \/ q \in server_queries' \cup removed' \/ answered'[q] = 1
    BY DEF AnsweredOnce
  <2>1. q \in Query /\ answered[q] \in Nat
    BY <1>1 DEF Accounting
  <2>2. /\ answered[q] <= 1
        /\ q \in server_queries \cup removed => answered[q] = 0
        /\ destroyed \/ q \in server_queries \cup removed \/ answered[q] = 1
    BY DEF Accounting, AnsweredOnce
  <2>3. CASE q \in gone
    BY <2>1, <2>2, <2>3
  <2>4. CASE q \notin gone
    <3>1. answered'[q] = answered[q]
      BY <2>1, <2>4
    <3>2. q \in server_queries' \cup removed' <=> q \in server_queries \cup removed
      BY <2>4
    <3> QED BY <2>2, <3>1, <3>2
  <2> QED BY <2>3, <2>4
<1> QED BY <1>2, <1>4, <1>5 DEF Accounting

LEMMA StutterAccounting ==
    ASSUME Accounting,
           UNCHANGED <<query, server_queries, removed, answered, destroyed>>
    PROVE  Accounting'
BY DEF Accounting, AnsweredOnce, Query

LEMMA Called ==
    ASSUME Accounting, NEW q \in Query
    PROVE  [answered EXCEPT ![q] = @ + 1]
             = [p \in Query |-> IF p \in {q} THEN answered[p] + 1 ELSE answered[p]]
BY DEF Accounting

LEMMA BeginAccounting ==
    ASSUME Accounting, NEW s \in Server, begin_join(s), destroyed' = destroyed,
           policy.generation \in 0 .. MaxJoins
    PROVE  Accounting'
BY QueryAccounting, PartyAssumption DEF begin_join

(* The current join is of connect_host, under a generation in range, and   *)
(* the tasks carry generations that were begun.                            *)
Newest ==
    /\ policy \in [server : Peer, generation : 0 .. MaxJoins,
                   current_join : BOOLEAN, join_started : BOOLEAN]
    /\ policy.current_join => policy.server = connect_host /\ policy.generation > 0
    /\ connect_host \in Peer
    /\ natives \in [1 .. MaxJoins -> Nat]

IInv == Accounting /\ Newest

LEMMA InitNewest == Init => Newest
BY PartyAssumption DEF Init, Newest, NoPolicy, Peer

LEMMA BeginNewest ==
    ASSUME Newest, NEW s \in Server, begin_join(s), connect_host' = s, natives' = natives
    PROVE  Newest'
BY PartyAssumption DEF Newest, begin_join, Peer

LEMMA NativeNewest ==
    ASSUME Newest, NEW s, NEW g, is_current_join(s, g), connect_to_lobby(s, g),
           connect_host' = connect_host
    PROVE  Newest'
<1>1. g \in 1 .. MaxJoins
  BY PartyAssumption DEF Newest, is_current_join
<1>2. policy' \in [server : Peer, generation : 0 .. MaxJoins,
                   current_join : BOOLEAN, join_started : BOOLEAN]
  BY DEF Newest, connect_to_lobby
<1>3. natives' \in [1 .. MaxJoins -> Nat]
  BY <1>1 DEF Newest, connect_to_lobby
<1>4. /\ policy'.current_join = policy.current_join
      /\ policy'.server = policy.server
      /\ policy'.generation = policy.generation
  BY DEF Newest, connect_to_lobby
<1> QED BY <1>2, <1>3, <1>4 DEF Newest

LEMMA StutterNewest ==
    ASSUME Newest, UNCHANGED <<policy, connect_host, natives>>
    PROVE  Newest'
BY DEF Newest

LEMMA RunNewest ==
    ASSUME Newest, NEW s, NEW g, NEW retried, NEW rest,
           connect_to_lobby_with_mode(s, g, retried, rest), connect_host' = connect_host
    PROVE  Newest'
BY NativeNewest, StutterNewest DEF connect_to_lobby_with_mode

-----------------------------------------------------------------------------
LEMMA StepIInv == IInv /\ [Next]_vars => IInv'
<1> SUFFICES ASSUME IInv, [Next]_vars PROVE IInv'
  OBVIOUS
<1> USE DEF IInv
<1>0. policy.generation \in 0 .. MaxJoins
  BY DEF Newest
<1>1. ASSUME NEW s \in Server, connect(s) PROVE IInv'
  BY <1>0, <1>1, BeginAccounting, BeginNewest DEF connect
<1>2. ASSUME NEW s \in Server, Browse(s) PROVE IInv'
  BY <1>2, QueryAccounting, StutterNewest, PartyAssumption DEF Browse, Browser
<1>3. ASSUME NEW q \in Query, NEW accepted \in BOOLEAN, Answer(q, accepted) PROVE IInv'
  BY <1>3, StutterAccounting, StutterNewest DEF Answer
<1>4. ASSUME NEW a \in answers, handle_info_response(a) PROVE IInv'
  <2>1. a.query \in server_queries /\ a.query \in Query
    BY <1>4, InRange DEF handle_info_response
  <2>2. answered' = [p \in Query |-> IF p \in {a.query} THEN answered[p] + 1 ELSE answered[p]]
    BY <1>4, <2>1, Called DEF handle_info_response
  <2>3. Accounting'
    <3> DEFINE gone == {a.query}
    <3>1. gone \in SUBSET (server_queries \cup removed)
      BY <2>1
    <3>2. /\ server_queries' = server_queries \ gone
          /\ UNCHANGED <<query, removed, destroyed>>
      BY <1>4 DEF handle_info_response
    <3>3. gone \cap removed = {} /\ server_queries \cap removed = {}
      BY <2>1 DEF Accounting
    <3>4. answered' = [p \in Query |-> IF p \in gone THEN answered[p] + 1 ELSE answered[p]]
      BY <2>2
    <3> HIDE DEF gone
    <3> QED BY <3>1, <3>2, <3>3, <3>4, MoveAccounting
  <2>4. Newest'
    BY <1>4, StutterNewest DEF handle_info_response
  <2> QED BY <2>3, <2>4
<1>5. ASSUME cleanup_queried_servers PROVE IInv'
  <2>1. Accounting'
    <3>1. /\ server_queries' = server_queries \ Timed
          /\ removed = {} /\ removed' = Timed
          /\ UNCHANGED <<query, answered, destroyed>>
      BY <1>5 DEF cleanup_queried_servers, SendAndRemove, AsyncIdle
    <3>2. Timed \subseteq server_queries
      BY DEF Timed
    <3>3. answered = [q \in Query |-> IF q \in {} THEN answered[q] + 1 ELSE answered[q]]
      BY DEF Accounting
    <3> HIDE DEF IInv
    <3>4. {} \in SUBSET (server_queries \cup removed)
      OBVIOUS
    <3>5. /\ server_queries' \subseteq server_queries
          /\ removed' \subseteq server_queries \cup removed
          /\ server_queries' \cap removed' = {}
          /\ server_queries' \cup removed' = (server_queries \cup removed) \ {}
      BY <3>1, <3>2
    <3> QED BY <3>1, <3>3, <3>4, <3>5, MoveAccounting DEF IInv
  <2>2. Newest'
    BY <1>5, StutterNewest DEF cleanup_queried_servers
  <2> QED BY <2>1, <2>2
<1>6. ASSUME callback_false PROVE IInv'
  <2>1. PICK q \in removed : /\ removed' = removed \ {q}
                             /\ answered' = [answered EXCEPT ![q] = @ + 1]
                             /\ UNCHANGED <<connect_host, policy, query, server_queries,
                                            natives, destroyed>>
    BY <1>6 DEF callback_false
  <2>2. q \in Query
    BY InRange
  <2>3. Accounting'
    <3>1. answered' = [p \in Query |-> IF p \in {q} THEN answered[p] + 1 ELSE answered[p]]
      BY <2>1, <2>2, Called
    <3>2. {q} \in SUBSET (server_queries \cup removed)
      OBVIOUS
    <3>3. server_queries \cap removed = {}
      BY DEF Accounting
    <3>4. /\ server_queries' \subseteq server_queries
          /\ removed' \subseteq server_queries \cup removed
          /\ server_queries' \cap removed' = {}
          /\ server_queries' \cup removed' = (server_queries \cup removed) \ {q}
      BY <2>1, <3>3
    <3> QED BY <2>1, <3>1, <3>2, <3>4, MoveAccounting
  <2>4. Newest'
    BY <2>1, StutterNewest
  <2> QED BY <2>3, <2>4
<1>7. ASSUME NEW i \in 1 .. Len(tasks), requery_current_server(i) PROVE IInv'
  <2>1. CASE connect_host = NoServer
    BY <1>7, <2>1, StutterAccounting, StutterNewest DEF requery_current_server, queries
  <2>2. CASE connect_host # NoServer
    <3>1. connect_host \in Server
      BY <2>2 DEF Newest, Peer
    <3>2. begin_join(connect_host) /\ UNCHANGED <<connect_host, natives, destroyed>>
      BY <1>7, <2>2 DEF requery_current_server
    <3> QED BY <1>0, <3>1, <3>2, BeginAccounting, BeginNewest
  <2> QED BY <2>1, <2>2
<1>8. ASSUME NEW i \in 1 .. Len(tasks), verify(i) PROVE IInv'
  <2>1. CASE is_current_join(tasks[i].server, tasks[i].generation) /\ tasks[i].server \notin maps
    <3>1. /\ SendAndRemove
          /\ answered' = [q \in Query |-> IF q \in Timed THEN answered[q] + 1 ELSE answered[q]]
          /\ UNCHANGED <<connect_host, policy, natives, query, removed, destroyed>>
      BY <1>8, <2>1 DEF verify, VerifyMissing
    <3>2. Timed \in SUBSET (server_queries \cup removed)
      BY DEF Timed
    <3>3. server_queries \cap removed = {} /\ Timed \subseteq server_queries
      BY DEF Accounting, Timed
    <3>4. /\ server_queries' \subseteq server_queries
          /\ removed' \subseteq server_queries \cup removed
          /\ server_queries' \cap removed' = {}
          /\ server_queries' \cup removed' = (server_queries \cup removed) \ Timed
      BY <3>1, <3>3 DEF SendAndRemove
    <3> QED BY <3>1, <3>2, <3>4, MoveAccounting, StutterNewest
  <2>2. CASE ~(is_current_join(tasks[i].server, tasks[i].generation) /\ tasks[i].server \notin maps)
    <3>1. /\ connect_to_lobby_with_mode(tasks[i].server, tasks[i].generation, FALSE, Without(i))
          /\ UNCHANGED <<connect_host, query, server_queries, removed, answered, destroyed>>
      BY <1>8, <2>2 DEF verify
    <3> QED BY <3>1, StutterAccounting, RunNewest
  <2> QED BY <2>1, <2>2
<1>9. ASSUME NEW i \in 1 .. Len(tasks), retry_with_mode(i) PROVE IInv'
  BY <1>9, StutterAccounting, RunNewest DEF retry_with_mode, queries
<1>10. ASSUME NEW i \in 1 .. Len(tasks), launch_mode(i) PROVE IInv'
  BY <1>10, StutterAccounting, StutterNewest DEF launch_mode, queries
<1>11. ASSUME retire_join_policy PROVE IInv'
  <2>1. UNCHANGED <<connect_host, natives>> /\ UNCHANGED queries /\ UNCHANGED destroyed
    BY <1>11 DEF retire_join_policy
  <2>2. Newest'
    BY <1>11, <2>1 DEF retire_join_policy, Newest
  <2> QED BY <2>1, <2>2, StutterAccounting DEF queries
<1>12. ASSUME pre_destroy PROVE IInv'
  <2>1. /\ server_queries' = {} /\ destroyed'
        /\ UNCHANGED <<query, removed, answered>>
        /\ UNCHANGED <<connect_host, policy, natives>>
    BY <1>12 DEF pre_destroy
  <2>2. Accounting'
    BY <2>1 DEF Accounting, AnsweredOnce, Query
  <2> QED BY <2>1, <2>2, StutterNewest
<1>13. ASSUME NEW q \in Query, Elapse(q) PROVE IInv'
  BY <1>13, StutterAccounting, StutterNewest DEF Elapse
<1>14. ASSUME NEW complete \in BOOLEAN, download_ends(complete) PROVE IInv'
  BY <1>14, StutterAccounting, StutterNewest DEF download_ends, queries
<1>15. ASSUME perform_download \/ success_callback PROVE IInv'
  BY <1>15, StutterAccounting, StutterNewest DEF perform_download, success_callback, queries
<1>16. ASSUME Engine PROVE IInv'
  BY <1>16, StutterAccounting, StutterNewest
     DEF Engine, Com_SwitchMode, Leave, com_error_missing_map, queries
<1>17. ASSUME UNCHANGED vars PROVE IInv'
  BY <1>17, StutterAccounting, StutterNewest DEF vars, queries
<1> QED
  BY <1>1, <1>2, <1>3, <1>4, <1>5, <1>6, <1>7, <1>8, <1>9, <1>10, <1>11, <1>12, <1>13,
     <1>14, <1>15, <1>16, <1>17 DEF Next, User, Network, Async, ExecuteTask

(* The invariant that carries the two theorems below.                      *)
THEOREM Inductive == Spec => []IInv
BY InitAccounting, InitNewest, StepIInv, PTL DEF Spec, IInv

(* Each query's callback is called once, and no query is forgotten.        *)
THEOREM CallbackOnce == Spec => []AnsweredOnce
<1>1. IInv => AnsweredOnce
  BY DEF IInv, Accounting
<1> QED BY <1>1, Inductive, PTL

LEMMA RunNeverStale ==
    ASSUME Newest, NEW s, NEW generation, NEW retried, NEW rest,
           connect_to_lobby_with_mode(s, generation, retried, rest)
    PROVE  ConnectsNewest
BY DEF connect_to_lobby_with_mode, connect_to_lobby, is_current_join, ConnectsNewest, Newest

LEMMA StepConnects == IInv /\ [Next]_vars => ConnectsNewest
<1> SUFFICES ASSUME IInv, [Next]_vars PROVE ConnectsNewest
  OBVIOUS
<1>1. CASE \E i \in 1 .. Len(tasks) : verify(i)
  <2>1. PICK i \in 1 .. Len(tasks) : verify(i)
    BY <1>1
  <2>2. CASE natives' = natives
    BY <2>2 DEF ConnectsNewest
  <2>3. CASE natives' # natives
    <3>1. connect_to_lobby_with_mode(tasks[i].server, tasks[i].generation, FALSE, Without(i))
      BY <2>1, <2>3 DEF verify, VerifyMissing
    <3> QED BY <3>1, RunNeverStale DEF IInv
  <2> QED BY <2>2, <2>3
<1>2. CASE \E i \in 1 .. Len(tasks) : retry_with_mode(i)
  BY <1>2, RunNeverStale DEF IInv, retry_with_mode
<1>3. CASE /\ ~\E i \in 1 .. Len(tasks) : verify(i)
           /\ ~\E i \in 1 .. Len(tasks) : retry_with_mode(i)
  <2>1. natives' = natives
    BY <1>3 DEF Next, User, connect, Browse, Network, Answer, handle_info_response, Async,
         cleanup_queried_servers, callback_false, perform_download, success_callback,
         Engine, Com_SwitchMode, Leave, com_error_missing_map, ExecuteTask,
         requery_current_server, launch_mode, retire_join_policy, pre_destroy, Elapse,
         download_ends, vars
  <2> QED BY <2>1 DEF ConnectsNewest
<1> QED BY <1>1, <1>2, <1>3

(* A mode is asked for in launch_mode only, which asks is_current_join.    *)
LEMMA StepSwitches == IInv /\ [Next]_vars => SwitchesNewest
<1> SUFFICES ASSUME IInv, [Next]_vars, switching' # switching PROVE SwitchesNewest
  BY DEF SwitchesNewest
<1>1. \E i \in 1 .. Len(tasks) : launch_mode(i)
  BY DEF Next, User, connect, Browse, Network, Answer, handle_info_response, Async,
         cleanup_queried_servers, callback_false, perform_download, success_callback,
         Engine, Com_SwitchMode, Leave, com_error_missing_map, ExecuteTask,
         requery_current_server, verify, retry_with_mode, retire_join_policy, pre_destroy,
         Elapse, download_ends, engine, vars
<1>2. PICK i \in 1 .. Len(tasks) : launch_mode(i)
  BY <1>1
<1>3. /\ is_current_join(tasks[i].server, tasks[i].generation)
      /\ switching' = ModeOf[tasks[i].server]
  BY <1>2 DEF launch_mode
<1>4. tasks[i].generation = policy.generation /\ tasks[i].server = connect_host
  BY <1>3 DEF is_current_join, IInv, Newest
<1> QED BY <1>2, <1>3, <1>4 DEF SwitchesNewest

(* connect_to_lobby only ever joins the server that connect was asked for  *)
(* last, and launch_mode only ever switches to its mode, whatever queries, *)
(* retries and downloads are left of earlier joins.                        *)
THEOREM NewestOnly == Spec => NeverStale
<1>1. IInv /\ [Next]_vars => ConnectsNewest /\ SwitchesNewest
  BY StepConnects, StepSwitches
<1>2. Spec => [][ConnectsNewest /\ SwitchesNewest]_vars
  BY <1>1, Inductive, PTL DEF Spec
<1> QED BY <1>2 DEF NeverStale

-----------------------------------------------------------------------------
(* The tasks of a join name the server they join.                          *)
TasksNamed ==
    \A i \in 1 .. Len(tasks) : tasks[i].kind # "requery" => tasks[i].server \in Server

Typed == TypeOK /\ TasksNamed

LEMMA WithoutOne ==
    ASSUME tasks \in Seq(Tasks), NEW i \in 1 .. Len(tasks)
    PROVE  /\ Without(i) \in Seq(Tasks)
           /\ Len(Without(i)) = Len(tasks) - 1
           /\ \A j \in 1 .. Len(Without(i)) :
                Without(i)[j] = tasks[IF j < i THEN j ELSE j + 1]
<1>1. Len(tasks) \in Nat /\ i \in Nat /\ Len(tasks) - 1 \in Nat
  OBVIOUS
<1>2. \A j \in 1 .. Len(tasks) - 1 : (IF j < i THEN tasks[j] ELSE tasks[j + 1]) \in Tasks
  BY <1>1
<1> QED BY <1>1, <1>2 DEF Without

LEMMA ElementOf ==
    ASSUME NEW S, NEW xs \in Seq(S), NEW i \in 1 .. Len(xs)
    PROVE  xs[i] \in S
OBVIOUS

LEMMA OneMoreTask ==
    ASSUME NEW rest \in Seq(Tasks), NEW t \in Tasks,
           \A i \in 1 .. Len(rest) : rest[i].kind # "requery" => rest[i].server \in Server,
           t.kind # "requery" => t.server \in Server
    PROVE  /\ Append(rest, t) \in Seq(Tasks)
           /\ \A i \in 1 .. Len(Append(rest, t)) :
                Append(rest, t)[i].kind # "requery" => Append(rest, t)[i].server \in Server
<1>1. Append(rest, t) \in Seq(Tasks) /\ Len(Append(rest, t)) = Len(rest) + 1
  OBVIOUS
<1>2. Append(rest, t)[Len(rest) + 1] = t
  OBVIOUS
<1>3. \A i \in 1 .. Len(rest) : Append(rest, t)[i] = rest[i]
  OBVIOUS
<1>4. \A i \in 1 .. Len(rest) + 1 : i = Len(rest) + 1 \/ i \in 1 .. Len(rest)
  OBVIOUS
<1> QED BY <1>1, <1>2, <1>3, <1>4

LEMMA WithoutNamed ==
    ASSUME Typed, NEW i \in 1 .. Len(tasks)
    PROVE  /\ Without(i) \in Seq(Tasks)
           /\ \A j \in 1 .. Len(Without(i)) :
                Without(i)[j].kind # "requery" => Without(i)[j].server \in Server
<1>1. tasks \in Seq(Tasks) /\ TasksNamed
  BY DEF Typed, TypeOK
<1>2. /\ Without(i) \in Seq(Tasks)
      /\ Len(Without(i)) = Len(tasks) - 1
      /\ \A j \in 1 .. Len(Without(i)) : Without(i)[j] = tasks[IF j < i THEN j ELSE j + 1]
  BY <1>1, WithoutOne
<1>3. \A j \in 1 .. Len(tasks) - 1 : (IF j < i THEN j ELSE j + 1) \in 1 .. Len(tasks)
  BY <1>1
<1> QED BY <1>1, <1>2, <1>3 DEF TasksNamed

LEMMA InitTyped == Init => Typed
<1> SUFFICES ASSUME Init PROVE Typed
  OBVIOUS
<1> USE PartyAssumption
<1>1. tasks = <<>> /\ query = <<>> /\ downloads = <<>>
  BY DEF Init
<1>2. /\ tasks \in Seq(Tasks) /\ downloads \in Seq(Server)
      /\ query \in Seq([host : Server, generation : 0 .. MaxJoins])
      /\ Len(query) = 0 /\ Len(tasks) = 0
  BY <1>1
<1>3. policy \in [server : Peer, generation : 0 .. MaxJoins,
                  current_join : BOOLEAN, join_started : BOOLEAN]
  BY DEF Init, NoPolicy, Peer
<1>4. answered \in [Query -> Nat] /\ natives \in [1 .. MaxJoins -> Nat]
  BY DEF Init, Query
<1>5. mode \in Mode /\ switching \in Mode /\ maps \subseteq Server
  BY DEF Init
<1>6. /\ server_queries = {} /\ sent = {} /\ late = {} /\ removed = {} /\ answers = {}
      /\ connect_host = NoServer /\ download = NoServer /\ cached_server_info = NoServer
      /\ connection = NoServer /\ download_active = FALSE /\ destroyed = FALSE
  BY DEF Init
<1>7. TasksNamed
  BY <1>2 DEF TasksNamed
<1>8. server_queries \subseteq 1 .. Len(query) /\ sent \subseteq 1 .. Len(query)
      /\ removed \subseteq sent /\ late \subseteq sent
      /\ answers \subseteq [query : sent, accepted : BOOLEAN]
  BY <1>6
<1>9. /\ connect_host \in Peer /\ download \in Peer /\ cached_server_info \in Peer
      /\ connection \in Peer /\ download_active \in BOOLEAN /\ destroyed \in BOOLEAN
      /\ ~download_active
  BY <1>6 DEF Peer
<1>10. Len(query) <= MaxQueries
  BY <1>2
<1> QED BY <1>2, <1>3, <1>4, <1>5, <1>7, <1>8, <1>9, <1>10 DEF Typed, TypeOK

(* A new query, of a join or of the browser.                               *)
LEMMA QueryTyped ==
    ASSUME TypeOK, NEW s \in Server, NEW g \in 0 .. MaxJoins, query_server(s, g)
    PROVE  /\ query' \in Seq([host : Server, generation : 0 .. MaxJoins])
           /\ Len(query') <= MaxQueries
           /\ server_queries' \subseteq 1 .. Len(query') /\ removed' \subseteq sent'
           /\ late' \subseteq sent' /\ sent' \subseteq 1 .. Len(query')
           /\ answers' \subseteq [query : sent', accepted : BOOLEAN]
           /\ answered' \in [Query -> Nat]
<1> USE PartyAssumption
<1>1. /\ query \in Seq([host : Server, generation : 0 .. MaxJoins])
      /\ Len(query) \in Nat
      /\ server_queries \subseteq 1 .. Len(query) /\ sent \subseteq 1 .. Len(query)
  BY DEF TypeOK
<1>2. [host |-> s, generation |-> g] \in [host : Server, generation : 0 .. MaxJoins]
  OBVIOUS
<1>3. /\ query' \in Seq([host : Server, generation : 0 .. MaxJoins])
      /\ Len(query') = Len(query) + 1
      /\ Len(query') <= MaxQueries
  BY <1>1, <1>2 DEF query_server
<1>4. server_queries' = server_queries \cup {Len(query) + 1}
  BY DEF query_server
<1>5. 1 .. Len(query') = 1 .. Len(query) \cup {Len(query) + 1}
  BY <1>1, <1>3
<1>6. UNCHANGED <<sent, late, answers, removed, answered>>
  BY DEF query_server
<1>7. server_queries' \subseteq 1 .. Len(query') /\ sent' \subseteq 1 .. Len(query')
  BY <1>1, <1>4, <1>5, <1>6
<1> QED BY <1>3, <1>6, <1>7 DEF TypeOK

LEMMA BeginTyped ==
    ASSUME Typed, NEW s \in Server, begin_join(s)
    PROVE  /\ policy' \in [server : Peer, generation : 0 .. MaxJoins,
                           current_join : BOOLEAN, join_started : BOOLEAN]
           /\ query' \in Seq([host : Server, generation : 0 .. MaxJoins])
           /\ Len(query') <= MaxQueries
           /\ server_queries' \subseteq 1 .. Len(query') /\ removed' \subseteq sent'
           /\ late' \subseteq sent' /\ sent' \subseteq 1 .. Len(query')
           /\ answers' \subseteq [query : sent', accepted : BOOLEAN]
           /\ answered' \in [Query -> Nat]
<1> USE PartyAssumption
<1>1. policy.generation \in 0 .. MaxJoins /\ policy.generation + 1 \in 0 .. MaxJoins
  BY DEF Typed, TypeOK, begin_join
<1>2. query_server(s, policy.generation + 1)
  BY DEF begin_join
<1>3. policy' \in [server : Peer, generation : 0 .. MaxJoins,
                   current_join : BOOLEAN, join_started : BOOLEAN]
  BY <1>1 DEF begin_join, Peer
<1> QED BY <1>1, <1>2, <1>3, QueryTyped DEF Typed

(* Queries sent and timed out.                                             *)
LEMMA SendTyped ==
    ASSUME TypeOK, SendAndRemove, UNCHANGED <<query, late, answers>>
    PROVE  /\ query' \in Seq([host : Server, generation : 0 .. MaxJoins])
           /\ Len(query') <= MaxQueries
           /\ server_queries' \subseteq 1 .. Len(query')
           /\ Timed \subseteq sent' /\ sent \subseteq sent'
           /\ late' \subseteq sent' /\ sent' \subseteq 1 .. Len(query')
           /\ answers' \subseteq [query : sent', accepted : BOOLEAN]
<1>1. ToSend \subseteq server_queries
  BY DEF ToSend, Unsent
<1> QED BY <1>1 DEF TypeOK, SendAndRemove, Timed

(* The step that reaches the engine, schedules a retry or gives up.        *)
LEMMA RunTyped ==
    ASSUME Typed, NEW i \in 1 .. Len(tasks), tasks[i].kind # "requery", NEW retried \in BOOLEAN,
           connect_to_lobby_with_mode(tasks[i].server, tasks[i].generation, retried, Without(i))
    PROVE  /\ tasks' \in Seq(Tasks) /\ TasksNamed'
           /\ policy' \in [server : Peer, generation : 0 .. MaxJoins,
                           current_join : BOOLEAN, join_started : BOOLEAN]
           /\ connection' \in Peer
           /\ natives' \in [1 .. MaxJoins -> Nat]
<1> DEFINE s == tasks[i].server
           g == tasks[i].generation
           rest == Without(i)
<1>1. /\ rest \in Seq(Tasks)
      /\ \A j \in 1 .. Len(rest) : rest[j].kind # "requery" => rest[j].server \in Server
  BY WithoutNamed
<1>2. s \in Server /\ s \in Peer /\ g \in 0 .. MaxJoins
  <2>1. tasks[i] \in Tasks /\ s \in Server
    BY DEF Typed, TypeOK, TasksNamed
  <2> QED BY <2>1 DEF Tasks, Peer
<1>3. CASE ~is_current_join(s, g)
  <2>1. tasks' = rest /\ UNCHANGED <<policy, connection, natives>>
    BY <1>3 DEF connect_to_lobby_with_mode
  <2> QED BY <1>1, <2>1 DEF Typed, TypeOK, TasksNamed
<1>4. CASE is_current_join(s, g) /\ mode = ModeOf[s]
  <2>1. tasks' = rest /\ connect_to_lobby(s, g)
    BY <1>4 DEF connect_to_lobby_with_mode
  <2>2. policy' \in [server : Peer, generation : 0 .. MaxJoins,
                     current_join : BOOLEAN, join_started : BOOLEAN]
    BY <2>1 DEF connect_to_lobby, Typed, TypeOK
  <2>3. natives' \in [1 .. MaxJoins -> Nat]
    <3>1. natives' = [natives EXCEPT ![g] = @ + 1] /\ natives \in [1 .. MaxJoins -> Nat]
      BY <2>1 DEF connect_to_lobby, Typed, TypeOK
    <3> HIDE DEF g
    <3>2. \A x \in 1 .. MaxJoins : natives'[x] \in Nat
      BY <3>1
    <3> QED BY <3>1, <3>2
  <2>4. connection' \in Peer
    BY <1>2, <2>1 DEF connect_to_lobby
  <2> QED BY <1>1, <2>1, <2>2, <2>3, <2>4 DEF TasksNamed
<1>5. CASE is_current_join(s, g) /\ mode # ModeOf[s]
  <2>1. /\ tasks' = IF retried THEN rest
                    ELSE rest \o <<Task("connect_with_mode", s, g, TRUE),
                                   Task("launch_mode", s, g, FALSE)>>
        /\ UNCHANGED <<policy, connection, natives>>
    BY <1>5 DEF connect_to_lobby_with_mode
  <2>2. CASE retried
    BY <1>1, <2>1, <2>2 DEF Typed, TypeOK, TasksNamed
  <2>3. CASE ~retried
    <3> DEFINE t == Task("connect_with_mode", s, g, TRUE)
               u == Task("launch_mode", s, g, FALSE)
    <3> HIDE DEF s, g
    <3>1. t \in Tasks /\ t.server \in Server
      BY <1>2 DEF Task, Tasks
    <3>2. u \in Tasks /\ u.server \in Server
      BY <1>2 DEF Task, Tasks
    <3> HIDE DEF t, u, rest
    <3>3. tasks' = rest \o <<t, u>>
      BY <2>1, <2>3 DEF t, u, rest, s, g
    <3>4. tasks' = Append(Append(rest, t), u)
      BY <1>1, <3>1, <3>2, <3>3
    <3>5. /\ Append(rest, t) \in Seq(Tasks)
          /\ \A j \in 1 .. Len(Append(rest, t)) :
               Append(rest, t)[j].kind # "requery" => Append(rest, t)[j].server \in Server
      BY <1>1, <3>1, OneMoreTask
    <3>6. tasks' \in Seq(Tasks) /\ TasksNamed'
      BY <3>2, <3>4, <3>5, OneMoreTask DEF TasksNamed
    <3> QED BY <2>1, <3>6 DEF Typed, TypeOK
  <2> QED BY <2>2, <2>3
<1> QED BY <1>3, <1>4, <1>5

LEMMA StepTyped == Typed /\ [Next]_vars => Typed'
<1> SUFFICES ASSUME Typed, [Next]_vars PROVE Typed'
  OBVIOUS
<1> USE PartyAssumption
<1>0. TypeOK /\ TasksNamed /\ policy.generation \in 0 .. MaxJoins
  BY DEF Typed, TypeOK
<1>1. ASSUME NEW s \in Server, connect(s) PROVE Typed'
  <2>1. begin_join(s)
    BY <1>1 DEF connect
  <2>2. UNCHANGED <<tasks, engine, fastdl, cached_server_info, natives, destroyed>>
    BY <1>1 DEF connect
  <2>3. connect_host' \in Peer
    BY <1>1 DEF connect, Peer
  <2> QED BY <1>0, <2>1, <2>2, <2>3, BeginTyped DEF Typed, TypeOK, TasksNamed, engine, fastdl
<1>2. ASSUME NEW s \in Server, Browse(s) PROVE Typed'
  <2>1. query_server(s, Browser) /\ Browser \in 0 .. MaxJoins
    BY <1>2 DEF Browse, Browser
  <2>2. UNCHANGED <<connect_host, policy, tasks, engine, fastdl, cached_server_info, natives,
                    destroyed>>
    BY <1>2 DEF Browse
  <2> QED BY <1>0, <2>1, <2>2, QueryTyped DEF Typed, TypeOK, TasksNamed, engine, fastdl
<1>3. ASSUME NEW q \in Query, NEW accepted \in BOOLEAN, Answer(q, accepted) PROVE Typed'
  <2>1. /\ q \in server_queries \cap sent
        /\ answers' = answers \cup {[query |-> q, accepted |-> accepted]}
        /\ UNCHANGED <<connect_host, policy, query, server_queries, sent, late, removed, answered,
                       tasks, engine, fastdl, cached_server_info, natives, destroyed>>
    BY <1>3 DEF Answer
  <2>2. answers' \subseteq [query : sent', accepted : BOOLEAN]
    BY <1>0, <2>1 DEF TypeOK
  <2> QED BY <1>0, <2>1, <2>2 DEF Typed, TypeOK, TasksNamed, engine, fastdl
<1>4. ASSUME NEW a \in answers, handle_info_response(a) PROVE Typed'
  <2>1. a.query \in 1 .. Len(query) /\ a.query \in Query
    <3>1. a.query \in server_queries /\ server_queries \subseteq 1 .. Len(query)
      BY <1>0, <1>4 DEF handle_info_response, TypeOK
    <3>2. Len(query) \in Nat /\ Len(query) <= MaxQueries
      BY <1>0 DEF TypeOK
    <3>3. \A q \in 1 .. Len(query) : q \in Query
      BY <3>2 DEF Query
    <3> QED BY <3>1, <3>3
  <2>2. /\ UNCHANGED <<connect_host, policy, query, sent, late, answers, removed,
                       engine, fastdl, natives, destroyed>>
        /\ server_queries' \subseteq server_queries
        /\ answered' = [answered EXCEPT ![a.query] = @ + 1]
    BY <1>4 DEF handle_info_response
  <2>3. answered' \in [Query -> Nat]
    BY <1>0, <2>1, <2>2 DEF TypeOK
  <2>4. cached_server_info' \in Peer /\ tasks' \in Seq(Tasks) /\ TasksNamed'
    <3>1. CASE UNCHANGED <<cached_server_info, tasks>>
      BY <1>0, <3>1 DEF TypeOK, TasksNamed
    <3>2. CASE handle_connect_query_response(query[a.query].host, query[a.query].generation,
                                             a.accepted)
      <4> DEFINE s == query[a.query].host
                 g == query[a.query].generation
                 t == Task("verify", s, g, FALSE)
      <4>1. s \in Server /\ s \in Peer /\ g \in 0 .. MaxJoins
        <5>1. query \in Seq([host : Server, generation : 0 .. MaxJoins])
          BY <1>0 DEF TypeOK
        <5>2. query[a.query] \in [host : Server, generation : 0 .. MaxJoins]
          BY <2>1, <5>1, ElementOf
        <5> QED BY <5>2 DEF Peer
      <4> HIDE DEF s, g
      <4>2. t \in Tasks /\ t.server \in Server
        BY <4>1 DEF Task, Tasks
      <4>3. /\ cached_server_info' \in {s, cached_server_info}
            /\ tasks' \in {tasks, Append(tasks, t)}
        BY <3>2 DEF handle_connect_query_response, s, g
      <4>4. tasks \in Seq(Tasks) /\ cached_server_info \in Peer
        BY <1>0 DEF TypeOK
      <4> HIDE DEF t
      <4>5. /\ Append(tasks, t) \in Seq(Tasks)
            /\ \A i \in 1 .. Len(Append(tasks, t)) :
                 Append(tasks, t)[i].kind # "requery" => Append(tasks, t)[i].server \in Server
        BY <1>0, <4>2, <4>4, OneMoreTask DEF TasksNamed
      <4> QED BY <1>0, <4>1, <4>3, <4>4, <4>5 DEF TasksNamed
    <3> QED BY <1>4, <3>1, <3>2 DEF handle_info_response
  <2> QED BY <1>0, <2>2, <2>3, <2>4 DEF Typed, TypeOK, engine, fastdl
<1>5. ASSUME cleanup_queried_servers PROVE Typed'
  <2>1. /\ SendAndRemove
        /\ removed' = Timed
        /\ UNCHANGED <<connect_host, policy, query, late, answers, answered, tasks,
                       engine, fastdl, cached_server_info, natives, destroyed>>
    BY <1>5 DEF cleanup_queried_servers
  <2> QED BY <1>0, <2>1, SendTyped DEF Typed, TypeOK, TasksNamed, engine, fastdl
<1>6. ASSUME callback_false PROVE Typed'
  <2>1. PICK q \in removed :
          /\ removed' = removed \ {q}
          /\ answered' = [answered EXCEPT ![q] = @ + 1]
          /\ UNCHANGED <<connect_host, policy, query, server_queries, sent, late, answers,
                         tasks, engine, fastdl, cached_server_info, natives, destroyed>>
    BY <1>6 DEF callback_false
  <2>2. q \in Query
    BY <1>0 DEF TypeOK, Query
  <2>3. answered' \in [Query -> Nat]
    BY <1>0, <2>1, <2>2 DEF TypeOK
  <2> QED BY <1>0, <2>1, <2>3 DEF Typed, TypeOK, TasksNamed, engine, fastdl
<1>7. ASSUME NEW i \in 1 .. Len(tasks), requery_current_server(i) PROVE Typed'
  <2>1. /\ tasks' = Without(i)
        /\ maps' = maps \cup ({tasks[i].server} \ {NoServer})
        /\ UNCHANGED <<connect_host, engine, downloads, download, download_active,
                       cached_server_info, natives, destroyed>>
    BY <1>7 DEF requery_current_server
  <2>2. tasks' \in Seq(Tasks) /\ TasksNamed'
    BY <2>1, WithoutNamed DEF TasksNamed
  <2>3. maps' \subseteq Server
    <3>1. tasks[i] \in Tasks /\ maps \subseteq Server
      BY <1>0 DEF TypeOK
    <3> QED BY <2>1, <3>1 DEF Tasks, Peer
  <2>4. CASE connect_host = NoServer
    <3>1. UNCHANGED <<policy, queries>>
      BY <1>7, <2>4 DEF requery_current_server
    <3> QED BY <1>0, <2>1, <2>2, <2>3, <3>1 DEF Typed, TypeOK, engine, queries
  <2>5. CASE connect_host # NoServer
    <3>1. begin_join(connect_host) /\ connect_host \in Server
      BY <1>0, <1>7, <2>5 DEF requery_current_server, TypeOK, Peer
    <3> QED BY <1>0, <2>1, <2>2, <2>3, <3>1, BeginTyped DEF Typed, TypeOK, engine
  <2> QED BY <2>4, <2>5
<1>8. ASSUME NEW i \in 1 .. Len(tasks), verify(i) PROVE Typed'
  <2> DEFINE s == tasks[i].server
             g == tasks[i].generation
  <2>1. UNCHANGED <<connect_host, query, late, answers, removed, mode, switching, maps,
                    download, download_active, cached_server_info, destroyed>>
    BY <1>8 DEF verify
  <2>2. tasks[i].kind = "verify" /\ s \in Server
    BY <1>0, <1>8 DEF verify, TasksNamed
  <2>3. CASE is_current_join(s, g) /\ s \notin maps
    <3>1. VerifyMissing(s) /\ tasks' = Without(i)
      BY <1>8, <2>3 DEF verify
    <3>2. /\ SendAndRemove
          /\ UNCHANGED <<policy, connection, natives>>
          /\ answered' = [q \in Query |-> IF q \in Timed THEN answered[q] + 1 ELSE answered[q]]
      BY <3>1 DEF VerifyMissing
    <3>3. answered' \in [Query -> Nat]
      BY <1>0, <3>2 DEF TypeOK
    <3>4. downloads' \in Seq(Server)
      <4>1. downloads' \in {downloads, Append(downloads, s)} /\ downloads \in Seq(Server)
        BY <1>0, <3>1 DEF VerifyMissing, start_map_download, TypeOK
      <4> HIDE DEF s
      <4> QED BY <2>2, <4>1
    <3>5. tasks' \in Seq(Tasks) /\ TasksNamed'
      BY <3>1, WithoutNamed DEF TasksNamed
    <3>6. removed' \subseteq sent'
      BY <1>0, <2>1, <3>2, SendTyped DEF TypeOK
    <3> QED BY <1>0, <2>1, <3>2, <3>3, <3>4, <3>5, <3>6, SendTyped DEF Typed, TypeOK
  <2>4. CASE ~(is_current_join(s, g) /\ s \notin maps)
    <3>1. /\ connect_to_lobby_with_mode(s, g, FALSE, Without(i))
          /\ UNCHANGED <<downloads, server_queries, sent, answered>>
      BY <1>8, <2>4 DEF verify
    <3> QED BY <1>0, <2>1, <2>2, <3>1, RunTyped DEF Typed, TypeOK
  <2> QED BY <2>3, <2>4
<1>9. ASSUME NEW i \in 1 .. Len(tasks), retry_with_mode(i) PROVE Typed'
  <2>1. /\ tasks[i].kind # "requery"
        /\ connect_to_lobby_with_mode(tasks[i].server, tasks[i].generation, TRUE, Without(i))
        /\ UNCHANGED <<connect_host, queries, mode, switching, fastdl, cached_server_info,
                       destroyed>>
    BY <1>9 DEF retry_with_mode
  <2> QED BY <1>0, <2>1, RunTyped DEF Typed, TypeOK, queries, fastdl
<1>10. ASSUME NEW i \in 1 .. Len(tasks), launch_mode(i) PROVE Typed'
  <2>1. /\ tasks' = Without(i) /\ tasks[i].kind = "launch_mode"
        /\ switching' \in {ModeOf[tasks[i].server], switching}
        /\ UNCHANGED <<connect_host, policy, queries, mode, connection, fastdl,
                       cached_server_info, natives, destroyed>>
    BY <1>10 DEF launch_mode
  <2>2. tasks' \in Seq(Tasks) /\ TasksNamed'
    BY <2>1, WithoutNamed DEF TasksNamed
  <2>3. switching' \in Mode
    BY <1>0, <2>1 DEF TypeOK, TasksNamed
  <2> QED BY <1>0, <2>1, <2>2, <2>3 DEF Typed, TypeOK, queries, fastdl
<1>11. ASSUME retire_join_policy PROVE Typed'
  <2>1. policy' \in [server : Peer, generation : 0 .. MaxJoins,
                     current_join : BOOLEAN, join_started : BOOLEAN]
    BY <1>0, <1>11 DEF retire_join_policy, TypeOK
  <2>2. UNCHANGED <<connect_host, queries, tasks, engine, fastdl, cached_server_info, natives,
                    destroyed>>
    BY <1>11 DEF retire_join_policy
  <2> QED BY <1>0, <2>1, <2>2 DEF Typed, TypeOK, TasksNamed, queries, engine, fastdl
<1>12. ASSUME pre_destroy PROVE Typed'
  BY <1>0, <1>12 DEF pre_destroy, Typed, TypeOK, TasksNamed, engine, fastdl
<1>13. ASSUME NEW q \in Query, Elapse(q) PROVE Typed'
  BY <1>0, <1>13 DEF Elapse, Typed, TypeOK, TasksNamed, engine, fastdl
<1>14. ASSUME NEW complete \in BOOLEAN, download_ends(complete) PROVE Typed'
  <2>1. /\ download_active' = FALSE /\ download' \in {download, NoServer}
        /\ UNCHANGED <<connect_host, policy, queries, tasks, engine, maps, downloads,
                       cached_server_info, natives, destroyed>>
    BY <1>14 DEF download_ends
  <2> QED BY <1>0, <2>1 DEF Typed, TypeOK, TasksNamed, queries, engine, Peer
<1>15. ASSUME perform_download PROVE Typed'
  <2>1. /\ UNCHANGED <<connect_host, policy, queries, tasks, engine, maps, cached_server_info,
                       natives, destroyed>>
        /\ downloads # <<>> /\ download' = Head(downloads)
        /\ downloads' = Tail(downloads) /\ download_active' = TRUE
    BY <1>15 DEF perform_download
  <2>2. download' \in Server /\ downloads' \in Seq(Server)
    BY <1>0, <2>1 DEF TypeOK
  <2> QED BY <1>0, <2>1, <2>2 DEF Typed, TypeOK, TasksNamed, queries, engine, Peer
<1>16. ASSUME success_callback PROVE Typed'
  <2>1. /\ UNCHANGED <<connect_host, policy, queries, engine, maps, downloads,
                       download_active, cached_server_info, natives, destroyed>>
        /\ download' = NoServer /\ ~download_active
        /\ tasks' = Append(tasks, Task("requery", download, 0, FALSE))
    BY <1>16 DEF success_callback
  <2>2. Task("requery", download, 0, FALSE) \in Tasks
        /\ Task("requery", download, 0, FALSE).kind = "requery"
    BY <1>0 DEF TypeOK, Task, Tasks
  <2>3. tasks \in Seq(Tasks)
    BY <1>0 DEF TypeOK
  <2>4. tasks' \in Seq(Tasks) /\ TasksNamed'
    BY <1>0, <2>1, <2>2, <2>3, OneMoreTask DEF TasksNamed
  <2> QED BY <1>0, <2>1, <2>4 DEF Typed, TypeOK, queries, engine, Peer
<1>17. ASSUME Com_SwitchMode \/ Leave PROVE Typed'
  <2>1. /\ mode' \in {mode, switching} /\ connection' \in {connection, NoServer}
        /\ UNCHANGED <<connect_host, policy, queries, tasks, switching, fastdl,
                       cached_server_info, natives, destroyed>>
    BY <1>17 DEF Com_SwitchMode, Leave
  <2>2. mode' \in Mode /\ connection' \in Peer
    BY <1>0, <2>1 DEF TypeOK, Peer
  <2> QED BY <1>0, <2>1, <2>2 DEF Typed, TypeOK, TasksNamed, queries, fastdl
<1>18. ASSUME com_error_missing_map PROVE Typed'
  <2>1. /\ UNCHANGED <<connect_host, policy, queries, mode, switching, downloads, download,
                       download_active, cached_server_info, natives, destroyed>>
        /\ connection' = NoServer /\ maps' \subseteq maps
        /\ tasks' = Append(tasks, Task("requery", NoServer, 0, TRUE))
    BY <1>18 DEF com_error_missing_map
  <2>2. Task("requery", NoServer, 0, TRUE) \in Tasks
        /\ Task("requery", NoServer, 0, TRUE).kind = "requery"
    BY DEF Peer, Task, Tasks
  <2>3. tasks \in Seq(Tasks)
    BY <1>0 DEF TypeOK
  <2>4. tasks' \in Seq(Tasks) /\ TasksNamed'
    BY <1>0, <2>1, <2>2, <2>3, OneMoreTask DEF TasksNamed
  <2> QED BY <1>0, <2>1, <2>4 DEF Typed, TypeOK, queries, Peer
<1>19. ASSUME UNCHANGED vars PROVE Typed'
  BY <1>0, <1>19 DEF vars, queries, engine, fastdl, Typed, TypeOK, TasksNamed
<1> QED
  BY <1>1, <1>2, <1>3, <1>4, <1>5, <1>6, <1>7, <1>8, <1>9, <1>10, <1>11, <1>12, <1>13,
     <1>14, <1>15, <1>16, <1>17, <1>18, <1>19
  DEF Next, User, Network, Async, Engine, ExecuteTask

(* The tasks, queries, downloads and the policy keep their types.          *)
THEOREM TypeCorrect == Spec => []TypeOK
<1>1. Typed => TypeOK
  BY DEF Typed
<1> QED BY InitTyped, StepTyped, <1>1, PTL DEF Spec

-----------------------------------------------------------------------------
(* One holder of a generation: its query while that is in the list, then a *)
(* task, then the engine.                                                  *)
Pursuing(t) == t.kind \in {"verify", "connect_with_mode"}

Distinct(ts) ==
    \A i, j \in 1 .. Len(ts) :
        Pursuing(ts[i]) /\ Pursuing(ts[j]) /\ ts[i].generation = ts[j].generation => i = j

Holds(ts, g) == \E i \in 1 .. Len(ts) : Pursuing(ts[i]) /\ ts[i].generation = g

Asked(g) == \E q \in server_queries : query[q].generation = g

(* Each generation but the browser's has one query.                        *)
OneQuery ==
    /\ \A p, q \in 1 .. Len(query) :
         query[p].generation = query[q].generation /\ query[p].generation # Browser => p = q
    /\ \A q \in 1 .. Len(query) : query[q].generation <= policy.generation

OneHolder ==
    /\ Distinct(tasks)
    /\ \A g \in 1 .. MaxJoins :
         /\ Holds(tasks, g) => g <= policy.generation /\ ~Asked(g) /\ natives[g] = 0
         /\ Asked(g) => natives[g] = 0
         /\ g > policy.generation => natives[g] = 0
    /\ JoinsOnce

JInv == Typed /\ OneQuery /\ OneHolder

LEMMA HoldsFewer ==
    ASSUME tasks \in Seq(Tasks), NEW i \in 1 .. Len(tasks), Distinct(tasks)
    PROVE  /\ Without(i) \in Seq(Tasks)
           /\ Distinct(Without(i))
           /\ \A g : Holds(Without(i), g) => Holds(tasks, g)
           /\ Pursuing(tasks[i]) => ~Holds(Without(i), tasks[i].generation)
<1> DEFINE rest == Without(i)
           From(j) == IF j < i THEN j ELSE j + 1
<1>1. /\ rest \in Seq(Tasks)
      /\ Len(rest) = Len(tasks) - 1
      /\ \A j \in 1 .. Len(rest) : rest[j] = tasks[From(j)]
  BY WithoutOne
<1>2. \A j \in 1 .. Len(rest) : From(j) \in 1 .. Len(tasks) /\ From(j) # i
  BY <1>1
<1>3. \A j, k \in 1 .. Len(rest) : From(j) = From(k) => j = k
  BY <1>1
<1> HIDE DEF rest, From
<1>4. Distinct(rest)
  BY <1>1, <1>2, <1>3 DEF Distinct
<1>5. \A g : Holds(rest, g) => Holds(tasks, g)
  BY <1>1, <1>2 DEF Holds
<1>6. Pursuing(tasks[i]) => ~Holds(rest, tasks[i].generation)
  BY <1>1, <1>2 DEF Holds, Distinct
<1> QED BY <1>1, <1>4, <1>5, <1>6 DEF rest

LEMMA AppendParts ==
    ASSUME NEW ts \in Seq(Tasks), NEW t \in Tasks
    PROVE  /\ Append(ts, t) \in Seq(Tasks)
           /\ Len(Append(ts, t)) = Len(ts) + 1
           /\ Append(ts, t)[Len(ts) + 1] = t
           /\ \A i \in 1 .. Len(ts) : Append(ts, t)[i] = ts[i]
           /\ \A i \in 1 .. Len(ts) + 1 : i = Len(ts) + 1 \/ i \in 1 .. Len(ts)
           /\ Len(ts) + 1 \notin 1 .. Len(ts) /\ Len(ts) \in Nat
OBVIOUS

LEMMA HoldsMore ==
    ASSUME NEW ts \in Seq(Tasks), NEW t \in Tasks, Distinct(ts),
           Pursuing(t) => ~Holds(ts, t.generation)
    PROVE  /\ Append(ts, t) \in Seq(Tasks)
           /\ Distinct(Append(ts, t))
           /\ \A g : Holds(Append(ts, t), g) =>
                Holds(ts, g) \/ (Pursuing(t) /\ g = t.generation)
<1> DEFINE more == Append(ts, t)
           n == Len(ts)
<1>1. /\ more \in Seq(Tasks) /\ Len(more) = n + 1
      /\ more[n + 1] = t
      /\ \A i \in 1 .. n : more[i] = ts[i]
      /\ \A i \in 1 .. n + 1 : i = n + 1 \/ i \in 1 .. n
      /\ n + 1 \notin 1 .. n
  BY AppendParts
<1> HIDE DEF more
<1>2. \A i \in 1 .. n + 1, j \in 1 .. n + 1 :
        Pursuing(more[i]) /\ Pursuing(more[j]) /\ more[i].generation = more[j].generation
          => i = j
  <2> SUFFICES ASSUME NEW i \in 1 .. n + 1, NEW j \in 1 .. n + 1,
                      Pursuing(more[i]), Pursuing(more[j]),
                      more[i].generation = more[j].generation
               PROVE  i = j
    OBVIOUS
  <2>1. i \in 1 .. n \/ i = n + 1
    BY <1>1
  <2>2. j \in 1 .. n \/ j = n + 1
    BY <1>1
  <2>3. CASE i \in 1 .. n /\ j \in 1 .. n
    BY <1>1, <2>3 DEF Distinct
  <2>4. CASE i \in 1 .. n /\ j = n + 1
    BY <1>1, <2>4 DEF Holds
  <2>5. CASE i = n + 1 /\ j \in 1 .. n
    BY <1>1, <2>5 DEF Holds
  <2> QED BY <2>1, <2>2, <2>3, <2>4, <2>5
<1>3. Distinct(more)
  BY <1>1, <1>2 DEF Distinct
<1>4. \A g : Holds(more, g) => Holds(ts, g) \/ (Pursuing(t) /\ g = t.generation)
  BY <1>1 DEF Holds
<1> QED BY <1>1, <1>3, <1>4 DEF more

(* A step that begins no join, makes no native call and gives a generation *)
(* no holder it had not.                                                   *)
LEMMA QuietHolder ==
    ASSUME OneHolder, Distinct(tasks'),
           \A g \in 1 .. MaxJoins : Holds(tasks', g) => Holds(tasks, g),
           server_queries' \subseteq server_queries, UNCHANGED <<query, policy.generation, natives>>
    PROVE  OneHolder'
<1>1. \A g : Asked(g)' => Asked(g)
  BY DEF Asked
<1> QED BY <1>1 DEF OneHolder, JoinsOnce

LEMMA BeginHolder ==
    ASSUME JInv, NEW s \in Server, begin_join(s), UNCHANGED natives, Distinct(tasks'),
           \A g \in 1 .. MaxJoins : Holds(tasks', g) => Holds(tasks, g)
    PROVE  OneQuery' /\ OneHolder'
<1> USE PartyAssumption
<1> DEFINE G == policy.generation + 1
           n == Len(query)
           new == [host |-> s, generation |-> G]
<1>1. /\ query \in Seq([host : Server, generation : 0 .. MaxJoins]) /\ n \in Nat
      /\ server_queries \subseteq 1 .. n
      /\ policy.generation \in 0 .. MaxJoins
  BY DEF JInv, Typed, TypeOK
<1>2. /\ policy'.generation = G /\ G \in 1 .. MaxJoins /\ G > policy.generation
      /\ query' = Append(query, new)
      /\ server_queries' = server_queries \cup {n + 1}
      /\ natives' = natives
  BY <1>1 DEF begin_join, query_server
<1>3. /\ Len(query') = n + 1 /\ query'[n + 1].generation = G
      /\ \A q \in 1 .. n : query'[q] = query[q]
      /\ \A q \in 1 .. n + 1 : q = n + 1 \/ q \in 1 .. n
      /\ n + 1 \notin 1 .. n
  BY <1>1, <1>2
<1> HIDE DEF n, new, G
<1>4. \A q \in 1 .. n : query[q].generation <= policy.generation /\ query[q].generation \in Nat
  <2>1. \A q \in 1 .. n : query[q] \in [host : Server, generation : 0 .. MaxJoins]
    BY <1>1, ElementOf DEF n
  <2>2. \A q \in 1 .. n : query[q].generation <= policy.generation
    BY DEF JInv, OneQuery, n
  <2> QED BY <2>1, <2>2
<1>5. \A q \in 1 .. n : query'[q].generation # G
  BY <1>1, <1>2, <1>3, <1>4
<1>6. OneQuery'
  <2>1. \A p, q \in 1 .. n + 1 :
           query'[p].generation = query'[q].generation /\ query'[p].generation # Browser => p = q
    <3> SUFFICES ASSUME NEW p \in 1 .. n + 1, NEW q \in 1 .. n + 1,
                        query'[p].generation = query'[q].generation,
                        query'[p].generation # Browser
                 PROVE  p = q
      OBVIOUS
    <3>1. CASE p \in 1 .. n /\ q \in 1 .. n
      BY <1>3, <3>1 DEF JInv, OneQuery, n
    <3>2. CASE p = n + 1 \/ q = n + 1
      BY <1>3, <1>5, <3>2
    <3> QED BY <1>3, <3>1, <3>2
  <2>2. \A q \in 1 .. n + 1 : query'[q].generation <= policy'.generation
    BY <1>1, <1>2, <1>3, <1>4
  <2> QED BY <1>3, <2>1, <2>2 DEF OneQuery
<1>7. \A g : Asked(g)' => Asked(g) \/ g = G
  BY <1>1, <1>2, <1>3 DEF Asked
<1>8. \A g \in 1 .. MaxJoins :
        /\ Holds(tasks', g) => g <= G /\ ~Asked(g)' /\ natives'[g] = 0
        /\ Asked(g)' => natives'[g] = 0
        /\ g > G => natives'[g] = 0
  <2> SUFFICES ASSUME NEW g \in 1 .. MaxJoins
               PROVE  /\ Holds(tasks', g) => g <= G /\ ~Asked(g)' /\ natives'[g] = 0
                      /\ Asked(g)' => natives'[g] = 0
                      /\ g > G => natives'[g] = 0
    OBVIOUS
  <2>1. /\ Holds(tasks, g) => g <= policy.generation /\ ~Asked(g) /\ natives[g] = 0
        /\ Asked(g) => natives[g] = 0
        /\ g > policy.generation => natives[g] = 0
    BY DEF JInv, OneHolder
  <2>2. g > G => g > policy.generation
    BY <1>1, <1>2
  <2>3. g = G => g > policy.generation /\ ~(g <= policy.generation)
    BY <1>1, <1>2
  <2>4. g <= policy.generation => g <= G
    BY <1>1, <1>2
  <2>5. natives' = natives
    BY <1>2
  <2>6. Holds(tasks', g) => Holds(tasks, g)
    OBVIOUS
  <2>7. Asked(g)' => Asked(g) \/ g = G
    BY <1>7
  <2> QED BY <2>1, <2>2, <2>3, <2>4, <2>5, <2>6, <2>7
<1> QED BY <1>2, <1>6, <1>8 DEF JInv, OneHolder, JoinsOnce

LEMMA SameQueries ==
    ASSUME OneQuery, UNCHANGED <<query, policy.generation>>
    PROVE  OneQuery'
BY DEF OneQuery

(* The step that reaches the engine passes the generation on, to the retry *)
(* or to the engine, or drops it.                                          *)
LEMMA RunHolder ==
    ASSUME JInv, Newest, NEW i \in 1 .. Len(tasks), Pursuing(tasks[i]), NEW retried \in BOOLEAN,
           connect_to_lobby_with_mode(tasks[i].server, tasks[i].generation, retried, Without(i)),
           UNCHANGED <<query, server_queries>>
    PROVE  OneHolder' /\ policy'.generation = policy.generation
<1> DEFINE s == tasks[i].server
           g == tasks[i].generation
           rest == Without(i)
<1>1. /\ rest \in Seq(Tasks) /\ Distinct(rest)
      /\ \A h : Holds(rest, h) => Holds(tasks, h)
      /\ ~Holds(rest, g)
  BY HoldsFewer DEF JInv, Typed, TypeOK, OneHolder
<1>2. Holds(tasks, g) /\ s \in Peer /\ g \in 0 .. MaxJoins
  <2>1. tasks[i] \in Tasks
    BY ElementOf DEF JInv, Typed, TypeOK
  <2> QED BY <2>1 DEF Holds, Tasks
<1>3. CASE ~is_current_join(s, g)
  <2>1. tasks' = rest /\ UNCHANGED <<policy, connection, natives>>
    BY <1>3 DEF connect_to_lobby_with_mode
  <2> QED BY <1>1, <2>1, QuietHolder DEF JInv
<1>4. CASE is_current_join(s, g) /\ mode = ModeOf[s]
  <2>1. tasks' = rest /\ connect_to_lobby(s, g)
    BY <1>4 DEF connect_to_lobby_with_mode
  <2>2. g \in 1 .. MaxJoins /\ g = policy.generation /\ policy'.generation = policy.generation
    BY <1>2, <1>4, <2>1 DEF is_current_join, connect_to_lobby, Newest
  <2>3. natives \in [1 .. MaxJoins -> Nat] /\ natives[g] = 0 /\ ~Asked(g)
    BY <1>2, <2>2 DEF JInv, Typed, TypeOK, OneHolder
  <2>4. natives'[g] = 1 /\ \A h \in 1 .. MaxJoins : h # g => natives'[h] = natives[h]
    <3>1. natives' = [natives EXCEPT ![g] = @ + 1]
      BY <2>1 DEF connect_to_lobby
    <3> HIDE DEF g
    <3> QED BY <2>2, <2>3, <3>1
  <2> HIDE DEF g, s, rest
  <2>5. \A h : Asked(h)' <=> Asked(h)
    BY DEF Asked
  <2>6. g <= policy.generation
    BY <2>2
  <2>7. \A h \in 1 .. MaxJoins :
          /\ Holds(tasks', h) => h <= policy'.generation /\ ~Asked(h)' /\ natives'[h] = 0
          /\ Asked(h)' => natives'[h] = 0
          /\ h > policy'.generation => natives'[h] = 0
    <3> SUFFICES ASSUME NEW h \in 1 .. MaxJoins
                 PROVE  /\ Holds(tasks', h) => h <= policy'.generation /\ ~Asked(h)' /\ natives'[h] = 0
                        /\ Asked(h)' => natives'[h] = 0
                        /\ h > policy'.generation => natives'[h] = 0
      OBVIOUS
    <3>1. CASE h = g
      <4>1. ~Holds(tasks', h) /\ ~Asked(h)'
        BY <1>1, <2>1, <2>3, <2>5, <3>1
      <4>2. ~(h > policy'.generation)
        BY <2>2, <3>1
      <4> QED BY <4>1, <4>2
    <3>2. CASE h # g
      <4>1. natives'[h] = natives[h] /\ policy'.generation = policy.generation
        BY <2>2, <2>4, <3>2
      <4>2. Holds(tasks', h) => Holds(tasks, h)
        BY <1>1, <2>1
      <4> QED BY <2>5, <4>1, <4>2 DEF JInv, OneHolder
    <3> QED BY <3>1, <3>2
  <2>8. JoinsOnce'
    <3>1. \A h \in 1 .. MaxJoins : natives[h] <= 1
      BY DEF JInv, OneHolder, JoinsOnce
    <3>2. \A h \in 1 .. MaxJoins : natives'[h] <= 1
      BY <2>4, <3>1
    <3> QED BY <3>2 DEF JoinsOnce
  <2> QED BY <1>1, <2>1, <2>2, <2>7, <2>8 DEF OneHolder
<1>5. CASE is_current_join(s, g) /\ mode # ModeOf[s]
  <2>1. /\ tasks' = IF retried THEN rest
                    ELSE rest \o <<Task("connect_with_mode", s, g, TRUE),
                                   Task("launch_mode", s, g, FALSE)>>
        /\ UNCHANGED <<policy, connection, natives>>
    BY <1>5 DEF connect_to_lobby_with_mode
  <2>2. CASE retried
    BY <1>1, <2>1, <2>2, QuietHolder DEF JInv
  <2>3. CASE ~retried
    <3> DEFINE t == Task("connect_with_mode", s, g, TRUE)
               u == Task("launch_mode", s, g, FALSE)
    <3> HIDE DEF s, g
    <3>1. t \in Tasks /\ t.generation = g
      BY <1>2 DEF Task, Tasks
    <3>2. u \in Tasks /\ ~Pursuing(u)
      BY <1>2 DEF Task, Tasks, Pursuing
    <3> HIDE DEF t, u, rest
    <3>3. tasks' = rest \o <<t, u>>
      BY <2>1, <2>3 DEF t, u, rest, s, g
    <3>4. tasks' = Append(Append(rest, t), u)
      BY <1>1, <3>1, <3>2, <3>3
    <3>5. /\ Append(rest, t) \in Seq(Tasks) /\ Distinct(Append(rest, t))
          /\ \A h : Holds(Append(rest, t), h) => Holds(rest, h) \/ h = g
      BY <1>1, <3>1, HoldsMore
    <3>6. /\ Distinct(tasks')
          /\ \A h : Holds(tasks', h) => Holds(Append(rest, t), h)
      BY <3>2, <3>4, <3>5, HoldsMore
    <3>7. \A h \in 1 .. MaxJoins : Holds(tasks', h) => Holds(tasks, h)
      BY <1>1, <1>2, <3>5, <3>6
    <3> QED BY <2>1, <3>6, <3>7, QuietHolder DEF JInv
  <2> QED BY <2>2, <2>3
<1> QED BY <1>3, <1>4, <1>5

(* A task that pursues nothing comes or goes.                              *)
LEMMA OtherTask ==
    ASSUME JInv, NEW t \in Tasks, ~Pursuing(t), tasks' = Append(tasks, t)
    PROVE  /\ Distinct(tasks')
           /\ \A g \in 1 .. MaxJoins : Holds(tasks', g) => Holds(tasks, g)
BY HoldsMore DEF JInv, Typed, TypeOK, OneHolder

LEMMA TaskGone ==
    ASSUME JInv, NEW i \in 1 .. Len(tasks), tasks' = Without(i)
    PROVE  /\ Distinct(tasks')
           /\ \A g \in 1 .. MaxJoins : Holds(tasks', g) => Holds(tasks, g)
BY HoldsFewer DEF JInv, Typed, TypeOK, OneHolder

LEMMA SameTasks ==
    ASSUME JInv, tasks' = tasks
    PROVE  /\ Distinct(tasks')
           /\ \A g \in 1 .. MaxJoins : Holds(tasks', g) => Holds(tasks, g)
BY DEF JInv, OneHolder

LEMMA QuietJInv ==
    ASSUME JInv, Distinct(tasks'), \A g \in 1 .. MaxJoins : Holds(tasks', g) => Holds(tasks, g),
           server_queries' \subseteq server_queries, UNCHANGED <<query, policy.generation, natives>>
    PROVE  OneQuery' /\ OneHolder'
BY QuietHolder, SameQueries DEF JInv

(* The answer turns the query into the task that verifies it.              *)
LEMMA ResponseHolder ==
    ASSUME JInv, NEW a \in answers, handle_info_response(a)
    PROVE  OneQuery' /\ OneHolder'
<1> DEFINE q == a.query
           s == query[q].host
           g == query[q].generation
           t == Task("verify", s, g, FALSE)
<1>1. /\ server_queries' = server_queries \ {q} /\ q \in server_queries
      /\ UNCHANGED <<query, policy, natives>>
  BY DEF handle_info_response
<1>2. CASE tasks' = tasks
  BY <1>1, <1>2, SameTasks, QuietJInv
<1>3. CASE tasks' # tasks
  <2>1. tasks' = Append(tasks, t) /\ g # Browser
    BY <1>3 DEF handle_info_response, handle_connect_query_response
  <2>2. q \in 1 .. Len(query) /\ server_queries \subseteq 1 .. Len(query)
    BY <1>1 DEF JInv, Typed, TypeOK
  <2>3. g \in 1 .. MaxJoins /\ g <= policy.generation /\ s \in Peer /\ g \in 0 .. MaxJoins
    <3>1. query[q] \in [host : Server, generation : 0 .. MaxJoins]
      BY <2>2, ElementOf DEF JInv, Typed, TypeOK
    <3>2. g \in 0 .. MaxJoins /\ s \in Peer
      BY <3>1 DEF Peer
    <3>3. g <= policy.generation
      BY <2>2 DEF JInv, OneQuery
    <3> QED BY <2>1, <3>2, <3>3, PartyAssumption DEF Browser
  <2>4. Asked(g) /\ ~\E p \in server_queries' : query'[p].generation = g
    <3>1. Asked(g)
      BY <1>1 DEF Asked
    <3>2. \A p \in server_queries : query[p].generation = g => p = q
      BY <2>1, <2>2 DEF JInv, OneQuery
    <3>3. ~\E p \in server_queries' : query'[p].generation = g
      BY <1>1, <3>2
    <3> QED BY <3>1, <3>3
  <2>5. natives[g] = 0 /\ ~Holds(tasks, g)
    BY <2>3, <2>4 DEF JInv, OneHolder
  <2>6. \A h : Asked(h)' => Asked(h)
    BY <1>1 DEF Asked
  <2> HIDE DEF s, g, q
  <2>7. t \in Tasks /\ t.generation = g
    BY <2>3 DEF Task, Tasks
  <2>8. tasks \in Seq(Tasks) /\ Distinct(tasks)
    BY DEF JInv, Typed, TypeOK, OneHolder
  <2> HIDE DEF t
  <2>9. Distinct(tasks') /\ \A h : Holds(tasks', h) => Holds(tasks, h) \/ h = g
    BY <2>1, <2>5, <2>7, <2>8, HoldsMore
  <2>10. \A h \in 1 .. MaxJoins :
           /\ Holds(tasks', h) => h <= policy'.generation /\ ~Asked(h)' /\ natives'[h] = 0
           /\ Asked(h)' => natives'[h] = 0
           /\ h > policy'.generation => natives'[h] = 0
    <3> SUFFICES ASSUME NEW h \in 1 .. MaxJoins
                 PROVE  /\ Holds(tasks', h) => h <= policy'.generation /\ ~Asked(h)' /\ natives'[h] = 0
                        /\ Asked(h)' => natives'[h] = 0
                        /\ h > policy'.generation => natives'[h] = 0
      OBVIOUS
    <3>0. policy'.generation = policy.generation /\ natives'[h] = natives[h]
      BY <1>1
    <3>1. CASE h = g
      <4>1. ~Asked(h)'
        BY <2>4, <3>1 DEF Asked
      <4>2. natives'[h] = 0 /\ h <= policy'.generation
        BY <2>3, <2>5, <3>0, <3>1
      <4> QED BY <2>3, <4>1, <4>2
    <3>2. CASE h # g
      <4>1. Holds(tasks', h) => Holds(tasks, h)
        BY <2>9, <3>2
      <4> QED BY <2>6, <3>0, <4>1 DEF JInv, OneHolder
    <3> QED BY <3>1, <3>2
  <2>11. JoinsOnce' /\ OneQuery'
    BY <1>1, SameQueries DEF JInv, OneHolder, JoinsOnce
  <2> QED BY <2>9, <2>10, <2>11 DEF OneHolder
<1> QED BY <1>2, <1>3

LEMMA InitJInv == Init => JInv
<1> SUFFICES ASSUME Init PROVE OneQuery /\ OneHolder
  BY InitTyped DEF JInv
<1> USE PartyAssumption
<1>1. Len(query) = 0 /\ Len(tasks) = 0 /\ server_queries = {}
      /\ natives = [g \in 1 .. MaxJoins |-> 0]
  BY DEF Init
<1>2. OneQuery
  BY <1>1 DEF OneQuery
<1>3. Distinct(tasks) /\ (\A g : ~Holds(tasks, g)) /\ (\A g : ~Asked(g))
  BY <1>1 DEF Distinct, Holds, Asked
<1>4. JoinsOnce
  BY <1>1 DEF JoinsOnce
<1>5. \A g \in 1 .. MaxJoins : natives[g] = 0
  BY <1>1
<1> QED BY <1>2, <1>3, <1>4, <1>5 DEF OneHolder

LEMMA StepJInv == JInv /\ IInv /\ [Next]_vars => JInv'
<1> SUFFICES ASSUME JInv, IInv, [Next]_vars PROVE OneQuery' /\ OneHolder'
  BY StepTyped DEF JInv
<1> USE PartyAssumption
<1>0. Newest
  BY DEF IInv
<1>1. ASSUME NEW s \in Server, connect(s) PROVE OneQuery' /\ OneHolder'
  BY <1>1, SameTasks, BeginHolder DEF connect
<1>2. ASSUME NEW s \in Server, Browse(s) PROVE OneQuery' /\ OneHolder'
  <2> DEFINE n == Len(query)
             new == [host |-> s, generation |-> Browser]
  <2>1. /\ query' = Append(query, new) /\ server_queries' = server_queries \cup {n + 1}
        /\ UNCHANGED <<tasks, policy, natives>>
    BY <1>2 DEF Browse, query_server
  <2>2. /\ query \in Seq([host : Server, generation : 0 .. MaxJoins]) /\ n \in Nat
        /\ server_queries \subseteq 1 .. n /\ policy.generation \in 0 .. MaxJoins
    BY DEF JInv, Typed, TypeOK
  <2>3. /\ Len(query') = n + 1 /\ query'[n + 1].generation = Browser
        /\ \A q \in 1 .. n : query'[q] = query[q]
        /\ \A q \in 1 .. n + 1 : q = n + 1 \/ q \in 1 .. n
    BY <2>1, <2>2
  <2> HIDE DEF new
  <2>4. OneQuery'
    <3>1. Browser <= policy.generation
      BY <2>2 DEF Browser
    <3>2. \A q \in 1 .. n + 1 : query'[q].generation <= policy'.generation
      BY <2>1, <2>3, <3>1 DEF JInv, OneQuery
    <3>3. \A p, q \in 1 .. n + 1 :
             query'[p].generation = query'[q].generation /\ query'[p].generation # Browser => p = q
      BY <2>3 DEF JInv, OneQuery
    <3> QED BY <2>3, <3>2, <3>3 DEF OneQuery
  <2>5. \A g \in 1 .. MaxJoins : Asked(g)' => Asked(g)
    <3>1. \A g \in 1 .. MaxJoins : g # Browser
      BY DEF Browser
    <3> QED BY <2>1, <2>2, <2>3, <3>1 DEF Asked
  <2> QED BY <2>1, <2>4, <2>5 DEF JInv, OneHolder, JoinsOnce
<1>3. ASSUME NEW q \in Query, NEW accepted \in BOOLEAN, Answer(q, accepted)
      PROVE OneQuery' /\ OneHolder'
  BY <1>3, SameTasks, QuietJInv DEF Answer
<1>4. ASSUME NEW a \in answers, handle_info_response(a) PROVE OneQuery' /\ OneHolder'
  BY <1>4, ResponseHolder
<1>5. ASSUME cleanup_queried_servers \/ callback_false PROVE OneQuery' /\ OneHolder'
  <2>1. /\ tasks' = tasks /\ server_queries' \subseteq server_queries
        /\ UNCHANGED <<query, policy, natives>>
    BY <1>5 DEF cleanup_queried_servers, SendAndRemove, callback_false
  <2> QED BY <2>1, SameTasks, QuietJInv
<1>6. ASSUME NEW i \in 1 .. Len(tasks), requery_current_server(i) PROVE OneQuery' /\ OneHolder'
  <2>1. tasks' = Without(i) /\ UNCHANGED <<connect_host, natives>>
    BY <1>6 DEF requery_current_server
  <2>2. CASE connect_host = NoServer
    <3>1. UNCHANGED <<policy, queries>>
      BY <1>6, <2>2 DEF requery_current_server
    <3> QED BY <2>1, <3>1, TaskGone, QuietJInv DEF queries
  <2>3. CASE connect_host # NoServer
    <3>1. begin_join(connect_host) /\ connect_host \in Server
      BY <1>6, <2>3 DEF requery_current_server, JInv, Typed, TypeOK, Peer
    <3> QED BY <2>1, <3>1, TaskGone, BeginHolder
  <2> QED BY <2>2, <2>3
<1>7. ASSUME NEW i \in 1 .. Len(tasks), verify(i) PROVE OneQuery' /\ OneHolder'
  <2>1. Pursuing(tasks[i]) /\ query' = query
    BY <1>7 DEF verify, Pursuing
  <2>2. CASE is_current_join(tasks[i].server, tasks[i].generation) /\ tasks[i].server \notin maps
    <3>1. /\ tasks' = Without(i) /\ server_queries' \subseteq server_queries
          /\ UNCHANGED <<policy, natives>>
      BY <1>7, <2>2 DEF verify, VerifyMissing, SendAndRemove
    <3> QED BY <2>1, <3>1, TaskGone, QuietJInv
  <2>3. CASE ~(is_current_join(tasks[i].server, tasks[i].generation) /\ tasks[i].server \notin maps)
    <3>1. /\ connect_to_lobby_with_mode(tasks[i].server, tasks[i].generation, FALSE, Without(i))
          /\ UNCHANGED server_queries
      BY <1>7, <2>3 DEF verify
    <3>2. OneHolder' /\ policy'.generation = policy.generation
      BY <1>0, <2>1, <3>1, RunHolder
    <3> QED BY <2>1, <3>2, SameQueries DEF JInv
  <2> QED BY <2>2, <2>3
<1>8. ASSUME NEW i \in 1 .. Len(tasks), retry_with_mode(i) PROVE OneQuery' /\ OneHolder'
  <2>1. /\ Pursuing(tasks[i]) /\ UNCHANGED <<query, server_queries>>
        /\ connect_to_lobby_with_mode(tasks[i].server, tasks[i].generation, TRUE, Without(i))
    BY <1>8 DEF retry_with_mode, Pursuing, queries
  <2>2. OneHolder' /\ policy'.generation = policy.generation
    BY <1>0, <2>1, RunHolder
  <2> QED BY <2>1, <2>2, SameQueries DEF JInv
<1>9. ASSUME NEW i \in 1 .. Len(tasks), launch_mode(i) PROVE OneQuery' /\ OneHolder'
  BY <1>9, TaskGone, QuietJInv DEF launch_mode, queries
<1>10. ASSUME retire_join_policy PROVE OneQuery' /\ OneHolder'
  <2>1. policy'.generation = policy.generation
    BY <1>10 DEF retire_join_policy, JInv, Typed, TypeOK
  <2> QED BY <1>10, <2>1, SameTasks, QuietJInv DEF retire_join_policy, queries
<1>11. ASSUME pre_destroy \/ \E q \in Query : Elapse(q) PROVE OneQuery' /\ OneHolder'
  <2>1. /\ tasks' = tasks /\ server_queries' \subseteq server_queries
        /\ UNCHANGED <<query, policy, natives>>
    BY <1>11 DEF pre_destroy, Elapse
  <2> QED BY <2>1, SameTasks, QuietJInv
<1>12. ASSUME perform_download \/ (\E complete \in BOOLEAN : download_ends(complete))
             \/ Com_SwitchMode \/ Leave
       PROVE OneQuery' /\ OneHolder'
  <2>1. UNCHANGED <<tasks, server_queries, query, policy, natives>>
    BY <1>12 DEF perform_download, download_ends, Com_SwitchMode, Leave, queries
  <2> QED BY <2>1, SameTasks, QuietJInv
<1>13. ASSUME success_callback \/ com_error_missing_map PROVE OneQuery' /\ OneHolder'
  <2>1. PICK t \in {Task("requery", download, 0, FALSE), Task("requery", NoServer, 0, TRUE)} :
          tasks' = Append(tasks, t)
    BY <1>13 DEF success_callback, com_error_missing_map
  <2>2. UNCHANGED <<server_queries, query, policy, natives>>
    BY <1>13 DEF success_callback, com_error_missing_map, queries
  <2>3. t \in Tasks /\ ~Pursuing(t)
    <3>1. download \in Peer
      BY DEF JInv, Typed, TypeOK
    <3>2. PICK s \in Peer, b \in BOOLEAN : t = Task("requery", s, 0, b)
      BY <3>1 DEF Peer
    <3> QED BY <3>2 DEF Task, Tasks, Pursuing
  <2> QED BY <2>1, <2>2, <2>3, OtherTask, QuietJInv
<1>14. ASSUME UNCHANGED vars PROVE OneQuery' /\ OneHolder'
  BY <1>14, SameTasks, QuietJInv DEF vars, queries
<1> QED
  BY <1>1, <1>2, <1>3, <1>4, <1>5, <1>6, <1>7, <1>8, <1>9, <1>10, <1>11, <1>12, <1>13, <1>14
  DEF Next, User, Network, Async, Engine, ExecuteTask

(* A generation reaches the engine at most once: the query that began it,  *)
(* the task its answer became and the retry of another mode are one after  *)
(* the other, and never two at a time.                                     *)
THEOREM JoinedOnce == Spec => []JoinsOnce
<1>1. JInv => JoinsOnce
  BY DEF JInv, OneHolder
<1>2. Spec => []JInv
  BY InitJInv, StepJInv, Inductive, PTL DEF Spec
<1> QED BY <1>1, <1>2, PTL

(* What a step does to the join under way.                                 *)
LEMMA PolicySteps ==
    ASSUME JInv, [Next]_vars
    PROVE  \/ UNCHANGED <<policy, natives>>
           \/ \E s \in Server : begin_join(s) /\ UNCHANGED natives
           \/ \E s \in Peer, g \in 0 .. MaxJoins :
                  is_current_join(s, g) /\ connect_to_lobby(s, g)
           \/ retire_join_policy /\ UNCHANGED natives
<1>1. ASSUME NEW s \in Server, connect(s)
      PROVE  begin_join(s) /\ UNCHANGED natives
  BY <1>1 DEF connect
<1>2. ASSUME NEW i \in 1 .. Len(tasks), requery_current_server(i)
      PROVE  \/ UNCHANGED <<policy, natives>>
             \/ connect_host \in Server /\ begin_join(connect_host) /\ UNCHANGED natives
  <2>1. connect_host \in Peer
    BY DEF JInv, Typed, TypeOK
  <2> QED BY <1>2, <2>1 DEF requery_current_server, Peer
<1>3. ASSUME NEW i \in 1 .. Len(tasks), NEW retried \in BOOLEAN,
             connect_to_lobby_with_mode(tasks[i].server, tasks[i].generation, retried, Without(i))
      PROVE  \/ UNCHANGED <<policy, natives>>
             \/ \E s \in Peer, g \in 0 .. MaxJoins :
                    is_current_join(s, g) /\ connect_to_lobby(s, g)
  <2>1. tasks[i] \in Tasks
    BY ElementOf DEF JInv, Typed, TypeOK
  <2>2. tasks[i].server \in Peer /\ tasks[i].generation \in 0 .. MaxJoins
    BY <2>1 DEF Tasks
  <2> QED BY <1>3, <2>2 DEF connect_to_lobby_with_mode
<1>4. ASSUME NEW i \in 1 .. Len(tasks), verify(i)
      PROVE  \/ UNCHANGED <<policy, natives>>
             \/ \E s \in Peer, g \in 0 .. MaxJoins :
                    is_current_join(s, g) /\ connect_to_lobby(s, g)
  BY <1>3, <1>4 DEF verify, VerifyMissing
<1>5. ASSUME NEW i \in 1 .. Len(tasks), retry_with_mode(i)
      PROVE  \/ UNCHANGED <<policy, natives>>
             \/ \E s \in Peer, g \in 0 .. MaxJoins :
                    is_current_join(s, g) /\ connect_to_lobby(s, g)
  BY <1>3, <1>5 DEF retry_with_mode
<1>6. ASSUME NEW i \in 1 .. Len(tasks), launch_mode(i) PROVE UNCHANGED <<policy, natives>>
  BY <1>6 DEF launch_mode
<1>7. ASSUME Network \/ Async \/ Engine PROVE UNCHANGED <<policy, natives>>
  BY <1>7 DEF Network, Answer, handle_info_response, Async, cleanup_queried_servers,
              callback_false, perform_download, success_callback, Engine,
              Com_SwitchMode, Leave, com_error_missing_map
<1>8. ASSUME \/ \E s \in Server : Browse(s)
             \/ pre_destroy \/ UNCHANGED vars
             \/ \E q \in Query : Elapse(q)
             \/ \E complete \in BOOLEAN : download_ends(complete)
      PROVE  UNCHANGED <<policy, natives>>
  BY <1>8 DEF Browse, pre_destroy, vars, Elapse, download_ends
<1>9. retire_join_policy => UNCHANGED natives
  BY DEF retire_join_policy
<1> QED BY <1>1, <1>2, <1>4, <1>5, <1>6, <1>7, <1>8, <1>9 DEF Next, User, ExecuteTask

(* The task that hands a join over does so for the newest generation.      *)
LEMMA HandedOver ==
    ASSUME Newest, NEW s \in Peer, NEW g \in 0 .. MaxJoins,
           is_current_join(s, g), connect_to_lobby(s, g)
    PROVE  /\ g = policy.generation /\ g \in 1 .. MaxJoins
           /\ policy.current_join
           /\ policy' = [policy EXCEPT !.join_started = TRUE]
           /\ natives[g] \in Nat /\ natives'[g] = natives[g] + 1
<1>1. g = policy.generation /\ policy.current_join
  BY DEF is_current_join
<1>2. g \in 1 .. MaxJoins
  BY <1>1, PartyAssumption DEF Newest
<1> QED BY <1>1, <1>2 DEF Newest, connect_to_lobby

LEMMA StepContract == JInv /\ JInv' /\ IInv /\ [Next]_vars => [Joins!Next]_(Joins!join)
<1> SUFFICES ASSUME JInv, JInv', IInv, [Next]_vars
             PROVE  Joins!Next \/ UNCHANGED Joins!join
  OBVIOUS
<1>0. Newest
  BY DEF IInv
<1>1. ASSUME NEW s \in Server, begin_join(s), UNCHANGED natives PROVE Joins!Begin(s)
  BY <1>1 DEF begin_join, Joins!Begin
<1>2. ASSUME NEW s \in Peer, NEW g \in 0 .. MaxJoins,
             is_current_join(s, g), connect_to_lobby(s, g)
      PROVE  Joins!Start
  <2>1. /\ g = policy.generation /\ g \in 1 .. MaxJoins /\ policy.current_join
        /\ policy' = [policy EXCEPT !.join_started = TRUE]
        /\ natives[g] \in Nat /\ natives'[g] = natives[g] + 1
    BY <1>0, <1>2, HandedOver
  <2>2. natives[policy.generation] = 0
    <3>1. natives'[g] <= 1
      BY <2>1 DEF JInv, OneHolder, JoinsOnce
    <3> QED BY <2>1, <3>1
  <2>3. natives' = [natives EXCEPT ![policy.generation] = @ + 1]
    BY <1>2, <2>1 DEF connect_to_lobby
  <2>4. /\ policy'.server = policy.server /\ policy'.generation = policy.generation
        /\ policy'.current_join = policy.current_join
    BY <1>0, <2>1 DEF Newest
  <2>5. policy'.join_started = TRUE
    BY <1>0, <2>1 DEF Newest
  <2> QED BY <2>1, <2>2, <2>3, <2>4, <2>5 DEF Joins!Start
<1>3. ASSUME retire_join_policy, UNCHANGED natives PROVE Joins!Retire
  <2>1. policy' = [policy EXCEPT !.current_join = FALSE, !.join_started = FALSE]
    BY <1>3 DEF retire_join_policy
  <2>2. policy'.server = policy.server /\ policy'.generation = policy.generation
    BY <1>0, <2>1 DEF Newest
  <2>3. policy'.current_join = FALSE
    BY <1>0, <2>1 DEF Newest
  <2>4. policy'.join_started = FALSE
    BY <1>0, <2>1 DEF Newest
  <2> QED BY <1>3, <2>2, <2>3, <2>4 DEF retire_join_policy, Joins!Retire
<1>4. UNCHANGED <<policy, natives>> => UNCHANGED Joins!join
  BY DEF Joins!join
<1> QED BY <1>1, <1>2, <1>3, <1>4, PolicySteps DEF Joins!Next

(* Party begins, hands over and retires joins as the contract with         *)
(* client_fps_limit says: prepare_native_join, which does not check it,    *)
(* never finds the current join handed over already.                       *)
THEOREM PartyKeepsContract == Spec => KeepsContract
<1>1. Init => Joins!Init
  BY DEF Init, NoPolicy, Joins!Init
<1>2. Spec => []JInv
  BY InitJInv, StepJInv, Inductive, PTL DEF Spec
<1> QED
  BY <1>1, <1>2, StepContract, Inductive, PTL DEF Spec, KeepsContract, Joins!Spec

-----------------------------------------------------------------------------
(* ServerBrowser.                                                          *)

(* What the steps do to the counts of queries.                             *)
LEMMA PingedMore ==
    ASSUME BrowserTypeOK, NEW l \in List, NEW ss, ping_server(l, ss)
    PROVE  /\ pings' \in [List -> [Address -> Nat]]
           /\ \A k \in List, s \in Address : pings'[k][s] >= pings[k][s]
           /\ \A s \in ss : s \in Address => pings'[l][s] > 0
<1> DEFINE more == [s \in Address |-> IF s \in ss THEN pings[l][s] + 1 ELSE pings[l][s]]
<1>1. pings \in [List -> [Address -> Nat]]
  BY DEF BrowserTypeOK
<1>2. \A k \in List, s \in Address : pings[k][s] \in Nat
  BY <1>1
<1>3. more \in [Address -> Nat]
  BY <1>2
<1>4. pings' = [pings EXCEPT ![l] = more]
  BY DEF ping_server
<1>5. pings'[l] = more /\ \A k \in List : k # l => pings'[k] = pings[k]
  BY <1>1, <1>4
<1>6. \A s \in Address : more[s] = IF s \in ss THEN pings[l][s] + 1 ELSE pings[l][s]
  OBVIOUS
<1> HIDE DEF more
<1>7. \A s \in Address : more[s] >= pings[l][s] /\ (s \in ss => more[s] > 0)
  BY <1>2, <1>6
<1>8. \A k \in List, s \in Address : pings'[k][s] >= pings[k][s]
  <2> SUFFICES ASSUME NEW k \in List, NEW s \in Address PROVE pings'[k][s] >= pings[k][s]
    OBVIOUS
  <2>1. CASE k = l
    BY <1>5, <1>7, <2>1
  <2>2. CASE k # l
    BY <1>2, <1>5, <2>2
  <2> QED BY <2>1, <2>2
<1> QED BY <1>1, <1>3, <1>4, <1>5, <1>7, <1>8

LEMMA PingedLess ==
    ASSUME BrowserTypeOK, NEW l \in List, NEW s \in Address, pings[l][s] > 0,
           pings' = [pings EXCEPT ![l][s] = @ - 1]
    PROVE  /\ pings' \in [List -> [Address -> Nat]]
           /\ \A k \in List, r \in Address : k # l \/ r # s => pings'[k][r] = pings[k][r]
<1>1. pings \in [List -> [Address -> Nat]] /\ pings[l][s] - 1 \in Nat
  BY DEF BrowserTypeOK
<1>2. pings' = [pings EXCEPT ![l] = [pings[l] EXCEPT ![s] = pings[l][s] - 1]]
  OBVIOUS
<1>3. [pings[l] EXCEPT ![s] = pings[l][s] - 1] \in [Address -> Nat]
  BY <1>1
<1> QED BY <1>1, <1>2, <1>3

LEMMA BrowserTypesInit == BrowserInit => BrowserTypeOK
<1> SUFFICES ASSUME BrowserInit PROVE BrowserTypeOK
  OBVIOUS
<1>1. NoHandler \in Handlers
  BY DEF NoHandler, Handlers, List
<1>2. /\ handler \in [Thread -> Handlers] /\ closed \in BOOLEAN
      /\ called \in [Request -> Nat] /\ owed \in [List -> BOOLEAN]
      /\ pings \in [List -> [Address -> Nat]]
  BY <1>1 DEF BrowserInit
<1>3. /\ requests \in 0 .. MaxRequests /\ refreshes \in Nat
      /\ requesting \in Request \union {None} /\ resolves \in BOOLEAN
      /\ favorite_servers \in SUBSET Address
  BY BrowserAssumption DEF BrowserInit
<1>4. /\ response \in [List -> Request \union {None}]
      /\ servers \in [List -> SUBSET Address] /\ handled \in [List -> SUBSET Address]
  BY DEF BrowserInit
<1> QED BY <1>2, <1>3, <1>4 DEF BrowserTypeOK

LEMMA BrowserTypesStep == BrowserTypeOK /\ [BrowserNext]_browserVars => BrowserTypeOK'
<1> SUFFICES ASSUME BrowserTypeOK, [BrowserNext]_browserVars PROVE BrowserTypeOK'
  OBVIOUS
<1> USE DEF master, lists
<1>0. /\ NoHandler \in Handlers /\ internet \in List /\ favorites \in List
      /\ requests \in Nat /\ MaxRequests \in Nat
  BY BrowserAssumption DEF NoHandler, Handlers, List, BrowserTypeOK
<1>1. ASSUME NEW l \in List, NewRequest(l)
      PROVE  /\ requests' \in 0 .. MaxRequests /\ requests' \in Request
             /\ response' \in [List -> Request \union {None}]
  BY <1>0, <1>1 DEF NewRequest, BrowserTypeOK, Request
<1>2. ASSUME NEW l \in List, NEW ss \in SUBSET Address, Replace(l, ss)
      PROVE  /\ servers' \in [List -> SUBSET Address] /\ handled' \in [List -> SUBSET Address]
             /\ pings' \in [List -> [Address -> Nat]]
  BY <1>2, PingedMore DEF Replace, BrowserTypeOK
<1>3. CASE RequestInternetServerList
  BY <1>0, <1>1, <1>3 DEF RequestInternetServerList, BrowserTypeOK
<1>4. CASE RequestFavoritesServerList
  <2>1. /\ requests' \in 0 .. MaxRequests /\ response' \in [List -> Request \union {None}]
    BY <1>0, <1>1, <1>4 DEF RequestFavoritesServerList
  <2>2. owed' \in [List -> BOOLEAN]
    BY <1>4 DEF RequestFavoritesServerList, BrowserTypeOK
  <2>3. UNCHANGED <<refreshes, master, favorite_servers, handler, closed>>
    BY <1>4 DEF RequestFavoritesServerList
  <2>4. /\ servers' \in [List -> SUBSET Address] /\ handled' \in [List -> SUBSET Address]
        /\ pings' \in [List -> [Address -> Nat]]
    <3>1. CASE favorite_servers = {}
      BY <1>4, <3>1 DEF RequestFavoritesServerList, BrowserTypeOK
    <3>2. CASE favorite_servers # {}
      <4>1. Replace(favorites, favorite_servers) /\ favorite_servers \in SUBSET Address
        BY <1>4, <3>2 DEF RequestFavoritesServerList, BrowserTypeOK
      <4> QED BY <1>0, <1>2, <4>1
    <3> QED BY <3>1, <3>2
  <2> QED BY <2>1, <2>2, <2>3, <2>4 DEF BrowserTypeOK
<1>5. ASSUME NEW l \in List, ReleaseRequest(l) PROVE BrowserTypeOK'
  BY <1>5 DEF ReleaseRequest, BrowserTypeOK
<1>6. ASSUME NEW l \in List, NEW s \in Address, RefreshServer(l, s) PROVE BrowserTypeOK'
  BY <1>6, PingedMore DEF RefreshServer, BrowserTypeOK
<1>7. CASE change_favorite_servers
  BY <1>7 DEF change_favorite_servers, BrowserTypeOK
<1>8. ASSUME requesting # None, Callback PROVE called' \in [Request -> Nat]
  BY <1>8 DEF Callback, BrowserTypeOK
<1>9. ASSUME NEW ss \in SUBSET Address, handle_server_list_response(ss) PROVE BrowserTypeOK'
  <2>1. called' \in [Request -> Nat] /\ requesting' \in Request \union {None}
    BY <1>8, <1>9 DEF handle_server_list_response
  <2>2. owed' \in [List -> BOOLEAN]
    BY <1>9 DEF handle_server_list_response, BrowserTypeOK
  <2>3. /\ servers' \in [List -> SUBSET Address] /\ handled' \in [List -> SUBSET Address]
        /\ pings' \in [List -> [Address -> Nat]]
    <3>1. CASE UNCHANGED lists
      BY <3>1 DEF BrowserTypeOK
    <3>2. CASE Replace(internet, ss)
      BY <1>0, <1>2, <3>2
    <3> QED BY <1>9, <3>1, <3>2 DEF handle_server_list_response
  <2>4. UNCHANGED <<requests, refreshes, resolves, response, favorite_servers, handler, closed>>
    BY <1>9 DEF handle_server_list_response
  <2> QED BY <2>1, <2>2, <2>3, <2>4 DEF BrowserTypeOK
<1>10. CASE give_up
  BY <1>8, <1>10 DEF give_up, BrowserTypeOK
<1>11. ASSUME NEW t \in Thread, NEW l \in List, NEW s \in Address,
              handle_server_respone(t, l, s)
       PROVE  BrowserTypeOK'
  <2>1. pings' \in [List -> [Address -> Nat]]
    BY <1>11, PingedLess DEF handle_server_respone
  <2>2. handled' \in [List -> SUBSET Address]
    <3>1. handled \in [List -> SUBSET Address] /\ handled[l] \union {s} \in SUBSET Address
      BY DEF BrowserTypeOK
    <3> QED BY <1>11, <3>1 DEF handle_server_respone, MarkHandled
  <2>3. handler' \in [Thread -> Handlers]
    <3>1. [pc |-> "tell", list |-> l, all_handled |-> handled'[l] = servers[l], res |-> None]
            \in Handlers
      BY DEF Handlers
    <3> QED BY <1>11, <3>1 DEF handle_server_respone, BrowserTypeOK
  <2> QED BY <1>11, <2>1, <2>2, <2>3 DEF handle_server_respone, BrowserTypeOK
<1>12. ASSUME NEW t \in Thread, tell(t) PROVE BrowserTypeOK'
  <2>1. handler[t] \in Handlers /\ handler[t].list \in List
    BY DEF BrowserTypeOK, Handlers
  <2>2. [handler[t] EXCEPT !.pc = "complete", !.res = response[handler[t].list]] \in Handlers
    BY <2>1 DEF Handlers, BrowserTypeOK
  <2>3. handler' \in [Thread -> Handlers]
    BY <1>0, <1>12, <2>2 DEF tell, BrowserTypeOK
  <2> QED BY <1>12, <2>3 DEF tell, BrowserTypeOK
<1>13. ASSUME NEW t \in Thread, RefreshComplete(t) PROVE BrowserTypeOK'
  <2>1. handler' \in [Thread -> Handlers] /\ owed' \in [List -> BOOLEAN]
    BY <1>0, <1>13 DEF RefreshComplete, BrowserTypeOK
  <2> QED BY <1>13, <2>1 DEF RefreshComplete, BrowserTypeOK
<1>14. CASE server_list_pre_destroy
  BY <1>14 DEF server_list_pre_destroy, BrowserTypeOK
<1>15. CASE UNCHANGED browserVars
  BY <1>15 DEF browserVars, BrowserTypeOK
<1> QED
  BY <1>3, <1>4, <1>5, <1>6, <1>7, <1>9, <1>10, <1>11, <1>12, <1>13, <1>14, <1>15
  DEF BrowserNext, Game, Respond

-----------------------------------------------------------------------------
(* The requests to the master.                                             *)
CallsInv == BrowserTypeOK /\ MasterOnce /\ Uncalled

LEMMA CalledNow ==
    ASSUME CallsInv, requesting # None, Callback
    PROVE  /\ requesting \in Request /\ requesting <= requests
           /\ \A r \in Request : called'[r] = IF r = requesting THEN 1 ELSE called[r]
BY DEF CallsInv, BrowserTypeOK, Uncalled, Callback

LEMMA CallsStep == CallsInv /\ [BrowserNext]_browserVars => MasterOnce' /\ Uncalled'
<1> SUFFICES ASSUME CallsInv, [BrowserNext]_browserVars PROVE MasterOnce' /\ Uncalled'
  OBVIOUS
<1> USE DEF master
<1>0. /\ requests \in Nat /\ \A r \in Request : r \in Nat
      /\ called \in [Request -> Nat] /\ requesting \in Request \union {None}
  BY BrowserAssumption DEF CallsInv, BrowserTypeOK, Request
<1>1. CASE RequestInternetServerList \/ RequestFavoritesServerList
  <2>1. requests' = requests + 1 /\ requests' \in Request /\ called' = called
        /\ (requesting' = requesting \/ requesting' = requests')
    BY <1>0, <1>1, BrowserAssumption
    DEF RequestInternetServerList, RequestFavoritesServerList, NewRequest, Request
  <2>2. MasterOnce' /\ called'[requests'] = 0
    BY <1>0, <2>1 DEF CallsInv, MasterOnce, Uncalled
  <2>3. requesting' # None => requesting' <= requests' /\ called'[requesting'] = 0
    BY <1>0, <2>1, <2>2 DEF CallsInv, Uncalled
  <2>4. \A r \in Request : r > requests' => called'[r] = 0
    BY <1>0, <2>1 DEF CallsInv, Uncalled
  <2> QED BY <2>2, <2>3, <2>4 DEF Uncalled
<1>2. CASE give_up \/ \E ss \in SUBSET Address : handle_server_list_response(ss)
  <2>1. requesting # None /\ Callback /\ requesting' = None /\ requests' = requests
    BY <1>2 DEF give_up, handle_server_list_response
  <2>2. \A r \in Request : called'[r] = IF r = requesting THEN 1 ELSE called[r]
    BY <2>1, CalledNow
  <2>3. requesting <= requests /\ requesting \in Request
    BY <2>1, CalledNow
  <2> QED BY <1>0, <2>1, <2>2, <2>3 DEF CallsInv, MasterOnce, Uncalled
<1>3. CASE server_list_pre_destroy
  BY <1>0, <1>3 DEF server_list_pre_destroy, CallsInv, MasterOnce, Uncalled
<1>4. CASE UNCHANGED <<requests, requesting, called>>
  BY <1>4 DEF CallsInv, MasterOnce, Uncalled
<1> QED
  BY <1>1, <1>2, <1>3, <1>4 DEF BrowserNext, Game, ReleaseRequest, RefreshServer,
     change_favorite_servers, Respond, handle_server_respone, tell, RefreshComplete, browserVars

(* The lists.                                                              *)
LEMMA BrowserInvInit == BrowserInit => BrowserInv
<1> SUFFICES ASSUME BrowserInit PROVE BrowserInv
  OBVIOUS
<1>1. BrowserTypeOK
  BY BrowserTypesInit
<1>2. MasterOnce /\ Uncalled
  BY BrowserAssumption DEF BrowserInit, MasterOnce, Uncalled
<1>3. NoneForgotten
  BY DEF BrowserInit, NoneForgotten, AllAsked
<1> QED BY <1>1, <1>2, <1>3 DEF BrowserInv

(* A list that is replaced has each of its entries asked for.              *)
LEMMA ReplacedAsked ==
    ASSUME BrowserInv, ~closed, closed' = closed, NEW l \in List, NEW ss \in SUBSET Address,
           ss # {}, Replace(l, ss)
    PROVE  /\ \A k \in List : handled'[k] \subseteq servers'[k] /\ AllAsked(k)'
           /\ servers'[l] # handled'[l]
           /\ \A k \in List : k # l => servers'[k] = servers[k] /\ handled'[k] = handled[k]
<1>1. BrowserTypeOK
  BY DEF BrowserInv
<1>2. /\ \A k \in List, s \in Address : pings'[k][s] >= pings[k][s]
      /\ \A s \in ss : pings'[l][s] > 0
      /\ pings \in [List -> [Address -> Nat]] /\ pings' \in [List -> [Address -> Nat]]
  BY <1>1, PingedMore DEF Replace, BrowserTypeOK
<1>3. servers'[l] = ss /\ handled'[l] = {}
  BY <1>1 DEF Replace, BrowserTypeOK
<1>4. \A k \in List : k # l => servers'[k] = servers[k] /\ handled'[k] = handled[k]
  BY <1>1 DEF Replace, BrowserTypeOK
<1>5. ASSUME NEW k \in List PROVE handled'[k] \subseteq servers'[k] /\ AllAsked(k)'
  <2>1. CASE k = l
    BY <1>2, <1>3, <2>1 DEF AllAsked
  <2>2. CASE k # l
    <3>1. handled[k] \subseteq servers[k] /\ AllAsked(k) /\ servers[k] \in SUBSET Address
      BY DEF BrowserInv, NoneForgotten, BrowserTypeOK
    <3>2. \A s \in Address : pings[k][s] > 0 => pings'[k][s] > 0
      BY <1>2
    <3> QED BY <1>4, <2>2, <3>1, <3>2 DEF AllAsked
  <2> QED BY <2>1, <2>2
<1> QED BY <1>3, <1>4, <1>5

(* A handler that completes a list still does when no handler, and for     *)
(* that list no response object, changes.                                  *)
LEMMA StillPursued ==
    ASSUME NEW l \in List, Pursued(l),
           l = internet /\ requesting # None => requesting' # None,
           servers[l] # handled[l] => servers'[l] # handled'[l],
           handler' = handler, response'[l] = response[l]
    PROVE  Pursued(l)'
BY DEF Pursued, Completes

LEMMA ListsStep == BrowserInv /\ [BrowserNext]_browserVars => NoneForgotten'
<1> SUFFICES ASSUME BrowserInv, [BrowserNext]_browserVars PROVE NoneForgotten'
  OBVIOUS
<1> USE DEF master, lists
<1>0. /\ BrowserTypeOK /\ internet \in List /\ favorites \in List /\ internet # favorites
      /\ \A l \in List : l = internet \/ l = favorites
  BY BrowserAssumption DEF List, BrowserInv
<1>a. /\ \A l \in List : handled[l] \subseteq servers[l]
      /\ ~closed => \A l \in List : AllAsked(l)
      /\ \A l \in List : owed[l] => ~closed /\ response[l] # None /\ Pursued(l)
      /\ closed => requesting = None
  BY DEF BrowserInv, NoneForgotten
<1>b. /\ owed \in [List -> BOOLEAN] /\ response \in [List -> Request \union {None}]
      /\ servers \in [List -> SUBSET Address] /\ handled \in [List -> SUBSET Address]
      /\ pings \in [List -> [Address -> Nat]]
      /\ \A r \in Request : r \in Nat /\ r # None
  BY <1>0, BrowserAssumption DEF BrowserTypeOK, Request
<1>1. ASSUME NEW l \in List, NewRequest(l)
      PROVE  /\ response'[l] # None /\ requests' # None
             /\ \A k \in List : k # l => response'[k] = response[k]
  <2>1. requests \in Nat /\ requests' = requests + 1 /\ requests + 1 \in Nat
    BY <1>0, <1>1, BrowserAssumption DEF NewRequest, BrowserTypeOK
  <2>2. response' = [response EXCEPT ![l] = requests']
    BY <1>1 DEF NewRequest
  <2> QED BY <1>b, <2>1, <2>2, BrowserAssumption
<1>2. CASE ~closed /\ RequestInternetServerList
  <2>1. UNCHANGED <<servers, handled, pings, handler, closed>>
    BY <1>2 DEF RequestInternetServerList
  <2>2. owed'[internet] => requesting' # None
    BY <1>0, <1>1, <1>2, <1>b DEF RequestInternetServerList
  <2>3. requesting # None => requesting' # None
    BY <1>0, <1>1, <1>2 DEF RequestInternetServerList
  <2>4. owed'[favorites] = owed[favorites]
        /\ response'[favorites] = response[favorites] /\ response'[internet] # None
    BY <1>0, <1>1, <1>2, <1>b DEF RequestInternetServerList
  <2>5. \A l \in List : owed'[l] => ~closed' /\ response'[l] # None /\ Pursued(l)'
    <3>1. owed'[internet] => Pursued(internet)'
      BY <2>2 DEF Pursued
    <3>2. owed'[favorites] => Pursued(favorites)'
      BY <1>0, <1>a, <2>1, <2>4, StillPursued
    <3> QED BY <1>0, <1>2, <1>a, <2>1, <2>4, <3>1, <3>2
  <2> QED BY <1>2, <1>a, <2>1, <2>5 DEF NoneForgotten, AllAsked
<1>3. CASE ~closed /\ RequestFavoritesServerList
  <2>1. UNCHANGED <<requesting, handler, closed>>
    BY <1>3 DEF RequestFavoritesServerList
  <2>2. /\ owed'[internet] = owed[internet] /\ response'[internet] = response[internet]
        /\ response'[favorites] # None
        /\ owed'[favorites] => favorite_servers # {}
    BY <1>0, <1>1, <1>3, <1>b DEF RequestFavoritesServerList
  <2>3. CASE favorite_servers = {}
    <3>1. UNCHANGED <<servers, handled, pings>>
      BY <1>3, <2>3 DEF RequestFavoritesServerList
    <3>2. ASSUME owed'[internet] PROVE response[internet] # None /\ Pursued(internet)'
      <4>1. response[internet] # None /\ Pursued(internet)
        BY <1>0, <1>a, <2>2, <3>2
      <4> QED BY <1>0, <2>1, <2>2, <3>1, <4>1, StillPursued
    <3>3. \A l \in List : owed'[l] => ~closed' /\ response'[l] # None /\ Pursued(l)'
      BY <1>0, <1>3, <2>1, <2>2, <2>3, <3>2
    <3> QED BY <1>3, <1>a, <2>1, <3>1, <3>3 DEF NoneForgotten, AllAsked
  <2>4. CASE favorite_servers # {}
    <3>1. Replace(favorites, favorite_servers) /\ favorite_servers \in SUBSET Address
      BY <1>0, <1>3, <2>4 DEF RequestFavoritesServerList, BrowserTypeOK
    <3>2. /\ \A k \in List : handled'[k] \subseteq servers'[k] /\ AllAsked(k)'
          /\ servers'[favorites] # handled'[favorites]
          /\ servers'[internet] = servers[internet] /\ handled'[internet] = handled[internet]
      BY <1>0, <1>3, <2>1, <2>4, <3>1, ReplacedAsked
    <3>3. ASSUME owed'[internet] PROVE response[internet] # None /\ Pursued(internet)'
      <4>1. response[internet] # None /\ Pursued(internet)
        BY <1>0, <1>a, <2>2, <3>3
      <4> QED BY <1>0, <2>1, <2>2, <3>2, <4>1, StillPursued
    <3>4. Pursued(favorites)'
      BY <3>2 DEF Pursued
    <3>5. \A l \in List : owed'[l] => ~closed' /\ response'[l] # None /\ Pursued(l)'
      BY <1>0, <1>3, <2>1, <2>2, <3>3, <3>4
    <3> QED BY <1>3, <2>1, <3>2, <3>5 DEF NoneForgotten
  <2> QED BY <2>3, <2>4
<1>4. ASSUME NEW l \in List, ReleaseRequest(l) PROVE NoneForgotten'
  <2>1. UNCHANGED <<requesting, servers, handled, pings, handler, closed>>
    BY <1>4 DEF ReleaseRequest
  <2>2. /\ owed'[l] = FALSE
        /\ \A k \in List : k # l => owed'[k] = owed[k] /\ response'[k] = response[k]
    BY <1>4, <1>b DEF ReleaseRequest
  <2>3. ASSUME NEW k \in List, owed'[k] PROVE ~closed' /\ response'[k] # None /\ Pursued(k)'
    BY <1>a, <2>1, <2>2, <2>3, StillPursued
  <2> QED BY <1>a, <2>1, <2>3 DEF NoneForgotten, AllAsked
<1>5. ASSUME NEW l \in List, NEW s \in Address, ~closed, RefreshServer(l, s)
      PROVE  NoneForgotten'
  <2>1. UNCHANGED <<requesting, servers, handled, handler, closed, owed, response>>
    BY <1>5 DEF RefreshServer
  <2>2. \A k \in List, r \in Address : pings'[k][r] >= pings[k][r]
    BY <1>0, <1>5, PingedMore DEF RefreshServer
  <2>3. pings' \in [List -> [Address -> Nat]]
    BY <1>0, <1>5, PingedMore DEF RefreshServer
  <2>4. \A k \in List : AllAsked(k)'
    <3>1. \A k \in List, r \in Address : pings[k][r] > 0 => pings'[k][r] > 0
      BY <1>b, <2>2, <2>3
    <3> QED BY <1>5, <1>a, <1>b, <2>1, <3>1 DEF AllAsked
  <2>5. \A k \in List : Pursued(k) => Pursued(k)'
    BY <2>1, StillPursued
  <2> QED BY <1>a, <2>1, <2>4, <2>5 DEF NoneForgotten
<1>6. ASSUME NEW ss \in SUBSET Address, ~closed, handle_server_list_response(ss)
      PROVE  NoneForgotten'
  <2>1. requesting' = None /\ UNCHANGED <<response, handler, closed>>
    BY <1>6 DEF handle_server_list_response
  <2>2. CASE response[internet] = None \/ ss = {}
    <3>1. UNCHANGED <<servers, handled, pings>>
          /\ ~owed'[internet] /\ owed'[favorites] = owed[favorites]
      BY <1>0, <1>6, <1>b, <2>2 DEF handle_server_list_response
    <3>2. owed'[favorites] => Pursued(favorites)'
      BY <1>0, <1>a, <2>1, <3>1, StillPursued
    <3> QED BY <1>0, <1>a, <2>1, <3>1, <3>2 DEF NoneForgotten, AllAsked
  <2>3. CASE response[internet] # None /\ ss # {}
    <3>1. Replace(internet, ss) /\ owed'[favorites] = owed[favorites]
      BY <1>0, <1>6, <1>b, <2>3 DEF handle_server_list_response
    <3>2. /\ \A k \in List : handled'[k] \subseteq servers'[k] /\ AllAsked(k)'
          /\ servers'[internet] # handled'[internet]
          /\ servers'[favorites] = servers[favorites]
          /\ handled'[favorites] = handled[favorites]
      BY <1>0, <1>6, <2>1, <2>3, <3>1, ReplacedAsked
    <3>3. owed'[favorites] => Pursued(favorites)'
      BY <1>0, <1>a, <2>1, <3>1, <3>2, StillPursued
    <3>4. Pursued(internet)'
      BY <3>2 DEF Pursued
    <3> QED BY <1>0, <1>6, <1>a, <2>1, <2>3, <3>1, <3>2, <3>3, <3>4 DEF NoneForgotten
  <2> QED BY <2>2, <2>3
<1>7. CASE give_up
  <2>1. requesting' = None /\ UNCHANGED <<response, servers, handled, pings, handler, closed>>
        /\ ~owed'[internet] /\ owed'[favorites] = owed[favorites]
    BY <1>0, <1>7, <1>b DEF give_up
  <2>2. owed'[favorites] => Pursued(favorites)'
    BY <1>0, <1>a, <2>1, StillPursued
  <2> QED BY <1>0, <1>a, <2>1, <2>2 DEF NoneForgotten, AllAsked
<1>8. ASSUME NEW t \in Thread, NEW l \in List, NEW s \in Address,
             handle_server_respone(t, l, s)
      PROVE  NoneForgotten'
  <2>1. /\ UNCHANGED <<requesting, response, servers, closed, owed>>
        /\ handler[t].pc = "idle"
        /\ \A k \in List, r \in Address : k # l \/ r # s => pings'[k][r] = pings[k][r]
    BY <1>0, <1>8, PingedLess DEF handle_server_respone
  <2>2. CASE s \notin servers[l]
    <3>1. handled' = handled /\ handler' = handler
      BY <1>8, <2>2 DEF handle_server_respone
    <3>2. ~closed => \A k \in List : AllAsked(k)'
      <4> SUFFICES ASSUME ~closed, NEW k \in List, NEW r \in servers[k] \ handled[k]
                   PROVE  pings'[k][r] > 0
        BY <2>1, <3>1 DEF AllAsked
      <4>1. (k # l \/ r # s) /\ r \in Address
        BY <1>b, <2>2
      <4> QED BY <1>a, <2>1, <4>1 DEF AllAsked
    <3>3. \A k \in List : Pursued(k) => Pursued(k)'
      BY <2>1, <3>1, StillPursued
    <3> QED BY <1>a, <2>1, <3>1, <3>2, <3>3 DEF NoneForgotten
  <2>3. CASE s \in servers[l]
    <3>1. /\ handled'[l] = handled[l] \union {s}
          /\ \A k \in List : k # l => handled'[k] = handled[k]
      BY <1>8, <1>b, <2>3 DEF handle_server_respone, MarkHandled
    <3>2. /\ handler'[t].pc = "tell" /\ handler'[t].list = l
          /\ handler'[t].all_handled = (handled'[l] = servers[l])
          /\ \A u \in Thread : u # t => handler'[u] = handler[u]
      BY <1>0, <1>8, <2>3 DEF handle_server_respone, BrowserTypeOK
    <3>3. ~closed => \A k \in List : AllAsked(k)'
      <4> SUFFICES ASSUME ~closed, NEW k \in List, NEW r \in servers[k] \ handled'[k]
                   PROVE  pings'[k][r] > 0
        BY <2>1 DEF AllAsked
      <4>1. (k # l \/ r # s) /\ r \in Address /\ r \in servers[k] \ handled[k]
        BY <1>b, <3>1
      <4> QED BY <1>a, <2>1, <4>1 DEF AllAsked
    <3>4. ASSUME NEW k \in List, Pursued(k) PROVE Pursued(k)'
      <4>1. CASE k = internet /\ requesting # None
        BY <2>1, <4>1 DEF Pursued
      <4>2. CASE servers[k] # handled[k] /\ k # l
        BY <2>1, <3>1, <4>2 DEF Pursued
      <4>3. CASE servers[k] # handled[k] /\ k = l
        <5>1. CASE handled'[l] = servers[l]
          BY <2>1, <3>2, <4>3, <5>1 DEF Pursued, Completes
        <5>2. CASE handled'[l] # servers[l]
          BY <2>1, <4>3, <5>2 DEF Pursued
        <5> QED BY <5>1, <5>2
      <4>4. CASE \E u \in Thread : Completes(u, k)
        <5>1. PICK u \in Thread : Completes(u, k)
          BY <4>4
        <5>2. u # t
          BY <2>1, <5>1 DEF Completes
        <5> QED BY <2>1, <3>2, <5>1, <5>2 DEF Pursued, Completes
      <4> QED BY <3>4, <4>1, <4>2, <4>3, <4>4 DEF Pursued
    <3>5. \A k \in List : handled'[k] \subseteq servers'[k]
      BY <1>a, <2>1, <2>3, <3>1
    <3> QED BY <1>a, <2>1, <3>3, <3>4, <3>5 DEF NoneForgotten
  <2> QED BY <2>2, <2>3
<1>9. ASSUME NEW t \in Thread, tell(t) PROVE NoneForgotten'
  <2>1. UNCHANGED <<requesting, response, servers, handled, pings, closed, owed>>
    BY <1>9 DEF tell
  <2>2. /\ \A u \in Thread : u # t => handler'[u] = handler[u]
        /\ ~(response[handler[t].list] = None \/ ~handler[t].all_handled) =>
             /\ handler'[t].pc = "complete" /\ handler'[t].res = response[handler[t].list]
             /\ handler'[t].list = handler[t].list /\ handler'[t].all_handled
    BY <1>0, <1>9 DEF tell, BrowserTypeOK, Handlers
  <2>3. ASSUME NEW k \in List, response[k] # None, Pursued(k) PROVE Pursued(k)'
    <3>1. CASE \E u \in Thread : Completes(u, k)
      <4>1. PICK u \in Thread : Completes(u, k)
        BY <3>1
      <4>2. CASE u # t
        BY <2>1, <2>2, <4>1, <4>2 DEF Pursued, Completes
      <4>3. CASE u = t
        BY <2>1, <2>2, <2>3, <4>1, <4>3 DEF Pursued, Completes
      <4> QED BY <4>2, <4>3
    <3>2. CASE ~\E u \in Thread : Completes(u, k)
      BY <2>1, <2>3, <3>2 DEF Pursued
    <3> QED BY <3>1, <3>2
  <2> QED BY <1>a, <2>1, <2>3 DEF NoneForgotten, AllAsked
<1>10. ASSUME NEW t \in Thread, RefreshComplete(t) PROVE NoneForgotten'
  <2>1. UNCHANGED <<requesting, response, servers, handled, pings, closed>>
    BY <1>10 DEF RefreshComplete
  <2>2. \A u \in Thread : u # t => handler'[u] = handler[u]
    BY <1>0, <1>10 DEF RefreshComplete, BrowserTypeOK
  <2>3. ASSUME NEW k \in List, owed'[k] PROVE owed[k] /\ Pursued(k)'
    <3>1. owed[k]
      BY <1>10, <1>b, <2>3 DEF RefreshComplete
    <3>2. Pursued(k)
      BY <1>a, <3>1
    <3>3. CASE servers[k] # handled[k] \/ (k = internet /\ requesting # None)
      BY <2>1, <3>1, <3>3 DEF Pursued
    <3>4. CASE servers[k] = handled[k] /\ \E u \in Thread : Completes(u, k)
      <4>1. PICK u \in Thread : Completes(u, k)
        BY <3>4
      <4>2. CASE u # t
        <5>1. handler'[u] = handler[u]
          BY <2>2, <4>2
        <5> QED BY <2>1, <3>1, <4>1, <5>1 DEF Pursued, Completes
      <4>3. CASE u = t
        <5>1. handler[t].list = k /\ handler[t].res = response[k]
          BY <1>10, <4>1, <4>3 DEF RefreshComplete, Completes
        <5>2. owed' = [owed EXCEPT ![k] = FALSE]
          BY <1>10, <3>4, <5>1 DEF RefreshComplete
        <5> QED BY <1>b, <2>3, <5>2
      <4> QED BY <3>1, <4>2, <4>3
    <3> QED BY <3>1, <3>2, <3>3, <3>4 DEF Pursued
  <2> QED BY <1>a, <2>1, <2>3 DEF NoneForgotten, AllAsked
<1>11. CASE server_list_pre_destroy
  BY <1>11, <1>a DEF server_list_pre_destroy, NoneForgotten
<1>12. CASE change_favorite_servers \/ UNCHANGED browserVars
  <2>1. UNCHANGED <<requesting, response, servers, handled, pings, handler, closed, owed>>
    BY <1>12 DEF change_favorite_servers, browserVars
  <2>2. \A k \in List : Pursued(k) => Pursued(k)'
    BY <2>1, StillPursued
  <2> QED BY <1>a, <2>1, <2>2 DEF NoneForgotten, AllAsked
<1> QED
  BY <1>2, <1>3, <1>4, <1>5, <1>6, <1>7, <1>8, <1>9, <1>10, <1>11, <1>12
  DEF BrowserNext, Game, Respond

LEMMA BrowserInvariant == BrowserSpec => []BrowserInv
<1>1. BrowserInv /\ [BrowserNext]_browserVars => BrowserInv'
  BY BrowserTypesStep, CallsStep, ListsStep DEF BrowserInv, CallsInv
<1> QED BY <1>1, BrowserInvInit, PTL DEF BrowserSpec

(* Whichever of the answer, the timeout and a second request comes first,  *)
(* the callback of a request to the master is called at most once.         *)
THEOREM MasterCalledOnce == BrowserSpec => []MasterOnce
<1>1. BrowserInv => MasterOnce
  BY DEF BrowserInv
<1> QED BY <1>1, BrowserInvariant, PTL

(* The safety that Completed rests on: a list that is waited for is never  *)
(* left with nobody to complete it.                                        *)
THEOREM ListsPursued == BrowserSpec => []NoneForgotten
<1>1. BrowserInv => NoneForgotten
  BY DEF BrowserInv
<1> QED BY <1>1, BrowserInvariant, PTL
=============================================================================
