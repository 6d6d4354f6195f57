------------------------------- MODULE Party -------------------------------
(***************************************************************************)
(* Joining a server: component/party.cpp, with the join generations of     *)
(* component/client_fps_limit.cpp and the map gate of workshop.cpp and     *)
(* fastdl.cpp.                                                             *)
(*                                                                         *)
(* connect asks the server for its info.  The async thread sends the       *)
(* queries and gives up on them after two seconds; the main thread handles *)
(* the answers, checks them, switches the game's mode, and at last hands   *)
(* the join to the engine.  Each request starts a new generation, and      *)
(* every later step of an older one must come to nothing.                  *)
(*                                                                         *)
(* The engine is reduced to connection, the server it is connecting or     *)
(* connected to, and mode.  The cap a join may carry is in JoinPolicy.     *)
(***************************************************************************)
EXTENDS Naturals, Sequences, FiniteSets

CONSTANTS
    Server,
    NoServer,
    Mode,          \* session modes: campaign, multiplayer, zombies
    ModeOf,        \* [Server -> Mode]: the mode a server plays
    MaxQueries,    \* bound: queries; numbered in the order of query_server
    MaxJoins,      \* bound: join generations
    MaxSends       \* getInfo packets of one pass over the queries, 9 in the code

ASSUME PartyAssumption ==
    /\ NoServer \notin Server
    /\ ModeOf \in [Server -> Mode]
    /\ MaxQueries \in Nat
    /\ MaxJoins \in Nat
    /\ MaxSends \in Nat

Query == 1 .. MaxQueries
Peer == Server \cup {NoServer}
Browser == 0       \* stands for the generation of a query of the server browser

VARIABLES
    connect_host,
    policy,          \* the parts of the join policy that decide is_current_join
    query,           \* Seq of [host, generation]: all queries made so far
    server_queries,  \* SUBSET Query: the list, which is in the order of query_server
    sent, late,      \* SUBSET Query: sent; sent two seconds ago or more
    answers,         \* SUBSET of [query, accepted]: infoResponses on their way
    removed,         \* SUBSET Query: timed out, callback not called yet (async thread)
    tasks,           \* Seq of scheduled tasks of the main pipeline
    mode, switching, \* the session mode, and the one being switched to, if any
    maps,            \* SUBSET Server: servers whose present map and mod are loaded
    downloads,       \* Seq(Server): downloads waiting on the async pipeline
    download,        \* the download the async thread is in, if any
    download_active,
    cached_server_info,
    connection,      \* the server the engine connects to or is connected to
    destroyed,       \* pre_destroy has run
    answered,        \* history: how often each query's callback was called
    natives          \* history: how often each generation was handed to the engine

queries == <<query, server_queries, sent, late, answers, removed, answered>>
fastdl == <<maps, downloads, download, download_active>>
engine == <<mode, switching, connection>>
vars == <<connect_host, policy, queries, tasks, engine, fastdl,
          cached_server_info, natives, destroyed>>

Task(kind, server, generation, delayed) ==
    [kind |-> kind, server |-> server, generation |-> generation, delayed |-> delayed]

Tasks == [kind : {"verify", "connect_with_mode", "launch_mode", "requery"},
          server : Peer, generation : 0 .. MaxJoins, delayed : BOOLEAN]

NoPolicy == [server |-> NoServer, generation |-> 0, current_join |-> FALSE,
             join_started |-> FALSE]

Init ==
    /\ connect_host = NoServer
    /\ policy = NoPolicy
    /\ query = <<>>
    /\ server_queries = {} /\ sent = {} /\ late = {} /\ removed = {}
    /\ answers = {}
    /\ tasks = <<>>
    /\ mode \in Mode /\ switching \in {mode}
    /\ maps \in SUBSET Server
    /\ downloads = <<>> /\ download = NoServer /\ download_active = FALSE
    /\ cached_server_info = NoServer
    /\ destroyed = FALSE
    /\ connection = NoServer
    /\ answered = [q \in Query |-> 0]
    /\ natives = [g \in 1 .. MaxJoins |-> 0]

-----------------------------------------------------------------------------
(* Queries                                                                 *)

query_server(s, generation) ==
    /\ Len(query) < MaxQueries
    /\ query' = Append(query, [host |-> s, generation |-> generation])
    /\ server_queries' = server_queries \cup {Len(query) + 1}
    /\ UNCHANGED <<sent, late, answers, removed, answered>>

(* A query of the server browser, matchmaking_servers.cpp.                 *)
Browse(s) ==
    /\ query_server(s, Browser)
    /\ UNCHANGED <<connect_host, policy, tasks, engine, fastdl, cached_server_info, natives, destroyed>>

Unsent == server_queries \ sent

(* The first MaxSends unsent queries of the list.                          *)
ToSend == {q \in Unsent : Cardinality({p \in Unsent : p <= q}) <= MaxSends}

(* Mutant: the comparison with two seconds the wrong way round.            *)
Timed_Early == (server_queries \cap sent) \ late

Timed == server_queries \cap late

(* cleanup_queried_servers up to the release of the lock.                  *)
SendAndRemove ==
    /\ sent' = sent \cup ToSend
    /\ server_queries' = server_queries \ Timed

(* The async thread, every 200 ms unless it is inside a download.          *)
AsyncIdle == removed = {} /\ download = NoServer

cleanup_queried_servers ==
    /\ AsyncIdle
    /\ SendAndRemove
    /\ removed' = Timed
    /\ UNCHANGED <<connect_host, policy, query, late, answers, answered, tasks,
                   engine, fastdl, cached_server_info, natives, destroyed>>

(* callback(false), outside the lock; for a join it returns at once.       *)
callback_false ==
    \E q \in removed :
        /\ \A p \in removed : q <= p
        /\ removed' = removed \ {q}
        /\ answered' = [answered EXCEPT ![q] = @ + 1]
        /\ UNCHANGED <<connect_host, policy, query, server_queries, sent, late, answers,
                       tasks, engine, fastdl, cached_server_info, natives, destroyed>>

(* Two seconds pass since the query was sent.                              *)
Elapse(q) ==
    /\ q \in (server_queries \cap sent) \ late
    /\ late' = late \cup {q}
    /\ UNCHANGED <<connect_host, policy, query, server_queries, sent, answers, removed,
                   answered, tasks, engine, fastdl, cached_server_info, natives, destroyed>>

(* A server answers the getInfo it received, echoing the challenge.  The   *)
(* answer may arrive at any later time, more than once or not at all; what *)
(* is sent after the query has left the list is dropped and not modelled.  *)
Answer(q, accepted) ==
    /\ q \in server_queries \cap sent
    /\ \A a \in answers : a.query # q
    /\ answers' = answers \cup {[query |-> q, accepted |-> accepted]}
    /\ UNCHANGED <<connect_host, policy, query, server_queries, sent, late, removed,
                   answered, tasks, engine, fastdl, cached_server_info, natives, destroyed>>

-----------------------------------------------------------------------------
(* Mutant: any generation for the server will do.                          *)
is_current_join_AnyGeneration(s, generation) ==
    policy.current_join /\ policy.server = s

is_current_join(s, generation) ==
    policy.current_join /\ policy.server = s /\ policy.generation = generation

(* handle_connect_query_response of a successful query: cached_server_info *)
(* is set before the checks that may refuse the server.                    *)
handle_connect_query_response(s, generation, accepted) ==
    IF is_current_join(s, generation)
    THEN /\ cached_server_info' = s
         /\ tasks' = IF accepted THEN Append(tasks, Task("verify", s, generation, FALSE))
                                 ELSE tasks
    ELSE UNCHANGED <<cached_server_info, tasks>>

(* Mutant: the answered query stays in the list.                           *)
handle_info_response_Keeps(a) ==
    /\ a.query \in server_queries \cap sent
    /\ answered' = [answered EXCEPT ![a.query] = @ + 1]
    /\ IF query[a.query].generation = Browser
       THEN UNCHANGED <<cached_server_info, tasks>>
       ELSE handle_connect_query_response(query[a.query].host, query[a.query].generation,
                                          a.accepted)
    /\ UNCHANGED <<connect_host, policy, query, server_queries, sent, late, answers,
                   removed, engine, fastdl, natives, destroyed>>

(* The query is taken out of the list under the lock, its callback called  *)
(* after it; an answer without a query in the list is dropped.             *)
handle_info_response(a) ==
    /\ a.query \in server_queries \cap sent
    /\ server_queries' = server_queries \ {a.query}
    /\ answered' = [answered EXCEPT ![a.query] = @ + 1]
    /\ IF query[a.query].generation = Browser
       THEN UNCHANGED <<cached_server_info, tasks>>
       ELSE handle_connect_query_response(query[a.query].host, query[a.query].generation,
                                          a.accepted)
    /\ UNCHANGED <<connect_host, policy, query, sent, late, answers, removed,
                   engine, fastdl, natives, destroyed>>

-----------------------------------------------------------------------------
(* client_fps_limit::begin_join and query_connect_server.                  *)
begin_join(s) ==
    /\ policy.generation < MaxJoins
    /\ policy' = [server |-> s, generation |-> policy.generation + 1,
                  current_join |-> TRUE, join_started |-> FALSE]
    /\ query_server(s, policy.generation + 1)

connect(s) ==
    /\ ~download_active
    /\ connect_host' = s
    /\ begin_join(s)
    /\ UNCHANGED <<tasks, engine, fastdl, cached_server_info, natives, destroyed>>

(* A join that was started is retired once the client arrived, failed, or  *)
(* ran out of time: see JoinPolicy.                                        *)
retire_join_policy ==
    /\ policy.current_join /\ policy.join_started
    /\ policy' = [policy EXCEPT !.current_join = FALSE, !.join_started = FALSE]
    /\ UNCHANGED <<connect_host, queries, tasks, engine, fastdl, cached_server_info, natives, destroyed>>

-----------------------------------------------------------------------------
(* Tasks of the main pipeline: those without a delay in their order, a     *)
(* delayed one whenever its time has come.                                 *)
Due(i) == tasks[i].delayed \/ \A j \in 1 .. i - 1 : tasks[j].delayed

Without(i) == [j \in 1 .. Len(tasks) - 1 |-> IF j < i THEN tasks[j] ELSE tasks[j + 1]]

(* A requery after a download first reloads the user's content.            *)
requery_current_server(i) ==
    /\ tasks[i].kind = "requery"
    /\ tasks' = Without(i)
    /\ maps' = maps \cup ({tasks[i].server} \ {NoServer})
    /\ IF connect_host = NoServer THEN UNCHANGED <<policy, queries>>
                                  ELSE begin_join(connect_host)
    /\ UNCHANGED <<connect_host, engine, downloads, download, download_active,
                   cached_server_info, natives, destroyed>>

(* connect_to_lobby: both checks of the generation see the same policy, as *)
(* only the main thread begins joins.                                      *)
connect_to_lobby(s, generation) ==
    /\ policy' = [policy EXCEPT !.join_started = TRUE]
    /\ connection' = s
    /\ natives' = [natives EXCEPT ![generation] = @ + 1]

connect_to_lobby_with_mode(s, generation, was_retried, rest) ==
    IF ~is_current_join(s, generation)
    THEN tasks' = rest /\ UNCHANGED <<policy, connection, natives>>
    ELSE IF mode = ModeOf[s]
    THEN tasks' = rest /\ connect_to_lobby(s, generation)
    ELSE /\ tasks' = IF was_retried THEN rest
                     ELSE rest \o <<Task("connect_with_mode", s, generation, TRUE),
                                    Task("launch_mode", s, generation, FALSE)>>
         /\ UNCHANGED <<policy, connection, natives>>

(* The task handle_connect_query_response schedules.  Without the map it   *)
(* starts a download if the server names a site for it, or shows an error; *)
(* then it runs cleanup_queried_servers, callbacks included.               *)
start_map_download(s) ==
    downloads' = IF download_active THEN downloads ELSE Append(downloads, s)

VerifyMissing(s) ==
    /\ start_map_download(s) \/ UNCHANGED downloads
    /\ SendAndRemove
    /\ answered' = [q \in Query |-> IF q \in Timed THEN answered[q] + 1 ELSE answered[q]]
    /\ UNCHANGED <<policy, connection, natives>>

verify(i) ==
    LET s == tasks[i].server
        generation == tasks[i].generation
    IN  /\ tasks[i].kind = "verify"
        /\ IF is_current_join(s, generation) /\ s \notin maps
           THEN VerifyMissing(s) /\ tasks' = Without(i)
           ELSE /\ connect_to_lobby_with_mode(s, generation, FALSE, Without(i))
                /\ UNCHANGED <<downloads, server_queries, sent, answered>>
        /\ UNCHANGED <<connect_host, query, late, answers, removed, mode, switching, maps,
                       download, download_active, cached_server_info, destroyed>>

retry_with_mode(i) ==
    /\ tasks[i].kind = "connect_with_mode"
    /\ connect_to_lobby_with_mode(tasks[i].server, tasks[i].generation, TRUE, Without(i))
    /\ UNCHANGED <<connect_host, queries, mode, switching, fastdl, cached_server_info, destroyed>>

launch_mode(i) ==
    /\ tasks[i].kind = "launch_mode"
    /\ tasks' = Without(i)
    /\ switching' = IF is_current_join(tasks[i].server, tasks[i].generation)
                    THEN ModeOf[tasks[i].server] ELSE switching
    /\ UNCHANGED <<connect_host, policy, queries, mode, connection, fastdl,
                   cached_server_info, natives, destroyed>>

ExecuteTask ==
    \E i \in 1 .. Len(tasks) :
        Due(i) /\ (requery_current_server(i) \/ verify(i) \/ retry_with_mode(i) \/ launch_mode(i))

-----------------------------------------------------------------------------
(* fastdl.cpp: perform_download on the async thread.                       *)
perform_download ==
    /\ AsyncIdle
    /\ downloads # <<>>
    /\ download' = Head(downloads)
    /\ downloads' = Tail(downloads)
    /\ download_active' = TRUE
    /\ UNCHANGED <<connect_host, policy, queries, tasks, engine, maps, cached_server_info, natives, destroyed>>

(* The end of the download, refused, cancelled, failed or complete.        *)
download_ends(complete) ==
    /\ download_active
    /\ download_active' = FALSE
    /\ download' = IF complete THEN download ELSE NoServer
    /\ UNCHANGED <<connect_host, policy, queries, tasks, engine, maps, downloads,
                   cached_server_info, natives, destroyed>>

success_callback ==
    /\ download # NoServer /\ ~download_active
    /\ tasks' = Append(tasks, Task("requery", download, 0, FALSE))
    /\ download' = NoServer
    /\ UNCHANGED <<connect_host, policy, queries, engine, maps, downloads,
                   download_active, cached_server_info, natives, destroyed>>

-----------------------------------------------------------------------------
(* The engine                                                              *)

Com_SwitchMode ==
    /\ mode # switching
    /\ mode' = switching
    /\ UNCHANGED <<connect_host, policy, queries, tasks, switching, connection, fastdl,
                   cached_server_info, natives, destroyed>>

(* The client leaves, or the connection attempt fails.                     *)
Leave ==
    /\ connection # NoServer
    /\ connection' = NoServer
    /\ UNCHANGED <<connect_host, policy, queries, tasks, mode, switching, fastdl,
                   cached_server_info, natives, destroyed>>

(* The server has changed to a map the client has not, and the engine      *)
(* drops the client: a requery is scheduled ten seconds ahead.             *)
com_error_missing_map ==
    /\ connection # NoServer
    /\ connection' = NoServer
    /\ maps' = maps \ {connection}
    /\ tasks' = Append(tasks, Task("requery", NoServer, 0, TRUE))
    /\ UNCHANGED <<connect_host, policy, queries, mode, switching, downloads, download,
                   download_active, cached_server_info, natives, destroyed>>

pre_destroy ==
    /\ ~destroyed
    /\ destroyed' = TRUE
    /\ server_queries' = {}
    /\ UNCHANGED <<connect_host, policy, query, sent, late, answers, removed, answered, tasks,
                   engine, fastdl, cached_server_info, natives>>

User == \E s \in Server : connect(s) \/ Browse(s)

Network ==
    \/ \E q \in Query, accepted \in BOOLEAN : Answer(q, accepted)
    \/ \E a \in answers : handle_info_response(a)

Async == cleanup_queried_servers \/ callback_false \/ perform_download \/ success_callback

Engine == Com_SwitchMode \/ Leave \/ com_error_missing_map

Next ==
    \/ User \/ Network \/ Async \/ Engine \/ ExecuteTask
    \/ retire_join_policy \/ pre_destroy
    \/ \E q \in Query : Elapse(q)
    \/ \E complete \in BOOLEAN : download_ends(complete)

Spec == Init /\ [][Next]_vars

(* The async loop goes on until the process ends, a query grows old, and   *)
(* perform_download returns: its requests fail or end, and the window that *)
(* asks for the player's consent is answered.                              *)
Fairness ==
    /\ WF_vars(cleanup_queried_servers)
    /\ WF_vars(callback_false)
    /\ WF_vars(perform_download)
    /\ WF_vars(\E complete \in BOOLEAN : download_ends(complete))
    /\ WF_vars(success_callback)
    /\ \A q \in Query : WF_vars(Elapse(q))

FairSpec == Spec /\ Fairness

-----------------------------------------------------------------------------
TypeOK ==
    /\ connect_host \in Peer
    /\ policy \in [server : Peer, generation : 0 .. MaxJoins,
                   current_join : BOOLEAN, join_started : BOOLEAN]
    /\ query \in Seq([host : Server, generation : 0 .. MaxJoins])
    /\ Len(query) <= MaxQueries
    /\ server_queries \subseteq 1 .. Len(query) /\ removed \subseteq sent
    /\ late \subseteq sent /\ sent \subseteq 1 .. Len(query)
    /\ answers \subseteq [query : sent, accepted : BOOLEAN]
    /\ tasks \in Seq(Tasks)
    /\ mode \in Mode /\ switching \in Mode
    /\ maps \subseteq Server
    /\ downloads \in Seq(Server) /\ download \in Peer /\ download_active \in BOOLEAN
    /\ download_active => download # NoServer
    /\ cached_server_info \in Peer /\ connection \in Peer
    /\ destroyed \in BOOLEAN
    /\ answered \in [Query -> Nat]
    /\ natives \in [1 .. MaxJoins -> Nat]

(* The callback of a query is called once: with the answer, or with the    *)
(* failure, and never with both, whichever threads clean up at the same    *)
(* time; and none is forgotten while the component lives.                  *)
AnsweredOnce ==
    \A q \in 1 .. Len(query) :
        /\ answered[q] <= 1
        /\ q \in server_queries \cup removed => answered[q] = 0
        /\ destroyed \/ q \in server_queries \cup removed \/ answered[q] = 1

(* A generation is handed to the engine at most once, whatever is answered *)
(* twice, retried, downloaded or asked again in between.                   *)
JoinsOnce == \A g \in 1 .. MaxJoins : natives[g] <= 1

(* The engine is told to connect only by the newest generation, to the     *)
(* server asked for last, and in that server's session mode; and it is     *)
(* told to switch the mode only by a task of the newest generation, to the *)
(* mode of the server asked for last.                                      *)
ConnectsNewest ==
    \A g \in 1 .. MaxJoins :
        natives'[g] # natives[g] =>
          /\ g = policy.generation
          /\ connection' = connect_host
          /\ mode = ModeOf[connection']

SwitchesNewest ==
    switching' # switching =>
        /\ switching' = ModeOf[connect_host]
        /\ \E i \in 1 .. Len(tasks) :
              launch_mode(i) /\ tasks[i].generation = policy.generation

NeverStale == [][ConnectsNewest /\ SwitchesNewest]_vars

(* The joins are begun, handed to the engine and retired the way JoinPolicy *)
(* takes for granted, and as it does it.                                   *)
Joins == INSTANCE JoinContract WITH
    server <- policy.server, generation <- policy.generation,
    current_join <- policy.current_join, join_started <- policy.join_started,
    handed <- natives

KeepsContract == Joins!Spec

(* Every query is answered in the end, behind whatever download occupies   *)
(* the async thread, and however many queries a pass may send.             *)
EventuallyAnswered ==
    \A q \in Query : q \in server_queries ~> (answered[q] = 1 \/ destroyed)

(* party.hpp: "Re-query the server we're trying to connect to".  A requery *)
(* never concerns a server the client is connecting or connected to        *)
(* already.                                                                *)
RequeryOnlyPending ==
    [][(\E i \in 1 .. Len(tasks) : requery_current_server(i))
         => connect_host = NoServer \/ connection # connect_host]_vars
=============================================================================
