---------------------------- MODULE ServerBrowser ----------------------------
(* The lists of the server browser: steam/interfaces/matchmaking_servers   *)
(* .cpp and component/server_list.cpp.                                     *)
(*                                                                         *)
(* The game asks for a list and gives a response object.  The internet     *)
(* list comes from the master server, or is given up on by the async       *)
(* thread; the favorites are at hand.  Every server listed is queried, and *)
(* each query is answered once (Party): on the main thread when the server *)
(* answers, on the async thread when it does not.  Both run the same       *)
(* handler, which tells the response object, and the last one tells it     *)
(* that the list is complete.                                              *)
EXTENDS Naturals, FiniteSets

CONSTANTS
    Address,
    internet, favorites,
    None,
    MaxRequests,   \* lists asked for; numbered in that order
    MaxRefreshes   \* RefreshServer

ASSUME BrowserAssumption ==
    /\ IsFiniteSet(Address) /\ internet # favorites
    /\ MaxRequests \in Nat /\ MaxRefreshes \in Nat /\ None \notin Nat

List == {internet, favorites}
Thread == {"main", "async"}
Request == 1 .. MaxRequests

VARIABLES
    requests,          \* lists asked for so far
    refreshes,
    requesting,        \* master_state: the request whose callback it holds, or None
    resolves,          \* get_master_server finds an address
    response,          \* internet_response, favorites_response: of which request
    servers,           \* the lists
    handled,           \* the entries of them that are handled
    favorite_servers,
    pings,           \* how many queries of a server are out, for each list
    handler,           \* the handler of an answer each thread is in
    closed,            \* pre_destroy has run
    called,            \* history: how often the callback of a request was called
    owed               \* history: the list is not complete, as far as was told

master == <<requesting, resolves, called>>
lists == <<servers, handled, pings>>
browserVars == <<requests, refreshes, master, response, lists, favorite_servers, handler,
          closed, owed>>

NoHandler == [pc |-> "idle", list |-> internet, all_handled |-> FALSE, res |-> None]

BrowserInit ==
    /\ requests = 0 /\ refreshes = 0
    /\ requesting = None
    /\ resolves \in BOOLEAN
    /\ response = [l \in List |-> None]
    /\ servers = [l \in List |-> {}]
    /\ handled = [l \in List |-> {}]
    /\ favorite_servers \in SUBSET Address
    /\ pings = [l \in List |-> [s \in Address |-> 0]]
    /\ handler = [t \in Thread |-> NoHandler]
    /\ closed = FALSE
    /\ called = [r \in Request |-> 0]
    /\ owed = [l \in List |-> FALSE]

-----------------------------------------------------------------------------
(* Each server of the new list is queried.                                 *)
ping_server(l, ss) ==
    pings' = [pings EXCEPT ![l] = [s \in Address |-> IF s \in ss THEN @[s] + 1 ELSE @[s]]]

(* The entries of the list are replaced, none of them handled.             *)
Replace(l, ss) ==
    /\ servers' = [servers EXCEPT ![l] = ss]
    /\ handled' = [handled EXCEPT ![l] = {}]
    /\ ping_server(l, ss)

NewRequest(l) ==
    /\ requests < MaxRequests
    /\ requests' = requests + 1
    /\ response' = [response EXCEPT ![l] = requests']

(* request_servers replaces the callback of a request under way; without   *)
(* an address for the master nothing more happens.                         *)
RequestInternetServerList ==
    /\ NewRequest(internet)
    /\ requesting' = IF resolves THEN requests' ELSE requesting
    /\ owed' = [owed EXCEPT ![internet] = resolves]
    /\ UNCHANGED <<refreshes, resolves, called, lists, favorite_servers, handler, closed>>

RequestFavoritesServerList ==
    /\ NewRequest(favorites)
    /\ owed' = [owed EXCEPT ![favorites] = favorite_servers # {}]
    /\ IF favorite_servers = {} THEN UNCHANGED lists
                                ELSE Replace(favorites, favorite_servers)
    /\ UNCHANGED <<refreshes, master, favorite_servers, handler, closed>>

ReleaseRequest(l) ==
    /\ response[l] # None
    /\ response' = [response EXCEPT ![l] = None]
    /\ owed' = [owed EXCEPT ![l] = FALSE]
    /\ UNCHANGED <<requests, refreshes, master, lists, favorite_servers, handler, closed>>

(* The entry stays handled while the server is asked again.                *)
RefreshServer(l, s) ==
    /\ refreshes < MaxRefreshes
    /\ refreshes' = refreshes + 1
    /\ s \in servers[l]
    /\ ping_server(l, {s})
    /\ UNCHANGED <<requests, master, response, servers, handled, favorite_servers,
                   handler, closed, owed>>

change_favorite_servers ==
    /\ \E s \in Address : favorite_servers' \in
                             {favorite_servers \union {s}, favorite_servers \ {s}}
    /\ UNCHANGED <<requests, refreshes, master, response, lists, handler, closed,
                   owed>>

-----------------------------------------------------------------------------
(* The master server's answer and the timeout, each under the lock of      *)
(* master_state, which the callback is called with.                        *)

Callback == called' = [called EXCEPT ![requesting] = @ + 1]

(* Whatever answer of the master comes first is taken.                     *)
handle_server_list_response(ss) ==
    /\ requesting # None
    /\ Callback
    /\ requesting' = None
    /\ IF response[internet] = None \/ ss = {}
       THEN UNCHANGED lists /\ owed' = [owed EXCEPT ![internet] = FALSE]
       ELSE Replace(internet, ss) /\ owed' = [owed EXCEPT ![internet] = TRUE]
    /\ UNCHANGED <<requests, refreshes, resolves, response, favorite_servers, handler,
                   closed>>

(* A mutant: the request stays open.                                       *)
give_up_StaysOpen ==
    /\ requesting # None /\ handler["async"].pc = "idle"
    /\ Callback
    /\ owed' = [owed EXCEPT ![internet] = FALSE]
    /\ UNCHANGED <<requests, refreshes, requesting, resolves, response, lists,
                   favorite_servers, handler, closed>>

give_up ==
    /\ requesting # None /\ handler["async"].pc = "idle"
    /\ Callback
    /\ requesting' = None
    /\ owed' = [owed EXCEPT ![internet] = FALSE]
    /\ UNCHANGED <<requests, refreshes, resolves, response, lists, favorite_servers,
                   handler, closed>>

-----------------------------------------------------------------------------
(* handle_server_respone: under the lock of the list the entry is handled; *)
(* a list that was replaced may have none.                                 *)

(* A mutant: a server that did not answer is left unhandled.               *)
MarkHandled_Answered(t, l, s) ==
    IF t = "main" THEN handled' = [handled EXCEPT ![l] = @ \union {s}]
                  ELSE UNCHANGED handled

MarkHandled(t, l, s) == handled' = [handled EXCEPT ![l] = @ \union {s}]

handle_server_respone(t, l, s) ==
    /\ handler[t].pc = "idle" /\ pings[l][s] > 0
    /\ pings' = [pings EXCEPT ![l][s] = @ - 1]
    /\ IF s \in servers[l]
       THEN /\ MarkHandled(t, l, s)
            /\ handler' = [handler EXCEPT ![t] =
                   [pc |-> "tell", list |-> l, all_handled |-> handled'[l] = servers[l],
                    res |-> None]]
       ELSE UNCHANGED <<handled, handler>>
    /\ UNCHANGED <<requests, refreshes, master, response, servers, favorite_servers,
                   closed, owed>>

(* ServerResponded or ServerFailedToRespond, of the response object there  *)
(* is by now.                                                              *)
tell(t) ==
    LET h == handler[t]
    IN  /\ h.pc = "tell"
        /\ handler' = [handler EXCEPT ![t] =
               IF response[h.list] = None \/ ~h.all_handled
               THEN NoHandler
               ELSE [h EXCEPT !.pc = "complete", !.res = response[h.list]]]
        /\ UNCHANGED <<requests, refreshes, master, response, lists, favorite_servers,
                       closed, owed>>

(* It completes the list unless another has taken its place meanwhile.     *)
RefreshComplete(t) ==
    LET h == handler[t]
    IN  /\ h.pc = "complete"
        /\ handler' = [handler EXCEPT ![t] = NoHandler]
        /\ owed' = IF h.res = response[h.list] /\ handled[h.list] = servers[h.list]
                   THEN [owed EXCEPT ![h.list] = FALSE] ELSE owed
        /\ UNCHANGED <<requests, refreshes, master, response, lists, favorite_servers,
                       closed>>

Respond(t) == \E l \in List, s \in Address : handle_server_respone(t, l, s)

(* That of server_list, and of party, which drops the queries.             *)
server_list_pre_destroy ==
    /\ closed' = TRUE
    /\ requesting' = None
    /\ pings' = [l \in List |-> [s \in Address |-> 0]]
    /\ owed' = [l \in List |-> FALSE]
    /\ UNCHANGED <<requests, refreshes, resolves, called, response, servers, handled,
                   favorite_servers, handler>>

Game ==
    \/ RequestInternetServerList
    \/ RequestFavoritesServerList
    \/ \E l \in List : ReleaseRequest(l)
    \/ \E l \in List, s \in Address : RefreshServer(l, s)
    \/ change_favorite_servers
    \/ \E ss \in SUBSET Address : handle_server_list_response(ss)
    \/ server_list_pre_destroy

(* The game and the packets on the main thread, and the async thread.      *)
BrowserNext ==
    \/ ~closed /\ Game
    \/ give_up
    \/ \E t \in Thread : Respond(t) \/ tell(t) \/ RefreshComplete(t)

(* The async loops go on, so what is not answered is given up on, and a    *)
(* handler that has begun goes on.                                         *)
BrowserFairness ==
    /\ WF_browserVars(give_up) /\ WF_browserVars(Respond("async"))
    /\ \A t \in Thread : WF_browserVars(tell(t)) /\ WF_browserVars(RefreshComplete(t))

BrowserSpec == BrowserInit /\ [][BrowserNext]_browserVars

BrowserFairSpec == BrowserSpec /\ BrowserFairness

-----------------------------------------------------------------------------
Handlers == [pc : {"idle", "tell", "complete"}, list : List, all_handled : BOOLEAN,
             res : Request \union {None}]

BrowserTypeOK ==
    /\ requests \in 0 .. MaxRequests /\ refreshes \in Nat
    /\ requesting \in Request \union {None} /\ resolves \in BOOLEAN
    /\ response \in [List -> Request \union {None}]
    /\ servers \in [List -> SUBSET Address] /\ handled \in [List -> SUBSET Address]
    /\ favorite_servers \in SUBSET Address
    /\ pings \in [List -> [Address -> Nat]]
    /\ handler \in [Thread -> Handlers]
    /\ closed \in BOOLEAN
    /\ called \in [Request -> Nat] /\ owed \in [List -> BOOLEAN]

(* The answer of the master and the timeout race, and a second request     *)
(* replaces the first: none has its callback called twice.                 *)
MasterOnce == \A r \in Request : called[r] <= 1

(* The strengthening of MasterOnce: the request under way is one that was  *)
(* made and not answered, as are those to come.                            *)
Uncalled ==
    /\ requesting # None => requesting <= requests /\ called[requesting] = 0
    /\ \A r \in Request : r > requests => called[r] = 0

(* What keeps a list from being forgotten: an entry that is not handled is *)
(* asked for, and a list that is waited for has a request to the master    *)
(* under way, an entry to come, or a handler that found all of them        *)
(* handled and is to complete it for the one who waits.                    *)
Completes(t, l) ==
    /\ handler[t].list = l /\ handler[t].all_handled
    /\ \/ handler[t].pc = "tell"
       \/ handler[t].pc = "complete" /\ handler[t].res = response[l]

AllAsked(l) == \A s \in servers[l] \ handled[l] : pings[l][s] > 0

Pursued(l) ==
    \/ l = internet /\ requesting # None
    \/ servers[l] # handled[l]
    \/ \E t \in Thread : Completes(t, l)

NoneForgotten ==
    /\ \A l \in List : handled[l] \subseteq servers[l]
    /\ ~closed => \A l \in List : AllAsked(l)
    /\ \A l \in List : owed[l] => ~closed /\ response[l] # None /\ Pursued(l)
    /\ closed => requesting = None

BrowserInv == BrowserTypeOK /\ MasterOnce /\ Uncalled /\ NoneForgotten

(* A browser that waits for a list comes to be told that it is complete,   *)
(* after every server of it was handled, in whatever order the two threads *)
(* handle the answers and whichever answers of an older list come between, *)
(* unless it releases the request.                                         *)
Completed == \A l \in List : owed[l] ~> ~owed[l]
=============================================================================
