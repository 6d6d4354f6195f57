------------------------------ MODULE Presence ------------------------------
(* The launcher's pipe and what hangs on it: component/ipc.cpp streams the *)
(* game's presence to the launcher, takes its invites, its friends list    *)
(* and its claim to own the Discord card; component/discord.cpp shows the  *)
(* card while the launcher does not, and holds an accepted invite until    *)
(* the game can act on it; component/friends.cpp keeps the friends.        *)
(*                                                                         *)
(* Two threads share the queue of outgoing lines, two flags, the pending   *)
(* route and the friends: io, which owns the pipe, and main, which runs    *)
(* the scheduler's loops.  The launcher may start, say things, stop        *)
(* reading, and exit at any time.                                          *)
EXTENDS Naturals, Sequences

CONSTANTS
    Friend,       \* the friends a launcher may report
    None,         \* no presence, no route
    Scenario,     \* sets of the events that may happen in one behaviour
    MaxLaunches,  \* launchers started
    MaxLines,     \* lines the launchers say, and joins from Discord
    MaxChanges,   \* changes of the game's presence
    MaxRequests   \* joins and invites the player asks of the launcher

(* The events the threads do not cause: what a launcher may say or do, and *)
(* what the player and the game may.                                       *)
Event == {"owner", "connect", "friends", "open-match", "wedge",
          "play", "ready", "join", "ask", "quit"}

ASSUME BoundsAssumption ==
    /\ Scenario \subseteq SUBSET Event
    /\ MaxLaunches \in Nat /\ MaxLines \in Nat
    /\ MaxChanges \in Nat /\ MaxRequests \in Nat

(* What serialize_presence tells apart: no match, a private match closed   *)
(* to friends, one open to them.                                           *)
State == {"menu", "closed", "open"}

ASSUME NoneAssumption == None \notin State \union Nat

VARIABLES
    may,           \* the scenario of this behaviour
    presence,      \* get_presence_state and get_join_transport
    changes,       \* how often it changed
    ready,         \* join_ready: the lobby and the online services are up
    launch,        \* the launchers started so far: the last is the one there is
    up,            \* the launcher has its end of the pipe
    wedged,        \* it no longer reads
    said,          \* lines and Discord joins so far
    inbox,         \* lines io has not read
    shown,         \* the last presence that launcher was told
    io,            \* where the io thread is
    conn,          \* the launcher whose pipe it has
    alive,         \* io_loop's alive
    pending,       \* io_loop's pending
    stop_io,
    queue,         \* get_queue(); a line has, as history, in `to` the launcher whose
                   \* pipe io had when the line was queued, 0 when io had none
    force_resend,
    store,         \* friends' list, and the launcher that sent it
    main,          \* where the main thread is
    asked,         \* requests so far
    last_sent,     \* send_presence's
    tasks,         \* scheduler::once lambdas on main
    wire_launcher_owns,
    effective_launcher_owns,
    grace,         \* release_pending, and whether release_deadline has passed
    last_presence,
    card,          \* what Discord shows of the game
    joins,         \* queue_join's calls so far: a route is the number of its call
    pending_route,
    routed         \* the joins routed, in order

game == <<may, presence, changes, ready>>
launcher == <<launch, up, wedged, said>>
thread == <<io, conn, alive, pending, inbox>>
sender == <<asked, last_sent, tasks>>
native == <<effective_launcher_owns, grace, last_presence, card>>
shared == <<queue, force_resend, store, wire_launcher_owns, joins, pending_route>>
vars == <<game, launcher, shown, thread, stop_io, shared, main, sender, native, routed>>

Init ==
    /\ may \in Scenario
    /\ presence = "menu" /\ changes = 0 /\ ready = FALSE
    /\ launch = 0 /\ up = FALSE /\ wedged = FALSE /\ said = 0
    /\ inbox = <<>> /\ shown = None
    /\ io = "connect" /\ conn = 0 /\ alive = FALSE /\ pending = <<>>
    /\ stop_io = FALSE /\ queue = <<>> /\ force_resend = FALSE
    /\ store = [from |-> 0, list |-> {}]
    /\ main = "idle" /\ asked = 0 /\ last_sent = None /\ tasks = <<>>
    /\ wire_launcher_owns = FALSE /\ effective_launcher_owns = FALSE
    /\ grace = "none" /\ last_presence = None /\ card = None
    /\ joins = 0 /\ pending_route = None /\ routed = <<>>

-----------------------------------------------------------------------------
(* The launcher.                                                           *)

Launch ==
    /\ ~up /\ launch < MaxLaunches
    /\ launch' = launch + 1 /\ up' = TRUE
    /\ UNCHANGED <<game, wedged, said, shown, thread, stop_io, shared, main,
                   sender, native, routed>>

Exit ==
    /\ up
    /\ up' = FALSE /\ wedged' = FALSE /\ shown' = None
    /\ UNCHANGED <<game, launch, said, thread, stop_io, shared, main,
                   sender, native, routed>>

Wedge ==
    /\ "wedge" \in may
    /\ up /\ ~wedged
    /\ wedged' = TRUE
    /\ UNCHANGED <<game, launch, up, said, shown, thread, stop_io, shared,
                   main, sender, native, routed>>

(* hello-ack and presence-owner, connect with or without a usable          *)
(* transport, friends, open-match.  A notify shows a toast and no more.    *)
Line ==
    [type : {"owner"}, launcher : BOOLEAN]
        \union [type : {"connect"}, usable : BOOLEAN]
        \union [type : {"friends"}, list : SUBSET Friend]
        \union [type : {"open-match"}]

Say ==
    /\ up /\ conn = launch /\ io \in {"swap", "write", "peek"}
    /\ said < MaxLines
    /\ said' = said + 1
    /\ \E line \in Line : line.type \in may /\ inbox' = Append(inbox, line)
    /\ UNCHANGED <<game, launch, up, wedged, shown, io, conn, alive, pending,
                   stop_io, shared, main, sender, native, routed>>

-----------------------------------------------------------------------------
(* The io thread.                                                          *)

Broken == ~up \/ conn # launch

Holder == IF io \in {"connect", "stopped"} THEN 0 ELSE conn

enqueue(type, state) ==
    queue' = Append(queue, [type |-> type, state |-> state, to |-> Holder])

connect_with_retry ==
    /\ io = "connect"
    /\ IF stop_io
       THEN io' = "stopped" /\ UNCHANGED conn
       ELSE up /\ io' = "hello" /\ conn' = launch
    /\ UNCHANGED <<game, launcher, shown, alive, pending, inbox, stop_io, shared,
                   main, sender, native, routed>>

(* A mutant: last_sent survives the connection it was sent on.             *)
resend_Forgotten == UNCHANGED force_resend

resend == force_resend' = TRUE

(* A mutant: pre_destroy only waits.                                       *)
Cancelled_Never == FALSE

Cancelled == wedged /\ stop_io

write_hello ==
    /\ io = "hello"
    /\ Broken \/ ~wedged \/ Cancelled
    /\ alive' = (~Broken /\ ~wedged)
    /\ resend
    /\ io' = "swap"
    /\ UNCHANGED <<game, launcher, shown, conn, pending, inbox, stop_io, queue,
                   store, wire_launcher_owns, joins, pending_route, main, sender,
                   native, routed>>

(* What io has not read goes with the handle, and alive out of scope.      *)
close_pipe ==
    /\ io' = "lost"
    /\ alive' = FALSE
    /\ inbox' = <<>>

swap_queue ==
    /\ io = "swap"
    /\ IF alive /\ ~stop_io
       THEN /\ pending' = queue
            /\ queue' = <<>>
            /\ io' = IF queue = <<>> THEN "peek" ELSE "write"
            /\ UNCHANGED <<alive, inbox>>
       ELSE /\ close_pipe
            /\ UNCHANGED <<pending, queue>>
    /\ UNCHANGED <<game, launcher, shown, conn, stop_io, force_resend, store,
                   wire_launcher_owns, joins, pending_route, main, sender, native,
                   routed>>

(* A write blocks while the launcher does not read, until pre_destroy      *)
(* cancels it.                                                             *)
write_pending ==
    /\ io = "write"
    /\ \/ /\ ~Broken /\ ~wedged
          /\ shown' = IF Head(pending).type = "presence"
                      THEN Head(pending).state ELSE shown
          /\ pending' = Tail(pending)
          /\ io' = IF Tail(pending) = <<>> THEN "peek" ELSE "write"
          /\ UNCHANGED alive
       \/ /\ Broken \/ Cancelled
          /\ alive' = FALSE
          /\ pending' = <<>>
          /\ io' = "peek"
          /\ UNCHANGED shown
    /\ UNCHANGED <<game, launcher, conn, inbox, stop_io, shared, main, sender,
                   native, routed>>

queue_join ==
    /\ joins' = joins + 1
    /\ pending_route' = joins + 1

handle_connect(line) ==
    /\ IF line.usable THEN queue_join ELSE UNCHANGED <<joins, pending_route>>
    /\ enqueue("connect-ack", None)
    /\ UNCHANGED <<store, wire_launcher_owns, tasks>>

apply_snapshot(entries) == store' = [from |-> conn, list |-> entries]

handle_friends(line) ==
    /\ apply_snapshot(line.list)
    /\ UNCHANGED <<queue, wire_launcher_owns, joins, pending_route, tasks>>

handle_incoming_line(line) ==
    \/ /\ line.type = "owner"
       /\ wire_launcher_owns' = line.launcher
       /\ UNCHANGED <<queue, store, joins, pending_route, tasks>>
    \/ line.type = "connect" /\ handle_connect(line)
    \/ line.type = "friends" /\ handle_friends(line)
    \/ /\ line.type = "open-match"
       /\ tasks' = Append(tasks, "open-match")
       /\ UNCHANGED <<queue, store, wire_launcher_owns, joins, pending_route>>

(* What was said before the launcher went may still be read.               *)
peek_and_read ==
    /\ io = "peek"
    /\ \/ /\ Broken
          /\ close_pipe
          /\ UNCHANGED <<queue, store, wire_launcher_owns,
                         joins, pending_route, tasks>>
       \/ /\ inbox # <<>>
          /\ handle_incoming_line(Head(inbox))
          /\ inbox' = Tail(inbox)
          /\ io' \in {"peek", "swap"}
          /\ UNCHANGED alive
       \/ /\ ~Broken /\ inbox = <<>>
          /\ io' = "swap"
          /\ UNCHANGED <<alive, inbox, queue, store, wire_launcher_owns,
                         joins, pending_route, tasks>>
    /\ UNCHANGED <<game, launcher, shown, conn, pending, stop_io,
                   force_resend, main, asked, last_sent, native, routed>>

(* The pipe is lost, or the thread stops: three calls, each atomic.        *)
disown ==
    /\ io = "lost"
    /\ wire_launcher_owns' = FALSE
    /\ io' = "lost_friends"
    /\ UNCHANGED <<game, launcher, shown, conn, alive, pending, inbox, stop_io,
                   queue, force_resend, store, joins, pending_route, main, sender,
                   native, routed>>

drop_friends ==
    /\ io = "lost_friends"
    /\ apply_snapshot({})
    /\ io' = "lost_queue"
    /\ UNCHANGED <<game, launcher, shown, conn, alive, pending, inbox, stop_io,
                   queue, force_resend, wire_launcher_owns, joins, pending_route,
                   main, sender, native, routed>>

(* A mutant: the lines for a lost launcher wait for the next.              *)
clear_Nothing == UNCHANGED queue

clear == queue' = <<>>

clear_queue ==
    /\ io = "lost_queue"
    /\ clear
    /\ io' = "connect"
    /\ UNCHANGED <<game, launcher, shown, conn, alive, pending, inbox, stop_io,
                   force_resend, store, wire_launcher_owns, joins, pending_route,
                   main, sender, native, routed>>

io_loop ==
    \/ connect_with_retry
    \/ write_hello
    \/ swap_queue
    \/ write_pending
    \/ peek_and_read
    \/ disown
    \/ drop_friends
    \/ clear_queue

-----------------------------------------------------------------------------
(* The main thread.                                                        *)

Play ==
    /\ "play" \in may
    /\ main = "idle" /\ changes < MaxChanges
    /\ changes' = changes + 1
    /\ presence' \in {"menu", "closed"} \ {presence}
    /\ UNCHANGED <<may, ready, launcher, shown, thread, stop_io, shared, main, sender,
                   native, routed>>

(* The player clicks Play and signs in, and may lose the connection again. *)
GetReady ==
    /\ "ready" \in may
    /\ main = "idle"
    /\ ready' = ~ready
    /\ UNCHANGED <<may, presence, changes, launcher, shown, thread, stop_io, shared,
                   main, sender, native, routed>>

(* Two steps, because io may set the flag between the exchange and the     *)
(* line that is queued for it.  scheduler::loop, flush_presence and the    *)
(* open-match lambda all come here.                                        *)
send_presence_exchange ==
    /\ main \in {"idle", "send"}
    /\ force_resend' = FALSE
    /\ last_sent' = IF force_resend THEN None ELSE last_sent
    /\ main' = IF presence = last_sent' THEN "idle" ELSE "enqueue"
    /\ UNCHANGED <<game, launcher, shown, thread, stop_io, queue, store,
                   wire_launcher_owns, joins, pending_route, asked, tasks, native,
                   routed>>

send_presence_enqueue ==
    /\ main = "enqueue"
    /\ last_sent' = presence
    /\ enqueue("presence", presence)
    /\ main' = "idle"
    /\ UNCHANGED <<game, launcher, shown, thread, stop_io, force_resend, store,
                   wire_launcher_owns, joins, pending_route, asked, tasks, native,
                   routed>>

open_to_friends == presence' = IF presence = "closed" THEN "open" ELSE presence

(* The lambda of open-match acknowledges and sends; the one of an invite   *)
(* only opens, and lets flush_presence come.                               *)
run_task ==
    /\ main = "idle" /\ tasks # <<>>
    /\ tasks' = Tail(tasks)
    /\ open_to_friends
    /\ \/ /\ Head(tasks) = "open-match"
          /\ enqueue("open-match-ack", None)
          /\ main' = "send"
       \/ /\ Head(tasks) = "invite"
          /\ UNCHANGED <<queue, main>>
    /\ UNCHANGED <<may, changes, ready, launcher, shown, thread, stop_io,
                   force_resend, store, wire_launcher_owns, joins, pending_route,
                   asked, last_sent, native, routed>>

(* The friend is looked up under the store's lock, and the line queued     *)
(* under the queue's: main holds neither in between.                       *)
find_friend ==
    /\ "ask" \in may
    /\ main = "idle" /\ asked < MaxRequests
    /\ store.list # {}
    /\ asked' = asked + 1
    /\ main' \in {"join-friend", "invite"}
    /\ tasks' = IF main' = "invite" THEN Append(tasks, "invite") ELSE tasks
    /\ UNCHANGED <<game, launcher, shown, thread, stop_io, shared, last_sent,
                   native, routed>>

request_join_or_invite ==
    /\ main \in {"join-friend", "invite"}
    /\ enqueue(main, None)
    /\ main' = "idle"
    /\ UNCHANGED <<game, launcher, shown, thread, stop_io, force_resend, store,
                   wire_launcher_owns, joins, pending_route, sender, native, routed>>

(* A mutant: native RPC believes that its card is still there.             *)
reset_last_presence_Not == UNCHANGED last_presence

reset_last_presence == last_presence' = None

ownership_tick ==
    /\ main = "idle"
    /\ \/ /\ wire_launcher_owns
          /\ grace' = "none"
          /\ effective_launcher_owns' = TRUE
          /\ card' = IF effective_launcher_owns THEN card ELSE None
          /\ UNCHANGED last_presence
       \/ /\ ~wire_launcher_owns /\ effective_launcher_owns /\ grace = "none"
          /\ grace' = "running"
          /\ UNCHANGED <<effective_launcher_owns, last_presence, card>>
       \/ /\ ~wire_launcher_owns /\ effective_launcher_owns /\ grace = "over"
          /\ grace' = "none"
          /\ effective_launcher_owns' = FALSE
          /\ reset_last_presence
          /\ UNCHANGED card
    /\ UNCHANGED <<game, launcher, shown, thread, stop_io, shared, main, sender,
                   routed>>

(* OWNERSHIP_RELEASE_GRACE has passed.                                     *)
GraceEnds ==
    /\ grace = "running"
    /\ grace' = "over"
    /\ UNCHANGED <<game, launcher, shown, thread, stop_io, shared, main, sender,
                   effective_launcher_owns, last_presence, card, routed>>

(* With publish_presence; its heartbeat repaints what is there.            *)
update_discord ==
    /\ main = "idle"
    /\ ~effective_launcher_owns
    /\ last_presence # presence
    /\ card' = presence
    /\ last_presence' = presence
    /\ UNCHANGED <<game, launcher, shown, thread, stop_io, shared, main, sender,
                   effective_launcher_owns, grace, routed>>

(* A join from Discord: Discord_RunCallbacks runs it on main.              *)
join_game ==
    /\ "join" \in may
    /\ main = "idle" /\ said < MaxLines
    /\ said' = said + 1
    /\ queue_join
    /\ UNCHANGED <<game, launch, up, wedged, shown, thread, stop_io, queue,
                   force_resend, store, wire_launcher_owns, main, sender,
                   native, routed>>

(* A mutant: the route is copied and not taken.                            *)
take_route_Copies == UNCHANGED pending_route

route_join == routed' = Append(routed, pending_route)
take_route == pending_route' = None

(* A mutant: whether the game is ready is asked after the route is taken.  *)
process_pending_route_Drops ==
    /\ main = "idle"
    /\ pending_route # None
    /\ IF ready THEN route_join ELSE UNCHANGED routed
    /\ take_route
    /\ UNCHANGED <<game, launcher, shown, thread, stop_io, queue, force_resend,
                   store, wire_launcher_owns, joins, main, sender, native>>

process_pending_route ==
    /\ main = "idle"
    /\ ready
    /\ pending_route # None
    /\ route_join
    /\ take_route
    /\ UNCHANGED <<game, launcher, shown, thread, stop_io, queue, force_resend,
                   store, wire_launcher_owns, joins, main, sender, native>>

(* ipc's pre_destroy stops io and waits for it; discord's clears the card. *)
pre_destroy ==
    /\ "quit" \in may
    /\ main = "idle"
    /\ main' = "joining"
    /\ stop_io' = TRUE
    /\ UNCHANGED <<game, launcher, shown, thread, shared, sender, native, routed>>

joined ==
    /\ main = "joining" /\ io = "stopped"
    /\ main' = "destroyed"
    /\ card' = None
    /\ UNCHANGED <<game, launcher, shown, thread, stop_io, shared, sender,
                   effective_launcher_owns, grace, last_presence, routed>>

-----------------------------------------------------------------------------

main_loop ==
    \/ send_presence_exchange
    \/ send_presence_enqueue
    \/ run_task
    \/ find_friend
    \/ request_join_or_invite
    \/ ownership_tick
    \/ update_discord
    \/ join_game
    \/ process_pending_route
    \/ pre_destroy
    \/ joined

Next ==
    \/ Launch \/ Exit \/ Wedge \/ Say
    \/ io_loop
    \/ Play \/ GetReady
    \/ main_loop
    \/ GraceEnds

Spec == Init /\ [][Next]_vars

(* Both threads run and the clock goes on; what the player, the game and   *)
(* the launcher do is up to them.                                          *)
Fairness ==
    /\ WF_vars(io_loop)
    /\ WF_vars(send_presence_exchange)
    /\ WF_vars(send_presence_enqueue)
    /\ WF_vars(run_task)
    /\ WF_vars(request_join_or_invite)
    /\ WF_vars(ownership_tick)
    /\ WF_vars(update_discord)
    /\ WF_vars(process_pending_route)
    /\ WF_vars(joined)
    /\ WF_vars(GraceEnds)

FairSpec == Spec /\ Fairness

-----------------------------------------------------------------------------
(* Properties.                                                             *)

OutLine ==
    [type : {"presence", "connect-ack", "open-match-ack", "join-friend", "invite"},
     state : State \union {None}, to : Nat]

FlagsOK ==
    /\ ready \in BOOLEAN /\ up \in BOOLEAN /\ wedged \in BOOLEAN /\ alive \in BOOLEAN
    /\ stop_io \in BOOLEAN /\ force_resend \in BOOLEAN
    /\ wire_launcher_owns \in BOOLEAN /\ effective_launcher_owns \in BOOLEAN

TypeOK ==
    /\ FlagsOK
    /\ may \in Scenario /\ presence \in State /\ changes \in Nat
    /\ launch \in Nat /\ said \in Nat
    /\ shown \in State \union {None}
    /\ io \in {"connect", "hello", "swap", "write", "peek", "lost", "lost_friends",
               "lost_queue", "stopped"}
    /\ conn \in Nat /\ pending \in Seq(OutLine) /\ inbox \in Seq(Line)
    /\ queue \in Seq(OutLine) /\ store \in [from : Nat, list : SUBSET Friend]
    /\ main \in {"idle", "enqueue", "send", "join-friend", "invite", "joining", "destroyed"}
    /\ asked \in Nat /\ last_sent \in State \union {None}
    /\ tasks \in Seq({"open-match", "invite"})
    /\ grace \in {"none", "running", "over"}
    /\ last_presence \in State \union {None} /\ card \in State \union {None}
    /\ joins \in Nat /\ pending_route \in Nat \union {None} /\ routed \in Seq(Nat)

(* No line that was queued while io had the pipe of one launcher, broken   *)
(* or not, is written to another, whatever its kind, although the queue    *)
(* outlives the pipe; a connect's acknowledgement is always such a line.   *)
(* What main queues while io has no pipe is for whichever comes next.      *)
Belongs(line, c) ==
    line.to = c \/ (line.to = 0 /\ line.type # "connect-ack")

LinesStayHome ==
    io = "write" /\ ~Broken => Belongs(Head(pending), launch)

(* No friend of a launcher that is gone is in the list when io has let its *)
(* pipe go.                                                                *)
FriendsFresh ==
    store.list # {} =>
        store.from = conn /\ io \in {"swap", "write", "peek", "lost", "lost_friends"}

NothingCrosses == LinesStayHome /\ FriendsFresh

(* A join is routed at most once and never after a newer one, although io  *)
(* replaces it while main takes it.                                        *)
RoutedOnce ==
    /\ \A i \in 1 .. Len(routed) - 1 : routed[i] < routed[i + 1]
    /\ routed # <<>> /\ pending_route # None => routed[Len(routed)] < pending_route

(* The strengthening of NothingCrosses: the lines not yet written belong   *)
(* to the launcher io has; before it has another, they belong to any.      *)
Home(lines, c) == \A i \in DOMAIN lines : Belongs(lines[i], c)

LinesHome ==
    /\ io = "write" <=> pending # <<>>
    /\ Home(queue, conn) /\ Home(pending, conn)
    /\ io \in {"connect", "stopped"} => \A c \in Nat : Home(queue, c)

(* The strengthening of RoutedOnce: no route is newer than the last call.  *)
RoutesNumbered ==
    /\ \A i \in DOMAIN routed : routed[i] <= joins
    /\ pending_route # None => pending_route <= joins

IInv == TypeOK /\ LinesHome /\ FriendsFresh /\ RoutedOnce /\ RoutesNumbered

(* What Mirrored rests on: the newest presence that was sent and not lost  *)
(* with a pipe, be it in the queue, in io's hands or on the launcher's     *)
(* side, is the one last_sent keeps from being sent again, unless io has   *)
(* asked for it anew.                                                      *)
Silent(lines) == \A i \in DOMAIN lines : lines[i].type # "presence"

Tells(lines, s) ==
    \E i \in DOMAIN lines :
        /\ lines[i].type = "presence" /\ lines[i].state = s
        /\ \A j \in DOMAIN lines : j > i => lines[j].type # "presence"

ToldLast(s) ==
    \/ Tells(queue, s)
    \/ Silent(queue) /\ Tells(pending, s)
    \/ Silent(queue) /\ Silent(pending) /\ shown = s

LastSentTold ==
    alive /\ ~Broken /\ ~force_resend /\ main # "enqueue" => ToldLast(last_sent)

(* What Handoff rests on: the card is the launcher's or else shows what    *)
(* native RPC takes it to show.                                            *)
CardAgrees ==
    main # "destroyed" =>
        IF effective_launcher_owns THEN card = None
        ELSE last_presence # None => card = last_presence

(* What JoinsRouted rests on: the newest join is waiting or was the last   *)
(* to be routed; none is dropped for an older one.                         *)
NewestJoinKept ==
    joins > 0 => pending_route = joins \/ (routed # <<>> /\ routed[Len(routed)] = joins)

(* Where the pipe can be alive, and that no launcher is to come.           *)
PipeInv ==
    /\ alive => io \in {"swap", "write", "peek"}
    /\ conn <= launch
    /\ grace # "none" => effective_launcher_owns

FollowInv == LastSentTold /\ CardAgrees /\ NewestJoinKept /\ PipeInv

(* Once the pipe and the presence last, the launcher comes to show it and  *)
(* nothing older after it: neither a line lost with a pipe nor one that is *)
(* not sent because it was sent before leaves it behind.                   *)
Mirrored ==
    \A s \in State :
        <>[](up /\ ~wedged /\ ~stop_io /\ presence = s) => <>[](shown = s)

(* The native card goes for good while the launcher owns presence, and     *)
(* comes back with what the game does when it does not.                    *)
Handoff ==
    /\ <>[](wire_launcher_owns /\ ~stop_io) => <>[](card = None)
    /\ \A s \in State :
          <>[](~wire_launcher_owns /\ ~stop_io /\ presence = s) => <>[](card = s)

(* If the game gets ready and stays so, every accepted join is routed in   *)
(* the end, unless a newer one took its place: also one that came while    *)
(* the game was not ready, or was ready for a while only.  Until then it   *)
(* waits, for ever if the player never clicks Play.                        *)
Routed(j) == \E i \in DOMAIN routed : routed[i] = j

JoinsRouted ==
    <>[](ready /\ ~stop_io) =>
        \A j \in 1 .. MaxLines :
            pending_route = j ~> Routed(j) \/ pending_route \in j + 1 .. MaxLines

(* pre_destroy gets its thread back, whatever the launcher does to the     *)
(* pipe io is blocked in.                                                  *)
DestroyEnds == main = "joining" ~> main = "destroyed"
=============================================================================
