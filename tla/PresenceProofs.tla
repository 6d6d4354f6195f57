--------------------------- MODULE PresenceProofs ---------------------------
(***************************************************************************)
(* Proofs about Presence, for any friends, launchers, lines and requests:  *)
(* nothing meant for one launcher reaches another, and joins are routed in *)
(* order and once.                                                         *)
(***************************************************************************)
EXTENDS Presence, TLAPS

LEMMA LineTypes ==
    \A t \in {"presence", "connect-ack", "open-match-ack", "join-friend", "invite"},
       s \in State \union {None}, c \in Nat :
          [type |-> t, state |-> s, to |-> c] \in OutLine
  BY DEF OutLine

(* What enqueue adds, and for whom.                                        *)
LEMMA Enqueued ==
    ASSUME TypeOK, NEW t, NEW s \in State \union {None}, enqueue(t, s),
           t \in {"presence", "connect-ack", "open-match-ack", "join-friend", "invite"}
    PROVE  \E line \in OutLine :
              /\ queue' = Append(queue, line) /\ queue' \in Seq(OutLine)
              /\ line.type = t /\ line.state = s
              /\ io \notin {"connect", "stopped"} => line.to = conn
              /\ io \in {"connect", "stopped"} => line.to = 0
<1> DEFINE line == [type |-> t, state |-> s, to |-> Holder]
<1>1. Holder \in Nat
  BY DEF Holder, TypeOK
<1>2. line \in OutLine
  BY <1>1, LineTypes
<1>3. queue \in Seq(OutLine) /\ queue' = Append(queue, line)
  BY DEF enqueue, TypeOK
<1>4. line.type = t /\ line.state = s /\ line.to = Holder
  OBVIOUS
<1> HIDE DEF line
<1>5. queue' \in Seq(OutLine)
  BY <1>2, <1>3
<1> QED BY <1>2, <1>3, <1>4, <1>5 DEF Holder

(* The flags, by the actions that set them.                                *)
LEMMA FlagsKept ==
    ASSUME TypeOK, [Next]_vars
    PROVE  FlagsOK'
<1> USE DEF FlagsOK, game, launcher, thread, sender, native, shared
<1>0. FlagsOK
  BY DEF TypeOK
<1>1. CASE Launch \/ Exit \/ Wedge \/ Say \/ Play \/ GetReady \/ GraceEnds
  BY <1>0, <1>1 DEF Launch, Exit, Wedge, Say, Play, GetReady, GraceEnds
<1>2. CASE connect_with_retry \/ write_hello \/ swap_queue
  BY <1>0, <1>2 DEF connect_with_retry, write_hello, resend, swap_queue, close_pipe
<1>3. CASE write_pending \/ disown \/ drop_friends \/ clear_queue
  BY <1>0, <1>3 DEF write_pending, disown, drop_friends, clear_queue
<1>4. CASE peek_and_read
  <2>1. UNCHANGED <<ready, up, wedged, stop_io, force_resend, effective_launcher_owns>>
    BY <1>4 DEF peek_and_read
  <2>2. alive' \in BOOLEAN
    BY <1>0, <1>4 DEF peek_and_read, close_pipe
  <2>3. ASSUME inbox # <<>>, handle_incoming_line(Head(inbox))
        PROVE  wire_launcher_owns' \in BOOLEAN
    <3>1. Head(inbox) \in Line
      BY <2>3 DEF TypeOK
    <3>2. Head(inbox).type = "owner" => Head(inbox).launcher \in BOOLEAN
      BY <3>1 DEF Line
    <3> QED BY <1>0, <2>3, <3>2 DEF handle_incoming_line, handle_connect, handle_friends
  <2>4. wire_launcher_owns' \in BOOLEAN
    BY <1>0, <1>4, <2>3 DEF peek_and_read
  <2> QED BY <1>0, <2>1, <2>2, <2>4
<1>5. CASE main_loop
  <2>1. CASE send_presence_exchange \/ send_presence_enqueue \/ run_task
    BY <1>0, <2>1 DEF send_presence_exchange, send_presence_enqueue, run_task
  <2>2. CASE find_friend \/ request_join_or_invite \/ ownership_tick \/ update_discord
    BY <1>0, <2>2 DEF find_friend, request_join_or_invite, ownership_tick, update_discord
  <2>3. CASE join_game \/ process_pending_route \/ pre_destroy \/ joined
    BY <1>0, <2>3 DEF join_game, process_pending_route, pre_destroy, joined
  <2> QED BY <1>5, <2>1, <2>2, <2>3 DEF main_loop
<1>6. CASE UNCHANGED vars
  BY <1>0, <1>6 DEF vars
<1> QED BY <1>1, <1>2, <1>3, <1>4, <1>5, <1>6 DEF Next, io_loop

LEMMA Seqs ==
    ASSUME NEW S, NEW q \in Seq(S)
    PROVE  /\ <<>> \in Seq(S)
           /\ q # <<>> => Head(q) \in S /\ Tail(q) \in Seq(S)
           /\ \A x \in S : Append(q, x) \in Seq(S)
  OBVIOUS

LEMMA LauncherTypes ==
    ASSUME TypeOK, FlagsOK', Launch \/ Exit \/ Wedge \/ Say \/ Play \/ GetReady \/ GraceEnds
    PROVE  TypeOK'
<1> USE BoundsAssumption DEF TypeOK, game, launcher, thread, sender, native, shared
<1>1. CASE Launch
  BY <1>1 DEF Launch
<1>2. CASE Exit
  <2>1. up' \in BOOLEAN /\ wedged' \in BOOLEAN /\ shown' = None
    BY <1>2 DEF Exit
  <2>2. UNCHANGED <<may, presence, changes, ready, launch, said, io, conn,
                     alive, pending, inbox, stop_io, queue,
                     force_resend, store, main, asked, last_sent,
                     tasks, wire_launcher_owns,
                     effective_launcher_owns, grace, last_presence,
                     card, joins, pending_route, routed>>
    BY <1>2 DEF Exit
  <2> QED BY <2>1, <2>2
<1>3. CASE Wedge
  BY <1>3 DEF Wedge
<1>4. CASE Say
  BY <1>4 DEF Say
<1>5. CASE Play
  BY <1>5 DEF Play, State
<1>6. CASE GetReady
  BY <1>6 DEF GetReady
<1>7. CASE GraceEnds
  BY <1>7 DEF GraceEnds
<1> QED BY <1>1, <1>2, <1>3, <1>4, <1>5, <1>6, <1>7

LEMMA LineTyped ==
    ASSUME TypeOK, NEW line \in Line, handle_incoming_line(line)
    PROVE  /\ queue' \in Seq(OutLine) /\ store' \in [from : Nat, list : SUBSET Friend]
           /\ joins' \in Nat /\ pending_route' \in Nat \union {None}
           /\ tasks' \in Seq({"open-match", "invite"})
<1>1. CASE line.type = "owner"
  BY <1>1 DEF handle_incoming_line, TypeOK
<1>2. CASE line.type = "connect"
  <2>1. enqueue("connect-ack", None)
    BY <1>2 DEF handle_incoming_line, handle_connect
  <2>2. UNCHANGED <<store, tasks>>
        /\ (queue_join \/ UNCHANGED <<joins, pending_route>>)
    BY <1>2 DEF handle_incoming_line, handle_connect
  <2>3. queue' \in Seq(OutLine)
    BY <2>1, Enqueued
  <2>4. joins' \in Nat /\ pending_route' \in Nat \union {None}
    BY <2>2 DEF queue_join, TypeOK
  <2>5. store' \in [from : Nat, list : SUBSET Friend] /\ tasks' \in Seq({"open-match", "invite"})
    BY <2>2 DEF TypeOK
  <2> QED BY <2>3, <2>4, <2>5
<1>3. CASE line.type = "friends"
  <2>1. line.list \in SUBSET Friend
    BY <1>3 DEF Line
  <2>2. store' = [from |-> conn, list |-> line.list]
        /\ UNCHANGED <<queue, joins, pending_route, tasks>>
    BY <1>3 DEF handle_incoming_line, handle_friends, apply_snapshot
  <2> QED BY <2>1, <2>2 DEF TypeOK
<1>4. CASE line.type = "open-match"
  <2>1. tasks' = Append(tasks, "open-match") /\ UNCHANGED <<queue, store, joins, pending_route>>
    BY <1>4 DEF handle_incoming_line
  <2> QED BY <2>1 DEF TypeOK
<1>5. line.type \in {"owner", "connect", "friends", "open-match"}
  BY DEF Line
<1> QED BY <1>1, <1>2, <1>3, <1>4, <1>5

LEMMA IoTypes ==
    ASSUME TypeOK, FlagsOK', LinesHome, io_loop
    PROVE  TypeOK'
<1> USE DEF TypeOK, game, launcher, thread, sender, native, shared
<1>1. CASE connect_with_retry
  BY <1>1 DEF connect_with_retry
<1>2. CASE write_hello
  BY <1>2 DEF write_hello, resend
<1>3. CASE swap_queue
  <2>1. pending' \in {pending, queue} /\ queue' \in {<<>>, queue} /\ inbox' \in {<<>>, inbox}
    BY <1>3 DEF swap_queue, close_pipe
  <2>2. pending' \in Seq(OutLine) /\ queue' \in Seq(OutLine) /\ inbox' \in Seq(Line)
    <3>1. pending \in Seq(OutLine) /\ queue \in Seq(OutLine) /\ inbox \in Seq(Line)
      OBVIOUS
    <3> HIDE DEF TypeOK
    <3> QED BY <2>1, <3>1, Seqs
  <2>3. io' \in {"peek", "write", "lost"}
    BY <1>3 DEF swap_queue, close_pipe
  <2> QED BY <1>3, <2>2, <2>3 DEF swap_queue
<1>4. CASE write_pending
  <2>1. /\ Head(pending) \in OutLine /\ Tail(pending) \in Seq(OutLine)
        /\ Head(pending).state \in State \union {None}
    <3>1. pending # <<>>
      BY <1>4 DEF write_pending, LinesHome
    <3>2. Head(pending) \in OutLine /\ Tail(pending) \in Seq(OutLine)
      BY <3>1
    <3> QED BY <3>2 DEF OutLine
  <2>2. pending' \in {<<>>, Tail(pending)} /\ io' \in {"peek", "write"}
    BY <1>4 DEF write_pending
  <2>3. pending' \in Seq(OutLine)
    <3>1. pending \in Seq(OutLine)
      OBVIOUS
    <3> HIDE DEF TypeOK
    <3> QED BY <2>1, <2>2, <3>1, Seqs
  <2>4. shown' \in State \union {None}
    BY <1>4, <2>1 DEF write_pending
  <2> QED BY <1>4, <2>2, <2>3, <2>4 DEF write_pending
<1>5. CASE peek_and_read
  <2>1. io' \in {"peek", "swap", "lost"}
    BY <1>5 DEF peek_and_read, close_pipe
  <2>2. inbox' \in Seq(Line)
    <3>1. inbox' = <<>> \/ inbox' = inbox \/ (inbox # <<>> /\ inbox' = Tail(inbox))
      BY <1>5 DEF peek_and_read, close_pipe
    <3>2. inbox \in Seq(Line)
      OBVIOUS
    <3> HIDE DEF TypeOK
    <3> QED BY <3>1, <3>2, Seqs
  <2>3. /\ queue' \in Seq(OutLine) /\ store' \in [from : Nat, list : SUBSET Friend]
        /\ joins' \in Nat /\ pending_route' \in Nat \union {None}
        /\ tasks' \in Seq({"open-match", "invite"})
    <3>1. inbox # <<>> => Head(inbox) \in Line
      <4>1. inbox \in Seq(Line)
        OBVIOUS
      <4> HIDE DEF TypeOK
      <4> QED BY <4>1
    <3>2. CASE inbox # <<>> /\ handle_incoming_line(Head(inbox))
      BY <3>1, <3>2, LineTyped
    <3>3. CASE UNCHANGED <<queue, store, joins, pending_route, tasks>>
      BY <3>3
    <3> QED BY <1>5, <3>2, <3>3 DEF peek_and_read
  <2> QED BY <1>5, <2>1, <2>2, <2>3 DEF peek_and_read
<1>6. CASE disown
  BY <1>6 DEF disown
<1>7. CASE drop_friends
  BY <1>7 DEF drop_friends, apply_snapshot
<1>8. CASE clear_queue
  BY <1>8 DEF clear_queue, clear
<1> QED BY <1>1, <1>2, <1>3, <1>4, <1>5, <1>6, <1>7, <1>8 DEF io_loop

LEMMA MainTypes ==
    ASSUME TypeOK, FlagsOK', main_loop
    PROVE  TypeOK'
<1> USE DEF TypeOK, game, launcher, thread, sender, native, shared
<1>1. CASE send_presence_exchange
  BY <1>1 DEF send_presence_exchange
<1>2. CASE send_presence_enqueue
  <2>1. queue' \in Seq(OutLine)
    BY <1>2, Enqueued DEF send_presence_enqueue
  <2> QED BY <1>2, <2>1 DEF send_presence_enqueue
<1>3. CASE run_task
  <2>1. (enqueue("open-match-ack", None) \/ UNCHANGED queue) /\ main' \in {"send", main}
    BY <1>3 DEF run_task
  <2>2. queue' \in Seq(OutLine)
    BY <2>1, Enqueued
  <2>3. tasks' \in Seq({"open-match", "invite"}) /\ presence' \in State
    BY <1>3 DEF run_task, open_to_friends, State
  <2> QED BY <1>3, <2>1, <2>2, <2>3 DEF run_task
<1>4. CASE find_friend
  BY <1>4 DEF find_friend
<1>5. CASE request_join_or_invite
  <2>1. queue' \in Seq(OutLine)
    BY <1>5, Enqueued DEF request_join_or_invite
  <2> QED BY <1>5, <2>1 DEF request_join_or_invite
<1>6. CASE ownership_tick
  BY <1>6 DEF ownership_tick, reset_last_presence
<1>7. CASE update_discord
  BY <1>7 DEF update_discord
<1>8. CASE join_game
  BY <1>8 DEF join_game, queue_join
<1>9. CASE process_pending_route
  BY <1>9 DEF process_pending_route, route_join, take_route
<1>10. CASE pre_destroy
  BY <1>10 DEF pre_destroy
<1>11. CASE joined
  BY <1>11 DEF joined
<1> QED BY <1>1, <1>2, <1>3, <1>4, <1>5, <1>6, <1>7, <1>8, <1>9, <1>10, <1>11
        DEF main_loop

-----------------------------------------------------------------------------
(* What is queued for a launcher, and from whom the friends are.           *)

LEMMA HomeOps ==
    ASSUME NEW c, NEW q \in Seq(OutLine)
    PROVE  /\ Home(<<>>, c)
           /\ Home(q, c) /\ q # <<>> => Home(Tail(q), c) /\ Belongs(Head(q), c)
           /\ \A line \in OutLine :
                Home(q, c) /\ Belongs(line, c) => Home(Append(q, line), c)
<1>1. Home(<<>>, c)
  BY DEF Home
<1>2. ASSUME Home(q, c), q # <<>>
      PROVE  Home(Tail(q), c) /\ Belongs(Head(q), c)
  <2>1. Len(Tail(q)) = Len(q) - 1 /\ \A i \in DOMAIN Tail(q) : Tail(q)[i] = q[i + 1]
    BY <1>2
  <2>2. \A i \in DOMAIN Tail(q) : i + 1 \in DOMAIN q
    BY <1>2, <2>1
  <2>3. Head(q) = q[1] /\ 1 \in DOMAIN q
    BY <1>2
  <2> QED BY <1>2, <2>1, <2>2, <2>3 DEF Home
<1>3. ASSUME NEW line \in OutLine, Home(q, c), Belongs(line, c)
      PROVE  Home(Append(q, line), c)
  <2>1. \A i \in DOMAIN Append(q, line) :
            (i \in DOMAIN q /\ Append(q, line)[i] = q[i]) \/ Append(q, line)[i] = line
    OBVIOUS
  <2> QED BY <1>3, <2>1 DEF Home
<1> QED BY <1>1, <1>2, <1>3

(* A line is queued for the launcher whose pipe io has, if it has one.     *)
LEMMA HomeEnqueued ==
    ASSUME TypeOK, LinesHome, UNCHANGED <<conn, pending>>, io' = "write" <=> io = "write",
           io' \in {"connect", "stopped"} => io' = io,
           NEW t, enqueue(t, None) \/ \E s \in State : enqueue(t, s),
           t \in {"presence", "connect-ack", "open-match-ack", "join-friend", "invite"},
           t = "connect-ack" => io \notin {"connect", "stopped"}
    PROVE  LinesHome'
<1>1. PICK s \in State \union {None} : enqueue(t, s)
  OBVIOUS
<1>2. PICK line \in OutLine :
          /\ queue' = Append(queue, line) /\ line.type = t
          /\ io \notin {"connect", "stopped"} => line.to = conn
          /\ io \in {"connect", "stopped"} => line.to = 0
  BY <1>1, Enqueued
<1>3. queue \in Seq(OutLine) /\ Belongs(line, conn)
      /\ (io \in {"connect", "stopped"} => \A c : Belongs(line, c))
  BY <1>2 DEF TypeOK, Belongs
<1>4. Home(queue', conn)
  BY <1>2, <1>3, HomeOps DEF LinesHome
<1>5. ASSUME io' \in {"connect", "stopped"}, NEW c \in Nat
      PROVE  Home(queue', c)
  BY <1>2, <1>3, <1>5, HomeOps DEF LinesHome
<1> QED BY <1>4, <1>5 DEF LinesHome, Home

HomeInv == LinesHome /\ FriendsFresh

LEMMA HomeOutside ==
    ASSUME TypeOK, HomeInv, UNCHANGED <<queue, pending, io, conn, store>>
    PROVE  HomeInv'
  BY DEF HomeInv, LinesHome, FriendsFresh, Home

LEMMA HomeMain ==
    ASSUME TypeOK, HomeInv, main_loop
    PROVE  HomeInv'
<1> USE DEF HomeInv
<1>1. UNCHANGED <<pending, io, conn, store>>
  BY DEF main_loop, send_presence_exchange, send_presence_enqueue, run_task, find_friend,
         request_join_or_invite, ownership_tick, update_discord, join_game,
         process_pending_route, pre_destroy, joined, thread, shared
<1>2. \/ UNCHANGED queue
      \/ \E s \in State : enqueue("presence", s)
      \/ \E t \in {"open-match-ack", "join-friend", "invite"} : enqueue(t, None)
  <2>1. CASE send_presence_enqueue
    BY <2>1 DEF send_presence_enqueue, TypeOK
  <2>2. CASE run_task
    BY <2>2 DEF run_task
  <2>3. CASE request_join_or_invite
    BY <2>3 DEF request_join_or_invite
  <2>4. ASSUME ~send_presence_enqueue, ~run_task, ~request_join_or_invite
        PROVE  UNCHANGED queue
    BY <2>4 DEF main_loop, send_presence_exchange, find_friend, ownership_tick,
       update_discord, join_game, process_pending_route, pre_destroy, joined, shared
  <2> QED BY <2>1, <2>2, <2>3, <2>4
<1>3. LinesHome'
  <2>1. CASE UNCHANGED queue
    BY <1>1, <2>1 DEF LinesHome, Home
  <2>2. CASE \E s \in State : enqueue("presence", s)
    BY <1>1, <2>2, HomeEnqueued
  <2>3. CASE \E t \in {"open-match-ack", "join-friend", "invite"} : enqueue(t, None)
    BY <1>1, <2>3, HomeEnqueued
  <2> QED BY <1>2, <2>1, <2>2, <2>3
<1>4. FriendsFresh'
  BY <1>1 DEF FriendsFresh
<1> QED BY <1>3, <1>4

(* io takes another launcher's pipe only when nothing is left of the last. *)
LEMMA HomeConnect ==
    ASSUME TypeOK, HomeInv, connect_with_retry \/ write_hello
    PROVE  HomeInv'
<1> USE DEF HomeInv
<1>1. UNCHANGED <<queue, pending, store>> /\ io' \in {"stopped", "hello", "swap"}
      /\ io # "write"
  BY DEF connect_with_retry, write_hello, shared
<1>2. /\ conn' # conn => io = "connect" /\ conn' \in Nat
      /\ io' = "stopped" => io = "connect" /\ conn' = conn
  BY DEF connect_with_retry, write_hello, TypeOK
<1>3. LinesHome'
  <2>1. pending = <<>> /\ Home(pending, conn')
    BY <1>1 DEF LinesHome, Home
  <2>2. Home(queue, conn')
    BY <1>2 DEF LinesHome
  <2>3. io' \in {"connect", "stopped"} => \A c \in Nat : Home(queue, c)
    BY <1>1, <1>2 DEF LinesHome
  <2> QED BY <1>1, <2>1, <2>2, <2>3 DEF LinesHome, Home
<1>4. FriendsFresh'
  BY <1>1, <1>2 DEF FriendsFresh, connect_with_retry, write_hello
<1> QED BY <1>3, <1>4

LEMMA HomeSwap ==
    ASSUME TypeOK, HomeInv, swap_queue
    PROVE  HomeInv'
<1> USE DEF HomeInv
<1>1. UNCHANGED <<conn, store>> /\ io = "swap" /\ io' \in {"peek", "write", "lost"}
  BY DEF swap_queue, close_pipe
<1>2. \/ /\ pending' = queue /\ queue' = <<>> /\ io' = IF queue = <<>> THEN "peek" ELSE "write"
      \/ UNCHANGED <<pending, queue>> /\ io' = "lost"
  BY DEF swap_queue, close_pipe
<1>3. LinesHome'
  <2>1. Home(<<>>, conn)
    BY DEF Home
  <2>2. Home(queue, conn)' /\ Home(pending, conn)'
    BY <1>1, <1>2, <2>1 DEF LinesHome, Home
  <2> QED BY <1>1, <1>2, <2>2 DEF LinesHome
<1>4. FriendsFresh'
  BY <1>1 DEF FriendsFresh
<1> QED BY <1>3, <1>4

LEMMA HomeWrite ==
    ASSUME TypeOK, HomeInv, write_pending
    PROVE  HomeInv'
<1> USE DEF HomeInv
<1>1. UNCHANGED <<conn, store, queue>> /\ io = "write" /\ io' \in {"peek", "write"}
  BY DEF write_pending, shared
<1>2. pending \in Seq(OutLine) /\ pending # <<>> /\ Home(pending, conn)
  BY <1>1 DEF TypeOK, LinesHome
<1>3. pending' = Tail(pending) \/ pending' = <<>>
  BY DEF write_pending
<1>4. io' = "write" <=> pending' # <<>>
  BY DEF write_pending
<1>5. Home(pending, conn)'
  <2>1. Home(pending', conn)
    BY <1>2, <1>3, HomeOps
  <2> QED BY <1>1, <2>1 DEF Home
<1>6. LinesHome'
  BY <1>1, <1>4, <1>5 DEF LinesHome, Home
<1>7. FriendsFresh'
  BY <1>1 DEF FriendsFresh
<1> QED BY <1>6, <1>7

LEMMA HomeRead ==
    ASSUME TypeOK, HomeInv, peek_and_read
    PROVE  HomeInv'
<1> USE DEF HomeInv
<1>1. UNCHANGED <<conn, pending>> /\ io = "peek" /\ io' \in {"peek", "swap", "lost"}
  BY DEF peek_and_read, close_pipe
<1>2. UNCHANGED queue \/ enqueue("connect-ack", None)
  BY DEF peek_and_read, handle_incoming_line, handle_connect, handle_friends
<1>3. store' = store \/ store'.from = conn
  BY DEF peek_and_read, handle_incoming_line, handle_connect, handle_friends, apply_snapshot
<1>4. LinesHome'
  <2>1. CASE UNCHANGED queue
    BY <1>1, <2>1 DEF LinesHome, Home
  <2>2. CASE enqueue("connect-ack", None)
    BY <1>1, <2>2, HomeEnqueued
  <2> QED BY <1>2, <2>1, <2>2
<1>5. FriendsFresh'
  BY <1>1, <1>3 DEF FriendsFresh
<1> QED BY <1>4, <1>5

LEMMA HomeLost ==
    ASSUME TypeOK, HomeInv, disown \/ drop_friends \/ clear_queue
    PROVE  HomeInv'
<1> USE DEF HomeInv
<1>1. UNCHANGED <<conn, pending>> /\ io # "write" /\ io' # "write"
  BY DEF disown, drop_friends, clear_queue
<1>2. CASE disown
  BY <1>1, <1>2 DEF disown, LinesHome, FriendsFresh, Home
<1>3. CASE drop_friends
  BY <1>1, <1>3 DEF drop_friends, apply_snapshot, LinesHome, FriendsFresh, Home
<1>4. CASE clear_queue
  <2>1. queue' = <<>> /\ store' = store /\ io = "lost_queue"
    BY <1>4 DEF clear_queue, clear
  <2>2. LinesHome'
    BY <1>1, <2>1 DEF LinesHome, Home
  <2>3. FriendsFresh'
    BY <1>1, <2>1 DEF FriendsFresh
  <2> QED BY <2>2, <2>3
<1> QED BY <1>2, <1>3, <1>4

(* What io is about to write is at the head of what it took.               *)
LEMMA HomeCrosses ==
    ASSUME TypeOK, HomeInv
    PROVE  NothingCrosses
<1>1. ASSUME io = "write", ~Broken
      PROVE  Belongs(Head(pending), launch)
  <2>1. conn = launch /\ pending \in Seq(OutLine) /\ pending # <<>> /\ Home(pending, conn)
    BY <1>1 DEF Broken, TypeOK, HomeInv, LinesHome
  <2> QED BY <2>1, HomeOps
<1> QED BY <1>1 DEF NothingCrosses, LinesStayHome, HomeInv

-----------------------------------------------------------------------------
(* The joins.                                                              *)

RoutesInv == RoutedOnce /\ RoutesNumbered

LEMMA RoutesOutside ==
    ASSUME TypeOK, RoutesInv, UNCHANGED <<joins, pending_route, routed>>
    PROVE  RoutesInv'
  BY DEF RoutesInv, RoutedOnce, RoutesNumbered

LEMMA RoutesQueued ==
    ASSUME TypeOK, RoutesInv, queue_join, UNCHANGED routed
    PROVE  RoutesInv'
<1>1. /\ joins \in Nat /\ routed \in Seq(Nat) /\ joins' = joins + 1 /\ pending_route' = joins + 1
      /\ routed' = routed
  BY DEF TypeOK, queue_join
<1>2. \A i \in DOMAIN routed : routed[i] <= joins /\ routed[i] \in Nat
  BY <1>1 DEF RoutesInv, RoutesNumbered
<1>3. routed # <<>> => Len(routed) \in DOMAIN routed
  BY <1>1
<1>4. RoutesNumbered'
  BY <1>1, <1>2 DEF RoutesNumbered
<1>5. RoutedOnce'
  BY <1>1, <1>2, <1>3 DEF RoutesInv, RoutedOnce
<1> QED BY <1>4, <1>5 DEF RoutesInv

LEMMA RoutesTaken ==
    ASSUME TypeOK, RoutesInv, process_pending_route
    PROVE  RoutesInv'
<1>1. /\ pending_route \in Nat /\ routed \in Seq(Nat) /\ joins \in Nat
      /\ routed' = Append(routed, pending_route) /\ pending_route' = None /\ joins' = joins
  BY DEF TypeOK, process_pending_route, route_join, take_route
<1>2. pending_route <= joins /\ (routed # <<>> => routed[Len(routed)] < pending_route)
  BY <1>1, NoneAssumption DEF RoutesInv, RoutedOnce, RoutesNumbered
<1>3. /\ Len(routed') = Len(routed) + 1 /\ routed'[Len(routed')] = pending_route
      /\ \A i \in 1 .. Len(routed) : routed'[i] = routed[i]
  BY <1>1
<1>4. RoutesNumbered'
  BY <1>1, <1>2, <1>3 DEF RoutesInv, RoutesNumbered
<1>5. ASSUME NEW i \in 1 .. Len(routed') - 1
      PROVE  routed'[i] < routed'[i + 1]
  <2>1. CASE i \in 1 .. Len(routed) - 1
    <3>1. routed'[i] = routed[i] /\ routed'[i + 1] = routed[i + 1]
      BY <1>1, <1>3, <2>1
    <3> QED BY <2>1, <3>1 DEF RoutesInv, RoutedOnce
  <2>2. CASE i = Len(routed)
    <3>1. routed # <<>> /\ routed'[i] = routed[Len(routed)]
      BY <1>1, <1>3, <2>2
    <3> QED BY <1>2, <1>3, <2>2, <3>1
  <2> QED BY <1>1, <1>3, <1>5, <2>1, <2>2
<1>6. RoutedOnce'
  BY <1>1, <1>5 DEF RoutedOnce
<1> QED BY <1>4, <1>6 DEF RoutesInv

LEMMA RoutesStep ==
    ASSUME TypeOK, RoutesInv, [Next]_vars
    PROVE  RoutesInv'
<1>1. \/ UNCHANGED <<joins, pending_route, routed>>
      \/ queue_join /\ UNCHANGED routed
      \/ process_pending_route
  <2>1. CASE io_loop
    BY <2>1 DEF io_loop, connect_with_retry, write_hello, swap_queue, write_pending,
       peek_and_read, handle_incoming_line, handle_connect, handle_friends, disown,
       drop_friends, clear_queue, shared
  <2>2. CASE main_loop
    BY <2>2 DEF main_loop, send_presence_exchange, send_presence_enqueue, run_task,
       find_friend, request_join_or_invite, ownership_tick, update_discord, join_game,
       pre_destroy, joined, shared
  <2>3. CASE UNCHANGED vars
    BY <2>3 DEF vars, shared
  <2>4. CASE Launch \/ Exit \/ Wedge \/ Say \/ Play \/ GetReady \/ GraceEnds
    BY <2>4 DEF Launch, Exit, Wedge, Say, Play, GetReady, GraceEnds, shared
  <2> QED BY <2>1, <2>2, <2>3, <2>4 DEF Next
<1> QED BY <1>1, RoutesOutside, RoutesQueued, RoutesTaken

-----------------------------------------------------------------------------
LEMMA InitIInv == Init => IInv
<1> SUFFICES ASSUME Init PROVE IInv
  OBVIOUS
<1> USE DEF Init
<1>1. FlagsOK
  BY DEF FlagsOK
<1>2. TypeOK
  <2>1. <<>> \in Seq(OutLine) /\ <<>> \in Seq(Line) /\ <<>> \in Seq(Nat)
        /\ <<>> \in Seq({"open-match", "invite"})
    OBVIOUS
  <2>2. [from |-> 0, list |-> {}] \in [from : Nat, list : SUBSET Friend]
    OBVIOUS
  <2> QED BY <1>1, <2>1, <2>2 DEF TypeOK, State
<1>3. LinesHome /\ FriendsFresh
  BY DEF LinesHome, Home, FriendsFresh
<1>4. RoutedOnce /\ RoutesNumbered
  BY DEF RoutedOnce, RoutesNumbered
<1> QED BY <1>2, <1>3, <1>4 DEF IInv

LEMMA NextIInv ==
    ASSUME IInv, [Next]_vars
    PROVE  IInv'
<1>1. TypeOK /\ HomeInv /\ RoutesInv
  BY DEF IInv, HomeInv, RoutesInv
<1>2. FlagsOK'
  BY <1>1, FlagsKept
<1>3. RoutesInv'
  BY <1>1, RoutesStep
<1>4. CASE io_loop
  <2>1. TypeOK'
    BY <1>1, <1>2, <1>4, IoTypes DEF HomeInv
  <2>2. HomeInv'
    BY <1>1, <1>4, HomeConnect, HomeSwap, HomeWrite, HomeRead, HomeLost DEF io_loop
  <2> QED BY <1>3, <2>1, <2>2 DEF IInv, HomeInv, RoutesInv
<1>5. CASE main_loop
  <2>1. TypeOK' /\ HomeInv'
    BY <1>1, <1>2, <1>5, MainTypes, HomeMain
  <2> QED BY <1>3, <2>1 DEF IInv, HomeInv, RoutesInv
<1>6. CASE Launch \/ Exit \/ Wedge \/ Say \/ Play \/ GetReady \/ GraceEnds
  <2>1. TypeOK'
    BY <1>1, <1>2, <1>6, LauncherTypes
  <2>2. UNCHANGED <<queue, pending, io, conn, store>>
    BY <1>6 DEF Launch, Exit, Wedge, Say, Play, GetReady, GraceEnds, shared, thread
  <2>3. HomeInv'
    BY <1>1, <2>2, HomeOutside
  <2> QED BY <1>3, <2>1, <2>3 DEF IInv, HomeInv, RoutesInv
<1>7. CASE UNCHANGED vars
  <2>1. TypeOK'
    BY <1>1, <1>2, <1>7 DEF TypeOK, vars, game, launcher, thread, sender, native, shared
  <2>2. HomeInv'
    BY <1>1, <1>7, HomeOutside DEF vars, shared, thread
  <2> QED BY <1>3, <2>1, <2>2 DEF IInv, HomeInv, RoutesInv
<1> QED BY <1>4, <1>5, <1>6, <1>7 DEF Next

LEMMA AlwaysIInv == Spec => []IInv
<1>1. IInv /\ [Next]_vars => IInv'
  BY NextIInv
<1> QED BY InitIInv, <1>1, PTL DEF Spec

(* Lines, queues, flags and counters keep their types.                     *)
THEOREM TypeCorrect == Spec => []TypeOK
<1>1. IInv => TypeOK
  BY DEF IInv
<1> QED BY <1>1, AlwaysIInv, PTL

(* However many launchers come and go, no line of any kind that was queued *)
(* while io had the pipe of one is written to another, and the friends of  *)
(* a lost one do not outlive its pipe.                                     *)
THEOREM LaunchersApart == Spec => []NothingCrosses
<1>1. IInv => NothingCrosses
  BY HomeCrosses DEF IInv, HomeInv
<1> QED BY <1>1, AlwaysIInv, PTL

(* However io and main interleave, no join is routed twice, or after one   *)
(* that was accepted later.                                                *)
THEOREM RoutedInOrder == Spec => []RoutedOnce
<1>1. IInv => RoutedOnce
  BY DEF IInv
<1> QED BY <1>1, AlwaysIInv, PTL

-----------------------------------------------------------------------------
(* What the launcher is told, who owns the card, which join is the newest: *)
(* the safety under Mirrored, Handoff and JoinsRouted.                     *)

LEMMA PipeStep == TypeOK /\ PipeInv /\ [Next]_vars => PipeInv'
<1> SUFFICES ASSUME TypeOK, PipeInv, [Next]_vars PROVE PipeInv'
  OBVIOUS
<1> USE DEF PipeInv, game, launcher, thread, sender, native, shared
<1>0. conn \in Nat /\ launch \in Nat /\ alive \in BOOLEAN /\ effective_launcher_owns \in BOOLEAN
  BY DEF TypeOK, FlagsOK
<1>1. CASE Launch \/ Exit \/ Wedge \/ Say \/ Play \/ GetReady
  BY <1>0, <1>1 DEF Launch, Exit, Wedge, Say, Play, GetReady
<1>2. CASE GraceEnds \/ ownership_tick
  BY <1>0, <1>2 DEF GraceEnds, ownership_tick
<1>3. CASE connect_with_retry \/ write_hello \/ swap_queue \/ write_pending
  BY <1>0, <1>3 DEF connect_with_retry, write_hello, swap_queue, close_pipe, write_pending
<1>4. CASE peek_and_read \/ disown \/ drop_friends \/ clear_queue
  BY <1>0, <1>4 DEF peek_and_read, close_pipe, disown, drop_friends, clear_queue
<1>5. CASE UNCHANGED <<alive, io, conn, launch, grace, effective_launcher_owns>>
  BY <1>0, <1>5
<1> QED
  BY <1>1, <1>2, <1>3, <1>4, <1>5 DEF Next, io_loop, main_loop, send_presence_exchange,
     send_presence_enqueue, run_task, find_friend, request_join_or_invite, update_discord,
     join_game, process_pending_route, pre_destroy, joined, vars

(* What a line added to a queue, and one taken from it, tell.              *)
LEMMA ToldByOne ==
    ASSUME NEW q \in Seq(OutLine), NEW line \in OutLine, line.type # "presence"
    PROVE  /\ Silent(q) => Silent(Append(q, line))
           /\ \A s : Tells(q, s) => Tells(Append(q, line), s)
<1>1. /\ Len(q) \in Nat /\ DOMAIN q = 1 .. Len(q)
      /\ DOMAIN Append(q, line) = 1 .. Len(q) + 1
      /\ Append(q, line)[Len(q) + 1] = line
      /\ \A i \in 1 .. Len(q) : Append(q, line)[i] = q[i]
  OBVIOUS
<1>2. \A i \in DOMAIN Append(q, line) :
          (i \in DOMAIN q /\ Append(q, line)[i] = q[i]) \/ Append(q, line)[i] = line
  BY <1>1
<1>3. DOMAIN q \subseteq DOMAIN Append(q, line)
  BY <1>1
<1>4. Silent(q) => Silent(Append(q, line))
  BY <1>2 DEF Silent
<1>5. ASSUME NEW s, Tells(q, s) PROVE Tells(Append(q, line), s)
  <2>1. PICK i \in DOMAIN q :
            /\ q[i].type = "presence" /\ q[i].state = s
            /\ \A j \in DOMAIN q : j > i => q[j].type # "presence"
    BY <1>5 DEF Tells
  <2>2. i \in DOMAIN Append(q, line) /\ Append(q, line)[i] = q[i]
    BY <1>1, <2>1
  <2>3. \A j \in DOMAIN Append(q, line) : j > i => Append(q, line)[j].type # "presence"
    BY <1>2, <2>1
  <2> QED BY <2>1, <2>2, <2>3 DEF Tells
<1> QED BY <1>4, <1>5

LEMMA ToldByPresence ==
    ASSUME NEW q \in Seq(OutLine), NEW line \in OutLine, line.type = "presence"
    PROVE  Tells(Append(q, line), line.state)
<1> DEFINE r == Append(q, line)
<1>1. Len(q) \in Nat /\ DOMAIN r = 1 .. Len(q) + 1 /\ r[Len(q) + 1] = line
  OBVIOUS
<1>2. Len(q) + 1 \in DOMAIN r /\ \A j \in DOMAIN r : ~(j > Len(q) + 1)
  BY <1>1
<1> HIDE DEF r
<1>3. Tells(r, line.state)
  BY <1>1, <1>2 DEF Tells
<1> QED BY <1>3 DEF r

LEMMA ToldByTail ==
    ASSUME NEW q \in Seq(OutLine), q # <<>>
    PROVE  /\ Silent(q) => Silent(Tail(q)) /\ Head(q).type # "presence"
           /\ \A s : Tells(q, s) =>
                  \/ Tells(Tail(q), s)
                  \/ Silent(Tail(q)) /\ Head(q).type = "presence" /\ Head(q).state = s
<1>1. /\ Len(q) \in Nat /\ Len(q) > 0
      /\ DOMAIN q = 1 .. Len(q) /\ DOMAIN Tail(q) = 1 .. Len(q) - 1
      /\ Head(q) = q[1]
      /\ \A i \in 1 .. Len(q) - 1 : Tail(q)[i] = q[i + 1]
  OBVIOUS
<1>2. \A i \in DOMAIN Tail(q) : i + 1 \in DOMAIN q /\ Tail(q)[i] = q[i + 1] /\ i + 1 > 1
  BY <1>1
<1>3. 1 \in DOMAIN q
  BY <1>1
<1>4. Silent(q) => Silent(Tail(q)) /\ Head(q).type # "presence"
  BY <1>1, <1>2, <1>3 DEF Silent
<1>5. ASSUME NEW s, Tells(q, s)
      PROVE  \/ Tells(Tail(q), s)
             \/ Silent(Tail(q)) /\ Head(q).type = "presence" /\ Head(q).state = s
  <2>1. PICK i \in DOMAIN q :
            /\ q[i].type = "presence" /\ q[i].state = s
            /\ \A j \in DOMAIN q : j > i => q[j].type # "presence"
    BY <1>5 DEF Tells
  <2>2. CASE i = 1
    <3>1. Silent(Tail(q))
      BY <1>2, <2>1, <2>2 DEF Silent
    <3> QED BY <1>1, <2>1, <2>2, <3>1
  <2>3. CASE i # 1
    <3>1. i - 1 \in DOMAIN Tail(q) /\ Tail(q)[i - 1] = q[i]
      BY <1>1, <2>3
    <3>2. \A j \in DOMAIN Tail(q) : j > i - 1 => j + 1 \in DOMAIN q /\ j + 1 > i
      BY <1>1
    <3>3. \A j \in DOMAIN Tail(q) : j > i - 1 => Tail(q)[j].type # "presence"
      BY <1>2, <2>1, <3>2
    <3> QED BY <2>1, <3>1, <3>3 DEF Tells
  <2> QED BY <2>2, <2>3
<1> QED BY <1>4, <1>5

(* Main, or io for it, queues a line that says nothing of the presence.    *)
LEMMA ToldKept ==
    ASSUME TypeOK, NEW s, ToldLast(s), UNCHANGED <<pending, shown>>,
           \/ UNCHANGED queue
           \/ \E line \in OutLine : line.type # "presence" /\ queue' = Append(queue, line)
    PROVE  ToldLast(s)'
<1>1. queue \in Seq(OutLine)
  BY DEF TypeOK
<1>2. CASE UNCHANGED queue
  BY <1>2 DEF ToldLast, Tells, Silent
<1>3. CASE \E line \in OutLine : line.type # "presence" /\ queue' = Append(queue, line)
  <2>1. PICK line \in OutLine : line.type # "presence" /\ queue' = Append(queue, line)
    BY <1>3
  <2>2. /\ Silent(queue) => Silent(Append(queue, line))
        /\ Tells(queue, s) => Tells(Append(queue, line), s)
    BY <1>1, <2>1, ToldByOne
  <2>3. (Silent(queue) => Silent(queue')) /\ (Tells(queue, s) => Tells(queue', s))
    BY <2>1, <2>2
  <2> QED BY <2>3 DEF ToldLast, Silent, Tells
<1> QED BY <1>2, <1>3

(* The pipe at work: io takes the queue, and writes a line.                *)
LEMMA ToldSwapped ==
    ASSUME TypeOK, NEW s, ToldLast(s), pending = <<>>, pending' = queue, queue' = <<>>,
           shown' = shown
    PROVE  ToldLast(s)'
<1>1. Silent(<<>>) /\ ~Tells(<<>>, s)
  BY DEF Silent, Tells
<1>2. Tells(queue, s) \/ (Silent(queue) /\ shown = s)
  BY <1>1 DEF ToldLast
<1>3. Silent(queue')
  BY <1>1
<1>4. Tells(pending', s) \/ (Silent(pending') /\ shown' = s)
  BY <1>2
<1> QED BY <1>3, <1>4 DEF ToldLast, Silent, Tells

LEMMA ToldWritten ==
    ASSUME TypeOK, NEW s, ToldLast(s), pending # <<>>, pending' = Tail(pending),
           shown' = (IF Head(pending).type = "presence" THEN Head(pending).state ELSE shown),
           queue' = queue
    PROVE  ToldLast(s)'
<1>1. /\ Silent(pending) => Silent(Tail(pending)) /\ Head(pending).type # "presence"
      /\ Tells(pending, s) =>
            \/ Tells(Tail(pending), s)
            \/ Silent(Tail(pending)) /\ Head(pending).type = "presence" /\ Head(pending).state = s
  BY ToldByTail DEF TypeOK
<1>2. CASE Tells(queue, s)
  <2>1. Tells(queue', s)
    BY <1>2
  <2> QED BY <2>1 DEF ToldLast, Tells
<1>3. CASE Silent(queue) /\ Tells(pending, s)
  <2>1. Silent(queue') /\ (Tells(pending', s) \/ (Silent(pending') /\ shown' = s))
    BY <1>1, <1>3
  <2> QED BY <2>1 DEF ToldLast, Tells, Silent
<1>4. CASE Silent(queue) /\ Silent(pending) /\ shown = s
  <2>1. Silent(queue') /\ Silent(pending') /\ shown' = s
    BY <1>1, <1>4
  <2> QED BY <2>1 DEF ToldLast, Silent
<1> QED BY <1>2, <1>3, <1>4 DEF ToldLast

LEMMA ToldSame ==
    ASSUME ToldLast(last_sent), last_sent' = last_sent, \A s : ToldLast(s) => ToldLast(s)'
    PROVE  ToldLast(last_sent)'
BY DEF ToldLast, Tells, Silent

LEMMA ToldStep == IInv /\ PipeInv /\ LastSentTold /\ [Next]_vars => LastSentTold'
<1> SUFFICES ASSUME IInv, PipeInv, LastSentTold, [Next]_vars,
                    alive', ~Broken', ~force_resend', main' # "enqueue"
             PROVE  ToldLast(last_sent)'
  BY DEF LastSentTold
<1> USE DEF game, launcher, thread, sender, native, shared
<1>0. TypeOK /\ LinesHome /\ conn <= launch /\ conn \in Nat /\ launch \in Nat
  BY DEF IInv, TypeOK, PipeInv
<1>1. ASSUME alive, ~Broken, ~force_resend, main # "enqueue",
             UNCHANGED <<pending, shown, last_sent>>,
             \/ UNCHANGED queue
             \/ \E line \in OutLine : line.type # "presence" /\ queue' = Append(queue, line)
      PROVE  ToldLast(last_sent)'
  <2>1. ToldLast(last_sent)
    BY <1>1 DEF LastSentTold
  <2>2. \A s : ToldLast(s) => ToldLast(s)'
    BY <1>0, <1>1, ToldKept
  <2>3. last_sent' = last_sent
    BY <1>1
  <2> QED BY <2>1, <2>2, <2>3, ToldSame
<1>2. CASE Launch \/ Exit
  <2>1. CASE Launch
    BY <1>0, <2>1 DEF Launch, Broken
  <2>2. CASE Exit
    BY <2>2 DEF Exit, Broken
  <2> QED BY <1>2, <2>1, <2>2
<1>3. CASE Wedge \/ Say \/ Play \/ GetReady \/ GraceEnds
  BY <1>1, <1>3 DEF Wedge, Say, Play, GetReady, GraceEnds, Broken
<1>4. CASE connect_with_retry \/ disown \/ drop_friends \/ clear_queue
  BY <1>4 DEF connect_with_retry, disown, drop_friends, clear_queue, PipeInv
<1>5. CASE write_hello
  BY <1>5 DEF write_hello, resend
<1>6. CASE swap_queue
  <2>1. alive /\ pending' = queue /\ queue' = <<>> /\ io = "swap"
    BY <1>6 DEF swap_queue, close_pipe
  <2>2. pending = <<>>
    BY <1>0, <2>1 DEF LinesHome
  <2>3. UNCHANGED <<shown, last_sent, force_resend, main, up, conn, launch>>
    BY <1>6 DEF swap_queue
  <2>4. ToldLast(last_sent)
    BY <2>1, <2>3 DEF LastSentTold, Broken
  <2>5. \A s : ToldLast(s) => ToldLast(s)'
    BY <1>0, <2>1, <2>2, <2>3, ToldSwapped
  <2> QED BY <2>3, <2>4, <2>5, ToldSame
<1>7. CASE write_pending
  <2>1. /\ shown' = (IF Head(pending).type = "presence" THEN Head(pending).state ELSE shown)
        /\ pending' = Tail(pending) /\ alive' = alive /\ io = "write"
    BY <1>7 DEF write_pending
  <2>2. pending # <<>>
    BY <1>0, <2>1 DEF LinesHome
  <2>3. UNCHANGED <<queue, last_sent, force_resend, main, up, conn, launch>>
    BY <1>7 DEF write_pending
  <2>4. ToldLast(last_sent)
    BY <2>1, <2>3 DEF LastSentTold, Broken
  <2>5. \A s : ToldLast(s) => ToldLast(s)'
    BY <1>0, <2>1, <2>2, <2>3, ToldWritten
  <2> QED BY <2>3, <2>4, <2>5, ToldSame
<1>8. CASE peek_and_read
  <2>1. /\ alive' = alive
        /\ UNCHANGED <<pending, shown, last_sent, force_resend, main, up, conn, launch>>
    BY <1>8 DEF peek_and_read, close_pipe
  <2>2. UNCHANGED queue
          \/ \E line \in OutLine : line.type # "presence" /\ queue' = Append(queue, line)
    <3>1. UNCHANGED queue \/ enqueue("connect-ack", None)
      BY <1>8 DEF peek_and_read, handle_incoming_line, handle_connect, handle_friends
    <3> QED BY <1>0, <3>1, Enqueued
  <2> QED BY <1>1, <2>1, <2>2 DEF Broken
<1>9. CASE send_presence_exchange
  <2>1. UNCHANGED <<queue, pending, shown, alive, up, conn, launch>> /\ main # "enqueue"
    BY <1>9 DEF send_presence_exchange
  <2>2. presence = last_sent'
    BY <1>9 DEF send_presence_exchange
  <2>3. ~force_resend
    BY <1>0, <1>9, <2>2, NoneAssumption DEF send_presence_exchange, TypeOK
  <2>4. last_sent' = last_sent
    BY <1>9, <2>3 DEF send_presence_exchange
  <2> QED BY <1>1, <2>1, <2>3, <2>4 DEF Broken
<1>10. CASE send_presence_enqueue
  <2>1. /\ last_sent' = presence /\ presence \in State /\ queue \in Seq(OutLine)
        /\ enqueue("presence", presence)
    BY <1>0, <1>10 DEF send_presence_enqueue, TypeOK
  <2>2. PICK line \in OutLine :
            /\ queue' = Append(queue, line)
            /\ line.type = "presence" /\ line.state = presence
    BY <1>0, <2>1, Enqueued
  <2>3. Tells(Append(queue, line), line.state)
    BY <2>1, <2>2, ToldByPresence
  <2>4. Tells(queue', last_sent')
    BY <2>1, <2>2, <2>3
  <2> QED BY <2>4 DEF ToldLast, Tells
<1>11. CASE run_task \/ request_join_or_invite
  <2>1. UNCHANGED <<pending, shown, last_sent, force_resend, alive, up, conn, launch>>
        /\ main # "enqueue"
    BY <1>11 DEF run_task, request_join_or_invite
  <2>2. UNCHANGED queue
          \/ \E line \in OutLine : line.type # "presence" /\ queue' = Append(queue, line)
    <3>1. UNCHANGED queue
            \/ \E t \in {"open-match-ack", "join-friend", "invite"} : enqueue(t, None)
      BY <1>11 DEF run_task, request_join_or_invite
    <3> QED BY <1>0, <3>1, Enqueued
  <2> QED BY <1>1, <2>1, <2>2 DEF Broken
<1>12. CASE \/ find_friend \/ ownership_tick \/ update_discord \/ join_game
            \/ process_pending_route \/ pre_destroy \/ joined \/ UNCHANGED vars
  <2>1. UNCHANGED <<queue, pending, shown, last_sent, force_resend, alive, up, conn, launch>>
        /\ main # "enqueue"
    BY <1>12 DEF find_friend, ownership_tick, update_discord, join_game,
       process_pending_route, pre_destroy, joined, vars
  <2> QED BY <1>1, <2>1 DEF Broken
<1> QED
  BY <1>2, <1>3, <1>4, <1>5, <1>6, <1>7, <1>8, <1>9, <1>10, <1>11, <1>12
  DEF Next, io_loop, main_loop

LEMMA CardStep == IInv /\ PipeInv /\ CardAgrees /\ [Next]_vars => CardAgrees'
<1> SUFFICES ASSUME IInv, PipeInv, CardAgrees, [Next]_vars PROVE CardAgrees'
  OBVIOUS
<1> USE DEF CardAgrees, game, launcher, thread, sender, native, shared
<1>0. effective_launcher_owns \in BOOLEAN
  BY DEF IInv, TypeOK, FlagsOK
<1>1. CASE ownership_tick
  BY <1>0, <1>1 DEF ownership_tick, reset_last_presence
<1>2. CASE update_discord
  BY <1>0, <1>2 DEF update_discord
<1>3. CASE joined
  BY <1>3 DEF joined
<1>4. CASE /\ UNCHANGED <<effective_launcher_owns, card, last_presence>>
           /\ main = "destroyed" => main' = "destroyed"
  BY <1>0, <1>4
<1> QED
  BY <1>1, <1>2, <1>3, <1>4 DEF Next, Launch, Exit, Wedge, Say, Play, GetReady, GraceEnds, io_loop,
     connect_with_retry, write_hello, swap_queue, write_pending, peek_and_read, disown,
     drop_friends, clear_queue, main_loop, send_presence_exchange, send_presence_enqueue,
     run_task, find_friend, request_join_or_invite, join_game, process_pending_route,
     pre_destroy, vars

LEMMA NewestStep == IInv /\ NewestJoinKept /\ [Next]_vars => NewestJoinKept'
<1> SUFFICES ASSUME IInv, NewestJoinKept, [Next]_vars PROVE NewestJoinKept'
  OBVIOUS
<1> USE DEF NewestJoinKept, game, launcher, thread, sender, native, shared
<1>0. /\ joins \in Nat /\ pending_route \in Nat \union {None} /\ routed \in Seq(Nat)
      /\ RoutedOnce /\ RoutesNumbered
  BY DEF IInv, TypeOK
<1>1. CASE queue_join
  BY <1>1 DEF queue_join
<1>2. CASE process_pending_route
  <2>1. /\ pending_route \in Nat /\ routed' = Append(routed, pending_route)
        /\ joins' = joins
    BY <1>0, <1>2 DEF process_pending_route, route_join
  <2>2. joins > 0 => pending_route = joins
    <3>1. pending_route <= joins
      BY <1>0, <1>2 DEF RoutesNumbered, process_pending_route
    <3>2. routed # <<>> => routed[Len(routed)] < pending_route /\ routed[Len(routed)] \in Nat
      BY <1>0, <1>2 DEF RoutedOnce, process_pending_route
    <3> QED BY <1>0, <2>1, <3>1, <3>2
  <2>3. routed' # <<>> /\ routed'[Len(routed')] = pending_route
    BY <1>0, <2>1
  <2> QED BY <2>1, <2>2, <2>3
<1>3. CASE UNCHANGED <<joins, pending_route, routed>>
  BY <1>3
<1>4. CASE (peek_and_read \/ join_game) /\ ~queue_join
  BY <1>3, <1>4 DEF peek_and_read, handle_incoming_line, handle_connect, handle_friends, join_game
<1>5. CASE (peek_and_read \/ join_game) /\ queue_join
  BY <1>1, <1>5
<1> QED
  BY <1>2, <1>3, <1>4, <1>5 DEF Next, Launch, Exit, Wedge, Say, Play, GetReady, GraceEnds, io_loop,
     connect_with_retry, write_hello, swap_queue, write_pending, disown, drop_friends,
     clear_queue, main_loop, send_presence_exchange, send_presence_enqueue, run_task,
     find_friend, request_join_or_invite, ownership_tick, update_discord, pre_destroy,
     joined, vars

LEMMA AlwaysFollowInv == Spec => [](IInv /\ FollowInv)
<1>1. Init => FollowInv
  BY NoneAssumption DEF Init, FollowInv, LastSentTold, CardAgrees, NewestJoinKept, PipeInv
<1>2. IInv /\ FollowInv /\ [Next]_vars => FollowInv'
  <2>1. IInv => TypeOK
    BY DEF IInv
  <2> QED BY <2>1, PipeStep, ToldStep, CardStep, NewestStep DEF FollowInv
<1>3. IInv /\ [Next]_vars => IInv'
  BY NextIInv
<1> QED BY <1>1, <1>2, <1>3, InitIInv, PTL DEF Spec

(* While the pipe lasts and io has not asked for the presence anew, what   *)
(* send_presence takes for sent is the newest the launcher has or will be  *)
(* told; so no change is kept from it by a line that was lost.             *)
THEOREM PresenceNotLost == Spec => []LastSentTold
<1>1. FollowInv => LastSentTold
  BY DEF FollowInv
<1> QED BY <1>1, AlwaysFollowInv, PTL

(* There is no native card while the launcher owns presence, and when it   *)
(* does not, the card is the one native RPC believes to have shown.        *)
THEOREM OneCard == Spec => []CardAgrees
<1>1. FollowInv => CardAgrees
  BY DEF FollowInv
<1> QED BY <1>1, AlwaysFollowInv, PTL

(* The newest join is never dropped: it waits, or was routed last.         *)
THEOREM NewestJoinRouted == Spec => []NewestJoinKept
<1>1. FollowInv => NewestJoinKept
  BY DEF FollowInv
<1> QED BY <1>1, AlwaysFollowInv, PTL
=============================================================================
