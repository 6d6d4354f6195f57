-------------------------------- MODULE Nat --------------------------------
(***************************************************************************)
(* Joining a friend's private match through NAT: component/nat.cpp of one  *)
(* client, which may host a match of its own and join the match of a       *)
(* remote host, with the part of the same component that answers it there. *)
(*                                                                         *)
(* A session is known by its token: the host mints one when it opens the   *)
(* match, and a fresh one when it opens it again after a close.  The       *)
(* member adopts it as the identity of the match it is in, and asks the    *)
(* host now and then for the present one.                                  *)
(*                                                                         *)
(* Every handler runs on the main thread.  Messages are lost, delayed,     *)
(* duplicated and reordered: what was sent once may arrive at any time.    *)
(* The rendezvous server and the two NATs are reduced to which messages    *)
(* they may let through.                                                   *)
(***************************************************************************)
EXTENDS Naturals, FiniteSets

CONSTANTS
    MaxTokens,   \* bound: tokens the remote host mints
    MaxOwn,      \* bound: tokens this client mints
    MaxJoins,    \* bound: begin_join
    MaxProbes    \* bound: natSession challenges

ASSUME NatAssumption ==
    /\ MaxTokens \in Nat \ {0}
    /\ MaxOwn \in Nat /\ MaxJoins \in Nat /\ MaxProbes \in Nat

(* Tokens of the remote host and of this client; None is the empty string. *)
None == <<"none", 0>>
Remote(n) == <<"remote", n>>
Own(n) == <<"own", n>>
RemoteToken == {Remote(n) : n \in 1 .. MaxTokens}
OwnToken == {Own(n) : n \in 1 .. MaxOwn}
Token == RemoteToken \cup OwnToken

(* The servers this client may be connected to: the remote host, any other *)
(* server, or none.                                                        *)
Peer == {"host", "other", "none"}

VARIABLES
    hosting_enabled, host_token, hosted_token,
    joined_token,
    joined_late,        \* joined_token_deadline has passed
    open,               \* joined_host_open_until has not passed
    session_challenge,  \* 0 for none
    punch,
    own_match,          \* getinfo::is_host: the client plays a match of its own
    connected,          \* the server it plays on
    asked_host,         \* party's connect_host is the remote host
    connecting,         \* a connection asked of party is under way
    remote_latest,      \* how many tokens the remote host has minted
    remote_open,        \* it is open to friends now
    minted, joins, probes_sent,  \* counters
    punched,            \* SUBSET Token: tokens this client sent punches for
    probes,             \* SUBSET Nat: challenges sent to the remote host
    session_acks,       \* SUBSET [challenge, token]: natSessionAcks sent to this client
    issued,             \* history: issue_connects since begin_join
    known_at            \* history: the oldest token each challenge may be answered with

hosting == <<hosting_enabled, host_token, hosted_token, own_match, minted>>
joined == <<joined_token, joined_late, open>>
game == <<connected, asked_host, connecting>>
remote == <<remote_latest, remote_open, session_acks>>
probing == <<session_challenge, probes, probes_sent, known_at>>
punching == <<punch, joins, issued, punched>>
vars == <<hosting, joined, game, remote, probing, punching>>

(* punch_attempt.  Its field connected is set when active is cleared, and  *)
(* every reader asks for active first: an attempt that ended is forgotten. *)
NoPunch == [active |-> FALSE, joining |-> FALSE, token |-> None, fallback |-> FALSE,
            candidates |-> FALSE, late |-> FALSE]

Init ==
    /\ hosting_enabled = FALSE /\ host_token = None /\ hosted_token = None
    /\ own_match = FALSE /\ minted = 0
    /\ joined_token = None /\ joined_late = FALSE /\ open = FALSE
    /\ connected = "none" /\ asked_host = FALSE /\ connecting = FALSE
    /\ remote_latest = 1 /\ remote_open = TRUE /\ session_acks = {}
    /\ session_challenge = 0 /\ probes = {} /\ probes_sent = 0
    /\ known_at = [c \in 1 .. MaxProbes |-> 0]
    /\ punch = NoPunch /\ joins = 0 /\ issued = 0 /\ punched = {}

(* Com_IsInGame; load screens, which the grace period outlasts, are left   *)
(* out.                                                                    *)
in_game == own_match \/ connected # "none"

-----------------------------------------------------------------------------
(* Punches go to the candidates, if there are any.  What is sent to the    *)
(* rendezvous leaves no trace: it is sent again and again.                 *)
send_punch_round(p) ==
    punched' = IF p.candidates THEN punched \cup {p.token} ELSE punched

-----------------------------------------------------------------------------
(* The joiner                                                              *)

begin_join(n, fallback) ==
    /\ joins < MaxJoins
    /\ joins' = joins + 1
    /\ issued' = 0
    /\ punch' = [NoPunch EXCEPT !.active = TRUE, !.joining = TRUE, !.token = Remote(n),
                                !.fallback = fallback]
    /\ joined_token' = None
    /\ UNCHANGED <<hosting, joined_late, open, game, remote, probing, punched>>

(* party::connect: refused while a map downloads, else a query of the host *)
(* is under way.                                                           *)
Connect ==
    \/ asked_host' = TRUE /\ connecting' = TRUE
    \/ UNCHANGED <<asked_host, connecting>>

(* issue_connect for an address of the remote host.                        *)
issue_connect ==
    /\ Connect
    /\ issued' = issued + 1
    /\ joined_token' = punch.token
    /\ joined_late' = FALSE
    /\ open' = TRUE

NoConnect == UNCHANGED <<asked_host, connecting, issued, joined>>

(* privPeer with the candidates the other side registered.                 *)
privPeer_joiner ==
    /\ punch.active /\ punch.joining
    /\ punch' = [punch EXCEPT !.candidates = TRUE]
    /\ send_punch_round(punch')
    /\ UNCHANGED <<hosting, joined, game, remote, probing, joins, issued>>

(* Mutant: the attempt stays open.                                         *)
punchAck_StaysActive(token) ==
    /\ token \in punched
    /\ punch.active /\ punch.token = token
    /\ IF punch.joining THEN issue_connect ELSE NoConnect
    /\ UNCHANGED <<punch, hosting, connected, remote, probing, joins, punched>>

(* punchAck from one of the addresses punched, or a duplicate of one.      *)
punchAck(token) ==
    /\ token \in punched
    /\ punch.active /\ punch.token = token
    /\ punch' = NoPunch
    /\ IF punch.joining THEN issue_connect ELSE NoConnect
    /\ UNCHANGED <<hosting, connected, remote, probing, joins, punched>>

(* A punch of the other side: its source address becomes a candidate.      *)
punch_received(token) ==
    /\ token = punch.token /\ punch.active
    /\ punch' = [punch EXCEPT !.candidates = TRUE]
    /\ UNCHANGED <<hosting, joined, game, remote, probing, joins, issued, punched>>

privReject ==
    /\ punch.active /\ punch.joining
    /\ punch' = [punch EXCEPT !.late = TRUE]
    /\ UNCHANGED <<hosting, joined, game, remote, probing, joins, issued, punched>>

(* The deadline of the attempt passes.                                     *)
DeadlinePasses ==
    /\ punch.active /\ ~punch.late
    /\ punch' = [punch EXCEPT !.late = TRUE]
    /\ UNCHANGED <<hosting, joined, game, remote, probing, joins, issued, punched>>

update_joined_session ==
    IF joined_token = None THEN UNCHANGED joined
    ELSE IF punch.active \/ in_game THEN joined_late' = FALSE /\ UNCHANGED <<joined_token, open>>
    ELSE IF joined_late THEN joined_token' = None /\ open' = FALSE /\ UNCHANGED joined_late
    ELSE UNCHANGED joined

(* punch_frame without an attempt, or within its deadline.                 *)
punch_frame ==
    /\ ~(punch.active /\ punch.late)
    /\ update_joined_session
    /\ IF punch.active THEN send_punch_round(punch) ELSE UNCHANGED punched
    /\ UNCHANGED <<hosting, game, remote, probing, punch, joins, issued>>

(* Mutant: a missed deadline leaves the attempt as it is.                  *)
punch_frame_deadline_NotEnded ==
    /\ punch.active /\ punch.late
    /\ update_joined_session
    /\ UNCHANGED <<hosting, game, remote, probing, punching>>

(* punch_frame after the deadline: the fallback address, if the secret had *)
(* one, or an error.  The token is adopted after update_joined_session has *)
(* seen the old one, which begin_join has cleared.                         *)
punch_frame_deadline ==
    /\ punch.active /\ punch.late
    /\ punch' = NoPunch
    /\ IF punch.joining /\ punch.fallback
       THEN issue_connect
       ELSE /\ update_joined_session
            /\ UNCHANGED <<asked_host, connecting, issued>>
    /\ UNCHANGED <<hosting, connected, remote, probing, joins, punched>>

-----------------------------------------------------------------------------
(* The member asks the host for its session.                               *)

request_joined_session ==
    \/ /\ joined_token = None
       /\ open' = FALSE /\ session_challenge' = 0
       /\ UNCHANGED <<probes, probes_sent, known_at>>
    \/ /\ joined_token # None /\ connected # "none"
       /\ probes_sent < MaxProbes
       /\ probes_sent' = probes_sent + 1
       /\ session_challenge' = probes_sent'
       /\ probes' = IF connected = "host" THEN probes \cup {probes_sent'} ELSE probes
       /\ known_at' = [known_at EXCEPT ![probes_sent'] =
                          IF remote_open THEN remote_latest ELSE remote_latest + 1]
       /\ UNCHANGED open

request_session ==
    /\ request_joined_session
    /\ UNCHANGED <<hosting, joined_token, joined_late, game, remote, punching>>

(* natSession at the remote host, of which this client is a member: the    *)
(* same component there answers with its host_token, None when closed.     *)
natSession ==
    \E c \in probes :
        /\ connected = "host"
        /\ session_acks' = session_acks \cup
             {[challenge |-> c, token |-> IF remote_open THEN Remote(remote_latest) ELSE None]}
        /\ UNCHANGED <<hosting, joined, game, remote_latest, remote_open, probing, punching>>

(* Mutant: any answer will do.                                             *)
MayAdopt_AnyChallenge(ack) ==
    /\ session_challenge # 0 /\ joined_token # None
    /\ ~(punch.active /\ punch.joining)
    /\ (connected = "host" \/ asked_host)

MayAdopt(ack) ==
    /\ session_challenge # 0 /\ joined_token # None
    /\ ~(punch.active /\ punch.joining)
    /\ (connected = "host" \/ asked_host)
    /\ ack.challenge = session_challenge

natSessionAck(ack) ==
    /\ MayAdopt(ack)
    /\ session_challenge' = 0
    /\ IF ack.token = None
       THEN open' = FALSE /\ UNCHANGED joined_token
       ELSE joined_token' = ack.token /\ open' = TRUE
    /\ UNCHANGED <<hosting, joined_late, game, remote, probes, probes_sent, known_at,
                   punching>>

-----------------------------------------------------------------------------
(* The host side of this client                                            *)

(* update_host_session, after which host_token is what own_match and       *)
(* enabled ask for.                                                        *)
update_host_session(enabled) ==
    IF own_match /\ enabled
    THEN /\ hosting_enabled' = TRUE
         /\ IF host_token = None
            THEN /\ minted < MaxOwn
                 /\ minted' = minted + 1
                 /\ host_token' = Own(minted') /\ hosted_token' = Own(minted')
            ELSE UNCHANGED <<minted, host_token, hosted_token>>
    ELSE /\ hosting_enabled' = FALSE
         /\ host_token' = None
         /\ hosted_token' = IF own_match THEN hosted_token ELSE None
         /\ UNCHANGED minted

HostUnchanged == UNCHANGED <<own_match, joined, game, remote, probing, punching>>

(* The loop, every five seconds.                                           *)
host_session == update_host_session(hosting_enabled) /\ HostUnchanged

(* Mutant: a close forgets the match.                                      *)
nat_host_Forgets ==
    /\ own_match
    /\ IF hosting_enabled
       THEN /\ hosting_enabled' = FALSE /\ host_token' = None /\ hosted_token' = None
            /\ UNCHANGED minted
       ELSE update_host_session(TRUE)
    /\ HostUnchanged

(* nat_host, open_to_friends: toggled, then registered or closed at once.  *)
nat_host ==
    /\ own_match
    /\ IF hosting_enabled
       THEN /\ hosting_enabled' = FALSE /\ host_token' = None
            /\ UNCHANGED <<hosted_token, minted>>
       ELSE update_host_session(TRUE)
    /\ HostUnchanged

(* privPeer at the host, for the token registered: the joiner's candidates *)
(* are punched.  An attempt to join elsewhere is overwritten; an attempt   *)
(* of the host goes on, under the token it began with.                     *)
privPeer_host ==
    /\ host_token # None
    /\ punch' = [NoPunch EXCEPT !.active = TRUE, !.candidates = TRUE,
                                !.token = IF punch.active /\ ~punch.joining THEN punch.token
                                          ELSE host_token]
    /\ send_punch_round(punch')
    /\ UNCHANGED <<hosting, joined, game, remote, probing, joins, issued>>

-----------------------------------------------------------------------------
(* The game and the remote host                                            *)

Arrive ==
    /\ connecting
    /\ connecting' = FALSE
    /\ connected' = "host" /\ own_match' = FALSE
    /\ UNCHANGED <<hosting_enabled, host_token, hosted_token, minted, joined, asked_host,
                   remote, probing, punching>>

(* The host does not answer the query, or refuses the client.              *)
ConnectFails ==
    /\ connecting
    /\ connecting' = FALSE
    /\ UNCHANGED <<hosting, joined, connected, asked_host, remote, probing, punching>>

(* The client starts a match of its own, or joins another server.          *)
PlayElsewhere ==
    /\ ~in_game
    /\ \/ connected' = "other" /\ asked_host' = FALSE /\ UNCHANGED own_match
       \/ own_match' = TRUE /\ connected' = "none" /\ UNCHANGED asked_host
    /\ UNCHANGED <<hosting_enabled, host_token, hosted_token, minted, joined, connecting,
                   remote, probing, punching>>

(* The end of the match.                                                   *)
Quit ==
    /\ in_game
    /\ connected' = "none" /\ own_match' = FALSE
    /\ UNCHANGED <<hosting_enabled, host_token, hosted_token, minted, joined, asked_host,
                   connecting, remote, probing, punching>>

RemoteToggles ==
    /\ IF remote_open THEN remote_open' = FALSE /\ UNCHANGED remote_latest
       ELSE /\ remote_latest < MaxTokens
            /\ remote_latest' = remote_latest + 1
            /\ remote_open' = TRUE
    /\ UNCHANGED <<hosting, joined, game, session_acks, probing, punching>>

(* Fifteen seconds pass outside of a game, or twenty without an answer.    *)
GracePasses ==
    /\ joined_token # None /\ ~in_game /\ ~punch.active
    /\ ~joined_late /\ joined_late' = TRUE
    /\ UNCHANGED <<hosting, joined_token, open, game, remote, probing, punching>>

OpenPasses ==
    /\ open /\ open' = FALSE
    /\ UNCHANGED <<hosting, joined_token, joined_late, game, remote, probing, punching>>

Joiner ==
    \/ \E n \in 1 .. remote_latest, fallback \in BOOLEAN : begin_join(n, fallback)
    \/ privPeer_joiner \/ privReject \/ DeadlinePasses
    \/ \E token \in Token : punchAck(token) \/ punch_received(token)
    \/ punch_frame \/ punch_frame_deadline

Member ==
    \/ request_session \/ natSession
    \/ \E ack \in session_acks : natSessionAck(ack)

Host == host_session \/ nat_host \/ privPeer_host

Game == Arrive \/ ConnectFails \/ PlayElsewhere \/ Quit \/ RemoteToggles

Next == Joiner \/ Member \/ Host \/ Game \/ GracePasses \/ OpenPasses

Spec == Init /\ [][Next]_vars

(* punch_frame runs every 250 ms, and every deadline passes.               *)
FairSpec ==
    /\ Spec
    /\ WF_vars(DeadlinePasses)
    /\ WF_vars(punch_frame_deadline)

-----------------------------------------------------------------------------
TypeOK ==
    /\ hosting_enabled \in BOOLEAN /\ own_match \in BOOLEAN
    /\ host_token \in OwnToken \cup {None} /\ hosted_token \in OwnToken \cup {None}
    /\ joined_token \in RemoteToken \cup {None}
    /\ joined_late \in BOOLEAN /\ open \in BOOLEAN
    /\ session_challenge \in 0 .. probes_sent /\ probes \subseteq 1 .. probes_sent
    /\ punch \in [active : BOOLEAN, joining : BOOLEAN, token : Token \cup {None},
                  fallback : BOOLEAN, candidates : BOOLEAN, late : BOOLEAN]
    /\ punch.active => punch.token \in (IF punch.joining THEN RemoteToken ELSE OwnToken)
    /\ connected \in Peer /\ asked_host \in BOOLEAN /\ connecting \in BOOLEAN
    /\ remote_latest \in 1 .. MaxTokens /\ remote_open \in BOOLEAN
    /\ minted \in 0 .. MaxOwn /\ joins \in 0 .. MaxJoins /\ probes_sent \in 0 .. MaxProbes
    /\ punched \subseteq Token
    /\ session_acks \subseteq [challenge : 1 .. probes_sent, token : RemoteToken \cup {None}]
    /\ known_at \in [1 .. MaxProbes -> 0 .. MaxTokens + 1]
    /\ issued \in Nat

(* A join attempt connects at most once, whichever of its candidates       *)
(* answer, and whether or not its deadline has passed.                     *)
OneConnect == issued <= 1

(* The member adopts no token, and re-advertises no session, that the host *)
(* had already dropped when it was asked: late and duplicate answers are   *)
(* of no effect.                                                           *)
FreshAnswer ==
    [][(\E ack \in session_acks : natSessionAck(ack)) /\ open' =>
         joined_token'[2] >= known_at[session_challenge]]_vars

(* The identity of the hosted match outlives a close to friends; in the    *)
(* same match it changes only to the token of a new opening.               *)
OutlivesClose ==
    [][own_match /\ hosted_token # None /\ hosted_token' # hosted_token
         => hosted_token' # None /\ host_token' = hosted_token']_vars

(* A join attempt ends: it connects, fails, or gives way to another one.   *)
AttemptEnds ==
    \A n \in 1 .. MaxJoins :
        (punch.active /\ joins = n) ~> (~punch.active \/ ~punch.joining \/ joins # n)

(* nat.cpp: "Adopt the host's token as our match identity only once we     *)
(* actually connect, so a punch that never lands can't mislabel the match  *)
(* we're still sitting in."  Once no connection is under way, the match    *)
(* the client plays carries a joined token only if it is the host's.       *)
NeverMislabelled ==
    joined_token # None /\ in_game /\ ~connecting => connected = "host"
=============================================================================
