----------------------------- MODULE NatProofs -----------------------------
(***************************************************************************)
(* Proofs about Nat, for any bounds: an attempt connects at most once, an  *)
(* answer about the session is at least as new as the question, and the    *)
(* identity of a hosted match outlives a close.                            *)
(***************************************************************************)
EXTENDS Nat, TLAPS

(* A join attempt that is still open has not connected.                    *)
Attempt ==
    /\ punch \in [active : BOOLEAN, joining : BOOLEAN, token : Token \cup {None},
                  fallback : BOOLEAN, candidates : BOOLEAN, late : BOOLEAN]
    /\ issued \in Nat /\ issued <= 1
    /\ punch.active /\ punch.joining => issued = 0

(* The oldest token an answer sent now can carry.                          *)
Present == IF remote_open THEN remote_latest ELSE remote_latest + 1

(* No question asks for more than the present, and no answer holds less    *)
(* than its question asked for.                                            *)
Answers ==
    /\ remote_latest \in 1 .. MaxTokens /\ remote_open \in BOOLEAN
    /\ probes_sent \in 0 .. MaxProbes
    /\ session_challenge \in 0 .. probes_sent
    /\ probes \subseteq 1 .. probes_sent
    /\ known_at \in [1 .. MaxProbes -> Nat]
    /\ \A c \in 1 .. probes_sent : known_at[c] <= Present
    /\ \A ack \in session_acks :
         /\ ack.challenge \in 1 .. probes_sent
         /\ ack.token # None => ack.token[2] \in Nat /\ ack.token[2] >= known_at[ack.challenge]

(* The tokens the client mints.                                            *)
Hosted ==
    /\ minted \in 0 .. MaxOwn
    /\ host_token \in OwnToken \cup {None}

IInv == Attempt /\ Answers /\ Hosted

LEMMA InitIInv == Init => IInv
BY NatAssumption DEF Init, IInv, Attempt, Answers, Hosted, NoPunch

LEMMA AttemptUnchanged ==
    ASSUME Attempt, UNCHANGED <<punch, issued>>
    PROVE  Attempt'
BY DEF Attempt

LEMMA AnswersUnchanged ==
    ASSUME Answers, UNCHANGED <<remote, probing>>
    PROVE  Answers'
<1>1. UNCHANGED <<remote_latest, remote_open, session_acks, session_challenge, probes,
                  probes_sent, known_at>>
  BY DEF remote, probing
<1> QED BY <1>1 DEF Answers, Present

LEMMA HostedUnchanged ==
    ASSUME Hosted, UNCHANGED <<host_token, minted>>
    PROVE  Hosted'
BY DEF Hosted

LEMMA HostingUnchanged ==
    ASSUME Hosted, UNCHANGED hosting
    PROVE  Hosted'
BY HostedUnchanged DEF hosting

(* The attempt is closed as it connects.                                   *)
LEMMA Connects ==
    ASSUME Attempt, punch.active, punch.joining, punch' = NoPunch, issued' = issued + 1
    PROVE  Attempt'
BY DEF Attempt, NoPunch

LEMMA Closes ==
    ASSUME Attempt, punch' = NoPunch, issued' = issued
    PROVE  Attempt'
BY DEF Attempt, NoPunch

(* The joiner leaves the hosted match and the questions alone.             *)
LEMMA JoinerStep ==
    ASSUME IInv, Joiner, NatAssumption
    PROVE  IInv'
<1> USE DEF IInv
<1>1. UNCHANGED <<hosting, remote, probing>>
  BY DEF Joiner, begin_join, privPeer_joiner, privReject, DeadlinePasses, punchAck,
         punch_received, punch_frame, punch_frame_deadline
<1>2. Answers' /\ Hosted'
  BY <1>1, AnswersUnchanged, HostingUnchanged
<1>3. ASSUME NEW n \in 1 .. remote_latest, NEW fallback \in BOOLEAN, begin_join(n, fallback)
      PROVE  Attempt'
  <2>1. Remote(n) \in Token
    BY NatAssumption DEF Answers, Token, RemoteToken
  <2>2. /\ issued' = 0
        /\ punch' = [active |-> TRUE, joining |-> TRUE, token |-> Remote(n),
                     fallback |-> fallback, candidates |-> FALSE, late |-> FALSE]
    BY <1>3 DEF begin_join, NoPunch
  <2> QED BY <2>1, <2>2 DEF Attempt
<1>4. ASSUME privPeer_joiner PROVE Attempt'
  BY <1>4 DEF privPeer_joiner, Attempt
<1>5. ASSUME privReject PROVE Attempt'
  BY <1>5 DEF privReject, Attempt
<1>6. ASSUME DeadlinePasses PROVE Attempt'
  BY <1>6 DEF DeadlinePasses, Attempt
<1>7. ASSUME NEW token \in Token, punchAck(token) PROVE Attempt'
  <2>1. CASE punch.joining
    BY <1>7, <2>1, Connects DEF punchAck, issue_connect
  <2>2. CASE ~punch.joining
    BY <1>7, <2>2, Closes DEF punchAck, NoConnect
  <2> QED BY <2>1, <2>2
<1>8. ASSUME NEW token \in Token, punch_received(token) PROVE Attempt'
  BY <1>8 DEF punch_received, Attempt
<1>9. ASSUME punch_frame PROVE Attempt'
  BY <1>9, AttemptUnchanged DEF punch_frame
<1>10. ASSUME punch_frame_deadline PROVE Attempt'
  <2>1. CASE punch.joining /\ punch.fallback
    BY <1>10, <2>1, Connects DEF punch_frame_deadline, issue_connect
  <2>2. CASE ~(punch.joining /\ punch.fallback)
    BY <1>10, <2>2, Closes DEF punch_frame_deadline
  <2> QED BY <2>1, <2>2
<1> QED BY <1>2, <1>3, <1>4, <1>5, <1>6, <1>7, <1>8, <1>9, <1>10 DEF Joiner

LEMMA MemberStep ==
    ASSUME IInv, Member, NatAssumption
    PROVE  IInv'
<1> USE DEF IInv
<1>0. Hosted'
  BY HostingUnchanged DEF Member, request_session, natSession, natSessionAck
<1>1. ASSUME request_session PROVE IInv'
  <2>1. Attempt' /\ Hosted'
    BY <1>0, <1>1, AttemptUnchanged DEF request_session, punching
  <2>2. UNCHANGED <<remote_latest, remote_open, session_acks>>
    BY <1>1 DEF request_session, remote
  <2>3. CASE session_challenge' = 0 /\ UNCHANGED <<probes, probes_sent, known_at>>
    BY <2>1, <2>2, <2>3 DEF Answers, Present
  <2>4. CASE /\ probes_sent < MaxProbes
             /\ probes_sent' = probes_sent + 1
             /\ session_challenge' = probes_sent'
             /\ probes' = IF connected = "host" THEN probes \cup {probes_sent'} ELSE probes
             /\ known_at' = [known_at EXCEPT ![probes_sent'] = Present]
    <3>0. probes_sent \in 0 .. MaxProbes /\ remote_latest \in Nat
      BY NatAssumption DEF Answers
    <3>1. /\ probes_sent' \in 1 .. MaxProbes /\ Present \in Nat
          /\ session_challenge' \in 0 .. probes_sent'
          /\ probes' \subseteq 1 .. probes_sent'
          /\ Present' = Present
      <4>1. probes_sent' \in 1 .. MaxProbes /\ session_challenge' \in 0 .. probes_sent'
        BY <2>4, <3>0, NatAssumption
      <4>2. Present \in Nat
        BY <3>0 DEF Present
      <4>3. Present' = Present
        BY <2>2 DEF Present
      <4>4. 1 .. probes_sent \subseteq 1 .. probes_sent' /\ probes_sent' \in 1 .. probes_sent'
        BY <2>4, <3>0, NatAssumption
      <4>5. probes' \subseteq probes \cup {probes_sent'}
        BY <2>4
      <4> QED BY <4>1, <4>2, <4>3, <4>4, <4>5 DEF Answers
    <3>2. /\ known_at' \in [1 .. MaxProbes -> Nat]
          /\ known_at'[probes_sent'] = Present
          /\ \A c \in 1 .. probes_sent : known_at'[c] = known_at[c]
      BY <2>4, <3>1 DEF Answers
    <3>3. \A c \in 1 .. probes_sent' : known_at'[c] <= Present'
      <4> TAKE c \in 1 .. probes_sent'
      <4>1. c = probes_sent' \/ c \in 1 .. probes_sent
        BY <2>4 DEF Answers
      <4> QED BY <3>1, <3>2, <4>1 DEF Answers
    <3>4. \A ack \in session_acks' :
            /\ ack.challenge \in 1 .. probes_sent'
            /\ ack.token # None =>
                 ack.token[2] \in Nat /\ ack.token[2] >= known_at'[ack.challenge]
      BY <2>2, <2>4, <3>2 DEF Answers
    <3> QED BY <2>1, <2>2, <2>4, <3>1, <3>2, <3>3, <3>4 DEF Answers
  <2> QED BY <1>1, <2>3, <2>4 DEF request_session, request_joined_session, Present
<1>2. ASSUME natSession PROVE IInv'
  <2>1. PICK c \in probes :
          /\ session_acks' = session_acks \cup
               {[challenge |-> c, token |-> IF remote_open THEN Remote(remote_latest) ELSE None]}
          /\ UNCHANGED <<remote_latest, remote_open, probing, punching>>
    BY <1>2 DEF natSession
  <2>2. Attempt' /\ Hosted'
    BY <1>0, <2>1, AttemptUnchanged DEF punching
  <2>3. UNCHANGED <<session_challenge, probes, probes_sent, known_at>>
    BY <2>1 DEF probing
  <2>4. c \in 1 .. probes_sent /\ known_at[c] <= Present /\ known_at[c] \in Nat
    BY DEF Answers
  <2>5. remote_open => Remote(remote_latest)[2] \in Nat /\ Remote(remote_latest)[2] >= known_at[c]
    BY <2>4 DEF Remote, Present, Answers
  <2>6. \A ack \in session_acks' :
          /\ ack.challenge \in 1 .. probes_sent
          /\ ack.token # None => ack.token[2] \in Nat /\ ack.token[2] >= known_at[ack.challenge]
    BY <2>1, <2>4, <2>5 DEF Answers
  <2> QED BY <2>2, <2>1, <2>3, <2>6 DEF Answers, Present
<1>3. ASSUME NEW ack \in session_acks, natSessionAck(ack) PROVE IInv'
  <2>1. Attempt' /\ Hosted'
    BY <1>0, <1>3, AttemptUnchanged DEF natSessionAck, punching
  <2>2. /\ session_challenge' = 0
        /\ UNCHANGED <<remote_latest, remote_open, session_acks, probes, probes_sent, known_at>>
    BY <1>3 DEF natSessionAck, remote
  <2> QED BY <2>1, <2>2 DEF Answers, Present
<1> QED BY <1>1, <1>2, <1>3 DEF Member

(* A token is minted within the bound.                                     *)
LEMMA HostSession ==
    ASSUME Hosted, NEW enabled \in BOOLEAN, update_host_session(enabled), NatAssumption
    PROVE  Hosted'
<1>1. CASE own_match /\ enabled /\ host_token = None
  <2>1. minted' \in 1 .. MaxOwn /\ host_token' = Own(minted')
    BY <1>1 DEF update_host_session, Hosted
  <2> QED BY <2>1 DEF Hosted, OwnToken
<1>2. CASE own_match /\ enabled /\ host_token # None
  BY <1>2, HostedUnchanged DEF update_host_session
<1>3. CASE ~(own_match /\ enabled)
  BY <1>3 DEF update_host_session, Hosted
<1> QED BY <1>1, <1>2, <1>3

LEMMA HostStep ==
    ASSUME IInv, Host, hosting_enabled \in BOOLEAN, NatAssumption
    PROVE  IInv'
<1> USE DEF IInv
<1>1. ASSUME HostUnchanged PROVE Attempt' /\ Answers'
  BY <1>1, AttemptUnchanged, AnswersUnchanged DEF HostUnchanged, punching
<1>2. ASSUME host_session PROVE IInv'
  BY <1>1, <1>2, HostSession DEF host_session
<1>3. ASSUME nat_host PROVE IInv'
  <2>1. CASE hosting_enabled
    BY <1>1, <1>3, <2>1 DEF nat_host, Hosted
  <2>2. CASE ~hosting_enabled
    BY <1>1, <1>3, <2>2, HostSession DEF nat_host
  <2> QED BY <2>1, <2>2
<1>4. ASSUME privPeer_host PROVE IInv'
  <2>1. PICK t \in Token \cup {None} :
          punch' = [active |-> TRUE, joining |-> FALSE, token |-> t, fallback |-> FALSE,
                    candidates |-> TRUE, late |-> FALSE]
    BY <1>4 DEF privPeer_host, NoPunch, Attempt, Hosted, Token
  <2>2. UNCHANGED <<issued, hosting, remote, probing>>
    BY <1>4 DEF privPeer_host
  <2>3. Attempt'
    BY <2>1, <2>2 DEF Attempt
  <2> QED BY <2>2, <2>3, AnswersUnchanged, HostingUnchanged
<1> QED BY <1>2, <1>3, <1>4 DEF Host

(* What the remote host had dropped stays dropped.                         *)
LEMMA GameStep ==
    ASSUME IInv, Game \/ GracePasses \/ OpenPasses
    PROVE  IInv'
<1> USE DEF IInv
<1>1. Attempt'
  BY AttemptUnchanged DEF Game, Arrive, ConnectFails, PlayElsewhere, Quit, RemoteToggles,
                          GracePasses, OpenPasses, punching
<1>2. Hosted'
  BY HostedUnchanged DEF Game, Arrive, ConnectFails, PlayElsewhere, Quit, RemoteToggles,
                         GracePasses, OpenPasses, hosting
<1>3. ASSUME RemoteToggles PROVE Answers'
  <2>1. UNCHANGED <<session_acks, session_challenge, probes, probes_sent, known_at>>
    BY <1>3 DEF RemoteToggles, probing
  <2>2. remote_latest \in Nat
    BY NatAssumption DEF Answers
  <2>3. /\ remote_latest' \in 1 .. MaxTokens /\ remote_open' \in BOOLEAN
        /\ Present' = remote_latest + 1 /\ Present <= remote_latest + 1 /\ Present \in Nat
    <3>1. CASE remote_open
      <4>1. remote_latest' = remote_latest /\ ~remote_open' /\ remote_open' \in BOOLEAN
        BY <1>3, <3>1 DEF RemoteToggles
      <4>2. remote_latest \in 1 .. MaxTokens
        BY DEF Answers
      <4>3. Present = remote_latest
        BY <3>1 DEF Present
      <4>4. Present' = remote_latest' + 1
        BY <4>1 DEF Present
      <4> QED BY <2>2, <4>1, <4>2, <4>3, <4>4
    <3>2. CASE ~remote_open
      <4>1. remote_latest' = remote_latest + 1 /\ remote_open' /\ remote_latest < MaxTokens
        BY <1>3, <3>2 DEF RemoteToggles
      <4>2. remote_open' \in BOOLEAN
        BY <1>3, <3>2 DEF RemoteToggles
      <4> QED BY <2>2, <3>2, <4>1, <4>2, NatAssumption DEF Present
    <3> QED BY <3>1, <3>2
  <2>4. \A c \in 1 .. probes_sent : known_at[c] \in Nat
    BY NatAssumption DEF Answers
  <2>5. \A c \in 1 .. probes_sent' : known_at'[c] <= Present'
    BY <2>1, <2>2, <2>3, <2>4 DEF Answers
  <2> QED BY <2>1, <2>3, <2>5 DEF Answers
<1>4. ASSUME Arrive \/ ConnectFails \/ PlayElsewhere \/ Quit \/ GracePasses \/ OpenPasses
      PROVE  Answers'
  BY <1>4, AnswersUnchanged DEF Arrive, ConnectFails, PlayElsewhere, Quit, GracePasses,
                                OpenPasses
<1> QED BY <1>1, <1>2, <1>3, <1>4 DEF Game

(* The switch of the host is on or off.                                    *)
LEMMA Switch ==
    ASSUME hosting_enabled \in BOOLEAN, [Next]_vars
    PROVE  hosting_enabled' \in BOOLEAN
BY DEF Next, vars, hosting, Joiner, Member, Host, Game, begin_join, privPeer_joiner,
       privReject, DeadlinePasses, punchAck, punch_received, punch_frame,
       punch_frame_deadline, request_session, natSession, natSessionAck, host_session,
       nat_host, update_host_session, privPeer_host, Arrive, ConnectFails, PlayElsewhere,
       Quit, RemoteToggles, GracePasses, OpenPasses

LEMMA StepIInv ==
    ASSUME IInv, hosting_enabled \in BOOLEAN, [Next]_vars
    PROVE  IInv'
<1>1. CASE UNCHANGED vars
  BY <1>1, AttemptUnchanged, AnswersUnchanged, HostingUnchanged
     DEF IInv, vars, punching
<1>2. CASE Next
  BY <1>2, NatAssumption, JoinerStep, MemberStep, HostStep, GameStep DEF Next
<1> QED BY <1>1, <1>2

(* The parts of the invariant hold together in every reachable state.      *)
THEOREM Inductive == Spec => [](IInv /\ hosting_enabled \in BOOLEAN)
<1>1. Init => IInv /\ hosting_enabled \in BOOLEAN
  BY InitIInv DEF Init
<1>2. IInv /\ hosting_enabled \in BOOLEAN /\ [Next]_vars
        => (IInv /\ hosting_enabled \in BOOLEAN)'
  BY StepIInv, Switch
<1> QED BY <1>1, <1>2, PTL DEF Spec

(* Whatever candidates answer, and however late, an attempt connects once. *)
THEOREM Connected == Spec => []OneConnect
<1>1. IInv => OneConnect
  BY DEF IInv, Attempt, OneConnect
<1> QED BY <1>1, Inductive, PTL

(* The member never adopts a token its host had dropped when it asked.     *)
THEOREM Fresh == Spec => FreshAnswer
<1>1. ASSUME IInv, NEW ack \in session_acks, natSessionAck(ack), open'
      PROVE  joined_token'[2] >= known_at[session_challenge]
  <2>1. ack.token # None /\ joined_token' = ack.token
    BY <1>1 DEF natSessionAck
  <2>2. ack.challenge = session_challenge
    BY <1>1 DEF natSessionAck, MayAdopt
  <2> QED BY <1>1, <2>1, <2>2 DEF IInv, Answers
<1>2. IInv => [(\E ack \in session_acks : natSessionAck(ack)) /\ open' =>
                 joined_token'[2] >= known_at[session_challenge]]_vars
  BY <1>1
<1> QED BY <1>2, Inductive, PTL DEF FreshAnswer

(* A close, and the loop after it, leave the identity of the match.        *)
THEOREM Outlives == Spec => OutlivesClose
<1>1. ASSUME own_match, hosted_token # None, hosted_token' # hosted_token, Next
      PROVE  hosted_token' # None /\ host_token' = hosted_token'
  <2>1. Host
    BY <1>1 DEF Next, hosting, Joiner, Member, Game, begin_join, privPeer_joiner,
       privReject, DeadlinePasses, punchAck, punch_received, punch_frame,
       punch_frame_deadline, request_session, natSession, natSessionAck, Arrive,
       ConnectFails, PlayElsewhere, Quit, RemoteToggles, GracePasses, OpenPasses
  <2>2. PICK enabled \in {hosting_enabled, TRUE} : update_host_session(enabled)
    BY <1>1, <2>1 DEF Host, host_session, nat_host, privPeer_host, hosting
  <2>3. host_token' = Own(minted') /\ hosted_token' = Own(minted')
    BY <1>1, <2>2 DEF update_host_session
  <2> QED BY <2>3 DEF Own, None
<1>2. [Next]_vars => [own_match /\ hosted_token # None /\ hosted_token' # hosted_token
                        => hosted_token' # None /\ host_token' = hosted_token']_vars
  BY <1>1
<1> QED BY <1>2, PTL DEF Spec, OutlivesClose

-----------------------------------------------------------------------------
(* Types, given the invariant: the switches, the tokens, the questions.    *)
Switches ==
    /\ own_match \in BOOLEAN /\ joined_late \in BOOLEAN /\ open \in BOOLEAN
    /\ asked_host \in BOOLEAN /\ connecting \in BOOLEAN /\ connected \in Peer

Tokens ==
    /\ hosted_token \in OwnToken \cup {None} /\ joined_token \in RemoteToken \cup {None}
    /\ punch.active => punch.token \in (IF punch.joining THEN RemoteToken ELSE OwnToken)
    /\ punched \subseteq Token
    /\ \A ack \in session_acks :
         ack \in [challenge : Nat, token : RemoteToken \cup {None}]

Counters ==
    /\ joins \in 0 .. MaxJoins
    /\ known_at \in [1 .. MaxProbes -> 0 .. MaxTokens + 1]

LEMMA SwitchesStep ==
    ASSUME Switches, [Next]_vars
    PROVE  Switches'
<1> USE DEF Switches
<1>1. CASE Joiner
  BY <1>1 DEF Joiner, hosting, joined, game, begin_join, privPeer_joiner, privReject,
     DeadlinePasses, punchAck, punch_received, punch_frame, punch_frame_deadline,
     issue_connect, Connect, NoConnect, update_joined_session
<1>2. CASE Member
  BY <1>2 DEF Member, hosting, joined, game, request_session, request_joined_session,
     natSession, natSessionAck
<1>3. CASE Host
  BY <1>3 DEF Host, hosting, joined, game, host_session, nat_host, privPeer_host, HostUnchanged
<1>4. CASE Game \/ GracePasses \/ OpenPasses
  BY <1>4 DEF Game, hosting, joined, game, Arrive, ConnectFails, PlayElsewhere, Quit,
     RemoteToggles, GracePasses, OpenPasses, Peer
<1>5. CASE UNCHANGED vars
  BY <1>5 DEF vars, hosting, joined, game
<1> QED BY <1>1, <1>2, <1>3, <1>4, <1>5 DEF Next

LEMMA TokensUnchanged ==
    ASSUME Tokens, UNCHANGED <<hosted_token, joined_token, punch, punched, session_acks>>
    PROVE  Tokens'
BY DEF Tokens

(* A punch goes out under the token of the attempt.                        *)
LEMMA Punches ==
    ASSUME Tokens, NEW p, p.candidates => p.token \in Token, send_punch_round(p)
    PROVE  punched' \subseteq Token
BY DEF Tokens, send_punch_round

LEMMA JoinerTokens ==
    ASSUME IInv, Tokens, Joiner, NatAssumption
    PROVE  Tokens'
<1> USE DEF IInv
<1>0. UNCHANGED <<hosted_token, session_acks>>
  BY DEF Joiner, hosting, remote, begin_join, privPeer_joiner, privReject, DeadlinePasses,
         punchAck, punch_received, punch_frame, punch_frame_deadline
<1>1. ASSUME NEW n \in 1 .. remote_latest, NEW fallback \in BOOLEAN, begin_join(n, fallback)
      PROVE  Tokens'
  <2>1. Remote(n) \in RemoteToken
    BY NatAssumption DEF Answers, RemoteToken
  <2>2. punch'.token = Remote(n) /\ punch'.joining /\ punched' = punched /\ joined_token' = None
    BY <1>1 DEF begin_join, NoPunch
  <2> QED BY <1>0, <2>1, <2>2 DEF Tokens
<1>2. ASSUME privPeer_joiner \/ privReject \/ DeadlinePasses
             \/ \E token \in Token : punch_received(token)
      PROVE  Tokens'
  <2>1. /\ punch.active /\ punch'.token = punch.token /\ punch'.joining = punch.joining
        /\ UNCHANGED joined_token
    BY <1>2 DEF privPeer_joiner, privReject, DeadlinePasses, punch_received, Attempt, joined
  <2>2. punch'.token \in Token
    BY <2>1 DEF Tokens, Token
  <2>3. punched' \subseteq Token
    <3>1. send_punch_round(punch') \/ UNCHANGED punched
      BY <1>2 DEF privPeer_joiner, privReject, DeadlinePasses, punch_received
    <3> QED BY <2>2, <3>1, Punches DEF Tokens
  <2> QED BY <1>0, <2>1, <2>3 DEF Tokens
<1>3. ASSUME \/ \E token \in Token : punchAck(token)
             \/ punch_frame_deadline
      PROVE  Tokens'
  <2>1. punch' = NoPunch /\ punched' = punched /\ punch.active
    BY <1>3 DEF punchAck, punch_frame_deadline
  <2>2. joined_token' \in {joined_token, None} \/ (punch.joining /\ joined_token' = punch.token)
    BY <1>3 DEF punchAck, punch_frame_deadline, issue_connect, NoConnect, joined,
                update_joined_session
  <2> QED BY <1>0, <2>1, <2>2 DEF Tokens, NoPunch
<1>4. ASSUME punch_frame PROVE Tokens'
  <2>1. punch' = punch /\ joined_token' \in {joined_token, None}
    BY <1>4 DEF punch_frame, update_joined_session, joined
  <2>2. punch.active => punch.token \in Token
    BY DEF Tokens, Token
  <2>3. punched' \subseteq Token
    BY <1>4, <2>2, Punches DEF punch_frame, Tokens
  <2> QED BY <1>0, <2>1, <2>3 DEF Tokens
<1> QED BY <1>1, <1>2, <1>3, <1>4 DEF Joiner

LEMMA MemberTokens ==
    ASSUME IInv, Tokens, Member, NatAssumption
    PROVE  Tokens'
<1> USE DEF IInv
<1>0. UNCHANGED <<hosted_token, punch, punched>>
  BY DEF Member, hosting, punching, request_session, natSession, natSessionAck
<1>1. ASSUME request_session PROVE Tokens'
  BY <1>0, <1>1, TokensUnchanged DEF request_session, remote
<1>2. ASSUME natSession PROVE Tokens'
  <2>1. joined_token' = joined_token
    BY <1>2 DEF natSession, joined
  <2>2. PICK c \in probes :
          session_acks' = session_acks \cup
            {[challenge |-> c, token |-> IF remote_open THEN Remote(remote_latest) ELSE None]}
    BY <1>2 DEF natSession
  <2>3. c \in Nat
    BY DEF Answers
  <2>4. Remote(remote_latest) \in RemoteToken
    BY DEF Answers, RemoteToken
  <2> QED BY <1>0, <2>1, <2>2, <2>3, <2>4 DEF Tokens
<1>3. ASSUME NEW ack \in session_acks, natSessionAck(ack) PROVE Tokens'
  <2>1. session_acks' = session_acks /\ joined_token' \in {joined_token, ack.token}
    BY <1>3 DEF natSessionAck, remote
  <2> QED BY <1>0, <1>3, <2>1 DEF Tokens
<1> QED BY <1>1, <1>2, <1>3 DEF Member

LEMMA HostTokens ==
    ASSUME IInv, Tokens, Host, NatAssumption
    PROVE  Tokens'
<1> USE DEF IInv
<1>0. UNCHANGED <<joined_token, session_acks>>
  BY DEF Host, host_session, nat_host, privPeer_host, HostUnchanged, joined, remote
<1>1. ASSUME NEW enabled, update_host_session(enabled) PROVE hosted_token' \in OwnToken \cup {None}
  <2>1. CASE minted < MaxOwn /\ minted' = minted + 1 /\ hosted_token' = Own(minted')
    <3>1. minted' \in 1 .. MaxOwn
      BY <2>1 DEF Hosted
    <3> QED BY <2>1, <3>1 DEF OwnToken
  <2>2. CASE hosted_token' \in {hosted_token, None}
    BY <2>2 DEF Tokens
  <2> QED BY <1>1, <2>1, <2>2 DEF update_host_session
<1>2. ASSUME host_session \/ nat_host PROVE Tokens'
  <2>1. UNCHANGED <<punch, punched>>
    BY <1>2 DEF host_session, nat_host, HostUnchanged, punching
  <2>2. hosted_token' \in OwnToken \cup {None}
    BY <1>1, <1>2 DEF host_session, nat_host, Tokens
  <2> QED BY <1>0, <2>1, <2>2 DEF Tokens
<1>3. ASSUME privPeer_host PROVE Tokens'
  <2>1. PICK t \in OwnToken :
          punch' = [active |-> TRUE, joining |-> FALSE, token |-> t, fallback |-> FALSE,
                    candidates |-> TRUE, late |-> FALSE]
    BY <1>3 DEF privPeer_host, NoPunch, Attempt, Hosted, Tokens
  <2>2. punch'.token \in Token
    BY <2>1 DEF Token
  <2>3. punched' \subseteq Token /\ hosted_token' = hosted_token
    BY <1>3, <2>2, Punches DEF privPeer_host, hosting
  <2> QED BY <1>0, <2>1, <2>3 DEF Tokens
<1> QED BY <1>2, <1>3 DEF Host

LEMMA CountersStep ==
    ASSUME IInv, Counters, [Next]_vars, NatAssumption
    PROVE  Counters'
<1> USE DEF IInv
<1>1. joins' \in 0 .. MaxJoins
  <2>1. joins' = joins \/ (joins < MaxJoins /\ joins' = joins + 1)
    BY DEF Next, vars, punching, Joiner, Member, Host, Game, begin_join, privPeer_joiner,
       privReject, DeadlinePasses, punchAck, punch_received, punch_frame,
       punch_frame_deadline, request_session, natSession, natSessionAck, host_session,
       nat_host, HostUnchanged, privPeer_host, Arrive, ConnectFails, PlayElsewhere, Quit,
       RemoteToggles, GracePasses, OpenPasses
  <2> QED BY <2>1 DEF Counters
<1>2. known_at' = known_at \/ known_at' = [known_at EXCEPT ![probes_sent'] = Present]
  BY DEF Next, vars, probing, Joiner, Member, Host, Game, begin_join, privPeer_joiner,
     privReject, DeadlinePasses, punchAck, punch_received, punch_frame,
     punch_frame_deadline, request_session, request_joined_session, natSession,
     natSessionAck, host_session, nat_host, HostUnchanged, privPeer_host, Arrive,
     ConnectFails, PlayElsewhere, Quit, RemoteToggles, GracePasses, OpenPasses, Present
<1>3. Present \in 0 .. MaxTokens + 1
  <2>1. remote_latest \in 1 .. MaxTokens
    BY DEF Answers
  <2> QED BY <2>1, NatAssumption DEF Present
<1> QED BY <1>1, <1>2, <1>3 DEF Counters

(* Tokens, questions, answers and counters keep their types.               *)
THEOREM TypeCorrect == Spec => []TypeOK
<1> DEFINE Types == Switches /\ Tokens /\ Counters
<1>1. Init => Types
  <2> SUFFICES ASSUME Init PROVE Types
    OBVIOUS
  <2> USE NatAssumption DEF Init
  <2>1. Switches
    BY DEF Switches, Peer
  <2>2. Tokens
    BY DEF Tokens, NoPunch
  <2>3. Counters
    BY DEF Counters
  <2> QED BY <2>1, <2>2, <2>3
<1>2. IInv /\ Types /\ [Next]_vars => Types'
  <2> SUFFICES ASSUME IInv, Switches, Tokens, Counters, [Next]_vars PROVE Types'
    OBVIOUS
  <2>1. Switches' /\ Counters'
    BY SwitchesStep, CountersStep, NatAssumption
  <2>2. CASE Game \/ GracePasses \/ OpenPasses \/ UNCHANGED vars
    <3>1. UNCHANGED <<hosted_token, joined_token, punch, punched, session_acks>>
      BY <2>2 DEF Game, Arrive, ConnectFails, PlayElsewhere, Quit, RemoteToggles,
         GracePasses, OpenPasses, vars, hosting, joined, remote, punching
    <3> QED BY <2>1, <3>1, TokensUnchanged
  <2>3. Tokens'
    BY <2>2, JoinerTokens, MemberTokens, HostTokens, NatAssumption DEF Next
  <2> QED BY <2>1, <2>3
<1>3. IInv /\ hosting_enabled \in BOOLEAN /\ Types => TypeOK
  <2> SUFFICES ASSUME IInv, hosting_enabled \in BOOLEAN, Types PROVE TypeOK
    OBVIOUS
  <2> USE DEF IInv
  <2>1. session_acks \subseteq [challenge : 1 .. probes_sent, token : RemoteToken \cup {None}]
    BY DEF Tokens, Answers
  <2>2. /\ own_match \in BOOLEAN /\ joined_late \in BOOLEAN /\ open \in BOOLEAN
        /\ asked_host \in BOOLEAN /\ connecting \in BOOLEAN /\ connected \in Peer
    BY DEF Switches
  <2>3. /\ session_challenge \in 0 .. probes_sent /\ probes \subseteq 1 .. probes_sent
        /\ remote_latest \in 1 .. MaxTokens /\ remote_open \in BOOLEAN
        /\ probes_sent \in 0 .. MaxProbes
    BY DEF Answers
  <2>4. /\ punch \in [active : BOOLEAN, joining : BOOLEAN, token : Token \cup {None},
                      fallback : BOOLEAN, candidates : BOOLEAN, late : BOOLEAN]
        /\ issued \in Nat
    BY DEF Attempt
  <2> QED BY <2>1, <2>2, <2>3, <2>4 DEF Tokens, Counters, Hosted, TypeOK
<1> HIDE DEF Types
<1> QED BY <1>1, <1>2, <1>3, Inductive, PTL DEF Spec
=============================================================================
