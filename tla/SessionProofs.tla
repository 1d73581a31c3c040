---------------------------- MODULE SessionProofs ----------------------------
(***************************************************************************)
(* Proofs about Session, for all sets of clients and test tools and for    *)
(* all bounds: who is answered, who connects, and that the server always   *)
(* has a peer to stream to.                                                *)
(***************************************************************************)
EXTENDS Session, TLAPS

(* A server that streams has heard of a peer.                              *)
Ready == session_ready => remote # None

(* Nobody has heard of a peer that was not started: its token is still to  *)
(* be typed.                                                               *)
Unheard ==
  \A p \in Peers : peer[p] = "off" =>
    /\ remote # p
    /\ \A m \in net : /\ m \in ToServer => m.from # p
                      /\ m.type \in {"HelloAck", "FfbReply"} => m.for # p

(* No answer is on its way that is for a peer with another token.          *)
AnswersTokenHolders ==
  \A m \in net : m.type \in {"HelloAck", "FfbReply"} => m.for \notin mistyped

IInv ==
  TypeOK /\ Ready /\ Unheard /\ AnswersRequester /\ AnswersTokenHolders
  /\ OnlyTokenHoldersConnect

-----------------------------------------------------------------------------
(* What the fields of a datagram can be.                                   *)
LEMMA Datagrams ==
  /\ \A m \in ToServer : m.from \in Peers /\ m.type \in {"Hello", "FfbCommand"}
  /\ \A m \in ToServer : m.type = "FfbCommand" => m.id \in 1 .. MaxCommands
  /\ \A m \in ToPeer : m.to \in Peers /\ m.type \in {"HelloAck", "FfbReply", "Input"}
  /\ \A m \in ToPeer : m.type \in {"HelloAck", "FfbReply"} => m.for \in Peers
  /\ \A m \in ToPeer : m.type = "FfbReply" => m.id \in 1 .. MaxCommands
  /\ ToServer \cap ToPeer = {}
BY DEF ToServer, ToPeer

LEMMA SentDatagrams ==
  ASSUME NEW p \in Peers
  PROVE  /\ Hello(p) \in ToServer /\ Hello(p).from = p /\ Hello(p).type = "Hello"
         /\ \A i \in 1 .. MaxCommands :
              /\ Command(p, i) \in ToServer /\ Command(p, i).from = p
              /\ Command(p, i).type = "FfbCommand"
         /\ [type |-> "Input", to |-> p] \in ToPeer
BY DEF Hello, Command, ToServer, ToPeer

(* An answer goes where it is sent and is for the peer that asked.         *)
LEMMA Answers ==
  ASSUME NEW m \in ToServer, NEW to \in Peers
  PROVE  /\ Answer(m, to) \in ToPeer
         /\ Answer(m, to).type \in {"HelloAck", "FfbReply"}
         /\ Answer(m, to).to = to /\ Answer(m, to).for = m.from
<1>1. CASE m.type = "Hello"
  BY <1>1, Datagrams DEF Answer, ToPeer
<1>2. CASE m.type = "FfbCommand"
  <2>1. m.from \in Peers /\ m.id \in 1 .. MaxCommands
    BY <1>2, Datagrams
  <2>2. Answer(m, to) = [type |-> "FfbReply", to |-> to, for |-> m.from, id |-> m.id]
    BY <1>2 DEF Answer
  <2> QED
    BY <2>1, <2>2 DEF ToPeer
<1> QED
  BY <1>1, <1>2, Datagrams

-----------------------------------------------------------------------------
LEMMA Initially == Init => IInv
<1> SUFFICES ASSUME Init PROVE IInv
  OBVIOUS
<1>1. /\ peer \in [Peers -> {"off", "waiting", "asleep", "running", "command", "failed"}]
      /\ command_id \in [Peers -> 0 .. MaxCommands] /\ refused \in [Peers -> BOOLEAN]
  BY PeersAssumption DEF Init
<1>2. /\ starts \in 0 .. MaxStarts
      /\ faults \in [lost : 0 .. MaxLosses, copied : 0 .. MaxCopies]
  BY PeersAssumption DEF Init
<1>3. TypeOK
  BY <1>1, <1>2 DEF Init, TypeOK
<1> QED
  BY <1>3, PeersAssumption
  DEF Init, IInv, Ready, Unheard, AnswersRequester, AnswersTokenHolders,
      OnlyTokenHoldersConnect

(* A step that adds nothing to net but a hello, a command or a snapshot    *)
(* keeps what is said about answers.                                       *)
LEMMA NothingAnswered ==
  ASSUME IInv, mistyped' = mistyped,
         \A m \in net' : m \in net \/ m.type \notin {"HelloAck", "FfbReply"}
  PROVE  AnswersRequester' /\ AnswersTokenHolders'
BY DEF IInv, AnswersRequester, AnswersTokenHolders

LEMMA LoseKeeps ==
  ASSUME IInv, NEW m \in net, Lose(m)
  PROVE  IInv'
<1>1. TypeOK'
  BY PeersAssumption DEF IInv, TypeOK, Lose, serverVars, peerVars
<1>2. AnswersRequester' /\ AnswersTokenHolders'
  BY NothingAnswered DEF Lose, peerVars
<1> QED
  BY <1>1, <1>2
  DEF IInv, Lose, Ready, Unheard, OnlyTokenHoldersConnect, serverVars, peerVars

LEMMA UnreachableKeeps ==
  ASSUME IInv, NEW m \in net, NEW told \in BOOLEAN, Unreachable(m, told)
  PROVE  IInv'
<1>1. TypeOK'
  <2>1. refused' \in [Peers -> BOOLEAN]
    BY DEF IInv, TypeOK, Unreachable
  <2> QED
    BY <2>1 DEF IInv, TypeOK, Unreachable, serverVars
<1>2. AnswersRequester' /\ AnswersTokenHolders'
  BY NothingAnswered DEF Unreachable
<1> QED
  BY <1>1, <1>2 DEF IInv, Unreachable, Ready, Unheard, OnlyTokenHoldersConnect, serverVars

LEMMA ServerRecvKeeps ==
  ASSUME IInv, NEW m \in net, NEW copies \in 0 .. 1, ServerRecv(m, copies)
  PROVE  IInv'
<1> USE DEF ServerRecv
<1>1. m \in ToServer /\ m.from \in Peers
  BY Datagrams
<1>2. faults' \in [lost : 0 .. MaxLosses, copied : 0 .. MaxCopies]
  BY PeersAssumption DEF IInv, TypeOK, Copied
<1>3. Remaining(m, copies) \subseteq net
  BY DEF Remaining
<1>4. CASE Decodes(m)
  <2>1. remote' = m.from /\ net' = Remaining(m, copies) \cup {Answer(m, m.from)}
    BY <1>4 DEF RemoteAfterRecv
  <2>2. m.from \notin mistyped /\ UNCHANGED <<up, ended, starts, peerVars>>
    BY <1>4 DEF Decodes
  <2>3. TypeOK'
    <3>1. session_ready' \in BOOLEAN
      BY <1>4 DEF IInv, TypeOK
    <3>2. net' \subseteq ToServer \cup ToPeer
      BY <1>1, <1>3, <2>1, Answers DEF IInv, TypeOK
    <3> QED
      BY <1>1, <1>2, <2>1, <2>2, <3>1, <3>2 DEF IInv, TypeOK, peerVars
  <2>4. Ready'
    BY <1>1, <2>1, PeersAssumption DEF Ready
  <2>5. Unheard'
    <3>1. peer[m.from] # "off"
      BY <1>1 DEF IInv, Unheard
    <3> QED
      BY <1>1, <1>3, <2>1, <2>2, <3>1, Answers, Datagrams DEF IInv, Unheard, peerVars
  <2>6. AnswersRequester' /\ AnswersTokenHolders'
    BY <1>1, <1>3, <2>1, <2>2, Answers
    DEF IInv, AnswersRequester, AnswersTokenHolders, peerVars
  <2>7. OnlyTokenHoldersConnect'
    BY <2>2 DEF IInv, OnlyTokenHoldersConnect, peerVars
  <2> QED
    BY <2>3, <2>4, <2>5, <2>6, <2>7 DEF IInv
<1>5. CASE ~ Decodes(m)
  <2>1. /\ up' = FALSE /\ ended' = "decode" /\ net' \subseteq net
        /\ UNCHANGED <<remote, session_ready, starts, peerVars>>
    BY <1>3, <1>5 DEF EndServer
  <2>2. TypeOK'
    BY <1>2, <2>1 DEF IInv, TypeOK, peerVars
  <2>3. AnswersRequester' /\ AnswersTokenHolders'
    BY <2>1, NothingAnswered DEF peerVars
  <2> QED
    BY <2>1, <2>2, <2>3 DEF IInv, Ready, Unheard, OnlyTokenHoldersConnect, peerVars
<1> QED
  BY <1>4, <1>5

LEMMA PeerRecvKeeps ==
  ASSUME IInv, NEW m \in net, NEW copies \in 0 .. 1, NEW p \in Peers, PeerRecv(p, m, copies)
  PROVE  IInv'
<1> USE DEF PeerRecv
<1>1. m \in ToPeer /\ m.to = p /\ net' \subseteq net
  BY DEF Remaining
<1>2. faults' \in [lost : 0 .. MaxLosses, copied : 0 .. MaxCopies]
  BY PeersAssumption DEF IInv, TypeOK, Copied
<1>3. PeerAfter(p, m) \in {peer[p], "running", "command"} /\ peer[p] # "off"
  BY DEF PeerAfter, Receiving
<1>4. p \in mistyped => PeerAfter(p, m) = peer[p]
  <2> SUFFICES ASSUME p \in mistyped PROVE PeerAfter(p, m) = peer[p]
    OBVIOUS
  <2>1. peer[p] # "command"
    BY DEF IInv, OnlyTokenHoldersConnect
  <2>2. m.type # "HelloAck"
    BY <1>1 DEF IInv, AnswersRequester, AnswersTokenHolders
  <2> QED
    BY <2>1, <2>2 DEF PeerAfter
<1>5. TypeOK'
  <2>1. PeerAfter(p, m) \in {"off", "waiting", "asleep", "running", "command", "failed"}
    BY <1>3 DEF IInv, TypeOK
  <2> QED
    BY <1>1, <1>2, <2>1 DEF IInv, TypeOK, serverVars
<1>6. AnswersRequester' /\ AnswersTokenHolders'
  BY <1>1, NothingAnswered
<1>7. /\ peer' = [peer EXCEPT ![p] = PeerAfter(p, m)]
      /\ UNCHANGED <<serverVars, mistyped, command_id, refused>>
  OBVIOUS
<1>8. Unheard'
  BY <1>1, <1>3, <1>7 DEF IInv, TypeOK, Unheard, serverVars
<1>9. OnlyTokenHoldersConnect'
  BY <1>4, <1>7, PeersAssumption DEF IInv, TypeOK, OnlyTokenHoldersConnect
<1> QED
  BY <1>5, <1>6, <1>8, <1>9 DEF IInv, Ready, serverVars

LEMMA ServerKeeps ==
  ASSUME IInv, Server
  PROVE  IInv'
<1>1. CASE StartServer
  <2>1. TypeOK'
    <3>1. starts' \in 0 .. MaxStarts
      BY <1>1, PeersAssumption DEF StartServer, IInv, TypeOK
    <3> QED
      BY <1>1, <3>1 DEF StartServer, IInv, TypeOK, peerVars
  <2>2. AnswersRequester' /\ AnswersTokenHolders'
    BY <1>1, NothingAnswered DEF StartServer, peerVars
  <2> QED
    BY <1>1, <2>1, <2>2, PeersAssumption
    DEF StartServer, IInv, Ready, Unheard, OnlyTokenHoldersConnect, peerVars
<1>2. CASE StopServer
  <2>1. TypeOK'
    BY <1>2 DEF StopServer, EndServer, IInv, TypeOK, peerVars
  <2>2. AnswersRequester' /\ AnswersTokenHolders'
    BY <1>2, NothingAnswered DEF StopServer, peerVars
  <2> QED
    BY <1>2, <2>1, <2>2
    DEF StopServer, EndServer, IInv, Ready, Unheard, OnlyTokenHoldersConnect, peerVars
<1>3. CASE InputTick
  <2>1. /\ remote \in Peers /\ UNCHANGED <<serverVars, peerVars, faults>>
        /\ net' = net \cup {[type |-> "Input", to |-> remote]}
    BY <1>3 DEF InputTick, MayStream, IInv, TypeOK, Ready
  <2>2. \A m \in net' \ net : m \in ToPeer /\ m.type = "Input"
    BY <2>1, SentDatagrams
  <2>3. TypeOK'
    BY <2>1, <2>2 DEF IInv, TypeOK, serverVars, peerVars
  <2>4. AnswersRequester' /\ AnswersTokenHolders'
    BY <2>1, <2>2, NothingAnswered DEF peerVars
  <2>5. Unheard'
    BY <2>1, <2>2, Datagrams DEF IInv, Unheard, serverVars, peerVars
  <2> QED
    BY <2>1, <2>3, <2>4, <2>5
    DEF IInv, Ready, OnlyTokenHoldersConnect, serverVars, peerVars
<1> QED
  BY <1>1, <1>2, <1>3 DEF Server

-----------------------------------------------------------------------------
(* What a peer may become at a step of its own.                            *)
LEMMA PeerBecomes ==
  ASSUME IInv, NEW p \in Peers, NEW state,
         state \in {"waiting", "asleep", "running", "command", "failed"},
         state \in {"running", "command"} => peer[p] \in {"running", "command"},
         peer' = [peer EXCEPT ![p] = state],
         mistyped \subseteq mistyped', mistyped' \subseteq MayMistype,
         \A q \in mistyped' \ mistyped : q = p /\ peer[p] = "off"
  PROVE  /\ peer' \in [Peers -> {"off", "waiting", "asleep", "running", "command", "failed"}]
         /\ \A q \in Peers : peer'[q] = "off" => peer[q] = "off" /\ q # p
         /\ OnlyTokenHoldersConnect'
<1>1. peer \in [Peers -> {"off", "waiting", "asleep", "running", "command", "failed"}]
  BY DEF IInv, TypeOK
<1>2. mistyped' \subseteq Peers
  BY PeersAssumption
<1> QED
  BY <1>1, <1>2 DEF IInv, OnlyTokenHoldersConnect

LEMMA PeerKeeps ==
  ASSUME IInv, NEW p \in Peers, Peer(p)
  PROVE  IInv'
<1>1. CASE StartPeer(p)
  <2> USE DEF StartPeer, Send
  <2>1. /\ mistyped \subseteq mistyped' /\ mistyped' \subseteq MayMistype
        /\ \A q \in mistyped' \ mistyped : q = p
    BY <1>1 DEF IInv, TypeOK
  <2>2. /\ peer' \in [Peers -> {"off", "waiting", "asleep", "running", "command", "failed"}]
        /\ \A q \in Peers : peer'[q] = "off" => peer[q] = "off" /\ q # p
        /\ OnlyTokenHoldersConnect'
    BY <1>1, <2>1, PeerBecomes
  <2>3. net' = net \cup {Hello(p)} /\ UNCHANGED <<serverVars, command_id, refused, faults>>
    BY <1>1
  <2> DEFINE hello == Hello(p)
  <2>4. hello \in ToServer /\ hello.from = p /\ hello.type = "Hello"
    BY SentDatagrams
  <2> HIDE DEF hello
  <2>5. net' = net \cup {hello}
    BY <2>3 DEF hello
  <2>6. TypeOK'
    BY <2>1, <2>2, <2>3, <2>4, <2>5 DEF IInv, TypeOK, serverVars
  <2>7. Unheard'
    BY <2>2, <2>3, <2>4, <2>5 DEF IInv, Unheard, serverVars
  <2>8. AnswersRequester'
    BY <2>3, SentDatagrams DEF IInv, AnswersRequester
  <2>9. AnswersTokenHolders'
    <3>1. \A m \in net : m.type \in {"HelloAck", "FfbReply"} => m.for # p
      BY <1>1 DEF IInv, Unheard
    <3> QED
      BY <2>1, <2>3, <3>1, SentDatagrams DEF IInv, AnswersTokenHolders
  <2> QED
    BY <2>2, <2>3, <2>6, <2>7, <2>8, <2>9 DEF IInv, Ready, serverVars
<1>2. ASSUME NEW state \in {"waiting", "asleep", "running", "command", "failed"},
             state \in {"running", "command"} => peer[p] \in {"running", "command"},
             peer' = [peer EXCEPT ![p] = state],
             \A m \in net' \ net : m \in ToServer /\ m.from = p,
             net \subseteq net',
             command_id' \in [Peers -> 0 .. MaxCommands], refused' \in [Peers -> BOOLEAN],
             UNCHANGED <<serverVars, mistyped, faults>>
      PROVE  IInv'
  <2>1. /\ peer' \in [Peers -> {"off", "waiting", "asleep", "running", "command", "failed"}]
        /\ \A q \in Peers : peer'[q] = "off" => peer[q] = "off" /\ q # p
        /\ OnlyTokenHoldersConnect'
    BY <1>2, PeerBecomes DEF IInv, TypeOK
  <2>2. TypeOK'
    BY <1>2, <2>1 DEF IInv, TypeOK, serverVars
  <2>3. AnswersRequester' /\ AnswersTokenHolders'
    BY <1>2, Datagrams, NothingAnswered
  <2>4. Unheard'
    BY <1>2, <2>1, Datagrams DEF IInv, Unheard, serverVars
  <2> QED
    BY <1>2, <2>1, <2>2, <2>3, <2>4 DEF IInv, Ready, serverVars
<1>3. CASE HelloTimeout(p)
  BY <1>2, <1>3 DEF HelloTimeout, IInv, TypeOK
<1>4. CASE RetryHello(p)
  <2>1. \A m \in net' \ net : m = Hello(p)
    BY <1>4 DEF RetryHello, Send
  <2>2. /\ command_id' \in [Peers -> 0 .. MaxCommands] /\ refused' \in [Peers -> BOOLEAN]
        /\ UNCHANGED <<serverVars, mistyped, faults>>
    BY <1>4 DEF RetryHello, IInv, TypeOK
  <2>3. peer' = [peer EXCEPT ![p] = "waiting"] /\ net \subseteq net'
    BY <1>4 DEF RetryHello, Send
  <2> QED
    BY <1>2, <2>1, <2>2, <2>3, SentDatagrams
<1>5. CASE HelloTick(p)
  <2>1. peer' = [peer EXCEPT ![p] = "running"] /\ peer[p] = "running"
    BY <1>5 DEF HelloTick, peerVars, IInv, TypeOK
  <2> QED
    BY <1>2, <1>5, <2>1, SentDatagrams DEF HelloTick, Send, peerVars, IInv, TypeOK
<1>6. CASE SendCommand(p)
  <2>1. command_id[p] + 1 \in 1 .. MaxCommands /\ command_id' \in [Peers -> 0 .. MaxCommands]
    BY <1>6, PeersAssumption DEF SendCommand, IInv, TypeOK
  <2> DEFINE command == Command(p, command_id[p] + 1)
  <2>2. \A m \in net' \ net : m \in ToServer /\ m.from = p
    <3>1. command \in ToServer /\ command.from = p
      BY <2>1, SentDatagrams
    <3>2. \A m \in net' \ net : m = command
      BY <1>6 DEF SendCommand, Send
    <3> QED
      BY <3>1, <3>2, Zenon
  <2> QED
    BY <1>2, <1>6, <2>1, <2>2 DEF SendCommand, Send, IInv, TypeOK
<1>7. CASE ReplyTimeout(p)
  BY <1>2, <1>7 DEF ReplyTimeout, IInv, TypeOK
<1>8. CASE Refused(p)
  <2>1. refused' \in [Peers -> BOOLEAN]
    BY <1>8 DEF Refused, IInv, TypeOK
  <2>2. PICK after \in {"failed"} \cup
               {s \in {"running"} : p \in Testers /\ peer[p] \in {"running", "command"}} :
          peer' = [peer EXCEPT ![p] = after]
    BY <1>8 DEF Refused
  <2> QED
    BY <1>2, <1>8, <2>1, <2>2 DEF Refused, IInv, TypeOK
<1> QED
  BY <1>1, <1>3, <1>4, <1>5, <1>6, <1>7, <1>8 DEF Peer

-----------------------------------------------------------------------------
(* Every state the program reaches keeps the invariant, the parts about    *)
(* streaming, unheard peers and answers under way among them.              *)
THEOREM Invariance == Spec => []IInv
<1>1. Init => IInv
  BY Initially
<1>2. IInv /\ [Next]_vars => IInv'
  <2> SUFFICES ASSUME IInv, [Next]_vars PROVE IInv'
    OBVIOUS
  <2>1. CASE Network
    BY <2>1, LoseKeeps, UnreachableKeeps, ServerRecvKeeps, PeerRecvKeeps DEF Network
  <2>2. CASE UNCHANGED vars
    BY <2>2
    DEF vars, serverVars, peerVars, IInv, TypeOK, Ready, Unheard, AnswersRequester,
        AnswersTokenHolders, OnlyTokenHoldersConnect
  <2> QED
    BY <2>1, <2>2, ServerKeeps, PeerKeeps DEF Next
<1> QED
  BY <1>1, <1>2, PTL DEF Spec

(* The variables keep their types, and the input tick of run_physical      *)
(* never ends the server for want of a remote.                             *)
THEOREM TypeCorrect == Spec => []TypeOK
<1>1. IInv => TypeOK
  BY DEF IInv
<1> QED
  BY <1>1, Invariance, PTL

(* Whoever else sends to the server's socket, a HelloAck or FfbReply goes  *)
(* to the peer whose hello or command it answers.                          *)
THEOREM AnswersRequesterHolds == Spec => []AnswersRequester
<1>1. IInv => AnswersRequester
  BY DEF IInv
<1> QED
  BY <1>1, Invariance, PTL

(* A peer with a token that is not the server's does not get past its wait *)
(* for a HelloAck, whatever the network duplicates or delays.              *)
THEOREM OnlyTokenHoldersConnectHolds == Spec => []OnlyTokenHoldersConnect
<1>1. IInv => OnlyTokenHoldersConnect
  BY DEF IInv
<1> QED
  BY <1>1, Invariance, PTL
=============================================================================
