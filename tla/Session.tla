------------------------------- MODULE Session -------------------------------
(***************************************************************************)
(* Who talks to whom.  One server socket serves every peer: clients, which *)
(* repeat their hello each second, and test tools, which say hello once    *)
(* and then send one force-feedback command at a time.  The server answers *)
(* to, and streams input to, UdpPeer.remote: the sender of the last packet *)
(* it received.  Datagrams are lost, duplicated and reordered; a datagram  *)
(* for a port nobody listens on may come back as ConnectionRefused.        *)
(***************************************************************************)
EXTENDS Naturals, FiniteSets

CONSTANTS Clients, Testers,     \* peers running run_virtual, run_remote_test_ffb
          Refusable,            \* peers whose OS reports a refused port (Linux)
          MayMistype,           \* peers that may be started with another token
          MaxCommands,          \* bound: FFB commands of a peer
          MaxLosses, MaxCopies, \* bounds: datagrams lost, duplicated
          MaxStarts,            \* bound: lives of the server
          None

Peers == Clients \cup Testers

ASSUME PeersAssumption ==
  /\ Clients \cap Testers = {} /\ None \notin Peers
  /\ Refusable \subseteq Peers /\ MayMistype \subseteq Peers
  /\ MaxCommands \in Nat /\ MaxLosses \in Nat /\ MaxCopies \in Nat /\ MaxStarts \in Nat

VARIABLES
  up,             \* whether the server process runs
  ended,          \* why it last ended, or None
  remote,         \* its UdpPeer.remote, or None
  session_ready,  \* its session_ready
  starts,         \* lives of the server so far
  peer,           \* [Peers -> off, waiting, asleep, running, command, failed]
  mistyped,       \* peers whose token is not the server's
  command_id,     \* [Peers -> Nat], the peer's last FFB command
  refused,        \* [Peers -> BOOLEAN], a pending ConnectionRefused of its socket
  net,            \* datagrams in flight
  faults          \* datagrams lost and duplicated so far

serverVars == <<up, ended, remote, session_ready, starts>>
peerVars == <<peer, mistyped, command_id, refused>>
vars == <<serverVars, peerVars, net, faults>>

(* A datagram to the server is of a peer p, one from it is for p = to;     *)
(* `for` is the peer whose hello or command a HelloAck or FfbReply answers.*)
ToServer ==
  [type : {"Hello"}, from : Peers] \cup
  [type : {"FfbCommand"}, from : Peers, id : 1 .. MaxCommands]
ToPeer ==
  [type : {"HelloAck"}, to : Peers, for : Peers] \cup
  [type : {"FfbReply"}, to : Peers, for : Peers, id : 1 .. MaxCommands] \cup
  [type : {"Input"}, to : Peers]

Hello(p) == [type |-> "Hello", from |-> p]
HelloAck(p) == [type |-> "HelloAck", to |-> p, for |-> p]
Command(p, i) == [type |-> "FfbCommand", from |-> p, id |-> i]

Init ==
  /\ up = FALSE /\ ended = None /\ remote = None /\ session_ready = FALSE /\ starts = 0
  /\ peer = [p \in Peers |-> "off"] /\ mistyped = {}
  /\ command_id = [p \in Peers |-> 0]
  /\ refused = [p \in Peers |-> FALSE]
  /\ net = {} /\ faults = [lost |-> 0, copied |-> 0]

-----------------------------------------------------------------------------
(* The network.  A datagram leaves it when it is read, unless the network  *)
(* keeps a copy.                                                           *)
Remaining(m, copies) == IF copies = 0 THEN net \ {m} ELSE net

Copied(copies) ==
  /\ faults.copied + copies <= MaxCopies
  /\ faults' = [faults EXCEPT !.copied = @ + copies]

Lose(m) ==
  /\ m \in net /\ faults.lost < MaxLosses
  /\ net' = net \ {m} /\ faults' = [faults EXCEPT !.lost = @ + 1]
  /\ UNCHANGED <<serverVars, peerVars>>

(* A peer's datagram reaches a machine whose server is not running; unless *)
(* a firewall is silent, the sender's socket learns of it.                 *)
Unreachable(m, told) ==
  /\ ~ up /\ m \in net \cap ToServer
  /\ net' = net \ {m}
  /\ refused' = [refused EXCEPT ![m.from] = @ \/ (told /\ m.from \in Refusable)]
  /\ UNCHANGED <<serverVars, peer, mistyped, command_id, faults>>

-----------------------------------------------------------------------------
(* The server, run_physical.                                               *)
StartServer ==
  /\ ~ up /\ starts < MaxStarts
  /\ up' = TRUE /\ starts' = starts + 1
  /\ remote' = None /\ session_ready' = FALSE
  /\ UNCHANGED <<ended, peerVars, net, faults>>

(* What is in the socket of a server that ends is lost.                    *)
EndServer(reason) ==
  /\ up' = FALSE /\ ended' = reason
  /\ UNCHANGED <<remote, session_ready, starts>>

StopServer ==
  /\ up /\ EndServer("stopped") /\ net' = net \ ToServer
  /\ UNCHANGED <<peerVars, faults>>

(* A slip: the digest is not compared.                                     *)
Decodes_Any(m) == TRUE

(* decode_message: the digest is over the sender's token.  A packet it     *)
(* refuses ends the loop of run_physical.                                  *)
Decodes(m) == m.from \notin mistyped

(* A slip: the first sender stays the remote.                              *)
RemoteAfterRecv_First(m) == IF remote = None THEN m.from ELSE remote

(* UdpPeer::recv: the sender becomes the remote.                           *)
RemoteAfterRecv(m) == m.from

Answer(m, to) ==
  IF m.type = "Hello" THEN [type |-> "HelloAck", to |-> to, for |-> m.from]
                      ELSE [type |-> "FfbReply", to |-> to, for |-> m.from, id |-> m.id]

ServerRecv(m, copies) ==
  /\ up /\ m \in net \cap ToServer /\ Copied(copies)
  /\ IF Decodes(m)
       THEN /\ remote' = RemoteAfterRecv(m)
            /\ session_ready' = (session_ready \/ m.type = "Hello")
            /\ net' = Remaining(m, copies) \cup {Answer(m, remote')}
            /\ UNCHANGED <<up, ended, starts>>
       ELSE /\ EndServer("decode") /\ net' = Remaining(m, copies) \ ToServer
  /\ UNCHANGED peerVars

(* A slip: streaming does not wait for a hello.                            *)
MayStream_Always == TRUE

MayStream == session_ready

(* A snapshot is sent; an unconnected socket without a remote cannot send. *)
InputTick ==
  /\ up /\ MayStream
  /\ IF remote = None
       THEN EndServer("send") /\ UNCHANGED net
       ELSE net' = net \cup {[type |-> "Input", to |-> remote]} /\ UNCHANGED serverVars
  /\ UNCHANGED <<peerVars, faults>>

-----------------------------------------------------------------------------
(* The peers.  A pending refusal is the result of the next send or recv    *)
(* and ends the peer.                                                      *)
Send(p, m) ==
  /\ ~ refused[p]
  /\ net' = net \cup {m}

(* The user types the peer's token.                                        *)
StartPeer(p) ==
  /\ peer[p] = "off"
  /\ Send(p, Hello(p))
  /\ peer' = [peer EXCEPT ![p] = "waiting"]
  /\ mistyped' \in {mistyped, mistyped \cup ({p} \cap MayMistype)}
  /\ UNCHANGED <<serverVars, command_id, refused, faults>>

(* A slip: the wait for the HelloAck has no deadline.                      *)
HelloTimeout_Never(p) == FALSE

(* wait_for_hello_ack_once gives up after 3 s; the loop sleeps 1 s.        *)
HelloTimeout(p) ==
  /\ peer[p] = "waiting" /\ ~ refused[p]
  /\ peer' = [peer EXCEPT ![p] = "asleep"]
  /\ UNCHANGED <<serverVars, mistyped, command_id, refused, net, faults>>

RetryHello(p) ==
  /\ peer[p] = "asleep"
  /\ Send(p, Hello(p))
  /\ peer' = [peer EXCEPT ![p] = "waiting"]
  /\ UNCHANGED <<serverVars, mistyped, command_id, refused, faults>>

(* A slip: a connected client says hello no more.                          *)
HelloTick_Never(p) == FALSE

(* A connected client's hello_tick.                                        *)
HelloTick(p) ==
  /\ p \in Clients /\ peer[p] = "running"
  /\ Send(p, Hello(p))
  /\ UNCHANGED <<serverVars, peerVars, faults>>

(* A client forwards an FFB command and goes on; a tester waits for its    *)
(* reply.                                                                  *)
SendCommand(p) ==
  /\ peer[p] = "running" /\ command_id[p] < MaxCommands
  /\ Send(p, Command(p, command_id[p] + 1))
  /\ command_id' = [command_id EXCEPT ![p] = @ + 1]
  /\ peer' = [peer EXCEPT ![p] = IF p \in Testers THEN "command" ELSE @]
  /\ UNCHANGED <<serverVars, mistyped, refused, faults>>

(* What a peer does with a datagram: the first HelloAck ends the wait for  *)
(* it, the reply with the awaited id ends a command, all else is skipped.  *)
PeerAfter(p, m) ==
  CASE peer[p] = "waiting" /\ m.type = "HelloAck" -> "running"
    [] peer[p] = "command" /\ m.type = "FfbReply" ->
         IF m.id = command_id[p] THEN "running" ELSE "command"
    [] OTHER -> peer[p]

Receiving(p) ==
  peer[p] \in {"waiting", "command"} \/ (p \in Clients /\ peer[p] = "running")

PeerRecv(p, m, copies) ==
  /\ m \in net \cap ToPeer /\ m.to = p /\ Copied(copies)
  /\ ~ refused[p] /\ Receiving(p)
  /\ net' = Remaining(m, copies)
  /\ peer' = [peer EXCEPT ![p] = PeerAfter(p, m)]
  /\ UNCHANGED <<serverVars, mistyped, command_id, refused>>

(* wait_for_ffb_reply gives up after 3 s: the tester reports it and, in    *)
(* its menu, goes on.                                                      *)
ReplyTimeout(p) ==
  /\ peer[p] = "command" /\ ~ refused[p]
  /\ peer' = [peer EXCEPT ![p] = "running"]
  /\ UNCHANGED <<serverVars, mistyped, command_id, refused, net, faults>>

(* The refusal surfaces: `?` in the wait for the hello, in run_virtual's   *)
(* loop, or in a tester's command; a tester in its menu survives the last. *)
Refused(p) ==
  /\ refused[p]
  /\ refused' = [refused EXCEPT ![p] = FALSE]
  /\ \E after \in {"failed"} \cup
         {s \in {"running"} : p \in Testers /\ peer[p] \in {"running", "command"}} :
       peer' = [peer EXCEPT ![p] = after]
  /\ UNCHANGED <<serverVars, mistyped, command_id, net, faults>>

Network ==
  \E m \in net :
    \/ Lose(m)
    \/ \E told \in BOOLEAN : Unreachable(m, told)
    \/ \E copies \in 0 .. 1 :
         ServerRecv(m, copies) \/ \E p \in Peers : PeerRecv(p, m, copies)

Server == StartServer \/ StopServer \/ InputTick

Peer(p) ==
  \/ StartPeer(p) \/ HelloTimeout(p) \/ RetryHello(p) \/ HelloTick(p)
  \/ SendCommand(p) \/ ReplyTimeout(p) \/ Refused(p)

Next == Network \/ Server \/ \E p \in Peers : Peer(p)
Spec == Init /\ [][Next]_vars

(* Timers fire and a hello that is not lost is read by the server.  A      *)
(* HelloAck that the peer can read time and again (its 3 s wait starts     *)
(* anew every 4 s) is read: a wait lasts longer than a datagram travels.   *)
Fairness ==
  /\ \A p \in Peers :
       /\ WF_vars(StartPeer(p)) /\ WF_vars(HelloTimeout(p)) /\ WF_vars(RetryHello(p))
       /\ WF_vars(HelloTick(p)) /\ WF_vars(Refused(p))
       /\ WF_vars(ServerRecv(Hello(p), 0))
       /\ SF_vars(PeerRecv(p, HelloAck(p), 0))

FairSpec == Spec /\ Fairness

-----------------------------------------------------------------------------
(* Every variable holds a value of its kind, and the input tick never     *)
(* sends through a socket that has no remote, which would end the server. *)
TypeOK ==
  /\ up \in BOOLEAN /\ session_ready \in BOOLEAN
  /\ ended \in {None, "stopped", "decode"}     \* never "send": a tick has a remote
  /\ remote \in Peers \cup {None}
  /\ starts \in 0 .. MaxStarts
  /\ peer \in [Peers -> {"off", "waiting", "asleep", "running", "command", "failed"}]
  /\ mistyped \subseteq MayMistype
  /\ command_id \in [Peers -> 0 .. MaxCommands]
  /\ refused \in [Peers -> BOOLEAN]
  /\ net \subseteq ToServer \cup ToPeer
  /\ faults \in [lost : 0 .. MaxLosses, copied : 0 .. MaxCopies]

(* A hello or a command is answered to the peer it came from, although the *)
(* server only ever sends to UdpPeer.remote and peers take turns at it.    *)
AnswersRequester ==
  \A m \in net : m.type \in {"HelloAck", "FfbReply"} => m.to = m.for

(* A peer whose token is not the server's is never connected.              *)
OnlyTokenHoldersConnect == \A p \in mistyped : peer[p] \notin {"running", "command"}

(* connect_until_hello_ack gets through: with a server that stays up, a    *)
(* peer is connected in the end, whatever is lost, or its socket is        *)
(* refused.                                                                *)
Connects ==
  \A p \in Peers :
    <>[]up => <>(p \in mistyped \/ peer[p] \in {"running", "command", "failed"})

(* A test tool, or a restart of the server, takes the input stream away    *)
(* from a running client only until the client's next hello.               *)
StreamReturns ==
  \A c \in Clients :
    <>[](up /\ peer[c] = "running") => []<>(session_ready /\ remote = c)
=============================================================================
