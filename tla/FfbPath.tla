------------------------------- MODULE FfbPath -------------------------------
(***************************************************************************)
(* The force-feedback half of the bridge: a game's requests reach the      *)
(* client as uinput events; each 1 ms tick the client turns them into      *)
(* numbered commands and sends them, once; the server applies what arrives *)
(* and its reply is only logged.  Either process may end and be started    *)
(* again: with the client goes the virtual device and what the game had    *)
(* uploaded, with the server the effects of the wheel.                     *)
(*                                                                         *)
(* A request is named by its place in `issued`.                            *)
(***************************************************************************)
EXTENDS PhysicalBackend, Sequences, FiniteSets, SequencesExt

CONSTANTS ReadBatch,        \* events of one read, 16 in poll_ffb
          CommandsPerTick,  \* MAX_FFB_COMMANDS_PER_TICK
          PayloadSize,      \* COMMAND_NAMESPACE_PAYLOAD_MASK + 1
          Settings,         \* the gains and autocenter strengths games choose
          MaxRequests,      \* bound: requests of the game
          MaxFaults,        \* bound: faults of all kinds together
          None

(* A datagram is lost, duplicated or overtaken, a command's DirectInput    *)
(* calls fail, a process ends and is started again.                        *)
FaultKinds == {"lost", "copied", "swapped", "failed", "server", "client"}

ASSUME PathAssumption ==
  /\ ReadBatch \in Nat \ {0} /\ CommandsPerTick \in Nat \ {0}
  /\ PayloadSize \in Nat \ {0} /\ MaxRequests \in Nat /\ MaxFaults \in Nat
  /\ None \notin Effects
  /\ Settings \subseteq [kind : {"SetGain", "SetAutocenter"}, level : Levels]

VARIABLES
  game,              \* [Effects -> absent, stopped, playing] as the game sees them
  waiting,           \* the effect whose upload or erasure the game waits for
  expired,           \* requests the kernel has given up waiting for
  events,            \* uinput events not yet read
  life,              \* how often the client was started
  connected,         \* the client has had its first HelloAck
  pending_commands,  \* the client's queue
  next_command_seq,  \* the client's counter
  budget,            \* polls left in the ffb_tick being handled
  net,               \* commands in flight
  device,            \* the server's backend
  rejected,          \* history: requests the server rejected
  faults,            \* [FaultKinds -> Nat], the faults so far
  issued,            \* history: the requests of all games
  first,             \* history: the first request of the present client's games
  gone,              \* history: how many requests will never arrive
  applied            \* history: the last request the server executed

gameVars == <<game, waiting, expired>>
clientVars == <<life, connected, pending_commands, next_command_seq, budget, first>>
serverVars == <<device, rejected, applied>>
vars == <<gameVars, issued, events, clientVars, net, serverVars, faults, gone>>

Namespace(kind) ==
  CASE kind = "Upload" -> "UPLOAD" [] kind = "Erase" -> "ERASE" [] OTHER -> "INLINE"

AwaitsAnswer(c) == c.kind \in {"Upload", "Erase"}

NoEffects == [e \in Effects |-> "absent"]

Init ==
  /\ game = NoEffects /\ waiting = None /\ expired = {}
  /\ issued = <<>> /\ events = <<>>
  /\ life = 1 /\ connected = FALSE /\ first = 1
  /\ pending_commands = <<>> /\ next_command_seq = 0 /\ budget = 0
  /\ net = <<>>
  /\ device = OpenedDevice /\ rejected = {} /\ applied = 0
  /\ faults = [f \in FaultKinds |-> 0] /\ gone = 0

(* One more fault of each of the kinds.                                    *)
AllFaults == faults["lost"] + faults["copied"] + faults["swapped"] + faults["failed"] +
             faults["server"] + faults["client"]
Faults(kinds) ==
  /\ faults' = [f \in FaultKinds |-> faults[f] + IF f \in kinds THEN 1 ELSE 0]
  /\ AllFaults' <= MaxFaults

-----------------------------------------------------------------------------
(* The game, through evdev: the kernel lets it play and stop only effects  *)
(* it has uploaded, and holds it in the ioctl of an upload or erasure      *)
(* until the client has ended the request.                                 *)
Request(c) ==
  /\ waiting = None /\ Len(issued) < MaxRequests
  /\ issued' = Append(issued, c)
  /\ events' = Append(events, Len(issued'))
  /\ waiting' = IF AwaitsAnswer(c) THEN c.effect_id ELSE None
  /\ UNCHANGED <<expired, clientVars, net, serverVars, faults, gone>>

GameUpload(e) == Request([kind |-> "Upload", effect_id |-> e]) /\ UNCHANGED game

GameErase(e) ==
  /\ game[e] # "absent"
  /\ Request([kind |-> "Erase", effect_id |-> e]) /\ UNCHANGED game

GamePlay(e) ==
  /\ game[e] # "absent"
  /\ Request([kind |-> "Play", effect_id |-> e])
  /\ game' = [game EXCEPT ![e] = "playing"]

GameStop(e) ==
  /\ game[e] = "playing"
  /\ Request([kind |-> "Stop", effect_id |-> e])
  /\ game' = [game EXCEPT ![e] = "stopped"]

GameSetting(c) == Request(c) /\ UNCHANGED game

(* The virtual device exists before the client has found its server, which *)
(* may take longer than the kernel lets a game wait: the ioctl fails, the  *)
(* event stays.                                                            *)
GiveUp ==
  /\ ~ connected /\ waiting # None
  /\ waiting' = None /\ expired' = expired \cup {Len(issued)}
  /\ UNCHANGED <<game, issued, events, clientVars, net, serverVars, faults, gone>>

-----------------------------------------------------------------------------
(* The client, run_virtual: connect_until_hello_ack returns.               *)
Connect ==
  /\ ~ connected /\ connected' = TRUE
  /\ UNCHANGED <<gameVars, issued, events, life, pending_commands, next_command_seq,
                 budget, first, net, serverVars, faults, gone>>

Polls(n) ==
  /\ budget' = n
  /\ UNCHANGED <<gameVars, issued, events, life, connected, pending_commands,
                 next_command_seq, first, net, serverVars, faults, gone>>

(* Slips: ticks that were missed add up; the tick only drains the queue.   *)
FfbTick_Burst ==
  connected /\ pending_commands \o events # <<>> /\ Polls(budget + CommandsPerTick)
FfbTick_NoRead ==
  connected /\ budget = 0 /\ pending_commands # <<>> /\ Polls(CommandsPerTick)

FfbTick ==
  connected /\ budget = 0 /\ pending_commands \o events # <<>> /\ Polls(CommandsPerTick)

(* A slip: the id is the namespace alone.                                  *)
Numbered_NoSequence(k, n) ==
  [command_id |-> <<Namespace(issued[k].kind), 0>>, life |-> life, index |-> k]

(* next_namespaced_command_id for request k; the datagram names its        *)
(* client, by the socket address.                                          *)
Numbered(k, n) ==
  [command_id |-> <<Namespace(issued[k].kind), n % PayloadSize>>, life |-> life, index |-> k]

(* A slip: the command that is returned is the only one kept.              *)
Commands_First(batch) == <<Numbered(batch[1], next_command_seq)>>

(* The commands poll_ffb queues for a batch of events.                     *)
Commands(batch) == [j \in 1 .. Len(batch) |-> Numbered(batch[j], next_command_seq + j - 1)]

(* An upload is ended with retval 0, an erasure likewise, before the wheel *)
(* has heard of it; an effect that plays goes on playing for the game.     *)
Acknowledged(c) ==
  IF ~ AwaitsAnswer(c) THEN game
  ELSE [game EXCEPT ![c.effect_id] =
          IF c.kind = "Erase" THEN "absent" ELSE IF @ = "absent" THEN "stopped" ELSE @]

(* Slips: front() for pop_front(); pop_back() for pop_front().             *)
Send_Kept(commands) ==
  /\ net' = Append(net, Head(commands))
  /\ pending_commands' = commands
  /\ budget' = budget - 1
Send_Newest(commands) ==
  /\ net' = Append(net, Last(commands))
  /\ pending_commands' = Front(commands)
  /\ budget' = budget - 1

Send(commands) ==
  /\ net' = Append(net, Head(commands))
  /\ pending_commands' = Tail(commands)
  /\ budget' = budget - 1

(* poll_ffb and the send of what it returns: first what is queued,         *)
SendQueued ==
  /\ budget > 0 /\ pending_commands # <<>>
  /\ Send(pending_commands)
  /\ UNCHANGED <<gameVars, issued, events, life, connected, next_command_seq, first,
                 serverVars, faults, gone>>

(* then a batch of new events; when there is none the tick ends.           *)
Batch == SubSeq(events, 1, IF Len(events) < ReadBatch THEN Len(events) ELSE ReadBatch)

NothingToSend ==
  budget > 0 /\ pending_commands = <<>> /\ events = <<>> /\ Polls(0)

ReadBatchOfEvents ==
  /\ budget > 0 /\ pending_commands = <<>> /\ events # <<>>
  /\ ToSet(Batch) \cap expired = {}
  /\ events' = SubSeq(events, Len(Batch) + 1, Len(events))
  /\ Send(Commands(Batch))
  /\ next_command_seq' = next_command_seq + Len(Batch)
  /\ game' = Acknowledged(issued[Last(Batch)])
  /\ waiting' = IF AwaitsAnswer(issued[Last(Batch)]) THEN None ELSE waiting
  /\ UNCHANGED <<expired, issued, life, connected, first, serverVars, faults, gone>>

(* The client's process ends without a word to the server; its Drop        *)
(* destroys the virtual device.  It is started again.                      *)
ClientAgain ==
  /\ game' = NoEffects /\ waiting' = None /\ expired' = {} /\ events' = <<>>
  /\ life' = life + 1 /\ connected' = FALSE /\ first' = Len(issued) + 1
  /\ pending_commands' = <<>> /\ next_command_seq' = 0 /\ budget' = 0
  /\ gone' = gone + Len(pending_commands) + Len(events)
  /\ UNCHANGED <<issued, net, serverVars>>

(* ff_upload_begin fails for a request nobody waits for any more, and `?`  *)
(* ends the client.                                                        *)
ReadExpired ==
  /\ budget > 0 /\ pending_commands = <<>>
  /\ ToSet(Batch) \cap expired # {}
  /\ ClientAgain /\ UNCHANGED faults

RestartClient == Faults({"client"}) /\ ClientAgain

-----------------------------------------------------------------------------
(* The server, run_physical: the first datagram in flight arrives, or one  *)
(* that overtakes it; the network may keep a copy.  The reply is logged by *)
(* complete_ffb and changes nothing.                                       *)
RecvCommand(k, copied, outcome) ==
  /\ k \in DOMAIN net
  /\ Faults({f \in FaultKinds : \/ f = "copied" /\ copied
                                \/ f = "swapped" /\ k > 1
                                \/ f = "failed" /\ outcome # "ok"})
  /\ net' = IF copied THEN net ELSE RemoveAt(net, k)
  /\ LET c == issued[net[k].index] IN
     /\ device' = Applied(device, c, outcome)
     /\ rejected' = IF Rejects(device, c, outcome)
                      THEN rejected \cup {net[k].index} ELSE rejected
  /\ applied' = net[k].index
  /\ UNCHANGED <<gameVars, issued, events, clientVars, gone>>

Lose(k) ==
  /\ k \in DOMAIN net /\ Faults({"lost"})
  /\ net' = RemoveAt(net, k) /\ gone' = gone + 1
  /\ UNCHANGED <<gameVars, issued, events, clientVars, serverVars>>

(* The server's process ends, with the datagrams in its socket, and is     *)
(* started again; the clients notice nothing.                              *)
RestartServer(unread) ==
  /\ Faults({"server"})
  /\ net' = SubSeq(net, unread + 1, Len(net)) /\ gone' = gone + unread
  /\ device' = OpenedDevice
  /\ UNCHANGED <<gameVars, issued, events, clientVars, rejected, applied>>

-----------------------------------------------------------------------------
Game ==
  \/ \E e \in Effects : GameUpload(e) \/ GameErase(e) \/ GamePlay(e) \/ GameStop(e)
  \/ \E c \in Settings : GameSetting(c)
  \/ GiveUp

PollFfb == SendQueued \/ NothingToSend \/ ReadBatchOfEvents \/ ReadExpired
Client == Connect \/ FfbTick \/ PollFfb \/ RestartClient

Arrival == \E k \in DOMAIN net, copied \in BOOLEAN, o \in Outcomes : RecvCommand(k, copied, o)

Server == \/ Arrival
          \/ \E k \in DOMAIN net : Lose(k)
          \/ \E unread \in 0 .. Len(net) : RestartServer(unread)

Next == Game \/ Client \/ Server
Spec == Init /\ [][Next]_vars

(* The client's hellos are repeated until one is answered, the interval    *)
(* ticks, a tick's polls follow one another, and the first datagram in     *)
(* flight is lost or read.                                                 *)
Fairness ==
  /\ WF_vars(Connect) /\ WF_vars(FfbTick) /\ WF_vars(PollFfb)
  /\ WF_vars(\E o \in Outcomes : RecvCommand(1, FALSE, o))
FairSpec == Spec /\ Fairness

-----------------------------------------------------------------------------
(* Every variable holds a value of its kind; the client's queue never      *)
(* holds more than what a read leaves over.                                *)
TypeOK ==
  /\ game \in [Effects -> {"absent", "stopped", "playing"}]
  /\ waiting \in Effects \cup {None}
  /\ issued \in Seq(Kinds) /\ Len(issued) <= MaxRequests
  /\ events \in Seq(1 .. MaxRequests) /\ expired \subseteq 1 .. MaxRequests
  /\ life \in Nat \ {0} /\ connected \in BOOLEAN /\ first \in 1 .. MaxRequests + 1
  /\ next_command_seq \in 0 .. MaxRequests /\ budget \in 0 .. CommandsPerTick
  /\ Len(pending_commands) < ReadBatch
  /\ \A c \in ToSet(pending_commands \o net) : c.index \in DOMAIN issued /\ c.life \in 1 .. life
  /\ device \in Devices
  /\ rejected \subseteq 1 .. MaxRequests /\ applied \in 0 .. MaxRequests
  /\ faults \in [FaultKinds -> 0 .. MaxFaults] /\ gone \in 0 .. MaxRequests

Never(kinds) == \A f \in kinds : faults[f] = 0

(* No two commands of a client on their way to the wheel share a           *)
(* command_id.                                                             *)
UniqueIds ==
  LET all == pending_commands \o net IN
  \A j, k \in DOMAIN all :
    all[j].life = all[k].life /\ all[j].command_id = all[k].command_id
      => all[j].index = all[k].index

(* The wheel executes the requests of the games in order, and all but      *)
(* those that were lost on the network or with a process (two queues, a    *)
(* batched read and the network keep their order, unless the network       *)
(* overtakes or duplicates).                                               *)
Promise == INSTANCE CommandLog WITH lost <- gone, orderly <- Never({"copied", "swapped"})
InRequestOrder == Promise!Spec

(* The game's upload returns before the wheel has the effect; all the same *)
(* a wheel that works rejects no request of a game, not even when the      *)
(* client starts again, as long as the network delivers everything in      *)
(* order (a Play is rejected whose Upload was lost, or whose effect was    *)
(* lost with the server).                                                  *)
NothingRejected == Never(FaultKinds \ {"client"}) => rejected = {}

(* Once everything has arrived, and nothing was lost or failed, the wheel  *)
(* plays exactly the effects of which a Play is the last request: an       *)
(* update after it has silenced the effect, although it plays on for the   *)
(* game.                                                                   *)
Names(c, e) == c.kind \in {"Upload", "Erase", "Play", "Stop"} /\ c.effect_id = e
PlayedLast(e, n) ==
  \E k \in 1 .. n : /\ issued[k].kind = "Play" /\ issued[k].effect_id = e
                    /\ \A j \in k + 1 .. n : ~ Names(issued[j], e)
PlaysAsAsked ==
  Never(FaultKinds \ {"client"}) /\ gone = 0 /\ pending_commands \o net \o events = <<>> =>
    \A e \in Effects : device.effects[e] = "playing" <=> PlayedLast(e, Len(issued))

(* An upload or erasure never holds the game for ever.                     *)
GameGoesOn == waiting # None ~> waiting = None

(* When the game has fallen silent, the wheel plays none of the effects    *)
(* the game has stopped or erased, unless a command was lost or failed:    *)
(* nothing sends it again.  An effect of an earlier client goes on playing *)
(* until the game uploads one with its id.                                 *)
UploadedSince == {issued[k].effect_id : k \in
                    {j \in first .. Len(issued) : issued[j].kind = "Upload"}}
WheelStops ==
  []Never({"lost", "copied", "swapped", "failed"}) =>
    <>[](\A e \in UploadedSince : game[e] # "playing" => device.effects[e] # "playing")
=============================================================================
