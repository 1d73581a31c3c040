---------------------------- MODULE FfbPathProofs ----------------------------
(***************************************************************************)
(* Proofs about FfbPath, for every number of requests, batches and faults: *)
(* the wheel executes the games' requests in order and all but the lost    *)
(* ones, no two commands share an id, and what a working wheel is asked it *)
(* can do.                                                                 *)
(***************************************************************************)
EXTENDS FfbPath, SequenceTheorems, TLAPS

(* The requests on their way to the wheel, by place: first what the        *)
(* network has, then the client's queue, then the kernel's.                *)
OnTheWay == Len(net) + Len(pending_commands) + Len(events)
Places == 1 .. OnTheWay
Way == [p \in Places |->
  IF p <= Len(net) THEN net[p].index
  ELSE IF p <= Len(net) + Len(pending_commands) THEN pending_commands[p - Len(net)].index
  ELSE events[p - Len(net) - Len(pending_commands)]]

Datagrams == [command_id : {"UPLOAD", "ERASE", "INLINE"} \X (0 .. PayloadSize - 1),
              life : Nat \ {0}, index : 1 .. MaxRequests]

Typed ==
  /\ game \in [Effects -> {"absent", "stopped", "playing"}]
  /\ waiting \in Effects \cup {None} /\ (waiting # None => issued # <<>>)
  /\ issued \in Seq(Kinds) /\ Len(issued) <= MaxRequests
  /\ events \in Seq(1 .. MaxRequests) /\ expired \subseteq 1 .. MaxRequests
  /\ life \in Nat \ {0} /\ connected \in BOOLEAN
  /\ first \in Nat \ {0} /\ next_command_seq \in Nat /\ budget \in 0 .. CommandsPerTick
  /\ net \in Seq(Datagrams) /\ pending_commands \in Seq(Datagrams)
  /\ Len(pending_commands) < ReadBatch
  /\ device \in Devices /\ rejected \subseteq 1 .. MaxRequests
  /\ faults \in [FaultKinds -> Nat] /\ AllFaults <= MaxFaults
  /\ gone \in Nat /\ applied \in 0 .. Len(issued)
  /\ \A i \in DOMAIN net : net[i].life <= life
  /\ \A i \in DOMAIN pending_commands : pending_commands[i].life <= life

(* The client's counter and the kernel's queue: the present client numbers *)
(* its games' requests one after the other.                                *)
Counted ==
  /\ Len(issued) + 1 = first + next_command_seq + Len(events)
  /\ \A i \in DOMAIN events : events[i] = first + next_command_seq + i - 1

(* Whatever is on its way is there in the order of the requests, and none  *)
(* of it is counted as gone.                                               *)
Increasing ==
  /\ \A p \in Places : Way[p] \in 1 .. Len(issued)
  /\ \A p, q \in Places : p < q => Way[p] < Way[q]
  /\ gone + OnTheWay <= Len(issued)

(* Unless the network duplicates or overtakes, it is later than what the   *)
(* wheel has executed, and what is missing in between is gone.             *)
Complete ==
  Never({"copied", "swapped"}) =>
    /\ \A p \in Places : applied < Way[p] /\ Way[p] <= applied + p + gone
    /\ Len(issued) <= applied + OnTheWay + gone

IInv == Typed /\ Counted /\ Increasing /\ Complete

(* A step that takes n requests off the way, from place j on, and leaves   *)
(* the others as they are.                                                 *)
Skips(j, n) ==
  /\ OnTheWay' = OnTheWay - n
  /\ \A p \in 1 .. OnTheWay' : Way'[p] = IF p < j THEN Way[p] ELSE Way[p + n]

(* Ids: within a life of the client they count the requests.               *)
InTransit == ToSet(net) \cup ToSet(pending_commands)
IdsCount ==
  /\ \A c \in InTransit : c.life = life => c.index = first + c.command_id[2]
  /\ \A c, d \in InTransit : c.life = d.life =>
       c.index - c.command_id[2] = d.index - d.command_id[2]

(* The kernel holds a game for the last event only, unless it has given    *)
(* up; what it has given up is still to be read.                           *)
Held ==
  /\ \A i \in DOMAIN events : AwaitsAnswer(issued[events[i]]) /\ events[i] \notin expired =>
       i = Len(events) /\ waiting # None
  /\ waiting # None =>
       events # <<>> /\ Last(events) \notin expired /\ AwaitsAnswer(issued[Last(events)])
  /\ expired \subseteq ToSet(events)

(* The effect is at the wheel once what is before the place has been       *)
(* executed.                                                               *)
IsFor(p, kind, e) == issued[Way[p]].kind = kind /\ issued[Way[p]].effect_id = e
Present(e, p) ==
  \/ \E q \in 1 .. p - 1 : IsFor(q, "Upload", e) /\ \A r \in q + 1 .. p - 1 : ~ IsFor(r, "Erase", e)
  \/ device.effects[e] # "absent" /\ \A r \in 1 .. p - 1 : ~ IsFor(r, "Erase", e)

Erasing(e) ==
  events # <<>> /\ issued[Last(events)].kind = "Erase" /\ issued[Last(events)].effect_id = e

(* Of a wheel that works: what is to be played will be there by then, and  *)
(* so will what the game has uploaded, unless the kernel has given up on a *)
(* request before it.                                                      *)
Playable ==
  Never(FaultKinds \ {"client"}) =>
    /\ rejected = {}
    /\ \A p \in Places, e \in Effects :
         IsFor(p, "Play", e) /\ (\A q \in 1 .. p : Way[q] \notin expired) => Present(e, p)
    /\ \A e \in Effects :
         game[e] # "absent" /\ expired = {} /\ ~ Erasing(e) => Present(e, OnTheWay + 1)

-----------------------------------------------------------------------------
(* Sequences: what is left after a removal, a prefix, a suffix.            *)
LEMMA Removing ==
  ASSUME NEW S, NEW q \in Seq(S), NEW k \in DOMAIN q
  PROVE  /\ RemoveAt(q, k) \in Seq(S) /\ Len(RemoveAt(q, k)) = Len(q) - 1
         /\ \A p \in 1 .. Len(q) - 1 :
              RemoveAt(q, k)[p] = IF p < k THEN q[p] ELSE q[p + 1]
<1>1. /\ SubSeq(q, 1, k - 1) \in Seq(S) /\ Len(SubSeq(q, 1, k - 1)) = k - 1
      /\ \A p \in 1 .. k - 1 : SubSeq(q, 1, k - 1)[p] = q[p]
  BY SubSeqProperties
<1>2. /\ SubSeq(q, k + 1, Len(q)) \in Seq(S) /\ Len(SubSeq(q, k + 1, Len(q))) = Len(q) - k
      /\ \A p \in 1 .. Len(q) - k : SubSeq(q, k + 1, Len(q))[p] = q[k + p]
  BY SubSeqProperties
<1> DEFINE a == SubSeq(q, 1, k - 1)
           b == SubSeq(q, k + 1, Len(q))
<1> HIDE DEF a, b
<1>3. /\ a \o b \in Seq(S) /\ Len(a \o b) = Len(a) + Len(b)
      /\ \A p \in 1 .. Len(a) + Len(b) :
           (a \o b)[p] = IF p <= Len(a) THEN a[p] ELSE b[p - Len(a)]
  BY <1>1, <1>2, ConcatProperties DEF a, b
<1>4. RemoveAt(q, k) = a \o b
  BY DEF RemoveAt, a, b
<1>5. Len(a) = k - 1 /\ Len(b) = Len(q) - k
  BY <1>1, <1>2 DEF a, b
<1>6. /\ \A p \in 1 .. k - 1 : a[p] = q[p]
      /\ \A p \in 1 .. Len(q) - k : b[p] = q[k + p]
  BY <1>1, <1>2 DEF a, b
<1>7. k \in 1 .. Len(q) /\ Len(q) \in Nat
  BY LenProperties
<1>8. ASSUME NEW p \in 1 .. Len(q) - 1
      PROVE  (a \o b)[p] = IF p < k THEN q[p] ELSE q[p + 1]
  <2>1. p \in 1 .. Len(a) + Len(b) /\ p \in Int /\ k \in Int
    BY <1>5, <1>7
  <2>2. (a \o b)[p] = IF p <= k - 1 THEN a[p] ELSE b[p - (k - 1)]
    BY <1>3, <1>5, <2>1
  <2>3. CASE p < k
    BY <1>6, <2>1, <2>2, <2>3
  <2>4. CASE ~ p < k
    <3>1. p - (k - 1) \in 1 .. Len(q) - k /\ k + (p - (k - 1)) = p + 1
      BY <1>7, <2>1, <2>4
    <3>2. b[p - (k - 1)] = q[p + 1]
      BY <1>6, <3>1
    <3> QED
      BY <2>1, <2>2, <2>4, <3>2
  <2> QED
    BY <2>3, <2>4
<1>9. RemoveAt(q, k) \in Seq(S) /\ Len(RemoveAt(q, k)) = Len(q) - 1
  BY <1>3, <1>4, <1>5, <1>7
<1> QED
  BY <1>4, <1>8, <1>9

LEMMA Prefix ==
  ASSUME NEW S, NEW q \in Seq(S), NEW n \in 0 .. Len(q)
  PROVE  /\ SubSeq(q, 1, n) \in Seq(S) /\ Len(SubSeq(q, 1, n)) = n
         /\ \A p \in 1 .. n : SubSeq(q, 1, n)[p] = q[p]
BY SubSeqProperties

LEMMA Suffix ==
  ASSUME NEW S, NEW q \in Seq(S), NEW n \in 0 .. Len(q)
  PROVE  /\ SubSeq(q, n + 1, Len(q)) \in Seq(S)
         /\ Len(SubSeq(q, n + 1, Len(q))) = Len(q) - n
         /\ \A p \in 1 .. Len(q) - n : SubSeq(q, n + 1, Len(q))[p] = q[n + p]
BY SubSeqProperties

-----------------------------------------------------------------------------
(* The wheel and the ids are of their types.                               *)
LEMMA AppliedType ==
  ASSUME NEW d \in Devices, NEW c \in Kinds, NEW o \in Outcomes
  PROVE  Applied(d, c, o) \in Devices
<1>1. /\ c.kind \in {"Upload", "Erase", "Play", "Stop", "SetGain", "SetAutocenter", "ResetState"}
      /\ c.kind \in {"Upload", "Erase", "Play", "Stop"} => c.effect_id \in Effects
      /\ c.kind \in {"SetGain", "SetAutocenter"} => c.level \in Levels
  BY DEF Kinds
<1>2. \A e \in Effects, s \in {"absent", "stopped", "playing"} : Put(d, e, s) \in Devices
  BY DEF Put, Devices
<1>3. CASE c.kind \in {"Upload", "Erase", "Play", "Stop"}
  BY <1>1, <1>2, <1>3
  DEF Applied, upload_effect, erase_effect, play_effect, stop_effect
<1>4. CASE c.kind \in {"SetGain", "SetAutocenter"}
  <2>1. c.level \in Levels /\ (c.level > 0) \in BOOLEAN
    BY <1>1, <1>4, BackendAssumption
  <2>2. set_gain(d, c.level, o) \in Devices
    BY <2>1 DEF set_gain, Devices
  <2>3. set_autocenter(d, c.level, o) \in Devices
    BY <2>1 DEF set_autocenter, Devices
  <2> QED
    BY <1>4, <2>2, <2>3 DEF Applied
<1>5. CASE c.kind = "ResetState"
  BY <1>5 DEF Applied, reset_ffb, Devices
<1> QED
  BY <1>1, <1>3, <1>4, <1>5

LEMMA OpenedType == OpenedDevice \in Devices
BY BackendAssumption DEF OpenedDevice, Devices

LEMMA NumberedType ==
  ASSUME Typed, NEW k \in 1 .. MaxRequests, NEW n \in Nat
  PROVE  /\ Numbered(k, n) \in Datagrams
         /\ Numbered(k, n).index = k /\ Numbered(k, n).life = life
         /\ Numbered(k, n).command_id[2] = n % PayloadSize
<1>1. n % PayloadSize \in 0 .. PayloadSize - 1
  BY PathAssumption
<1>2. Namespace(issued[k].kind) \in {"UPLOAD", "ERASE", "INLINE"}
  BY DEF Namespace
<1> QED
  BY <1>1, <1>2 DEF Numbered, Datagrams, Typed

(* The operations, one level up: a request of the game, what the client    *)
(* makes of it, what the network and the wheel make of that.               *)
OfTheGame == \E c \in Kinds :
  /\ Request(c) /\ game' \in [Effects -> {"absent", "stopped", "playing"}]
  /\ \A e \in Effects : game'[e] # "absent" => game[e] # "absent"
  /\ c.kind = "Play" => game[c.effect_id] # "absent"
OfTheClient ==
  \/ GiveUp \/ Connect \/ SendQueued \/ ReadBatchOfEvents
  \/ \E n \in 0 .. CommandsPerTick : Polls(n)
StartsAgain == ClientAgain /\ (UNCHANGED faults \/ Faults({"client"}))

LEMMA Operations ==
  ASSUME Typed, Next
  PROVE  OfTheGame \/ OfTheClient \/ StartsAgain \/ Server
<1>1. ASSUME NEW e \in Effects, GameUpload(e) \/ GameErase(e) \/ GamePlay(e) \/ GameStop(e)
      PROVE  OfTheGame
  <2>1. \A kind \in {"Upload", "Erase", "Play", "Stop"} : [kind |-> kind, effect_id |-> e] \in Kinds
    BY DEF Kinds
  <2>2. CASE GameUpload(e) \/ GameErase(e)
    BY <2>1, <2>2 DEF OfTheGame, GameUpload, GameErase, Typed
  <2>3. CASE GamePlay(e)
    BY <2>1, <2>3 DEF OfTheGame, GamePlay, Typed
  <2>4. CASE GameStop(e)
    BY <2>1, <2>4 DEF OfTheGame, GameStop, Typed
  <2> QED
    BY <1>1, <2>2, <2>3, <2>4
<1>2. ASSUME NEW c \in Settings, GameSetting(c)
      PROVE  OfTheGame
  <2>1. c \in Kinds /\ c.kind # "Play"
    BY PathAssumption DEF Kinds
  <2> QED
    BY <1>2, <2>1 DEF OfTheGame, GameSetting, Typed
<1>3. ASSUME FfbTick \/ NothingToSend
      PROVE  OfTheClient
  BY <1>3, PathAssumption DEF FfbTick, NothingToSend, OfTheClient
<1>4. ASSUME ReadExpired \/ RestartClient
      PROVE  StartsAgain
  BY <1>4 DEF ReadExpired, RestartClient, StartsAgain
<1> QED
  BY <1>1, <1>2, <1>3, <1>4 DEF Next, Game, Client, PollFfb, OfTheClient

-----------------------------------------------------------------------------
(* What an operation takes off the way.                                    *)
LEMMA QueueLengths ==
  ASSUME Typed
  PROVE  /\ Len(net) \in Nat /\ Len(pending_commands) \in Nat /\ Len(events) \in Nat
         /\ Len(issued) \in Nat /\ OnTheWay \in Nat
         /\ \A p \in 1 .. Len(net) : net[p] \in Datagrams
         /\ \A p \in 1 .. Len(pending_commands) : pending_commands[p] \in Datagrams
         /\ \A p \in 1 .. Len(events) : events[p] \in 1 .. MaxRequests
<1>1. /\ Len(net) \in Nat /\ Len(pending_commands) \in Nat /\ Len(events) \in Nat
      /\ Len(issued) \in Nat
  BY LenProperties DEF Typed
<1>2. \A p \in 1 .. Len(net) : net[p] \in Datagrams
  BY ElementOfSeq DEF Typed
<1>3. \A p \in 1 .. Len(pending_commands) : pending_commands[p] \in Datagrams
  BY ElementOfSeq DEF Typed
<1>4. \A p \in 1 .. Len(events) : events[p] \in 1 .. MaxRequests
  <2> DEFINE S == 1 .. MaxRequests
  <2>1. events \in Seq(S)
    BY DEF Typed
  <2> HIDE DEF S
  <2>2. \A p \in 1 .. Len(events) : events[p] \in S
    BY <2>1, ElementOfSeq
  <2> QED
    BY <2>2 DEF S
<1> QED
  BY <1>1, <1>2, <1>3, <1>4 DEF OnTheWay

(* The places, part by part.                                               *)
LEMMA Parts ==
  ASSUME Typed
  PROVE  /\ \A p \in 1 .. Len(net) : p \in Places /\ Way[p] = net[p].index
         /\ \A p \in 1 .. Len(pending_commands) :
              Len(net) + p \in Places /\ Way[Len(net) + p] = pending_commands[p].index
         /\ \A p \in 1 .. Len(events) :
              /\ Len(net) + Len(pending_commands) + p \in Places
              /\ Way[Len(net) + Len(pending_commands) + p] = events[p]
         /\ \A p \in Places :
              \/ p \in 1 .. Len(net)
              \/ \E i \in 1 .. Len(pending_commands) : p = Len(net) + i
              \/ \E i \in 1 .. Len(events) : p = Len(net) + Len(pending_commands) + i
<1> DEFINE N == Len(net)  P == Len(pending_commands)  E == Len(events)
<1>1. N \in Nat /\ P \in Nat /\ E \in Nat /\ Places = 1 .. N + P + E
  BY QueueLengths DEF Places, OnTheWay
<1>2. \A p \in 1 .. N + P + E : Way[p] =
        IF p <= N THEN net[p].index
        ELSE IF p <= N + P THEN pending_commands[p - N].index ELSE events[p - N - P]
  BY <1>1 DEF Way
<1> HIDE DEF N, P, E
<1>3. ASSUME NEW p \in 1 .. N
      PROVE  p \in Places /\ Way[p] = net[p].index
  BY <1>1, <1>2
<1>4. ASSUME NEW p \in 1 .. P
      PROVE  N + p \in Places /\ Way[N + p] = pending_commands[p].index
  <2>1. N + p \in 1 .. N + P + E /\ ~ N + p <= N /\ N + p <= N + P /\ N + p - N = p
    BY <1>1
  <2> QED
    BY <1>1, <1>2, <2>1
<1>5. ASSUME NEW p \in 1 .. E
      PROVE  N + P + p \in Places /\ Way[N + P + p] = events[p]
  <2>1. /\ N + P + p \in 1 .. N + P + E /\ ~ N + P + p <= N /\ ~ N + P + p <= N + P
        /\ N + P + p - N - P = p
    BY <1>1
  <2> QED
    BY <1>1, <1>2, <2>1
<1>6. ASSUME NEW p \in Places
      PROVE  \/ p \in 1 .. N
             \/ \E i \in 1 .. P : p = N + i
             \/ \E i \in 1 .. E : p = N + P + i
  <2>1. CASE p <= N
    BY <1>1, <2>1
  <2>2. CASE p > N /\ p <= N + P
    <3>1. p - N \in 1 .. P /\ p = N + (p - N)
      BY <1>1, <2>2
    <3> QED
      BY <3>1
  <2>3. CASE p > N + P
    <3>1. p - N - P \in 1 .. E /\ p = N + P + (p - N - P)
      BY <1>1, <2>3
    <3> QED
      BY <3>1
  <2> QED
    BY <1>1, <2>1, <2>2, <2>3
<1> QED
  BY <1>3, <1>4, <1>5, <1>6 DEF N, P, E

LEMMA NothingSkips ==
  ASSUME Typed, UNCHANGED <<net, pending_commands, events>>
  PROVE  Skips(1, 0)
<1>1. OnTheWay' = OnTheWay - 0 /\ Way' = Way /\ OnTheWay \in Nat
  BY QueueLengths DEF OnTheWay, Way, Places
<1> QED
  BY <1>1 DEF Skips

LEMMA SendSkips ==
  ASSUME Typed, SendQueued
  PROVE  Skips(1, 0)
<1> DEFINE N == Len(net)  P == Len(pending_commands)  E == Len(events)
<1>1. /\ N \in Nat /\ P \in Nat \ {0} /\ E \in Nat
      /\ Len(net') = N + 1 /\ Len(pending_commands') = P - 1 /\ events' = events
  BY QueueLengths, AppendProperties, HeadTailProperties, EmptySeq DEF SendQueued, Send, Typed
<1>2. /\ \A p \in 1 .. N : net'[p] = net[p]
      /\ net'[N + 1] = pending_commands[1]
      /\ \A p \in 1 .. P - 1 : pending_commands'[p] = pending_commands[p + 1]
  BY <1>1, AppendProperties, HeadTailProperties DEF SendQueued, Send, Typed
<1>3. OnTheWay = N + P + E /\ OnTheWay' = N + P + E
  BY <1>1 DEF OnTheWay
<1>4. ASSUME NEW p \in 1 .. OnTheWay
      PROVE  Way'[p] = Way[p]
  <2>1. p \in Places /\ p \in Places'
    BY <1>3 DEF Places
  <2>2. CASE p <= N
    BY <1>1, <1>2, <2>1, <2>2 DEF Way
  <2>3. CASE p = N + 1
    BY <1>1, <1>2, <2>1, <2>3 DEF Way
  <2>4. CASE p > N + 1 /\ p <= N + P
    <3>1. p - (N + 1) \in 1 .. P - 1 /\ p - (N + 1) + 1 = p - N
      BY <1>1, <1>3, <2>4
    <3> QED
      BY <1>1, <1>2, <2>1, <2>4, <3>1 DEF Way
  <2>5. CASE p > N + P
    <3>1. p - (N + 1) - (P - 1) = p - N - P
      BY <1>1, <1>3, <2>5
    <3> QED
      BY <1>1, <1>2, <2>1, <2>5, <3>1 DEF Way
  <2> QED
    BY <1>1, <1>3, <2>2, <2>3, <2>4, <2>5
<1> QED
  BY <1>1, <1>3, <1>4 DEF Skips

(* A batch, and what it becomes.                                           *)
LEMMA Batches ==
  ASSUME Typed, events # <<>>
  PROVE  /\ Len(Batch) \in 1 .. Len(events) /\ Len(Batch) <= ReadBatch
         /\ \A p \in 1 .. Len(Batch) : Batch[p] = events[p]
         /\ Last(Batch) = events[Len(Batch)]
         /\ Commands(Batch) \in Seq(Datagrams) /\ Len(Commands(Batch)) = Len(Batch)
         /\ Commands(Batch) # <<>>
         /\ \A p \in 1 .. Len(Batch) :
              Commands(Batch)[p] = Numbered(events[p], next_command_seq + p - 1)
<1> DEFINE S == 1 .. MaxRequests
           n == IF Len(events) < ReadBatch THEN Len(events) ELSE ReadBatch
           all == Commands(Batch)
<1>1. events \in Seq(S) /\ Len(events) \in Nat \ {0}
  BY EmptySeq DEF Typed
<1>2. n \in 1 .. Len(events) /\ n <= ReadBatch
  BY <1>1, PathAssumption
<1> HIDE DEF S, n
<1>3. /\ Batch \in Seq(S) /\ Len(Batch) = n /\ \A p \in 1 .. n : Batch[p] = events[p]
  BY <1>1, <1>2, Prefix DEF Batch, n
<1>4. Last(Batch) = events[n]
  BY <1>2, <1>3 DEF Last
<1>5. all = [j \in 1 .. n |-> Numbered(Batch[j], next_command_seq + j - 1)]
  BY <1>3 DEF Commands
<1> HIDE DEF all
<1>6. ASSUME NEW p \in 1 .. n
      PROVE  /\ all[p] \in Datagrams
             /\ all[p] = Numbered(events[p], next_command_seq + p - 1)
  <2>1. events[p] \in 1 .. MaxRequests /\ next_command_seq + p - 1 \in Nat
    <3>1. p \in 1 .. Len(events) /\ next_command_seq \in Nat
      BY <1>1, <1>2 DEF Typed
    <3> QED
      BY <3>1, QueueLengths
  <2>2. all[p] = Numbered(events[p], next_command_seq + p - 1)
    BY <1>3, <1>5
  <2> QED
    BY <2>1, <2>2, NumberedType
<1>7. all \in Seq(Datagrams) /\ Len(all) = n
  <2>1. all \in [1 .. n -> Datagrams] /\ n \in Nat
    BY <1>1, <1>2, <1>5, <1>6
  <2>2. all \in Seq(Datagrams)
    BY <2>1, SeqDef
  <2> QED
    BY <2>1, <2>2, LenProperties
<1>8. all # <<>>
  BY <1>2, <1>7
<1> QED
  BY <1>2, <1>3, <1>4, <1>6, <1>7, <1>8 DEF all

(* The queues after a batch has been read.                                 *)
LEMMA Reads ==
  ASSUME Typed, ReadBatchOfEvents
  PROVE  \E b \in 1 .. Len(events) :
           /\ b <= ReadBatch
           /\ net' \in Seq(Datagrams) /\ Len(net') = Len(net) + 1
           /\ \A p \in 1 .. Len(net) : net'[p] = net[p]
           /\ net'[Len(net) + 1] = Numbered(events[1], next_command_seq)
           /\ pending_commands' \in Seq(Datagrams) /\ Len(pending_commands') = b - 1
           /\ \A p \in 1 .. b - 1 :
                pending_commands'[p] = Numbered(events[p + 1], next_command_seq + p)
           /\ events' \in Seq(1 .. MaxRequests) /\ Len(events') = Len(events) - b
           /\ \A p \in 1 .. Len(events) - b : events'[p] = events[b + p]
           /\ next_command_seq' = next_command_seq + b
           /\ Last(Batch) = events[b]
<1> DEFINE b == Len(Batch)
           all == Commands(Batch)
           S == 1 .. MaxRequests
<1>1. events # <<>> /\ pending_commands = <<>> /\ events \in Seq(S)
  BY DEF ReadBatchOfEvents, Typed
<1>2. /\ b \in 1 .. Len(events) /\ b <= ReadBatch /\ Last(Batch) = events[b]
      /\ all \in Seq(Datagrams) /\ Len(all) = b /\ all # <<>>
      /\ \A p \in 1 .. b : all[p] = Numbered(events[p], next_command_seq + p - 1)
  BY <1>1, Batches
<1>3. /\ net' = Append(net, Head(all)) /\ pending_commands' = Tail(all)
      /\ events' = SubSeq(events, b + 1, Len(events))
      /\ next_command_seq' = next_command_seq + b
  BY DEF ReadBatchOfEvents, Send
<1> HIDE DEF b, all, S
<1>4. Len(net) \in Nat /\ Len(events) \in Nat /\ net \in Seq(Datagrams) /\ next_command_seq \in Nat
  BY QueueLengths DEF Typed
<1>5. Head(all) \in Datagrams /\ Head(all) = Numbered(events[1], next_command_seq)
  <2>1. Head(all) = all[1] /\ all[1] = Numbered(events[1], next_command_seq + 1 - 1)
    BY <1>2, <1>4
  <2>2. next_command_seq + 1 - 1 = next_command_seq
    BY <1>4
  <2> QED
    BY <1>2, <2>1, <2>2, HeadTailProperties
<1>6. /\ net' \in Seq(Datagrams) /\ Len(net') = Len(net) + 1
      /\ \A p \in 1 .. Len(net) : net'[p] = net[p]
      /\ net'[Len(net) + 1] = Numbered(events[1], next_command_seq)
  BY <1>3, <1>4, <1>5, AppendProperties
<1>7. /\ pending_commands' \in Seq(Datagrams) /\ Len(pending_commands') = b - 1
      /\ \A p \in 1 .. b - 1 : pending_commands'[p] = all[p + 1]
  BY <1>2, <1>3, HeadTailProperties
<1>8. ASSUME NEW p \in 1 .. b - 1
      PROVE  all[p + 1] = Numbered(events[p + 1], next_command_seq + p)
  <2>1. p + 1 \in 1 .. b /\ next_command_seq + (p + 1) - 1 = next_command_seq + p
    BY <1>2, <1>4
  <2> QED
    BY <1>2, <2>1
<1>9. /\ events' \in Seq(S) /\ Len(events') = Len(events) - b
      /\ \A p \in 1 .. Len(events) - b : events'[p] = events[b + p]
  BY <1>1, <1>2, <1>3, <1>4, Suffix
<1> QED
  BY <1>2, <1>3, <1>6, <1>7, <1>8, <1>9 DEF S

LEMMA ReadSkips ==
  ASSUME Typed, ReadBatchOfEvents
  PROVE  Skips(1, 0)
<1> DEFINE N == Len(net)  E == Len(events)
<1>1. PICK b \in 1 .. E :
        /\ Len(net') = N + 1
        /\ \A p \in 1 .. N : net'[p] = net[p]
        /\ net'[N + 1] = Numbered(events[1], next_command_seq)
        /\ Len(pending_commands') = b - 1
        /\ \A p \in 1 .. b - 1 :
             pending_commands'[p] = Numbered(events[p + 1], next_command_seq + p)
        /\ Len(events') = E - b
        /\ \A p \in 1 .. E - b : events'[p] = events[b + p]
  BY Reads
<1>2. /\ N \in Nat /\ E \in Nat /\ Len(pending_commands) = 0
      /\ next_command_seq \in Nat /\ \A p \in 1 .. E : events[p] \in 1 .. MaxRequests
  BY QueueLengths, EmptySeq DEF ReadBatchOfEvents, Typed
<1>3. OnTheWay = N + E /\ OnTheWay' = N + E
  BY <1>1, <1>2 DEF OnTheWay
<1>4. /\ net'[N + 1].index = events[1]
      /\ \A p \in 1 .. b - 1 : pending_commands'[p].index = events[p + 1]
  <2>1. Numbered(events[1], next_command_seq).index = events[1]
    BY <1>2, NumberedType
  <2>2. ASSUME NEW p \in 1 .. b - 1
        PROVE  pending_commands'[p].index = events[p + 1]
    <3>1. p + 1 \in 1 .. E /\ next_command_seq + p \in Nat
      BY <1>1, <1>2
    <3> QED
      BY <1>1, <1>2, <3>1, NumberedType
  <2> QED
    BY <1>1, <2>1, <2>2
<1>5. ASSUME NEW p \in 1 .. OnTheWay
      PROVE  Way'[p] = Way[p]
  <2>1. p \in Places /\ p \in Places' /\ p \in Int
    BY <1>3 DEF Places
  <2>2. CASE p <= N
    BY <1>1, <1>2, <2>1, <2>2 DEF Way
  <2>3. CASE p = N + 1
    <3>1. Way[p] = events[1]
      BY <1>2, <2>1, <2>3 DEF Way
    <3>2. Way'[p] = net'[N + 1].index
      BY <1>1, <1>2, <2>1, <2>3 DEF Way
    <3> QED
      BY <1>4, <3>1, <3>2
  <2>4. CASE p > N + 1 /\ p <= N + b
    <3>1. p - (N + 1) \in 1 .. b - 1 /\ p - (N + 1) + 1 = p - N
      BY <1>1, <1>2, <2>1, <2>4
    <3>2. Way[p] = events[p - N]
      BY <1>2, <2>1, <2>4 DEF Way
    <3>3. Way'[p] = pending_commands'[p - (N + 1)].index
      BY <1>1, <1>2, <2>1, <2>4 DEF Way
    <3> QED
      BY <1>4, <3>1, <3>2, <3>3
  <2>5. CASE p > N + b
    <3>1. /\ p - (N + 1) - (b - 1) \in 1 .. E - b
          /\ b + (p - (N + 1) - (b - 1)) = p - N
      BY <1>1, <1>2, <1>3, <2>1, <2>5
    <3>2. Way[p] = events[p - N]
      BY <1>1, <1>2, <2>1, <2>5 DEF Way
    <3>3. Way'[p] = events'[p - (N + 1) - (b - 1)]
      BY <1>1, <1>2, <2>1, <2>5 DEF Way
    <3> QED
      BY <1>1, <3>1, <3>2, <3>3
  <2> QED
    BY <1>1, <1>2, <2>1, <2>2, <2>3, <2>4, <2>5
<1> QED
  BY <1>2, <1>3, <1>5 DEF Skips

(* A removal from the network, its beginning lost with the server, what    *)
(* the client had lost with it.                                            *)
LEMMA ArrivalSkips ==
  ASSUME Typed, NEW k \in DOMAIN net, net' = RemoveAt(net, k),
         UNCHANGED <<pending_commands, events>>
  PROVE  /\ Skips(k, 1) /\ k \in Places /\ Way[k] = net[k].index
         /\ net' \in Seq(Datagrams)
         /\ \A i \in DOMAIN net' : \E j \in DOMAIN net : net'[i] = net[j]
<1> DEFINE N == Len(net)
<1>1. /\ N \in Nat /\ Len(pending_commands) \in Nat /\ Len(events) \in Nat
      /\ k \in 1 .. N /\ DOMAIN net = 1 .. N /\ net \in Seq(Datagrams)
  BY QueueLengths, LenProperties DEF Typed
<1>2. /\ net' \in Seq(Datagrams) /\ Len(net') = N - 1
      /\ \A p \in 1 .. N - 1 : net'[p] = IF p < k THEN net[p] ELSE net[p + 1]
  BY <1>1, Removing
<1>3. OnTheWay' = OnTheWay - 1 /\ OnTheWay = N + Len(pending_commands) + Len(events)
  BY <1>1, <1>2 DEF OnTheWay
<1>4. ASSUME NEW p \in 1 .. OnTheWay'
      PROVE  Way'[p] = IF p < k THEN Way[p] ELSE Way[p + 1]
  <2>1. p \in Places /\ p \in Places' /\ p + 1 \in Places /\ p \in Int
    BY <1>1, <1>3 DEF Places
  <2>2. CASE p <= N - 1
    BY <1>1, <1>2, <2>1, <2>2 DEF Way
  <2>3. CASE p > N - 1
    <3>1. ~ p < k /\ ~ p + 1 <= N /\ p - (N - 1) = p + 1 - N
          /\ p - (N - 1) - Len(pending_commands) = p + 1 - N - Len(pending_commands)
          /\ (p <= N - 1 + Len(pending_commands) <=> p + 1 <= N + Len(pending_commands))
      BY <1>1, <2>1, <2>3
    <3> QED
      BY <1>1, <1>2, <2>1, <2>3, <3>1 DEF Way
  <2> QED
    BY <1>1, <2>1, <2>2, <2>3
<1>5. DOMAIN net' = 1 .. N - 1
  BY <1>2, LenProperties
<1>6. ASSUME NEW i \in DOMAIN net'
      PROVE  \E j \in DOMAIN net : net'[i] = net[j]
  <2>1. i \in DOMAIN net /\ i + 1 \in DOMAIN net
    BY <1>1, <1>5
  <2> QED
    BY <1>2, <1>5, <2>1
<1> QED
  BY <1>1, <1>2, <1>3, <1>4, <1>6, Parts DEF Skips

LEMMA ReopenSkips ==
  ASSUME Typed, NEW u \in 0 .. Len(net), RestartServer(u)
  PROVE  /\ Skips(1, u) /\ net' \in Seq(Datagrams)
         /\ \A i \in DOMAIN net' : \E j \in DOMAIN net : net'[i] = net[j]
<1> DEFINE N == Len(net)
<1>0. pending_commands' = pending_commands /\ events' = events
  BY DEF RestartServer, clientVars
<1>1. /\ N \in Nat /\ Len(pending_commands) \in Nat /\ Len(events) \in Nat
      /\ DOMAIN net = 1 .. N /\ net \in Seq(Datagrams) /\ u \in Nat /\ u <= N
  BY QueueLengths, LenProperties DEF Typed
<1>2. /\ net' \in Seq(Datagrams) /\ Len(net') = N - u
      /\ \A p \in 1 .. N - u : net'[p] = net[u + p]
  BY <1>1, Suffix DEF RestartServer
<1>3. OnTheWay' = OnTheWay - u /\ OnTheWay = N + Len(pending_commands) + Len(events)
  <2>1. OnTheWay' = Len(net') + Len(pending_commands) + Len(events)
    BY <1>0 DEF OnTheWay
  <2>2. OnTheWay = N + Len(pending_commands) + Len(events)
    BY DEF OnTheWay
  <2> QED
    BY <1>1, <1>2, <2>1, <2>2
<1>4. ASSUME NEW p \in 1 .. OnTheWay'
      PROVE  Way'[p] = Way[p + u]
  <2>1. p \in Places' /\ p + u \in Places /\ p \in Int
    BY <1>1, <1>3 DEF Places
  <2>2. CASE p <= N - u
    <3>1. p + u <= N /\ p \in 1 .. N - u /\ u + p = p + u
      BY <1>1, <1>3, <2>1, <2>2
    <3> QED
      BY <1>0, <1>1, <1>2, <2>1, <2>2, <3>1 DEF Way
  <2>3. CASE p > N - u
    <3>1. ~ p + u <= N /\ p - (N - u) = p + u - N
          /\ p - (N - u) - Len(pending_commands) = p + u - N - Len(pending_commands)
          /\ (p <= N - u + Len(pending_commands) <=> p + u <= N + Len(pending_commands))
      BY <1>1, <2>1, <2>3
    <3>2. Way[p + u] = IF p + u <= N + Len(pending_commands)
                         THEN pending_commands[p + u - N].index
                         ELSE events[p + u - N - Len(pending_commands)]
      BY <2>1, <3>1 DEF Way
    <3>3. Way'[p] = IF p <= N - u + Len(pending_commands)
                      THEN pending_commands[p - (N - u)].index
                      ELSE events[p - (N - u) - Len(pending_commands)]
      BY <1>1, <1>2, <1>0, <2>1, <2>3 DEF Way
    <3> QED
      BY <3>1, <3>2, <3>3
  <2> QED
    BY <1>1, <2>1, <2>2, <2>3
<1>5. DOMAIN net' = 1 .. N - u
  BY <1>2, LenProperties
<1>6. ASSUME NEW i \in DOMAIN net'
      PROVE  \E j \in DOMAIN net : net'[i] = net[j]
  <2>1. u + i \in DOMAIN net
    BY <1>1, <1>5
  <2> QED
    BY <1>2, <1>5, <2>1
<1> QED
  BY <1>2, <1>3, <1>4, <1>6 DEF Skips

LEMMA AgainSkips ==
  ASSUME Typed, ClientAgain
  PROVE  Skips(Len(net) + 1, Len(pending_commands) + Len(events)) /\ OnTheWay' = Len(net)
<1>1. /\ Len(net) \in Nat /\ Len(pending_commands) \in Nat /\ Len(events) \in Nat
      /\ net' = net /\ Len(pending_commands') = 0 /\ Len(events') = 0
  BY QueueLengths, EmptySeq DEF ClientAgain
<1>2. /\ OnTheWay = Len(net) + Len(pending_commands) + Len(events) /\ OnTheWay' = Len(net)
  BY <1>1 DEF OnTheWay
<1>3. ASSUME NEW p \in 1 .. OnTheWay'
      PROVE  Way'[p] = Way[p]
  <2>1. p \in Places /\ p \in Places' /\ p <= Len(net)
    BY <1>1, <1>2 DEF Places
  <2> QED
    BY <1>1, <2>1 DEF Way
<1> QED
  BY <1>1, <1>2, <1>3 DEF Skips

-----------------------------------------------------------------------------
(* Faults only grow, within their bound.                                   *)
LEMMA FaultsGrow ==
  ASSUME Typed, NEW kinds, Faults(kinds)
  PROVE  /\ faults' \in [FaultKinds -> Nat] /\ AllFaults' <= MaxFaults
         /\ \A f \in FaultKinds : faults'[f] = 0 => faults[f] = 0 /\ f \notin kinds
<1>1. faults \in [FaultKinds -> Nat]
  BY DEF Typed
<1>2. ASSUME NEW f \in FaultKinds
      PROVE  /\ faults'[f] = faults[f] + IF f \in kinds THEN 1 ELSE 0
             /\ faults[f] \in Nat
  BY <1>1 DEF Faults
<1>3. faults' \in [FaultKinds -> Nat]
  BY <1>1 DEF Faults
<1>4. AllFaults' <= MaxFaults
  BY DEF Faults
<1> QED
  BY <1>2, <1>3, <1>4

LEMMA Initially == Init => IInv
<1> SUFFICES ASSUME Init
             PROVE  IInv
  OBVIOUS
<1>1. OnTheWay = 0 /\ Places = {}
  BY EmptySeq DEF Init, OnTheWay, Places
<1>2. /\ issued \in Seq(Kinds) /\ events \in Seq(1 .. MaxRequests) /\ net \in Seq(Datagrams)
      /\ pending_commands \in Seq(Datagrams) /\ Len(issued) = 0 /\ Len(events) = 0
      /\ DOMAIN net = {} /\ DOMAIN pending_commands = {} /\ DOMAIN events = {}
  BY EmptySeq DEF Init
<1>9. Len(pending_commands) < ReadBatch
  BY EmptySeq, PathAssumption DEF Init
<1>3. AllFaults = 0 /\ faults \in [FaultKinds -> Nat]
  BY DEF Init, AllFaults, FaultKinds
<1>4. Typed
  <2>1. game \in [Effects -> {"absent", "stopped", "playing"}]
    BY DEF Init, NoEffects
  <2>2. /\ waiting = None /\ expired = {} /\ rejected = {} /\ connected \in BOOLEAN
        /\ life = 1 /\ first = 1 /\ next_command_seq = 0 /\ gone = 0
    BY DEF Init
  <2>3. budget \in 0 .. CommandsPerTick /\ applied \in 0 .. Len(issued) /\ Len(issued) <= MaxRequests
    BY <1>2, PathAssumption DEF Init
  <2>4. device \in Devices /\ AllFaults <= MaxFaults
    BY <1>3, OpenedType, PathAssumption DEF Init
  <2>5. /\ waiting \in Effects \cup {None} /\ (waiting # None => issued # <<>>)
        /\ expired \subseteq 1 .. MaxRequests /\ rejected \subseteq 1 .. MaxRequests
        /\ \A i \in DOMAIN net : net[i].life <= life
        /\ \A i \in DOMAIN pending_commands : pending_commands[i].life <= life
    BY <1>2, <2>2
  <2>6. /\ life \in Nat \ {0} /\ first \in Nat \ {0}
        /\ next_command_seq \in Nat /\ gone \in Nat
    BY <2>2
  <2> QED
    BY <1>2, <1>3, <1>9, <2>1, <2>2, <2>3, <2>4, <2>5, <2>6 DEF Typed
<1>5. Counted
  BY <1>2 DEF Init, Counted
<1>6. Increasing /\ Complete
  BY <1>1, <1>2 DEF Init, Increasing, Complete
<1> QED
  BY <1>4, <1>5, <1>6 DEF IInv

(* Every variable stays of its kind.                                       *)
LEMMA GameTyped == ASSUME Typed, OfTheGame PROVE Typed'
<1>1. PICK c \in Kinds : Request(c) /\ game' \in [Effects -> {"absent", "stopped", "playing"}]
  BY DEF OfTheGame
<1>2. Len(issued) \in Nat /\ issued \in Seq(Kinds) /\ Len(issued) < MaxRequests
  BY <1>1, QueueLengths DEF Typed, Request
<1>3. /\ issued' \in Seq(Kinds) /\ Len(issued') = Len(issued) + 1 /\ issued' # <<>>
  BY <1>1, <1>2, AppendProperties DEF Request
<1>4. events' \in Seq(1 .. MaxRequests)
  <2>1. Len(issued') \in 1 .. MaxRequests
    BY <1>2, <1>3, PathAssumption
  <2>2. events' = Append(events, Len(issued'))
    BY <1>1 DEF Request
  <2> QED
    BY <2>1, <2>2, AppendProperties DEF Typed
<1>5. waiting' \in Effects \cup {None}
  BY <1>1 DEF Request, AwaitsAnswer, Kinds
<1>6. UNCHANGED <<expired, life, connected, pending_commands, next_command_seq, budget, first, net,
                  device, rejected, applied, faults, gone>>
  BY <1>1 DEF Request, clientVars, serverVars
<1>7. AllFaults' = AllFaults
  BY <1>6 DEF AllFaults
<1>8. applied' \in 0 .. Len(issued') /\ Len(issued') <= MaxRequests
  BY <1>2, <1>3, <1>6, PathAssumption DEF Typed
<1> QED
  BY <1>1, <1>3, <1>4, <1>5, <1>6, <1>7, <1>8 DEF Typed

LEMMA ReadTyped == ASSUME Typed, ReadBatchOfEvents PROVE Typed'
<1>1. PICK b \in 1 .. Len(events) :
        /\ b <= ReadBatch
        /\ net' \in Seq(Datagrams) /\ Len(net') = Len(net) + 1
        /\ \A p \in 1 .. Len(net) : net'[p] = net[p]
        /\ net'[Len(net) + 1] = Numbered(events[1], next_command_seq)
        /\ pending_commands' \in Seq(Datagrams) /\ Len(pending_commands') = b - 1
        /\ \A p \in 1 .. b - 1 :
             pending_commands'[p] = Numbered(events[p + 1], next_command_seq + p)
        /\ events' \in Seq(1 .. MaxRequests)
        /\ next_command_seq' = next_command_seq + b
        /\ Last(Batch) = events[b]
  BY Reads
<1>2. Len(events) \in Nat /\ Len(net) \in Nat /\ next_command_seq \in Nat /\ life \in Nat
  BY QueueLengths DEF Typed
<1>3. \A p \in 1 .. b : events[p] \in 1 .. MaxRequests /\ next_command_seq + p - 1 \in Nat
  BY <1>2, QueueLengths
<1>4. \A p \in 1 .. b : Numbered(events[p], next_command_seq + p - 1).life = life
  BY <1>3, NumberedType
<1>5. \A i \in DOMAIN net' : net'[i].life <= life
  <2> SUFFICES ASSUME NEW i \in 1 .. Len(net) + 1
               PROVE  net'[i].life <= life
    BY <1>1, LenProperties
  <2>1. CASE i \in 1 .. Len(net)
    BY <1>1, <2>1, LenProperties DEF Typed
  <2>2. CASE i = Len(net) + 1
    <3>1. Numbered(events[1], next_command_seq).life = life
      BY <1>2, <1>3, NumberedType
    <3> QED
      BY <1>1, <1>2, <2>2, <3>1
  <2> QED
    BY <1>2, <2>1, <2>2
<1>6. \A i \in DOMAIN pending_commands' : pending_commands'[i].life <= life
  <2> SUFFICES ASSUME NEW i \in 1 .. b - 1
               PROVE  pending_commands'[i].life <= life
    BY <1>1, LenProperties
  <2>1. i + 1 \in 1 .. b /\ next_command_seq + (i + 1) - 1 = next_command_seq + i
    BY <1>2
  <2>2. Numbered(events[i + 1], next_command_seq + i).life = life
    BY <1>4, <2>1
  <2>3. pending_commands'[i] = Numbered(events[i + 1], next_command_seq + i)
    BY <1>1
  <2> QED
    BY <1>2, <2>2, <2>3
<1>7. game' \in [Effects -> {"absent", "stopped", "playing"}]
  BY DEF ReadBatchOfEvents, Acknowledged, Typed
<1>8. budget' \in 0 .. CommandsPerTick
  BY PathAssumption DEF ReadBatchOfEvents, Send, Typed
<1>9. /\ waiting' \in {waiting, None}
      /\ UNCHANGED <<expired, issued, life, connected, first, device, rejected, applied, faults, gone>>
  BY DEF ReadBatchOfEvents, serverVars
<1>10. AllFaults' = AllFaults /\ next_command_seq' \in Nat
  BY <1>1, <1>2, <1>9 DEF AllFaults
<1>11. Len(pending_commands') < ReadBatch
  BY <1>1, <1>2, PathAssumption
<1> QED
  BY <1>1, <1>5, <1>6, <1>7, <1>8, <1>9, <1>10, <1>11 DEF Typed

LEMMA SendTyped == ASSUME Typed, SendQueued PROVE Typed'
<1>1. /\ net \in Seq(Datagrams) /\ pending_commands \in Seq(Datagrams) /\ pending_commands # <<>>
      /\ net' = Append(net, Head(pending_commands)) /\ pending_commands' = Tail(pending_commands)
      /\ Len(pending_commands) \in Nat /\ Len(net) \in Nat
  BY QueueLengths DEF SendQueued, Send, Typed
<1>2. /\ net' \in Seq(Datagrams) /\ Len(net') = Len(net) + 1
      /\ \A p \in 1 .. Len(net) : net'[p] = net[p]
      /\ net'[Len(net) + 1] = Head(pending_commands)
  BY <1>1, HeadTailProperties, AppendProperties
<1>3. /\ pending_commands' \in Seq(Datagrams) /\ Len(pending_commands') = Len(pending_commands) - 1
      /\ \A p \in 1 .. Len(pending_commands') : pending_commands'[p] = pending_commands[p + 1]
  BY <1>1, HeadTailProperties
<1>4. \A i \in 1 .. Len(pending_commands) : pending_commands[i].life <= life
  BY <1>1, LenProperties DEF Typed
<1>5. Head(pending_commands).life <= life
  <2>1. Len(pending_commands) # 0
    BY <1>1, EmptySeq
  <2> QED
    BY <1>1, <1>4, <2>1
<1>6. \A i \in DOMAIN net' : net'[i].life <= life
  <2> SUFFICES ASSUME NEW i \in 1 .. Len(net) + 1
               PROVE  net'[i].life <= life
    BY <1>2, LenProperties
  <2>1. CASE i \in 1 .. Len(net)
    BY <1>2, <2>1, LenProperties DEF Typed
  <2>2. CASE i = Len(net) + 1
    BY <1>2, <1>5, <2>2
  <2> QED
    BY <1>1, <2>1, <2>2
<1>7. \A i \in DOMAIN pending_commands' : pending_commands'[i].life <= life
  <2> SUFFICES ASSUME NEW i \in 1 .. Len(pending_commands')
               PROVE  pending_commands'[i].life <= life
    BY <1>3, LenProperties
  <2>1. i + 1 \in 1 .. Len(pending_commands)
    BY <1>1, <1>3
  <2> QED
    BY <1>3, <1>4, <2>1
<1>8. /\ budget' \in 0 .. CommandsPerTick
      /\ UNCHANGED <<game, waiting, expired, issued, events, life, connected, next_command_seq, first,
                     device, rejected, applied, faults, gone>>
  BY PathAssumption DEF SendQueued, Send, gameVars, serverVars, Typed
<1>9. AllFaults' = AllFaults
  BY <1>8 DEF AllFaults
<1>10. Len(pending_commands') < ReadBatch
  BY <1>1, <1>3, PathAssumption DEF Typed
<1> QED
  BY <1>2, <1>3, <1>6, <1>7, <1>8, <1>9, <1>10 DEF Typed

LEMMA ClientTyped == ASSUME Typed, OfTheClient PROVE Typed'
<1>1. ASSUME GiveUp
      PROVE  Typed'
  <2>1. Len(issued) \in 1 .. MaxRequests
    <3>1. Len(issued) \in Nat /\ Len(issued) <= MaxRequests /\ issued # <<>> /\ issued \in Seq(Kinds)
      BY <1>1, QueueLengths DEF GiveUp, Typed
    <3> QED
      BY <3>1, EmptySeq, PathAssumption
  <2>2. AllFaults' = AllFaults
    BY <1>1 DEF GiveUp, AllFaults
  <2>3. expired' \subseteq 1 .. MaxRequests
    BY <1>1, <2>1 DEF GiveUp, Typed
  <2> QED
    BY <1>1, <2>2, <2>3 DEF GiveUp, clientVars, serverVars, Typed
<1>2. ASSUME Connect \/ \E n \in 0 .. CommandsPerTick : Polls(n)
      PROVE  Typed'
  <2>1. /\ connected' \in BOOLEAN /\ budget' \in 0 .. CommandsPerTick
        /\ UNCHANGED <<game, waiting, expired, issued, events, life, pending_commands,
                       next_command_seq, first, net, device, rejected, applied, faults, gone>>
    BY <1>2 DEF Connect, Polls, gameVars, serverVars, Typed
  <2>2. AllFaults' = AllFaults
    BY <2>1 DEF AllFaults
  <2> QED
    BY <2>1, <2>2 DEF Typed
<1> QED
  BY <1>1, <1>2, SendTyped, ReadTyped DEF OfTheClient

LEMMA AgainTyped == ASSUME Typed, StartsAgain PROVE Typed'
<1>1. /\ game' \in [Effects -> {"absent", "stopped", "playing"}]
      /\ waiting' = None /\ expired' = {} /\ life' = life + 1 /\ connected' = FALSE
      /\ first' = Len(issued) + 1 /\ next_command_seq' = 0 /\ budget' = 0
      /\ gone' = gone + Len(pending_commands) + Len(events)
      /\ UNCHANGED <<issued, net, device, rejected, applied>>
  BY DEF StartsAgain, ClientAgain, NoEffects, serverVars
<1>2. events' \in Seq(1 .. MaxRequests) /\ pending_commands' \in Seq(Datagrams)
      /\ DOMAIN pending_commands' = {} /\ Len(pending_commands') < ReadBatch
  BY EmptySeq, PathAssumption DEF StartsAgain, ClientAgain
<1>3. faults' \in [FaultKinds -> Nat] /\ AllFaults' <= MaxFaults
  <2>1. CASE UNCHANGED faults
    BY <2>1 DEF Typed, AllFaults
  <2>2. CASE Faults({"client"})
    BY <2>2, FaultsGrow
  <2> QED
    BY <2>1, <2>2 DEF StartsAgain
<1>4. gone' \in Nat /\ first' \in Nat \ {0} /\ life' \in Nat \ {0} /\ budget' \in 0 .. CommandsPerTick
  BY <1>1, QueueLengths, PathAssumption DEF Typed
<1>5. \A i \in DOMAIN net' : net'[i].life <= life'
  <2> SUFFICES ASSUME NEW i \in DOMAIN net
               PROVE  net[i].life <= life + 1
    BY <1>1
  <2>1. net[i].life <= life /\ net[i] \in Datagrams /\ life \in Nat
    BY ElementOfSeq, LenProperties DEF Typed
  <2> QED
    BY <2>1 DEF Datagrams
<1> QED
  BY <1>1, <1>2, <1>3, <1>4, <1>5 DEF Typed

LEMMA ServerTyped == ASSUME Typed, Increasing, Server PROVE Typed'
<1>1. ASSUME NEW k \in DOMAIN net, NEW copied \in BOOLEAN, NEW o \in Outcomes,
             RecvCommand(k, copied, o)
      PROVE  Typed'
  <2>1. /\ net \in Seq(Datagrams) /\ issued \in Seq(Kinds) /\ Len(issued) \in Nat
        /\ k \in 1 .. Len(net)
    BY QueueLengths, LenProperties DEF Typed
  <2>2. net[k].index \in 1 .. Len(issued)
    BY <2>1, Parts DEF Increasing
  <2>3. issued[net[k].index] \in Kinds /\ net[k].index \in 1 .. MaxRequests
    <3>1. issued[net[k].index] \in Kinds
      BY <2>1, <2>2, ElementOfSeq
    <3> QED
      BY <2>1, <2>2, <3>1, PathAssumption DEF Typed
  <2>4. /\ device' = Applied(device, issued[net[k].index], o)
        /\ rejected' \subseteq rejected \cup {net[k].index} /\ applied' = net[k].index
        /\ UNCHANGED <<game, waiting, expired, issued, events, life, connected, pending_commands,
                       next_command_seq, budget, first, gone>>
    BY <1>1 DEF RecvCommand, gameVars, clientVars
  <2>5. device' \in Devices
    BY <2>3, <2>4, AppliedType DEF Typed
  <2>6. /\ net' \in Seq(Datagrams)
        /\ \A i \in DOMAIN net' : \E j \in DOMAIN net : net'[i] = net[j]
    <3>1. CASE copied
      BY <1>1, <2>1, <3>1 DEF RecvCommand
    <3>2. CASE ~ copied
      BY <1>1, <2>4, <3>2, ArrivalSkips DEF RecvCommand
    <3> QED
      BY <3>1, <3>2
  <2>7. faults' \in [FaultKinds -> Nat] /\ AllFaults' <= MaxFaults
    BY <1>1, FaultsGrow DEF RecvCommand
  <2>8. \A i \in DOMAIN net' : net'[i].life <= life'
    BY <2>4, <2>6 DEF Typed
  <2> QED
    BY <2>2, <2>3, <2>4, <2>5, <2>6, <2>7, <2>8 DEF Typed
<1>2. ASSUME NEW k \in DOMAIN net, Lose(k)
      PROVE  Typed'
  <2>1. UNCHANGED <<game, waiting, expired, issued, events, life, connected, pending_commands,
                    next_command_seq, budget, first, device, rejected, applied>>
    BY <1>2 DEF Lose, gameVars, clientVars, serverVars
  <2>2. /\ net' \in Seq(Datagrams)
        /\ \A i \in DOMAIN net' : \E j \in DOMAIN net : net'[i] = net[j]
    BY <1>2, <2>1, ArrivalSkips DEF Lose
  <2>3. faults' \in [FaultKinds -> Nat] /\ AllFaults' <= MaxFaults /\ gone' \in Nat
    BY <1>2, FaultsGrow DEF Lose, Typed
  <2>4. \A i \in DOMAIN net' : net'[i].life <= life'
    BY <2>1, <2>2 DEF Typed
  <2> QED
    BY <2>1, <2>2, <2>3, <2>4 DEF Typed
<1>3. ASSUME NEW u \in 0 .. Len(net), RestartServer(u)
      PROVE  Typed'
  <2>1. UNCHANGED <<game, waiting, expired, issued, events, life, connected, pending_commands,
                    next_command_seq, budget, first, rejected, applied>>
    BY <1>3 DEF RestartServer, gameVars, clientVars
  <2>2. /\ net' \in Seq(Datagrams)
        /\ \A i \in DOMAIN net' : \E j \in DOMAIN net : net'[i] = net[j]
    BY <1>3, ReopenSkips
  <2>3. faults' \in [FaultKinds -> Nat] /\ AllFaults' <= MaxFaults
    BY <1>3, FaultsGrow DEF RestartServer
  <2>4. gone' \in Nat /\ device' \in Devices
    BY <1>3, OpenedType DEF RestartServer, Typed
  <2>5. \A i \in DOMAIN net' : net'[i].life <= life'
    BY <2>1, <2>2 DEF Typed
  <2> QED
    BY <2>1, <2>2, <2>3, <2>4, <2>5 DEF Typed
<1> QED
  BY <1>1, <1>2, <1>3 DEF Server, Arrival

-----------------------------------------------------------------------------
(* The order.  A request joins at the end.                                 *)
LEMMA RequestJoins ==
  ASSUME Typed, NEW c \in Kinds, Request(c)
  PROVE  /\ OnTheWay' = OnTheWay + 1
         /\ \A p \in 1 .. OnTheWay : Way'[p] = Way[p]
         /\ Way'[OnTheWay + 1] = Len(issued) + 1
         /\ issued' = Append(issued, c) /\ Len(issued') = Len(issued) + 1
         /\ \A i \in 1 .. Len(issued) : issued'[i] = issued[i]
         /\ issued'[Len(issued) + 1] = c
         /\ Len(events') = Len(events) + 1 /\ events'[Len(events) + 1] = Len(issued) + 1
         /\ \A i \in 1 .. Len(events) : events'[i] = events[i]
<1> DEFINE N == Len(net)  P == Len(pending_commands)  E == Len(events)
<1>1. N \in Nat /\ P \in Nat /\ E \in Nat /\ Len(issued) \in Nat /\ issued \in Seq(Kinds)
  BY QueueLengths DEF Typed
<1>2. /\ issued' = Append(issued, c) /\ Len(issued') = Len(issued) + 1
      /\ \A i \in 1 .. Len(issued) : issued'[i] = issued[i]
      /\ issued'[Len(issued) + 1] = c
  BY <1>1, AppendProperties DEF Request
<1>3. /\ Len(events') = E + 1 /\ \A p \in 1 .. E : events'[p] = events[p]
      /\ events'[E + 1] = Len(issued) + 1
  <2>1. events \in Seq(Nat)
    BY PathAssumption, SeqMonotonic DEF Typed
  <2>2. events' = Append(events, Len(issued) + 1)
    BY <1>2 DEF Request
  <2> QED
    BY <1>1, <2>1, <2>2, AppendProperties
<1>4. net' = net /\ pending_commands' = pending_commands
  BY DEF Request, clientVars
<1>5. OnTheWay = N + P + E /\ OnTheWay' = N + P + E + 1
  BY <1>1, <1>3, <1>4 DEF OnTheWay
<1>6. ASSUME NEW p \in 1 .. N + P + E
      PROVE  Way'[p] = Way[p]
  <2>1. p \in Places /\ p \in Places'
    BY <1>1, <1>5 DEF Places
  <2>2. CASE p <= N + P
    BY <1>4, <2>1, <2>2 DEF Way
  <2>3. CASE ~ p <= N + P
    <3>1. ~ p <= N /\ p - N - P \in 1 .. E
      BY <1>1, <2>3
    <3> QED
      BY <1>3, <1>4, <2>1, <2>3, <3>1 DEF Way
  <2> QED
    BY <2>2, <2>3
<1>7. Way'[N + P + E + 1] = Len(issued) + 1
  <2>1. N + P + E + 1 \in Places'
    BY <1>1, <1>5 DEF Places
  <2>2. ~ N + P + E + 1 <= N /\ ~ N + P + E + 1 <= N + P /\ N + P + E + 1 - N - P = E + 1
    BY <1>1
  <2> QED
    BY <1>3, <1>4, <2>1, <2>2 DEF Way
<1> QED
  BY <1>2, <1>3, <1>5, <1>6, <1>7

LEMMA CountedKeeps ==
  ASSUME Typed, Typed', Counted, OfTheGame \/ OfTheClient \/ StartsAgain \/ Server
  PROVE  Counted'
<1>1. /\ Len(events) \in Nat /\ Len(issued) \in Nat /\ first \in Nat /\ next_command_seq \in Nat
      /\ DOMAIN events = 1 .. Len(events)
  BY QueueLengths, LenProperties DEF Typed
<1>2. DOMAIN events' = 1 .. Len(events')
  BY LenProperties DEF Typed
<1>3. ASSUME OfTheGame
      PROVE  Counted'
  <2>1. PICK c \in Kinds : Request(c)
    BY <1>3 DEF OfTheGame
  <2>2. first' = first /\ next_command_seq' = next_command_seq
    BY <2>1 DEF Request, clientVars
  <2>3. /\ Len(events') = Len(events) + 1 /\ events'[Len(events) + 1] = Len(issued) + 1
        /\ \A i \in 1 .. Len(events) : events'[i] = events[i]
        /\ Len(issued') = Len(issued) + 1
    BY <2>1, RequestJoins
  <2>4. ASSUME NEW i \in 1 .. Len(events) + 1
        PROVE  events'[i] = first' + next_command_seq' + i - 1
    <3>1. CASE i \in 1 .. Len(events)
      BY <1>1, <2>2, <2>3, <3>1 DEF Counted
    <3>2. CASE i = Len(events) + 1
      BY <1>1, <2>2, <2>3, <3>2 DEF Counted
    <3> QED
      BY <1>1, <3>1, <3>2
  <2> QED
    BY <1>1, <1>2, <2>2, <2>3, <2>4 DEF Counted
<1>4. ASSUME ReadBatchOfEvents
      PROVE  Counted'
  <2>1. PICK b \in 1 .. Len(events) :
           /\ Len(events') = Len(events) - b
           /\ \A p \in 1 .. Len(events) - b : events'[p] = events[b + p]
           /\ next_command_seq' = next_command_seq + b
    BY <1>4, Reads
  <2>2. first' = first /\ issued' = issued
    BY <1>4 DEF ReadBatchOfEvents
  <2>3. ASSUME NEW i \in 1 .. Len(events) - b
        PROVE  events'[i] = first' + next_command_seq' + i - 1
    <3>1. b + i \in 1 .. Len(events)
      BY <1>1
    <3>2. events[b + i] = first + next_command_seq + (b + i) - 1
      BY <1>1, <3>1 DEF Counted
    <3> QED
      BY <1>1, <2>1, <2>2, <3>2
  <2>4. Len(issued') + 1 = first' + next_command_seq' + Len(events')
    <3>1. Len(issued) + 1 = first + next_command_seq + Len(events)
      BY DEF Counted
    <3>2. Len(issued') = Len(issued) /\ Len(events') = Len(events) - b /\ b \in Int
      BY <1>1, <2>1, <2>2
    <3>3. first' = first /\ next_command_seq' = next_command_seq + b
      BY <2>1, <2>2
    <3> QED
      BY <1>1, <3>1, <3>2, <3>3
  <2> QED
    BY <1>2, <2>1, <2>3, <2>4 DEF Counted
<1>5. ASSUME StartsAgain
      PROVE  Counted'
  <2>1. /\ first' = Len(issued) + 1 /\ next_command_seq' = 0 /\ issued' = issued
        /\ Len(events') = 0
    BY <1>5, EmptySeq DEF StartsAgain, ClientAgain
  <2> QED
    BY <1>1, <1>2, <2>1 DEF Counted
<1>6. ASSUME UNCHANGED <<issued, events, first, next_command_seq>>
      PROVE  Counted'
  BY <1>6 DEF Counted
<1>7. GiveUp \/ Connect \/ SendQueued \/ (\E n \in 0 .. CommandsPerTick : Polls(n)) \/ Server
        => UNCHANGED <<issued, events, first, next_command_seq>>
  BY DEF GiveUp, Connect, SendQueued, Polls, Server, Arrival, RecvCommand, Lose, RestartServer, clientVars
<1> QED
  BY <1>3, <1>4, <1>5, <1>6, <1>7 DEF OfTheClient

(* What is taken off the way without being executed is gone.               *)
LEMMA SkipKeeps ==
  ASSUME Typed, Increasing, Complete, NEW j \in Nat \ {0}, NEW n \in Nat, j + n <= OnTheWay + 1,
         Skips(j, n), issued' = issued, gone' = gone + n, applied' = applied,
         Never({"copied", "swapped"})' => Never({"copied", "swapped"})
  PROVE  Increasing' /\ Complete'
<1>1. OnTheWay \in Nat /\ OnTheWay' = OnTheWay - n /\ Places' = 1 .. OnTheWay' /\ Places = 1 .. OnTheWay
  BY QueueLengths DEF Skips, Places
<1>2. Len(issued) \in Nat /\ gone \in Nat /\ applied \in Nat
  BY QueueLengths DEF Typed
<1>3. ASSUME NEW p \in Places'
      PROVE  \E q \in Places : /\ Way'[p] = Way[q] /\ p <= q /\ q <= p + n
                               /\ q = IF p < j THEN p ELSE p + n
  <2>1. Way'[p] = IF p < j THEN Way[p] ELSE Way[p + n]
    BY <1>1 DEF Skips
  <2>2. /\ p \in Int /\ p \in Places /\ p <= p + n
        /\ ~ p < j => p + n \in Places
    BY <1>1
  <2>3. CASE p < j
    BY <1>1, <2>1, <2>2, <2>3
  <2>4. CASE ~ p < j
    BY <1>1, <2>1, <2>2, <2>4
  <2> QED
    BY <2>3, <2>4
<1>4. \A p \in Places : Way[p] \in 1 .. Len(issued)
  BY DEF Increasing
<1>5. Increasing'
  <2>1. \A p \in Places' : Way'[p] \in 1 .. Len(issued')
    BY <1>3, <1>4
  <2>2. ASSUME NEW p \in Places', NEW q \in Places', p < q
        PROVE  Way'[p] < Way'[q]
    <3>1. PICK r \in Places : Way'[p] = Way[r] /\ r = IF p < j THEN p ELSE p + n
      BY <1>3
    <3>2. PICK t \in Places : Way'[q] = Way[t] /\ t = IF q < j THEN q ELSE q + n
      BY <1>3
    <3>3. r < t
      BY <1>1, <2>2, <3>1, <3>2
    <3> QED
      BY <3>1, <3>2, <3>3 DEF Increasing
  <2>3. gone' + OnTheWay' <= Len(issued')
    BY <1>1, <1>2 DEF Increasing
  <2> QED
    BY <2>1, <2>2, <2>3 DEF Increasing
<1>6. Complete'
  <2> SUFFICES ASSUME Never({"copied", "swapped"})'
               PROVE  /\ \A p \in Places' : applied < Way'[p] /\ Way'[p] <= applied + p + gone'
                      /\ Len(issued) <= applied + OnTheWay' + gone'
    BY DEF Complete
  <2>1. /\ \A p \in Places : applied < Way[p] /\ Way[p] <= applied + p + gone
        /\ Len(issued) <= applied + OnTheWay + gone
    BY DEF Complete
  <2>2. ASSUME NEW p \in Places'
        PROVE  applied < Way'[p] /\ Way'[p] <= applied + p + gone'
    <3>1. PICK q \in Places : Way'[p] = Way[q] /\ p <= q /\ q <= p + n
      BY <1>3
    <3>2. applied < Way[q] /\ Way[q] <= applied + q + gone /\ Way[q] \in Nat
      BY <1>4, <2>1, <1>2
    <3> QED
      BY <1>1, <1>2, <3>1, <3>2
  <2> QED
    BY <1>1, <1>2, <2>1, <2>2
<1> QED
  BY <1>5, <1>6

LEMMA GameKeeps == ASSUME IInv, OfTheGame PROVE Increasing' /\ Complete'
<1>1. PICK c \in Kinds : Request(c)
  BY DEF OfTheGame
<1>2. /\ OnTheWay' = OnTheWay + 1 /\ Len(issued') = Len(issued) + 1
      /\ \A p \in 1 .. OnTheWay : Way'[p] = Way[p]
      /\ Way'[OnTheWay + 1] = Len(issued) + 1
      /\ gone' = gone /\ applied' = applied /\ faults' = faults
  BY <1>1, RequestJoins DEF IInv, Request, serverVars
<1>3. /\ OnTheWay \in Nat /\ Len(issued) \in Nat /\ gone \in Nat /\ applied \in 0 .. Len(issued)
      /\ Places = 1 .. OnTheWay /\ Places' = 1 .. OnTheWay'
  BY QueueLengths DEF IInv, Typed, Places
<1>4. \A p \in 1 .. OnTheWay : Way[p] \in 1 .. Len(issued)
  BY <1>3 DEF IInv, Increasing
<1>5. Increasing'
  <2>1. \A p \in Places' : Way'[p] \in 1 .. Len(issued')
    BY <1>2, <1>3, <1>4
  <2>2. ASSUME NEW p \in Places', NEW q \in Places', p < q
        PROVE  Way'[p] < Way'[q]
    <3>1. p \in 1 .. OnTheWay /\ Way'[p] = Way[p] /\ Way[p] \in 1 .. Len(issued)
      BY <1>2, <1>3, <1>4, <2>2
    <3>2. CASE q \in 1 .. OnTheWay
      BY <1>2, <1>3, <2>2, <3>1, <3>2 DEF IInv, Increasing
    <3>3. CASE q = OnTheWay + 1
      BY <1>2, <1>3, <3>1, <3>3
    <3> QED
      BY <1>2, <1>3, <3>2, <3>3
  <2>3. gone' + OnTheWay' <= Len(issued')
    BY <1>2, <1>3 DEF IInv, Increasing
  <2> QED
    BY <2>1, <2>2, <2>3 DEF Increasing
<1>6. Complete'
  <2> SUFFICES ASSUME Never({"copied", "swapped"})'
               PROVE  /\ \A p \in Places' : applied < Way'[p] /\ Way'[p] <= applied + p + gone
                      /\ Len(issued') <= applied + OnTheWay' + gone
    BY <1>2 DEF Complete
  <2>1. /\ \A p \in Places : applied < Way[p] /\ Way[p] <= applied + p + gone
        /\ Len(issued) <= applied + OnTheWay + gone
    BY <1>2 DEF IInv, Complete, Never
  <2>2. ASSUME NEW p \in Places'
        PROVE  applied < Way'[p] /\ Way'[p] <= applied + p + gone
    <3>1. CASE p \in 1 .. OnTheWay
      BY <1>2, <1>3, <2>1, <3>1
    <3>2. CASE p = OnTheWay + 1
      BY <1>2, <1>3, <2>1, <3>2
    <3> QED
      BY <1>2, <1>3, <3>1, <3>2
  <2> QED
    BY <1>2, <1>3, <2>1, <2>2
<1> QED
  BY <1>5, <1>6

LEMMA ClientKeeps == ASSUME IInv, OfTheClient PROVE Increasing' /\ Complete'
<1>1. Skips(1, 0)
  <2>1. CASE SendQueued
    BY <2>1, SendSkips DEF IInv
  <2>2. CASE ReadBatchOfEvents
    BY <2>2, ReadSkips DEF IInv
  <2>3. CASE GiveUp \/ Connect \/ \E n \in 0 .. CommandsPerTick : Polls(n)
    BY <2>3, NothingSkips DEF IInv, GiveUp, Connect, Polls, clientVars
  <2> QED
    BY <2>1, <2>2, <2>3 DEF OfTheClient
<1>2. UNCHANGED <<issued, gone, applied, faults>>
  BY DEF OfTheClient, GiveUp, Connect, Polls, SendQueued, ReadBatchOfEvents, serverVars
<1>3. gone' = gone + 0 /\ 1 + 0 <= OnTheWay + 1
  BY <1>2, QueueLengths DEF IInv, Typed
<1>4. Never({"copied", "swapped"})' => Never({"copied", "swapped"})
  BY <1>2 DEF Never
<1> QED
  BY <1>1, <1>2, <1>3, <1>4, SkipKeeps DEF IInv

LEMMA AgainKeeps == ASSUME IInv, StartsAgain PROVE Increasing' /\ Complete'
<1> DEFINE n == Len(pending_commands) + Len(events)
<1>1. Skips(Len(net) + 1, n)
  BY AgainSkips DEF IInv, StartsAgain
<1>2. issued' = issued /\ gone' = gone + n /\ applied' = applied
  BY QueueLengths DEF StartsAgain, ClientAgain, serverVars, IInv, Typed
<1>3. n \in Nat /\ Len(net) + 1 \in Nat \ {0} /\ Len(net) + 1 + n <= OnTheWay + 1
  BY QueueLengths DEF IInv, OnTheWay
<1>4. Never({"copied", "swapped"})' => Never({"copied", "swapped"})
  BY FaultsGrow DEF StartsAgain, IInv, Never, FaultKinds
<1> QED
  BY <1>1, <1>2, <1>3, <1>4, SkipKeeps DEF IInv

(* An arrival.  In order, what is executed is the first on its way.        *)
LEMMA ExecuteKeeps ==
  ASSUME IInv, NEW k \in DOMAIN net, NEW copied \in BOOLEAN, NEW o \in Outcomes,
         RecvCommand(k, copied, o)
  PROVE  Increasing' /\ Complete'
<1>1. /\ issued' = issued /\ gone' = gone /\ applied' = net[k].index
      /\ pending_commands' = pending_commands /\ events' = events
      /\ Typed /\ Increasing /\ Complete
  BY DEF RecvCommand, clientVars, IInv
<1>2. k \in 1 .. Len(net) /\ k \in Places /\ Way[k] = net[k].index /\ OnTheWay \in Nat
      /\ Len(issued) \in Nat /\ gone \in Nat /\ applied \in Nat /\ Places = 1 .. OnTheWay
  BY <1>1, QueueLengths, LenProperties, Parts DEF Typed, Places
<1>3. CASE copied
  <2>1. OnTheWay' = OnTheWay /\ Way' = Way /\ Places' = Places
    BY <1>1, <1>3 DEF RecvCommand, OnTheWay, Places, Way
  <2>2. Increasing'
    BY <1>1, <2>1 DEF Increasing
  <2>3. ~ Never({"copied", "swapped"})'
    BY <1>1, <1>3, FaultsGrow DEF RecvCommand, Never, FaultKinds
  <2> QED
    BY <2>2, <2>3 DEF Complete
<1>4. CASE ~ copied
  <2>1. Skips(k, 1)
    BY <1>1, <1>4, ArrivalSkips DEF RecvCommand
  <2>2. OnTheWay' = OnTheWay - 1 /\ Places' = 1 .. OnTheWay - 1
    BY <2>1 DEF Skips, Places
  <2>3. ASSUME NEW p \in Places'
        PROVE  /\ p < k => Way'[p] = Way[p] /\ p \in Places
               /\ p >= k => Way'[p] = Way[p + 1] /\ p + 1 \in Places
    BY <1>2, <2>1, <2>2 DEF Skips
  <2>4. Increasing'
    <3>1. \A p \in Places : Way[p] \in 1 .. Len(issued)
      BY <1>1 DEF Increasing
    <3>2. ASSUME NEW p \in Places'
          PROVE  Way'[p] \in 1 .. Len(issued')
      <4>1. p \in Int
        BY <2>2
      <4>2. \E q \in Places : Way'[p] = Way[q]
        BY <1>2, <2>3, <4>1
      <4> QED
        BY <1>1, <3>1, <4>2
    <3>3. ASSUME NEW p \in Places', NEW q \in Places', p < q
          PROVE  Way'[p] < Way'[q]
      <4>1. PICK r \in Places : Way'[p] = Way[r] /\ r = IF p < k THEN p ELSE p + 1
        BY <1>2, <2>2, <2>3
      <4>2. PICK t \in Places : Way'[q] = Way[t] /\ t = IF q < k THEN q ELSE q + 1
        BY <1>2, <2>2, <2>3
      <4>3. r < t
        BY <1>2, <2>2, <3>3, <4>1, <4>2
      <4> QED
        BY <1>1, <4>1, <4>2, <4>3 DEF Increasing
    <3>4. gone' + OnTheWay' <= Len(issued')
      BY <1>1, <1>2, <2>2 DEF Increasing
    <3> QED
      BY <3>2, <3>3, <3>4 DEF Increasing
  <2>5. Complete'
    <3> SUFFICES ASSUME Never({"copied", "swapped"})'
                 PROVE  /\ \A p \in Places' : applied' < Way'[p] /\ Way'[p] <= applied' + p + gone
                        /\ Len(issued) <= applied' + OnTheWay' + gone
      BY <1>1 DEF Complete
    <3>1. k = 1 /\ Never({"copied", "swapped"})
      <4>1. \A f \in {"copied", "swapped"} : faults'[f] = 0
        BY DEF Never
      <4>2. \A f \in {"copied", "swapped"} : faults[f] = 0 /\ ~ (f = "swapped" /\ k > 1)
        BY <1>1, <4>1, FaultsGrow DEF RecvCommand, FaultKinds
      <4> QED
        BY <1>2, <4>2 DEF Never
    <3>2. /\ \A p \in Places : applied < Way[p] /\ Way[p] <= applied + p + gone /\ Way[p] \in Nat
          /\ Len(issued) <= applied + OnTheWay + gone
      BY <1>1, <1>2, <3>1 DEF Complete, Increasing
    <3>3. applied' = Way[1] /\ 1 \in Places /\ applied' \in Nat /\ applied + 1 <= applied'
      BY <1>1, <1>2, <3>1, <3>2
    <3>4. ASSUME NEW p \in Places'
          PROVE  applied' < Way'[p] /\ Way'[p] <= applied' + p + gone
      <4>1. p \in Int /\ p >= 1 /\ p + 1 \in Places /\ Way'[p] = Way[p + 1]
        BY <1>2, <2>2, <2>3, <3>1
      <4>2. Way[1] < Way[p + 1]
        BY <1>1, <3>3, <4>1 DEF Increasing
      <4>3. Way[p + 1] <= applied + (p + 1) + gone /\ Way[p + 1] \in Nat
        BY <3>2, <4>1
      <4>4. Way'[p] \in Nat /\ applied' < Way'[p] /\ Way'[p] <= applied + (p + 1) + gone
        BY <3>3, <4>1, <4>2, <4>3
      <4> QED
        BY <1>2, <3>3, <4>1, <4>4
    <3>5. Len(issued) <= applied' + OnTheWay' + gone
      <4>1. Len(issued) <= applied + OnTheWay + gone
        BY <3>2
      <4> QED
        BY <1>2, <2>2, <3>3, <4>1
    <3> QED
      BY <3>4, <3>5
  <2> QED
    BY <2>4, <2>5
<1> QED
  BY <1>3, <1>4

LEMMA ServerKeeps == ASSUME IInv, Server PROVE Increasing' /\ Complete'
<1>1. ASSUME NEW k \in DOMAIN net, Lose(k)
      PROVE  Increasing' /\ Complete'
  <2>1. UNCHANGED <<pending_commands, events, issued, applied>> /\ gone' = gone + 1
    BY <1>1 DEF Lose, clientVars, serverVars
  <2>2. Skips(k, 1) /\ k \in Places
    BY <1>1, <2>1, ArrivalSkips DEF Lose, IInv
  <2>3. k \in Nat \ {0} /\ k + 1 <= OnTheWay + 1
    BY <2>2, QueueLengths DEF Places, IInv
  <2>4. Never({"copied", "swapped"})' => Never({"copied", "swapped"})
    BY <1>1, FaultsGrow DEF Lose, IInv, Never, FaultKinds
  <2> QED
    BY <2>1, <2>2, <2>3, <2>4, SkipKeeps DEF IInv
<1>2. ASSUME NEW u \in 0 .. Len(net), RestartServer(u)
      PROVE  Increasing' /\ Complete'
  <2>1. UNCHANGED <<issued, applied>> /\ gone' = gone + u
    BY <1>2 DEF RestartServer
  <2>2. Skips(1, u)
    BY <1>2, ReopenSkips DEF IInv
  <2>3. u \in Nat /\ 1 + u <= OnTheWay + 1
    BY QueueLengths DEF OnTheWay, IInv
  <2>4. Never({"copied", "swapped"})' => Never({"copied", "swapped"})
    BY <1>2, FaultsGrow DEF RestartServer, IInv, Never, FaultKinds
  <2> QED
    BY <2>1, <2>2, <2>3, <2>4, SkipKeeps DEF IInv
<1> QED
  BY <1>1, <1>2, ExecuteKeeps DEF Server, Arrival

LEMMA StepKeeps == IInv /\ [Next]_vars => IInv'
<1> SUFFICES ASSUME IInv, [Next]_vars
             PROVE  IInv'
  OBVIOUS
<1>1. CASE Next
  <2>1. OfTheGame \/ OfTheClient \/ StartsAgain \/ Server
    BY <1>1, Operations DEF IInv
  <2>2. Typed'
    BY <2>1, GameTyped, ClientTyped, AgainTyped, ServerTyped DEF IInv
  <2>3. Counted'
    BY <2>1, <2>2, CountedKeeps DEF IInv
  <2> QED
    BY <2>1, <2>2, <2>3, GameKeeps, ClientKeeps, AgainKeeps, ServerKeeps DEF IInv
<1>2. CASE UNCHANGED vars
  <2>1. UNCHANGED <<game, waiting, expired, issued, events, life, connected, pending_commands,
                    next_command_seq, budget, first, net, device, rejected, applied, faults, gone>>
    BY <1>2 DEF vars, gameVars, clientVars, serverVars
  <2>2. OnTheWay' = OnTheWay /\ Way' = Way /\ Places' = Places /\ AllFaults' = AllFaults
    BY <2>1 DEF OnTheWay, Way, Places, AllFaults
  <2>3. Typed' /\ Counted'
    BY <2>1, <2>2 DEF IInv, Typed, Counted
  <2>4. Increasing' /\ Complete'
    BY <2>1, <2>2 DEF IInv, Increasing, Complete, Never
  <2> QED
    BY <2>3, <2>4 DEF IInv
<1> QED
  BY <1>1, <1>2

(* The invariant: what is on its way is in order and complete.             *)
THEOREM Invariance == Spec => []IInv
BY Initially, StepKeeps, PTL DEF Spec

(* Every variable holds a value of its kind: a command on its way stands   *)
(* for a request that was made, of this client or an earlier one.          *)
THEOREM TypeCorrect == Spec => []TypeOK
<1>1. IInv => TypeOK
  <2> SUFFICES ASSUME IInv
               PROVE  TypeOK
    OBVIOUS
  <2>1. /\ Len(events) \in Nat /\ Len(issued) \in Nat /\ OnTheWay \in Nat /\ Len(issued) <= MaxRequests
        /\ first \in Nat \ {0} /\ next_command_seq \in Nat /\ MaxRequests \in Nat /\ MaxFaults \in Nat
        /\ gone \in Nat /\ life \in Nat \ {0}
        /\ DOMAIN issued = 1 .. Len(issued)
    BY QueueLengths, LenProperties, PathAssumption DEF IInv, Typed
  <2>2. first \in 1 .. MaxRequests + 1 /\ next_command_seq \in 0 .. MaxRequests
    BY <2>1 DEF IInv, Counted
  <2>3. gone \in 0 .. MaxRequests
    BY <2>1 DEF IInv, Increasing
  <2>4. faults \in [FaultKinds -> 0 .. MaxFaults]
    <3>1. /\ faults \in [FaultKinds -> Nat] /\ AllFaults <= MaxFaults
      BY DEF IInv, Typed
    <3>2. \A f \in FaultKinds : faults[f] \in Nat
      BY <3>1
    <3>3. \A f \in FaultKinds : faults[f] <= AllFaults
      BY <3>2 DEF FaultKinds, AllFaults
    <3>4. AllFaults \in Nat
      BY <3>2 DEF FaultKinds, AllFaults
    <3>5. \A f \in FaultKinds : faults[f] \in 0 .. MaxFaults
      BY <2>1, <3>1, <3>2, <3>3, <3>4
    <3> QED
      BY <3>1, <3>5
  <2>5. ASSUME NEW c \in ToSet(pending_commands \o net)
        PROVE  c.index \in DOMAIN issued /\ c.life \in 1 .. life
    <3>1. /\ pending_commands \in Seq(Datagrams) /\ net \in Seq(Datagrams)
          /\ Len(pending_commands) \in Nat /\ Len(net) \in Nat
      BY QueueLengths DEF IInv, Typed
    <3>2. PICK i \in 1 .. Len(pending_commands) + Len(net) : c = (pending_commands \o net)[i]
      BY <3>1, ConcatProperties, LenProperties DEF ToSet
    <3>3. \/ \E j \in 1 .. Len(pending_commands) : c = pending_commands[j]
          \/ \E j \in 1 .. Len(net) : c = net[j]
      <4>1. CASE i <= Len(pending_commands)
        BY <3>1, <3>2, <4>1, ConcatProperties
      <4>2. CASE ~ i <= Len(pending_commands)
        <5>1. i - Len(pending_commands) \in 1 .. Len(net)
          BY <3>1, <4>2
        <5> QED
          BY <3>1, <3>2, <4>2, <5>1, ConcatProperties
      <4> QED
        BY <4>1, <4>2
    <3>4. CASE \E j \in 1 .. Len(pending_commands) : c = pending_commands[j]
      <4>1. PICK j \in 1 .. Len(pending_commands) : c = pending_commands[j]
        BY <3>4
      <4>2. c.index \in 1 .. Len(issued)
        BY <4>1, Parts DEF IInv, Increasing
      <4>3. c \in Datagrams /\ c.life <= life
        BY <3>1, <4>1, LenProperties, ElementOfSeq DEF IInv, Typed
      <4> QED
        BY <2>1, <4>2, <4>3 DEF Datagrams
    <3>5. CASE \E j \in 1 .. Len(net) : c = net[j]
      <4>1. PICK j \in 1 .. Len(net) : c = net[j]
        BY <3>5
      <4>2. c.index \in 1 .. Len(issued)
        BY <4>1, Parts DEF IInv, Increasing
      <4>3. c \in Datagrams /\ c.life <= life
        BY <3>1, <4>1, LenProperties, ElementOfSeq DEF IInv, Typed
      <4> QED
        BY <2>1, <4>2, <4>3 DEF Datagrams
    <3> QED
      BY <3>3, <3>4, <3>5
  <2>6. applied \in 0 .. MaxRequests /\ budget \in 0 .. CommandsPerTick
    BY <2>1 DEF IInv, Typed
  <2> QED
    BY <2>1, <2>2, <2>3, <2>4, <2>5, <2>6 DEF IInv, Typed, TypeOK
<1> QED
  BY <1>1, Invariance, PTL

-----------------------------------------------------------------------------
(* Every step is a step of CommandLog or leaves it alone.                  *)
LEMMA SameWheel ==
  /\ Promise!OpenedDevice = OpenedDevice /\ Promise!Kinds = Kinds
  /\ \A d, c, o : Promise!Applied(d, c, o) = Applied(d, c, o)
<1>1. \A d, e, s : Promise!Put(d, e, s) = Put(d, e, s)
  BY DEF Promise!Put, Put
<1>2. /\ \A d, e, o : Promise!upload_effect(d, e, o) = upload_effect(d, e, o)
      /\ \A d, e : Promise!erase_effect(d, e) = erase_effect(d, e)
      /\ \A d, e, o : Promise!play_effect(d, e, o) = play_effect(d, e, o)
      /\ \A d, e, o : Promise!stop_effect(d, e, o) = stop_effect(d, e, o)
  BY <1>1 DEF Promise!upload_effect, Promise!erase_effect, Promise!play_effect, Promise!stop_effect,
              upload_effect, erase_effect, play_effect, stop_effect
<1>3. /\ \A d, g, o : Promise!set_gain(d, g, o) = set_gain(d, g, o)
      /\ \A d, m, o : Promise!set_autocenter(d, m, o) = set_autocenter(d, m, o)
      /\ \A d, o : Promise!reset_ffb(d, o) = reset_ffb(d, o)
  BY DEF Promise!set_gain, Promise!set_autocenter, Promise!reset_ffb, set_gain, set_autocenter, reset_ffb
<1>4. \A d, c, o : Promise!Applied(d, c, o) = Applied(d, c, o)
  BY <1>2, <1>3 DEF Promise!Applied, Applied
<1> QED
  BY <1>4 DEF Promise!OpenedDevice, OpenedDevice, Promise!Kinds, Kinds

LEMMA InitPromise == Init => Promise!Init
<1>1. Init => Never({"copied", "swapped"})
  BY DEF Init, Never, FaultKinds
<1> QED
  BY <1>1, SameWheel DEF Init, Promise!Init

LEMMA StepPromise == ASSUME IInv, IInv', [Next]_vars PROVE [Promise!Next]_Promise!vars
<1> DEFINE orderly == Never({"copied", "swapped"})
<1>1. Typed /\ Len(issued) \in Nat /\ gone \in Nat
      /\ Len(net) \in Nat /\ Len(pending_commands) \in Nat /\ Len(events) \in Nat
      /\ OnTheWay = Len(net) + Len(pending_commands) + Len(events) /\ OnTheWay <= Len(issued)
  <2>1. Typed /\ gone + OnTheWay <= Len(issued) /\ gone \in Nat
    BY DEF IInv, Increasing, Typed
  <2>2. /\ Len(issued) \in Nat /\ OnTheWay \in Nat
        /\ Len(net) \in Nat /\ Len(pending_commands) \in Nat /\ Len(events) \in Nat
    BY <2>1, QueueLengths
  <2>3. OnTheWay <= Len(issued)
    BY <2>1, <2>2
  <2> QED
    BY <2>1, <2>2, <2>3 DEF OnTheWay
<1>2. ASSUME NEW kinds, Faults(kinds), "copied" \notin kinds, "swapped" \notin kinds
      PROVE  orderly' = orderly
  <2>0. faults \in [FaultKinds -> Nat]
    BY DEF IInv, Typed
  <2>1. \A f \in {"copied", "swapped"} : faults'[f] = faults[f] /\ f \in FaultKinds
    BY <1>2, <2>0 DEF Faults, FaultKinds
  <2> QED
    BY <2>1 DEF Never
<1>3. ASSUME OfTheGame
      PROVE  Promise!Next
  <2>1. PICK c \in Kinds : Request(c)
    BY <1>3 DEF OfTheGame
  <2>2. Promise!Issue(c)
    BY <2>1 DEF Request, serverVars, Promise!Issue, Never
  <2> QED
    BY <2>2, SameWheel DEF Promise!Next
<1>4. ASSUME OfTheClient
      PROVE  UNCHANGED Promise!vars
  <2>1. UNCHANGED <<issued, applied, device, gone, faults>>
    BY <1>4 DEF OfTheClient, GiveUp, Connect, Polls, SendQueued, ReadBatchOfEvents, serverVars
  <2> QED
    BY <2>1 DEF Promise!vars, Never
<1>5. ASSUME StartsAgain
      PROVE  Promise!Next
  <2> DEFINE n == Len(pending_commands) + Len(events)
  <2>1. gone' = gone + n /\ UNCHANGED <<issued, applied, device>>
    BY <1>1, <1>5 DEF StartsAgain, ClientAgain, serverVars
  <2>2. orderly' = orderly
    BY <1>2, <1>5 DEF StartsAgain, Never
  <2>3. n \in 0 .. Len(issued)
    BY <1>1
  <2>4. Promise!Lose(n)
    BY <2>1, <2>2 DEF Promise!Lose
  <2> QED
    BY <2>3, <2>4 DEF Promise!Next
<1>6. ASSUME NEW k \in DOMAIN net, Lose(k)
      PROVE  Promise!Next
  <2>1. Promise!Lose(1)
    BY <1>2, <1>6 DEF Lose, serverVars, clientVars, Promise!Lose
  <2>2. 1 \in 0 .. Len(issued)
    BY <1>1, LenProperties DEF Typed
  <2> QED
    BY <2>1, <2>2 DEF Promise!Next
<1>7. ASSUME NEW u \in 0 .. Len(net), RestartServer(u)
      PROVE  Promise!Next
  <2>1. Promise!Reopen(u)
    BY <1>2, <1>7, SameWheel DEF RestartServer, Promise!Reopen
  <2>2. u \in 0 .. Len(issued)
    BY <1>1
  <2> QED
    BY <2>1, <2>2 DEF Promise!Next
<1>8. ASSUME NEW k \in DOMAIN net, NEW copied \in BOOLEAN, NEW o \in Outcomes,
             RecvCommand(k, copied, o)
      PROVE  Promise!Next
  <2> DEFINE i == net[k].index
  <2>1. k \in 1 .. Len(net) /\ k \in Places /\ Way[k] = i /\ i \in 1 .. Len(issued)
    BY <1>1, LenProperties, Parts DEF Typed, IInv, Increasing
  <2>2. orderly' => orderly /\ k = 1
    <3> SUFFICES ASSUME orderly'
                 PROVE  orderly /\ k = 1
      OBVIOUS
    <3>1. \A f \in {"copied", "swapped"} : faults'[f] = 0
      BY DEF Never
    <3>2. \A f \in {"copied", "swapped"} : faults[f] = 0 /\ ~ (f = "swapped" /\ k > 1)
      BY <1>1, <1>8, <3>1, FaultsGrow DEF RecvCommand, FaultKinds
    <3> QED
      BY <1>1, <2>1, <3>2 DEF Never
  <2>3. orderly' => i > applied /\ i <= applied + 1 + gone
    BY <2>1, <2>2 DEF IInv, Complete
  <2>4. /\ applied' = i /\ device' = Applied(device, issued[i], o) /\ issued' = issued /\ gone' = gone
    BY <1>8 DEF RecvCommand
  <2>5. Promise!Execute(i, o)
    BY <2>2, <2>3, <2>4, SameWheel DEF Promise!Execute
  <2>6. i \in DOMAIN issued
    BY <2>1, LenProperties DEF IInv, Typed
  <2> QED
    BY <2>5, <2>6 DEF Promise!Next
<1>9. ASSUME UNCHANGED vars
      PROVE  UNCHANGED Promise!vars
  BY <1>9 DEF vars, serverVars, Promise!vars, Never
<1> QED
  BY <1>1, <1>3, <1>4, <1>5, <1>6, <1>7, <1>8, <1>9, Operations DEF Server, Arrival

(* The bridge implements the promise of CommandLog: the wheel executes the *)
(* games' requests in order, each once, and misses no more of them than    *)
(* the network and the restarts have lost.                                 *)
THEOREM InRequestOrderHolds == Spec => InRequestOrder
<1>1. IInv /\ IInv' /\ [Next]_vars => [Promise!Next]_Promise!vars
  BY StepPromise
<1> QED
  BY <1>1, InitPromise, Invariance, PTL DEF Spec, InRequestOrder, Promise!Spec

-----------------------------------------------------------------------------
(* Ids.  What is on its way was on its way before, or has just been        *)
(* numbered.                                                               *)
LEMMA Transit ==
  ASSUME Typed
  PROVE  /\ \A c \in InTransit : c \in Datagrams /\ c.life <= life
         /\ \A i \in 1 .. Len(net) : net[i] \in InTransit
         /\ \A i \in 1 .. Len(pending_commands) : pending_commands[i] \in InTransit
         /\ InTransit = {net[i] : i \in 1 .. Len(net)} \cup
                         {pending_commands[i] : i \in 1 .. Len(pending_commands)}
<1>1. DOMAIN net = 1 .. Len(net) /\ DOMAIN pending_commands = 1 .. Len(pending_commands)
  BY LenProperties DEF Typed
<1>2. InTransit = {net[i] : i \in 1 .. Len(net)} \cup
                  {pending_commands[i] : i \in 1 .. Len(pending_commands)}
  BY <1>1 DEF InTransit, ToSet
<1>3. \A c \in InTransit : c \in Datagrams /\ c.life <= life
  BY <1>1, <1>2, QueueLengths DEF Typed
<1> QED
  BY <1>2, <1>3

LEMMA NoWrap == ASSUME NEW n \in Nat, NEW size \in Nat, n < size PROVE n % size = n
OBVIOUS

LEMMA ReadNumbers ==
  ASSUME IInv, ReadBatchOfEvents, MaxRequests <= PayloadSize, NEW c \in InTransit'
  PROVE  c \in InTransit \/ (c.life = life /\ c.index = first + c.command_id[2])
<1>1. PICK b \in 1 .. Len(events) :
         /\ Len(net') = Len(net) + 1
         /\ \A p \in 1 .. Len(net) : net'[p] = net[p]
         /\ net'[Len(net) + 1] = Numbered(events[1], next_command_seq)
         /\ Len(pending_commands') = b - 1
         /\ \A p \in 1 .. b - 1 :
              pending_commands'[p] = Numbered(events[p + 1], next_command_seq + p)
  BY Reads DEF IInv
<1>2. /\ Len(events) \in Nat /\ Len(net) \in Nat /\ Len(issued) \in Nat
      /\ next_command_seq \in Nat /\ first \in Nat \ {0}
      /\ Len(issued) <= MaxRequests /\ MaxRequests \in Nat /\ PayloadSize \in Nat
      /\ \A p \in 1 .. Len(events) : events[p] \in 1 .. MaxRequests
      /\ DOMAIN events = 1 .. Len(events)
  BY QueueLengths, LenProperties, PathAssumption DEF IInv, Typed
<1>3. ASSUME NEW p \in 1 .. b, c = Numbered(events[p], next_command_seq + p - 1)
      PROVE  c.life = life /\ c.index = first + c.command_id[2]
  <2> DEFINE n == next_command_seq + p - 1
  <2>1. n \in 0 .. PayloadSize - 1 /\ events[p] = first + n /\ events[p] \in 1 .. MaxRequests
    <3>1. p \in 1 .. Len(events) /\ n \in Nat
      BY <1>2
    <3>2. events[p] = first + next_command_seq + p - 1
      BY <1>2, <3>1 DEF IInv, Counted
    <3>3. events[p] = first + n /\ events[p] \in 1 .. MaxRequests
      BY <1>2, <3>1, <3>2
    <3>4. n + 1 <= MaxRequests
      BY <1>2, <3>1, <3>3
    <3> QED
      BY <1>2, <3>1, <3>3, <3>4
  <2>2. n % PayloadSize = n /\ n \in Nat
    <3>1. n \in Nat /\ PayloadSize \in Nat /\ n < PayloadSize
      BY <1>2, <2>1
    <3> QED
      BY <3>1, NoWrap
  <2> HIDE DEF n
  <2>3. c.index = events[p] /\ c.life = life /\ c.command_id[2] = n % PayloadSize
    BY <1>3, <2>1, <2>2, NumberedType DEF IInv, n
  <2> QED
    BY <2>1, <2>2, <2>3
<1>4. CASE \E i \in 1 .. Len(net) + 1 : c = net'[i]
  <2>1. PICK i \in 1 .. Len(net) + 1 : c = net'[i]
    BY <1>4
  <2>2. CASE i \in 1 .. Len(net)
    BY <1>1, <2>1, <2>2, Transit DEF IInv
  <2>3. CASE i = Len(net) + 1
    <3>1. 1 \in 1 .. b /\ next_command_seq + 1 - 1 = next_command_seq
      BY <1>2
    <3> QED
      BY <1>1, <1>3, <2>1, <2>3, <3>1
  <2> QED
    BY <1>2, <2>2, <2>3
<1>5. CASE \E i \in 1 .. b - 1 : c = pending_commands'[i]
  <2>1. PICK i \in 1 .. b - 1 : c = pending_commands'[i]
    BY <1>5
  <2>2. i + 1 \in 1 .. b /\ next_command_seq + (i + 1) - 1 = next_command_seq + i
    BY <1>2
  <2> QED
    BY <1>1, <1>3, <2>1, <2>2
<1>6. Typed'
  BY ReadTyped DEF IInv
<1>7. InTransit' = {net'[i] : i \in 1 .. Len(net')} \cup
                   {pending_commands'[i] : i \in 1 .. Len(pending_commands')}
  <2>1. /\ DOMAIN net' = 1 .. Len(net') /\ DOMAIN pending_commands' = 1 .. Len(pending_commands')
    BY <1>6, LenProperties DEF Typed
  <2> QED
    BY <2>1 DEF InTransit, ToSet
<1> QED
  BY <1>1, <1>4, <1>5, <1>7

LEMMA IdsKeep ==
  ASSUME IInv, IdsCount, [Next]_vars, MaxRequests <= PayloadSize
  PROVE  IdsCount'
<1>1. ASSUME InTransit' \subseteq InTransit, life' = life, first' = first
      PROVE  IdsCount'
  BY <1>1 DEF IdsCount
<1>2. CASE OfTheGame
  <2>1. InTransit' = InTransit /\ life' = life /\ first' = first
    BY <1>2 DEF OfTheGame, Request, clientVars, InTransit
  <2> QED
    BY <1>1, <2>1
<1>3. CASE GiveUp \/ Connect \/ \E n \in 0 .. CommandsPerTick : Polls(n)
  <2>1. InTransit' = InTransit /\ life' = life /\ first' = first
    BY <1>3 DEF GiveUp, Connect, Polls, clientVars, InTransit
  <2> QED
    BY <1>1, <2>1
<1>4. CASE SendQueued
  <2>1. /\ net \in Seq(Datagrams) /\ pending_commands \in Seq(Datagrams) /\ pending_commands # <<>>
        /\ net' = Append(net, Head(pending_commands)) /\ pending_commands' = Tail(pending_commands)
        /\ Len(net) \in Nat /\ Len(pending_commands) \in Nat \ {0}
    BY <1>4, QueueLengths, EmptySeq DEF SendQueued, Send, IInv, Typed
  <2>2. /\ DOMAIN net' = 1 .. Len(net) + 1
        /\ \A i \in 1 .. Len(net) : net'[i] = net[i]
        /\ net'[Len(net) + 1] = pending_commands[1]
    BY <2>1, HeadTailProperties, AppendProperties, LenProperties
  <2>3. /\ DOMAIN pending_commands' = 1 .. Len(pending_commands) - 1
        /\ \A i \in 1 .. Len(pending_commands) - 1 : pending_commands'[i] = pending_commands[i + 1]
    BY <2>1, HeadTailProperties, LenProperties
  <2>4. ASSUME NEW i \in 1 .. Len(net) + 1
        PROVE  net'[i] \in InTransit
    <3>1. CASE i \in 1 .. Len(net)
      BY <2>2, <3>1, Transit DEF IInv
    <3>2. CASE i = Len(net) + 1
      BY <2>1, <2>2, <3>2, Transit DEF IInv
    <3> QED
      BY <2>1, <3>1, <3>2
  <2>5. ASSUME NEW i \in 1 .. Len(pending_commands) - 1
        PROVE  pending_commands'[i] \in InTransit
    <3>1. i + 1 \in 1 .. Len(pending_commands)
      BY <2>1
    <3> QED
      BY <2>3, <3>1, Transit DEF IInv
  <2>6. /\ \A c \in ToSet(net)' : c \in InTransit
        /\ \A c \in ToSet(pending_commands)' : c \in InTransit
    <3>1. \A c \in ToSet(net)' : c \in InTransit
      BY <2>2, <2>4 DEF ToSet
    <3>2. \A c \in ToSet(pending_commands)' : c \in InTransit
      BY <2>3, <2>5 DEF ToSet
    <3> QED
      BY <3>1, <3>2
  <2>7. InTransit' \subseteq InTransit
    BY <2>6 DEF InTransit
  <2> QED
    BY <1>1, <1>4, <2>7 DEF SendQueued
<1>5. CASE ReadBatchOfEvents
  <2>1. life' = life /\ first' = first /\ life \in Nat
    BY <1>5 DEF ReadBatchOfEvents, IInv, Typed
  <2>2. \A c \in InTransit' : c \in InTransit \/ (c.life = life /\ c.index = first + c.command_id[2])
    BY <1>5, ReadNumbers
  <2>3. \A c \in InTransit' : c.life = life => c.index = first + c.command_id[2]
    BY <2>2 DEF IdsCount
  <2>4. \A c \in InTransit' : c \in Datagrams
    <3>1. Typed'
      BY <1>5, ReadTyped DEF IInv
    <3>2. DOMAIN net' = 1 .. Len(net') /\ DOMAIN pending_commands' = 1 .. Len(pending_commands')
      BY <3>1, LenProperties DEF Typed
    <3>3. /\ \A i \in 1 .. Len(net') : net'[i] \in Datagrams
          /\ \A i \in 1 .. Len(pending_commands') : pending_commands'[i] \in Datagrams
      BY <3>1, ElementOfSeq DEF Typed
    <3> QED
      BY <3>2, <3>3 DEF InTransit, ToSet
  <2>5. ASSUME NEW c \in InTransit', NEW d \in InTransit', c.life = d.life
        PROVE  c.index - c.command_id[2] = d.index - d.command_id[2]
    <3>1. c.command_id[2] \in Nat /\ d.command_id[2] \in Nat /\ first \in Nat
      BY <2>4 DEF Datagrams, IInv, Typed
    <3>2. CASE c.life = life
      <4>1. c.index = first + c.command_id[2] /\ d.index = first + d.command_id[2]
        BY <2>3, <2>5, <3>2
      <4> QED
        BY <3>1, <4>1
    <3>3. CASE c.life # life
      BY <2>2, <2>5, <3>3 DEF IdsCount
    <3> QED
      BY <3>2, <3>3
  <2> QED
    BY <2>1, <2>3, <2>5 DEF IdsCount
<1>6. CASE StartsAgain
  <2>1. life' = life + 1 /\ net' = net /\ ToSet(pending_commands') = {}
    BY <1>6 DEF StartsAgain, ClientAgain, ToSet
  <2>2. InTransit' \subseteq InTransit
    BY <2>1 DEF InTransit
  <2>3. \A c \in InTransit' : c.life # life'
    BY <2>1, <2>2, Transit DEF IInv, Typed, Datagrams
  <2> QED
    BY <2>2, <2>3 DEF IdsCount
<1>7. CASE Server
  <2>1. life' = life /\ first' = first /\ pending_commands' = pending_commands /\ events' = events
    BY <1>7 DEF Server, Arrival, RecvCommand, Lose, RestartServer, clientVars
  <2>2. ASSUME \A i \in DOMAIN net' : \E j \in DOMAIN net : net'[i] = net[j]
        PROVE  IdsCount'
    <3>1. InTransit' \subseteq InTransit
      BY <2>1, <2>2 DEF InTransit, ToSet
    <3> QED
      BY <1>1, <2>1, <3>1
  <2>3. ASSUME NEW k \in DOMAIN net, Lose(k) \/ \E copied \in BOOLEAN, o \in Outcomes : RecvCommand(k, copied, o)
        PROVE  \A i \in DOMAIN net' : \E j \in DOMAIN net : net'[i] = net[j]
    <3>1. net' = net \/ net' = RemoveAt(net, k)
      BY <2>3 DEF Lose, RecvCommand
    <3>2. CASE net' = RemoveAt(net, k)
      BY <2>1, <3>2, ArrivalSkips DEF IInv
    <3> QED
      BY <3>1, <3>2
  <2>4. ASSUME NEW u \in 0 .. Len(net), RestartServer(u)
        PROVE  \A i \in DOMAIN net' : \E j \in DOMAIN net : net'[i] = net[j]
    BY <2>4, ReopenSkips DEF IInv
  <2> QED
    BY <1>7, <2>2, <2>3, <2>4 DEF Server, Arrival
<1>8. CASE UNCHANGED vars
  <2>1. InTransit' = InTransit /\ life' = life /\ first' = first
    BY <1>8 DEF vars, clientVars, InTransit
  <2> QED
    BY <1>1, <2>1
<1> QED
  BY <1>2, <1>3, <1>4, <1>5, <1>6, <1>7, <1>8, Operations DEF IInv, OfTheClient

(* As long as a client does not number more requests than the payload of a *)
(* command_id can tell apart (2^56 in the code), no two commands of it on  *)
(* their way share their id: neither the wrap of the counter nor a restart *)
(* that begins again at 0 lets two requests be taken for one.              *)
THEOREM UniqueIdsHolds == ASSUME MaxRequests <= PayloadSize PROVE Spec => []UniqueIds
<1>1. Init => IdsCount
  BY EmptySeq DEF Init, IdsCount, InTransit, ToSet
<1>2. IInv /\ IdsCount /\ [Next]_vars => IdsCount'
  BY IdsKeep
<1>3. IInv /\ IdsCount => UniqueIds
  <2> SUFFICES ASSUME IInv, IdsCount, NEW j \in DOMAIN (pending_commands \o net),
                      NEW k \in DOMAIN (pending_commands \o net),
                      (pending_commands \o net)[j].life = (pending_commands \o net)[k].life,
                      (pending_commands \o net)[j].command_id = (pending_commands \o net)[k].command_id
               PROVE  (pending_commands \o net)[j].index = (pending_commands \o net)[k].index
    BY DEF UniqueIds
  <2>1. /\ pending_commands \in Seq(Datagrams) /\ net \in Seq(Datagrams)
        /\ Len(pending_commands) \in Nat /\ Len(net) \in Nat
    BY QueueLengths DEF IInv, Typed
  <2>2. ASSUME NEW i \in DOMAIN (pending_commands \o net)
        PROVE  (pending_commands \o net)[i] \in InTransit
    <3>1. i \in 1 .. Len(pending_commands) + Len(net)
      BY <2>1, ConcatProperties, LenProperties
    <3>2. CASE i <= Len(pending_commands)
      BY <2>1, <3>1, <3>2, ConcatProperties, Transit DEF IInv
    <3>3. CASE ~ i <= Len(pending_commands)
      <4>1. i - Len(pending_commands) \in 1 .. Len(net)
        BY <2>1, <3>1, <3>3
      <4> QED
        BY <2>1, <3>1, <3>3, <4>1, ConcatProperties, Transit DEF IInv
    <3> QED
      BY <3>2, <3>3
  <2>3. \A c \in InTransit : c.index \in Int /\ c.command_id[2] \in Int
    BY Transit DEF IInv, Datagrams
  <2> DEFINE c == (pending_commands \o net)[j]
             d == (pending_commands \o net)[k]
  <2>4. c \in InTransit /\ d \in InTransit /\ c.life = d.life /\ c.command_id = d.command_id
    BY <2>2
  <2> HIDE DEF c, d
  <2>5. c.index - c.command_id[2] = d.index - d.command_id[2]
    BY <2>4 DEF IdsCount
  <2>6. c.index = d.index
    BY <2>3, <2>4, <2>5
  <2> QED
    BY <2>6 DEF c, d
<1> QED
  BY <1>1, <1>2, <1>3, Invariance, PTL DEF Spec

-----------------------------------------------------------------------------
(* The game and its kernel.                                                *)
LEMMA Queue ==
  ASSUME IInv
  PROVE  /\ Len(events) \in Nat /\ Len(issued) \in Nat /\ DOMAIN events = 1 .. Len(events)
         /\ events # <<>> => Len(events) > 0 /\ Last(events) = events[Len(events)]
                            /\ Last(events) = Len(issued)
         /\ ToSet(events) = {events[i] : i \in 1 .. Len(events)}
         /\ \A i \in 1 .. Len(events) : events[i] \in 1 .. Len(issued)
         /\ \A i, j \in 1 .. Len(events) : events[i] = events[j] => i = j
<1>1. /\ Len(events) \in Nat /\ Len(issued) \in Nat /\ DOMAIN events = 1 .. Len(events)
      /\ first \in Nat \ {0} /\ next_command_seq \in Nat
  BY QueueLengths, LenProperties DEF IInv, Typed
<1>2. events # <<>> => Len(events) > 0
  BY <1>1, EmptySeq DEF IInv, Typed
<1>3. /\ Len(issued) + 1 = first + next_command_seq + Len(events)
      /\ \A i \in 1 .. Len(events) : events[i] = first + next_command_seq + i - 1
  BY <1>1 DEF IInv, Counted
<1>4. \A i \in 1 .. Len(events) : events[i] \in 1 .. Len(issued)
  BY <1>1, <1>3
<1>5. \A i, j \in 1 .. Len(events) : events[i] = events[j] => i = j
  BY <1>1, <1>3
<1>6. events # <<>> => events[Len(events)] = Len(issued)
  BY <1>1, <1>2, <1>3
<1> QED
  BY <1>1, <1>2, <1>4, <1>5, <1>6 DEF Last, ToSet

LEMMA HeldInitially == Init => Held
BY EmptySeq DEF Init, Held, ToSet

(* Nothing the game waits for is left behind a batch.                      *)
LEMMA BatchAnswers ==
  ASSUME IInv, Held, ReadBatchOfEvents, NEW b \in 1 .. Len(events), Last(Batch) = events[b]
  PROVE  /\ \A i \in 1 .. Len(events) : events[i] \in expired => i > b
         /\ AwaitsAnswer(issued[events[b]]) => b = Len(events)
<1>1. events # <<>> /\ ToSet(Batch) \cap expired = {} /\ Typed
  BY DEF ReadBatchOfEvents, IInv
<1>2. /\ Len(Batch) \in 1 .. Len(events)
      /\ \A p \in 1 .. Len(Batch) : Batch[p] = events[p]
      /\ Last(Batch) = events[Len(Batch)]
  BY <1>1, Batches
<1>3. b = Len(Batch)
  BY <1>2, Queue
<1>4. DOMAIN Batch = 1 .. Len(Batch)
  <2>1. events \in Seq(1 .. MaxRequests) /\ Len(events) \in Nat
    BY <1>1, QueueLengths DEF Typed
  <2>2. (IF Len(events) < ReadBatch THEN Len(events) ELSE ReadBatch) \in 0 .. Len(events)
    BY <2>1, PathAssumption
  <2>3. Batch \in Seq(1 .. MaxRequests)
    BY <2>1, <2>2, Prefix DEF Batch
  <2> QED
    BY <2>3, LenProperties
<1>5. \A i \in 1 .. b : events[i] \notin expired
  BY <1>1, <1>2, <1>3, <1>4 DEF ToSet
<1>6. \A i \in 1 .. Len(events) : events[i] \in expired => i > b
  BY <1>5, Queue
<1>7. AwaitsAnswer(issued[events[b]]) => b = Len(events)
  <2>1. b \in DOMAIN events /\ b \in 1 .. b
    BY Queue
  <2> QED
    BY <1>5, <2>1 DEF Held
<1> QED
  BY <1>6, <1>7

LEMMA HeldKeeps ==
  ASSUME IInv, IInv', Held, OfTheGame \/ OfTheClient \/ StartsAgain \/ Server
  PROVE  Held'
<1>1. CASE OfTheGame
  <2>1. PICK c \in Kinds : Request(c)
    BY <1>1 DEF OfTheGame
  <2>2. /\ waiting = None /\ expired' = expired
        /\ waiting' = IF AwaitsAnswer(c) THEN c.effect_id ELSE None
    BY <2>1 DEF Request
  <2>3. /\ Len(issued') = Len(issued) + 1 /\ issued'[Len(issued) + 1] = c
        /\ \A i \in 1 .. Len(issued) : issued'[i] = issued[i]
        /\ Len(events') = Len(events) + 1 /\ events'[Len(events) + 1] = Len(issued) + 1
        /\ \A i \in 1 .. Len(events) : events'[i] = events[i]
    BY <2>1, RequestJoins DEF IInv
  <2>4. DOMAIN events' = 1 .. Len(events) + 1 /\ Len(events) \in Nat /\ Len(issued) \in Nat
    BY <2>3, Queue, LenProperties DEF IInv, Typed
  <2>5. ASSUME NEW i \in DOMAIN events', AwaitsAnswer(issued'[events'[i]]), events'[i] \notin expired'
        PROVE  i = Len(events') /\ waiting' # None
    <3>1. CASE i \in 1 .. Len(events)
      <4>1. AwaitsAnswer(issued[events[i]]) /\ events[i] \notin expired
        BY <2>2, <2>3, <2>5, <3>1, Queue
      <4> QED
        BY <2>2, <3>1, <4>1, Queue DEF Held
    <3>2. CASE i = Len(events) + 1
      <4>1. AwaitsAnswer(c)
        BY <2>3, <2>5, <3>2
      <4>2. c.effect_id \in Effects
        BY <4>1 DEF AwaitsAnswer, Kinds
      <4> QED
        BY <2>2, <2>3, <3>2, <4>1, <4>2, PathAssumption
    <3> QED
      BY <2>4, <3>1, <3>2
  <2>6. expired \subseteq ToSet(events) /\ ToSet(events) \subseteq 1 .. Len(issued)
    BY Queue DEF Held
  <2>7. expired' \subseteq ToSet(events')
    <3>1. ToSet(events) \subseteq ToSet(events')
      BY <2>3, <2>4, Queue DEF ToSet
    <3> QED
      BY <2>2, <2>6, <3>1
  <2>8. Last(events') = Len(issued) + 1
    BY <2>3 DEF Last
  <2>9. Len(issued) + 1 \notin expired' /\ events' # <<>>
    BY <2>2, <2>4, <2>6
  <2> QED
    BY <2>2, <2>3, <2>5, <2>7, <2>8, <2>9 DEF Held
<1>2. CASE GiveUp
  <2>1. /\ waiting # None /\ waiting' = None /\ expired' = expired \cup {Len(issued)}
        /\ UNCHANGED <<issued, events>>
    BY <1>2 DEF GiveUp
  <2>2. events # <<>> /\ events[Len(events)] = Len(issued) /\ Len(events) \in 1 .. Len(events)
    BY <2>1, Queue DEF Held
  <2>3. Len(issued) \in ToSet(events)
    BY <2>2, Queue
  <2>4. \A i \in DOMAIN events : AwaitsAnswer(issued[events[i]]) => events[i] \in expired'
    BY <2>1, <2>2 DEF Held
  <2> QED
    BY <2>1, <2>3, <2>4 DEF Held
<1>3. CASE ReadBatchOfEvents
  <2>1. PICK b \in 1 .. Len(events) :
           /\ events' \in Seq(1 .. MaxRequests) /\ Len(events') = Len(events) - b
           /\ \A p \in 1 .. Len(events) - b : events'[p] = events[b + p]
           /\ Last(Batch) = events[b]
    BY <1>3, Reads DEF IInv
  <2>2. /\ UNCHANGED <<expired, issued>>
        /\ waiting' = IF AwaitsAnswer(issued[events[b]]) THEN None ELSE waiting
    BY <1>3, <2>1 DEF ReadBatchOfEvents
  <2>3. /\ Len(events) \in Nat /\ b \in Int /\ 1 <= b /\ b <= Len(events)
    BY Queue
  <2>4. DOMAIN events = 1 .. Len(events) /\ DOMAIN events' = 1 .. Len(events) - b
    BY <2>1, Queue, LenProperties
  <2>5. /\ \A i \in 1 .. Len(events) : events[i] \in expired => i > b
        /\ AwaitsAnswer(issued[events[b]]) => b = Len(events)
    BY <1>3, <2>1, BatchAnswers
  <2>6. ASSUME NEW i \in DOMAIN events', AwaitsAnswer(issued'[events'[i]]), events'[i] \notin expired'
        PROVE  i = Len(events') /\ waiting' # None
    <3>1. b + i \in DOMAIN events /\ events'[i] = events[b + i] /\ b < Len(events)
      BY <2>1, <2>3, <2>4
    <3>2. b + i = Len(events) /\ waiting # None
      BY <2>2, <2>6, <3>1 DEF Held
    <3>3. b # Len(events)
      BY <2>3, <3>1
    <3>4. ~ AwaitsAnswer(issued[events[b]])
      BY <2>5, <3>3
    <3>5. i = Len(events')
      <4>1. i \in 1 .. Len(events) - b
        BY <2>4
      <4> QED
        BY <2>1, <2>3, <3>2, <4>1
    <3> QED
      BY <2>2, <3>2, <3>4, <3>5
  <2>7. expired \subseteq ToSet(events')
    <3> SUFFICES ASSUME NEW x \in expired
                 PROVE  x \in ToSet(events')
      OBVIOUS
    <3>1. PICK i \in 1 .. Len(events) : x = events[i]
      BY Queue DEF Held
    <3>2. i > b /\ i \in Int /\ i <= Len(events)
      BY <2>3, <2>5, <3>1
    <3>3. i - b \in 1 .. Len(events) - b /\ b + (i - b) = i
      BY <2>3, <3>2
    <3>4. x = events'[i - b]
      BY <2>1, <3>1, <3>3
    <3> QED
      BY <2>4, <3>3, <3>4 DEF ToSet
  <2>8. ASSUME waiting' # None
        PROVE  /\ events' # <<>> /\ Last(events') \notin expired
               /\ AwaitsAnswer(issued[Last(events')])
    <3>1. waiting # None /\ ~ AwaitsAnswer(issued[events[b]])
      BY <2>2, <2>8
    <3>2. /\ events[Len(events)] \notin expired /\ AwaitsAnswer(issued[events[Len(events)]])
      BY <3>1, Queue DEF Held
    <3>3. b < Len(events)
      BY <2>3, <3>1, <3>2
    <3>4. Len(events) - b \in 1 .. Len(events) - b /\ b + (Len(events) - b) = Len(events)
      BY <2>3, <3>3
    <3>5. Last(events') = events[Len(events)]
      BY <2>1, <3>4 DEF Last
    <3>6. events' # <<>>
      BY <2>1, <3>4, EmptySeq
    <3> QED
      BY <3>2, <3>5, <3>6
  <2> QED
    BY <2>2, <2>6, <2>7, <2>8 DEF Held
<1>4. CASE Connect \/ SendQueued \/ (\E n \in 0 .. CommandsPerTick : Polls(n)) \/ Server
  <2>1. UNCHANGED <<waiting, expired, issued, events>>
    BY <1>4 DEF Connect, SendQueued, Polls, Server, Arrival, RecvCommand, Lose, RestartServer,
                gameVars, clientVars
  <2> QED
    BY <2>1 DEF Held
<1>5. CASE StartsAgain
  <2>1. waiting' = None /\ expired' = {} /\ DOMAIN events' = {}
    BY <1>5 DEF StartsAgain, ClientAgain
  <2> QED
    BY <2>1 DEF Held
<1> QED
  BY <1>1, <1>2, <1>3, <1>4, <1>5 DEF OfTheClient

(* What will be at the wheel stays so.                                     *)
LEMMA StillPresent ==
  ASSUME NEW m \in Nat, \A q \in 1 .. m : issued'[Way'[q]] = issued[Way[q]],
         device' = device, NEW e, NEW p \in 1 .. m + 1
  PROVE  Present(e, p)' <=> Present(e, p)
<1>1. \A kind : \A q \in 1 .. m : IsFor(q, kind, e)' <=> IsFor(q, kind, e)
  BY DEF IsFor
<1>2. \A q \in 1 .. p - 1 : q \in 1 .. m
  OBVIOUS
<1>3. \A q \in 1 .. p - 1 : \A r \in q + 1 .. p - 1 : r \in 1 .. m
  OBVIOUS
<1> QED
  BY <1>1, <1>2, <1>3 DEF Present

(* The wheel executes what is first on its way.                            *)
LEMMA Executing ==
  ASSUME NEW d \in Devices, NEW c \in Kinds, NEW e \in Effects
  PROVE  /\ c.kind = "Upload" /\ c.effect_id = e => Applied(d, c, "ok").effects[e] # "absent"
         /\ ~ (c.kind = "Erase" /\ c.effect_id = e) /\ d.effects[e] # "absent"
              => Applied(d, c, "ok").effects[e] # "absent"
<1>1. c.kind \in {"Upload", "Erase", "Play", "Stop", "SetGain", "SetAutocenter", "ResetState"}
  BY DEF Kinds
<1>2. d.effects \in [Effects -> {"absent", "stopped", "playing"}]
  BY DEF Devices
<1>3. ASSUME NEW f \in Effects, NEW s
      PROVE  Put(d, f, s).effects[e] = IF e = f THEN s ELSE d.effects[e]
  BY <1>2 DEF Put, Devices
<1>4. CASE c.kind \in {"Upload", "Erase", "Play", "Stop"}
  <2>1. c.effect_id \in Effects
    BY <1>4 DEF Kinds
  <2> QED
    BY <1>3, <1>4, <2>1 DEF Applied, upload_effect, erase_effect, play_effect, stop_effect
<1>5. CASE c.kind \in {"SetGain", "SetAutocenter"}
  <2>1. Applied(d, c, "ok").effects = d.effects
    BY <1>5 DEF Applied, set_gain, set_autocenter, Devices
  <2> QED
    BY <1>5, <2>1
<1>6. CASE c.kind = "ResetState"
  <2>1. Applied(d, c, "ok").effects = [f \in Effects |->
          IF d.effects[f] = "playing" THEN "stopped" ELSE d.effects[f]]
    BY <1>6 DEF Applied, reset_ffb, Devices
  <2> QED
    BY <1>6, <2>1
<1> QED
  BY <1>1, <1>4, <1>5, <1>6

LEMMA Rejecting ==
  ASSUME NEW d, NEW c \in Kinds, Rejects(d, c, "ok")
  PROVE  c.kind = "Play" /\ d.effects[c.effect_id] = "absent"
BY DEF Kinds, Rejects

LEMMA Arriving ==
  ASSUME IInv, OnTheWay >= 1, Skips(1, 1), issued' = issued,
         device' = Applied(device, issued[Way[1]], "ok"),
         NEW e \in Effects, NEW p \in 1 .. OnTheWay, Present(e, p + 1)
  PROVE  Present(e, p)'
<1>1. /\ OnTheWay \in Nat /\ 1 \in Places /\ Way[1] \in 1 .. Len(issued)
      /\ issued[Way[1]] \in Kinds /\ device \in Devices
  <2>1. OnTheWay \in Nat /\ 1 \in Places
    BY QueueLengths DEF IInv, Places
  <2>2. Way[1] \in 1 .. Len(issued)
    BY <2>1 DEF IInv, Increasing
  <2> QED
    BY <2>1, <2>2, ElementOfSeq DEF IInv, Typed
<1>2. \A q \in 1 .. OnTheWay - 1 : Way'[q] = Way[q + 1]
  BY <1>1 DEF Skips
<1>3. \A kind : \A q \in 1 .. OnTheWay - 1 : IsFor(q, kind, e)' <=> IsFor(q + 1, kind, e)
  BY <1>2 DEF IsFor
<1>4. ASSUME NEW n \in 1 .. p, \A r \in n + 1 .. p : ~ IsFor(r, "Erase", e)
      PROVE  \A r \in n .. p - 1 : ~ IsFor(r, "Erase", e)'
  <2> SUFFICES ASSUME NEW r \in n .. p - 1
               PROVE  ~ IsFor(r, "Erase", e)'
    OBVIOUS
  <2>1. r \in 1 .. OnTheWay - 1 /\ r + 1 \in n + 1 .. p
    BY <1>1
  <2> QED
    BY <1>3, <1>4, <2>1
<1>5. ASSUME device'.effects[e] # "absent", \A r \in 2 .. p : ~ IsFor(r, "Erase", e)
      PROVE  Present(e, p)'
  <2>1. 1 \in 1 .. p
    BY <1>1
  <2>2. \A r \in 1 .. p - 1 : ~ IsFor(r, "Erase", e)'
    BY <1>4, <1>5, <2>1
  <2> QED
    BY <1>5, <2>2 DEF Present
<1>6. CASE \E q \in 1 .. p : IsFor(q, "Upload", e) /\ \A r \in q + 1 .. p : ~ IsFor(r, "Erase", e)
  <2>1. PICK q \in 1 .. p : IsFor(q, "Upload", e) /\ \A r \in q + 1 .. p : ~ IsFor(r, "Erase", e)
    BY <1>6
  <2>2. CASE q = 1
    <3>1. device'.effects[e] # "absent"
      BY <1>1, <2>1, <2>2, Executing DEF IsFor
    <3> QED
      BY <1>5, <2>1, <2>2, <3>1
  <2>3. CASE q # 1
    <3>1. q - 1 \in 1 .. p - 1 /\ q - 1 \in 1 .. OnTheWay - 1 /\ (q - 1) + 1 = q
      BY <1>1, <2>3
    <3>2. IsFor(q - 1, "Upload", e)'
      BY <1>3, <2>1, <3>1
    <3>3. \A r \in (q - 1) + 1 .. p - 1 : ~ IsFor(r, "Erase", e)'
      BY <1>4, <2>1, <3>1
    <3> QED
      BY <3>1, <3>2, <3>3 DEF Present
  <2> QED
    BY <2>2, <2>3
<1>7. CASE device.effects[e] # "absent" /\ \A r \in 1 .. p : ~ IsFor(r, "Erase", e)
  <2>1. ~ IsFor(1, "Erase", e) /\ \A r \in 2 .. p : ~ IsFor(r, "Erase", e)
    BY <1>1, <1>7
  <2>2. device'.effects[e] # "absent"
    BY <1>1, <1>7, <2>1, Executing DEF IsFor
  <2> QED
    BY <1>5, <2>1, <2>2
<1>8. (p + 1) - 1 = p
  BY <1>1
<1> QED
  BY <1>6, <1>7, <1>8 DEF Present

(* Nothing the kernel has given up on has left its queue.                  *)
LEMMA ExpiredIsQueued ==
  ASSUME IInv, Held
  PROVE  \A p \in 1 .. Len(net) + Len(pending_commands) : Way[p] \notin expired
<1> SUFFICES ASSUME NEW p \in 1 .. Len(net) + Len(pending_commands), Way[p] \in expired
             PROVE  FALSE
  OBVIOUS
<1> DEFINE m == Len(net) + Len(pending_commands)
<1>1. Len(net) \in Nat /\ Len(pending_commands) \in Nat /\ Len(events) \in Nat
  BY QueueLengths DEF IInv
<1>2. PICK i \in 1 .. Len(events) : Way[p] = events[i]
  BY Queue DEF Held
<1>3. m + i \in Places /\ Way[m + i] = events[i]
  BY Parts DEF IInv
<1>4. p \in Places /\ p < m + i
  BY <1>1, <1>3 DEF Places, OnTheWay
<1>5. Way[p] < Way[m + i] /\ Way[p] \in Nat
  BY <1>3, <1>4 DEF IInv, Increasing
<1> QED
  BY <1>2, <1>3, <1>5

(* What the game believes before its request is still true after it.       *)
LEMMA GamePlayable ==
  ASSUME IInv, Held, Playable, OfTheGame
  PROVE  Playable'
<1> SUFFICES ASSUME Never(FaultKinds \ {"client"})'
             PROVE  Playable'
  BY DEF Playable
<1>1. PICK c \in Kinds :
        /\ Request(c)
        /\ \A e \in Effects : game'[e] # "absent" => game[e] # "absent"
        /\ c.kind = "Play" => game[c.effect_id] # "absent"
  BY DEF OfTheGame
<1>2. /\ waiting = None /\ UNCHANGED <<expired, net, pending_commands, device, rejected, faults>>
      /\ OnTheWay' = OnTheWay + 1
      /\ \A p \in 1 .. OnTheWay : Way'[p] = Way[p]
      /\ Way'[OnTheWay + 1] = Len(issued) + 1
      /\ \A i \in 1 .. Len(issued) : issued'[i] = issued[i]
      /\ issued'[Len(issued) + 1] = c
      /\ Len(events') = Len(events) + 1 /\ events'[Len(events) + 1] = Len(issued) + 1
  BY <1>1, RequestJoins DEF Request, clientVars, serverVars, IInv
<1>3. PICK m \in Nat : m = OnTheWay /\ Places = 1 .. m /\ Places' = 1 .. m + 1
  BY <1>2, QueueLengths DEF IInv, Places
<1>4. /\ rejected = {}
      /\ \A p \in Places, e \in Effects :
           IsFor(p, "Play", e) /\ (\A q \in 1 .. p : Way[q] \notin expired) => Present(e, p)
      /\ \A e \in Effects :
           game[e] # "absent" /\ expired = {} /\ ~ Erasing(e) => Present(e, OnTheWay + 1)
  BY <1>2 DEF Playable, Never
<1>5. \A q \in 1 .. m : issued'[Way'[q]] = issued[Way[q]]
  BY <1>2, <1>3 DEF IInv, Increasing
<1>6. \A e \in Effects, p \in 1 .. m + 1 : Present(e, p)' <=> Present(e, p)
  BY <1>2, <1>3, <1>5, StillPresent
<1>7. expired = {} => \A e : ~ Erasing(e)
  BY <1>2, Queue DEF Held, Erasing, AwaitsAnswer
<1>8. \A e \in Effects : game[e] # "absent" /\ expired = {} => Present(e, m + 1)'
  BY <1>3, <1>4, <1>6, <1>7
<1>9. ASSUME NEW p \in Places', NEW e \in Effects,
             IsFor(p, "Play", e)', \A q \in 1 .. p : Way'[q] \notin expired
      PROVE  Present(e, p)'
  <2>1. CASE p \in 1 .. m
    <3>1. IsFor(p, "Play", e)
      BY <1>9, <1>5, <2>1 DEF IsFor
    <3>2. \A q \in 1 .. p : Way[q] \notin expired
      BY <1>2, <1>3, <1>9, <2>1
    <3> QED
      BY <1>3, <1>4, <1>6, <2>1, <3>1, <3>2
  <2>2. CASE p = m + 1
    <3>1. c.kind = "Play" /\ c.effect_id = e
      BY <1>2, <1>3, <1>9, <2>2 DEF IsFor
    <3>2. expired = {}
      <4> SUFFICES ASSUME NEW x \in expired
                   PROVE  FALSE
        OBVIOUS
      <4>1. PICK i \in 1 .. Len(events) : x = events[i]
        BY Queue DEF Held
      <4>2. Len(net) + Len(pending_commands) + i \in Places
            /\ Way[Len(net) + Len(pending_commands) + i] = x
        BY <4>1, Parts DEF IInv
      <4> QED
        BY <1>2, <1>3, <1>9, <2>2, <4>2
    <3> QED
      BY <1>1, <1>8, <2>2, <3>1, <3>2
  <2> QED
    BY <1>3, <2>1, <2>2
<1>10. ASSUME NEW e \in Effects, game'[e] # "absent", expired = {}, ~ Erasing(e)'
       PROVE  Present(e, m + 2)'
  <2>1. Present(e, m + 1)'
    BY <1>1, <1>8, <1>10
  <2>2. ~ IsFor(m + 1, "Erase", e)'
    <3>1. Last(events') = Len(issued) + 1 /\ events' # <<>>
      BY <1>2, <1>3 DEF Last
    <3> QED
      BY <1>2, <1>3, <1>10, <3>1 DEF IsFor, Erasing
  <2>3. ASSUME NEW n \in 1 .. m + 1, \A r \in n .. m : ~ IsFor(r, "Erase", e)'
        PROVE  \A r \in n .. m + 1 : ~ IsFor(r, "Erase", e)'
    BY <1>3, <2>2, <2>3
  <2>4. CASE \E q \in 1 .. m : IsFor(q, "Upload", e)' /\ \A r \in q + 1 .. m : ~ IsFor(r, "Erase", e)'
    <3>1. PICK q \in 1 .. m : IsFor(q, "Upload", e)' /\ \A r \in q + 1 .. m : ~ IsFor(r, "Erase", e)'
      BY <2>4
    <3>2. q + 1 \in 1 .. m + 1 /\ q \in 1 .. m + 1
      BY <1>3
    <3>3. \A r \in q + 1 .. m + 1 : ~ IsFor(r, "Erase", e)'
      BY <2>3, <3>1, <3>2
    <3>4. (m + 2) - 1 = m + 1
      OBVIOUS
    <3> QED
      BY <3>1, <3>2, <3>3, <3>4 DEF Present
  <2>5. CASE device'.effects[e] # "absent" /\ \A r \in 1 .. m : ~ IsFor(r, "Erase", e)'
    <3>1. 1 \in 1 .. m + 1
      BY <1>3
    <3>2. \A r \in 1 .. m + 1 : ~ IsFor(r, "Erase", e)'
      BY <2>3, <2>5, <3>1
    <3>3. (m + 2) - 1 = m + 1
      OBVIOUS
    <3> QED
      BY <2>5, <3>2, <3>3 DEF Present
  <2>6. (m + 1) - 1 = m
    BY <1>3
  <2> QED
    BY <2>1, <2>4, <2>5, <2>6 DEF Present
<1>11. OnTheWay' + 1 = m + 2
  BY <1>2, <1>3
<1> QED
  BY <1>2, <1>4, <1>9, <1>10, <1>11 DEF Playable

(* A client that passes requests on, or gives up on one, changes nothing   *)
(* of that; one that ends an upload has it on its way.                     *)
LEMMA ClientPlayable ==
  ASSUME IInv, Held, Playable, OfTheClient
  PROVE  Playable'
<1> SUFFICES ASSUME Never(FaultKinds \ {"client"})'
             PROVE  Playable'
  BY DEF Playable
<1>1. Skips(1, 0) /\ UNCHANGED <<issued, device, rejected, faults>>
  <2>1. CASE SendQueued
    BY <2>1, SendSkips DEF SendQueued, serverVars, IInv
  <2>2. CASE ReadBatchOfEvents
    BY <2>2, ReadSkips DEF ReadBatchOfEvents, serverVars, IInv
  <2>3. CASE GiveUp \/ Connect \/ \E n \in 0 .. CommandsPerTick : Polls(n)
    BY <2>3, NothingSkips DEF IInv, GiveUp, Connect, Polls, clientVars, serverVars
  <2> QED
    BY <2>1, <2>2, <2>3 DEF OfTheClient
<1>2. PICK m \in Nat : m = OnTheWay /\ Places = 1 .. m
  BY QueueLengths DEF IInv, Places
<1>3. OnTheWay' = m /\ Places' = 1 .. m /\ \A q \in 1 .. m : Way'[q] = Way[q]
  BY <1>1, <1>2 DEF Skips, Places
<1>4. \A e \in Effects, p \in 1 .. m + 1 : Present(e, p)' <=> Present(e, p)
  BY <1>1, <1>3, StillPresent
<1>5. /\ rejected = {}
      /\ \A p \in Places, e \in Effects :
           IsFor(p, "Play", e) /\ (\A q \in 1 .. p : Way[q] \notin expired) => Present(e, p)
      /\ \A e \in Effects :
           game[e] # "absent" /\ expired = {} /\ ~ Erasing(e) => Present(e, OnTheWay + 1)
  BY <1>1 DEF Playable, Never
<1>6. expired \subseteq expired'
  BY DEF OfTheClient, GiveUp, Connect, SendQueued, ReadBatchOfEvents, Polls, gameVars
<1>7. ASSUME NEW p \in Places', NEW e \in Effects,
             IsFor(p, "Play", e)', \A q \in 1 .. p : Way'[q] \notin expired'
      PROVE  Present(e, p)'
  <2>1. IsFor(p, "Play", e)
    BY <1>1, <1>3, <1>7 DEF IsFor
  <2>2. \A q \in 1 .. p : Way[q] \notin expired
    BY <1>3, <1>6, <1>7
  <2> QED
    BY <1>2, <1>3, <1>4, <1>5, <2>1, <2>2
<1>8. ASSUME NEW e \in Effects, game'[e] # "absent", expired' = {}, ~ Erasing(e)'
      PROVE  Present(e, m + 1)'
  <2>1. CASE GiveUp
    BY <1>8, <2>1 DEF GiveUp
  <2>2. CASE Connect \/ SendQueued \/ \E n \in 0 .. CommandsPerTick : Polls(n)
    <3>1. UNCHANGED <<game, expired, events>>
      BY <2>2 DEF Connect, SendQueued, Polls, gameVars
    <3>2. ~ Erasing(e)
      BY <1>1, <1>8, <3>1 DEF Erasing
    <3> QED
      BY <1>2, <1>4, <1>5, <1>8, <3>1, <3>2
  <2>3. CASE ReadBatchOfEvents
    <3>1. PICK b \in 1 .. Len(events) :
             /\ events' \in Seq(1 .. MaxRequests) /\ Len(events') = Len(events) - b
             /\ \A p \in 1 .. Len(events) - b : events'[p] = events[b + p]
             /\ Last(Batch) = events[b]
      BY <2>3, Reads DEF IInv
    <3> DEFINE c == issued[events[b]]
    <3>2. expired = {} /\ game' = Acknowledged(c)
      BY <1>8, <2>3, <3>1 DEF ReadBatchOfEvents
    <3>3. AwaitsAnswer(c) => b = Len(events)
      BY <2>3, <3>1, BatchAnswers
    <3>4. Len(events) \in Nat /\ b \in Int /\ 1 <= b /\ b <= Len(events)
      BY Queue
    <3>5. events # <<>> /\ Last(events) = events[Len(events)]
      BY <2>3 DEF ReadBatchOfEvents, Last
    <3>6. c \in Kinds
      BY <3>4, Queue, ElementOfSeq DEF IInv, Typed
    <3>7. CASE ~ AwaitsAnswer(c)
      <4>1. game' = game
        BY <3>2, <3>7 DEF Acknowledged
      <4>2. ~ Erasing(e)
        <5> SUFFICES ASSUME Erasing(e)
                     PROVE  FALSE
          OBVIOUS
        <5>1. issued[events[Len(events)]].kind = "Erase" /\ issued[events[Len(events)]].effect_id = e
          BY <3>5 DEF Erasing
        <5>2. b # Len(events)
          BY <3>7, <5>1 DEF AwaitsAnswer
        <5>3. Len(events) - b \in 1 .. Len(events) - b /\ b + (Len(events) - b) = Len(events)
          BY <3>4, <5>2
        <5>4. Last(events') = events[Len(events)] /\ events' # <<>>
          BY <3>1, <5>3, EmptySeq DEF Last
        <5> QED
          BY <1>1, <1>8, <5>1, <5>4 DEF Erasing
      <4> QED
        BY <1>2, <1>4, <1>5, <1>8, <3>2, <4>1, <4>2
    <3>8. CASE AwaitsAnswer(c)
      <4>1. b = Len(events) /\ c.kind \in {"Upload", "Erase"} /\ c.effect_id \in Effects
        BY <3>3, <3>6, <3>8 DEF AwaitsAnswer, Kinds
      <4>2. CASE e # c.effect_id
        <5>1. game'[e] = game[e]
          BY <3>2, <3>8, <4>1, <4>2 DEF Acknowledged, IInv, Typed
        <5>2. ~ Erasing(e)
          BY <3>5, <4>1, <4>2 DEF Erasing
        <5> QED
          BY <1>2, <1>4, <1>5, <1>8, <3>2, <5>1, <5>2
      <4>3. CASE e = c.effect_id
        <5>1. c.kind = "Upload"
          BY <1>8, <3>2, <3>8, <4>1, <4>3 DEF Acknowledged, IInv, Typed
        <5>2. m \in 1 .. m /\ Way[m] = events[b]
          <6>1. m = Len(net) + Len(pending_commands) + Len(events)
            BY <1>2 DEF OnTheWay
          <6>2. Len(events) \in 1 .. Len(events)
            BY <3>4
          <6> QED
            BY <1>2, <4>1, <6>1, <6>2, Parts DEF IInv
        <5>3. IsFor(m, "Upload", e)
          BY <4>3, <5>1, <5>2 DEF IsFor
        <5>4. (m + 1) - 1 = m /\ \A r \in m + 1 .. m : FALSE
          OBVIOUS
        <5>5. Present(e, m + 1)
          BY <5>2, <5>3, <5>4 DEF Present
        <5> QED
          BY <1>4, <5>5
      <4> QED
        BY <4>2, <4>3
    <3> QED
      BY <3>7, <3>8
  <2> QED
    BY <2>1, <2>2, <2>3 DEF OfTheClient
<1> QED
  BY <1>1, <1>3, <1>5, <1>7, <1>8 DEF Playable

(* With the client goes all it had promised its games.                     *)
LEMMA AgainPlayable ==
  ASSUME IInv, Held, Playable, StartsAgain
  PROVE  Playable'
<1> SUFFICES ASSUME Never(FaultKinds \ {"client"})'
             PROVE  Playable'
  BY DEF Playable
<1>1. UNCHANGED <<issued, device, rejected>> /\ \A e \in Effects : game'[e] = "absent"
  BY DEF StartsAgain, ClientAgain, serverVars, NoEffects
<1>2. Never(FaultKinds \ {"client"})
  BY FaultsGrow DEF StartsAgain, Never, IInv
<1>3. PICK m \in Nat : m = Len(net) /\ OnTheWay' = m /\ Places' = 1 .. m
  BY AgainSkips, QueueLengths DEF StartsAgain, IInv, Places
<1>4. \A q \in 1 .. m : Way'[q] = Way[q] /\ q \in Places
  BY <1>3, AgainSkips, QueueLengths DEF StartsAgain, IInv, Skips, Places, OnTheWay
<1>5. \A e \in Effects, p \in 1 .. m + 1 : Present(e, p)' <=> Present(e, p)
  BY <1>1, <1>4, StillPresent
<1>6. ASSUME NEW p \in Places', NEW e \in Effects, IsFor(p, "Play", e)'
      PROVE  Present(e, p)'
  <2>1. IsFor(p, "Play", e) /\ p \in Places
    BY <1>1, <1>3, <1>4, <1>6 DEF IsFor
  <2>2. \A q \in 1 .. p : Way[q] \notin expired
    <3>1. \A q \in 1 .. p : q \in 1 .. Len(net) + Len(pending_commands)
      BY <1>3, QueueLengths DEF IInv
    <3> QED
      BY <3>1, ExpiredIsQueued
  <2> QED
    BY <1>2, <1>3, <1>5, <2>1, <2>2 DEF Playable
<1> QED
  BY <1>1, <1>2, <1>6 DEF Playable

(* A wheel that works executes what is first on its way, which it can.     *)
LEMMA ServerPlayable ==
  ASSUME IInv, Held, Playable, Server
  PROVE  Playable'
<1> SUFFICES ASSUME Never(FaultKinds \ {"client"})'
             PROVE  Playable'
  BY DEF Playable
<1>1. \A f \in FaultKinds \ {"client"} : faults'[f] = 0
  BY DEF Never
<1>2. \A kinds : Faults(kinds) => kinds \cap (FaultKinds \ {"client"}) = {}
                              /\ Never(FaultKinds \ {"client"})
  BY <1>1, FaultsGrow DEF IInv, Never
<1>3. \A k \in DOMAIN net : ~ Lose(k)
  BY <1>2 DEF Lose, FaultKinds
<1>4. \A u \in 0 .. Len(net) : ~ RestartServer(u)
  BY <1>2 DEF RestartServer, FaultKinds
<1>5. PICK k \in DOMAIN net, copied \in BOOLEAN, o \in Outcomes : RecvCommand(k, copied, o)
  BY <1>3, <1>4 DEF Server, Arrival
<1>6. ~ copied /\ ~ k > 1 /\ o = "ok" /\ Never(FaultKinds \ {"client"})
  BY <1>2, <1>5 DEF RecvCommand, FaultKinds
<1>7. k = 1 /\ 1 \in 1 .. Len(net) /\ Len(net) \in Nat /\ Typed
  <2>1. k \in 1 .. Len(net) /\ Len(net) \in Nat
    BY QueueLengths, LenProperties DEF IInv, Typed
  <2> QED
    BY <1>6, <2>1 DEF IInv
<1>8. UNCHANGED <<game, expired, issued, events, pending_commands>>
  BY <1>5 DEF RecvCommand, gameVars, clientVars
<1>9. Skips(1, 1) /\ 1 \in Places /\ Way[1] = net[1].index
  BY <1>5, <1>6, <1>7, <1>8, ArrivalSkips DEF RecvCommand
<1>10. PICK m \in Nat : m + 1 = OnTheWay /\ OnTheWay' = m /\ Places = 1 .. m + 1 /\ Places' = 1 .. m
  <2>1. OnTheWay \in Nat /\ OnTheWay >= 1 /\ OnTheWay' = OnTheWay - 1
    BY <1>7, <1>9, QueueLengths DEF Skips, Places
  <2>2. OnTheWay - 1 \in Nat /\ (OnTheWay - 1) + 1 = OnTheWay
    BY <2>1
  <2> QED
    BY <2>1, <2>2 DEF Places
<1> DEFINE c == issued[Way[1]]
<1>11. c \in Kinds /\ device \in Devices
  <2>1. Way[1] \in 1 .. Len(issued)
    BY <1>9 DEF IInv, Increasing
  <2> QED
    BY <1>7, <2>1, ElementOfSeq DEF Typed
<1>12. /\ device' = Applied(device, c, "ok")
       /\ rejected' = IF Rejects(device, c, "ok") THEN rejected \cup {Way[1]} ELSE rejected
  BY <1>5, <1>6, <1>7, <1>9 DEF RecvCommand
<1>13. Way[1] \notin expired
  <2>1. 1 \in 1 .. Len(net) + Len(pending_commands)
    BY <1>7, QueueLengths
  <2> QED
    BY <2>1, ExpiredIsQueued
<1>14. /\ rejected = {}
       /\ \A p \in Places, e \in Effects :
            IsFor(p, "Play", e) /\ (\A q \in 1 .. p : Way[q] \notin expired) => Present(e, p)
       /\ \A e \in Effects :
            game[e] # "absent" /\ expired = {} /\ ~ Erasing(e) => Present(e, OnTheWay + 1)
  BY <1>6 DEF Playable
<1>15. ~ Rejects(device, c, "ok")
  <2> SUFFICES ASSUME c.kind = "Play", device.effects[c.effect_id] = "absent"
               PROVE  FALSE
    BY <1>11, Rejecting
  <2>1. c.effect_id \in Effects
    BY <1>11 DEF Kinds
  <2>2. IsFor(1, "Play", c.effect_id) /\ \A q \in 1 .. 1 : Way[q] \notin expired
    BY <1>13 DEF IsFor
  <2>3. Present(c.effect_id, 1)
    BY <1>9, <1>14, <2>1, <2>2
  <2>4. \A q \in 1 .. 1 - 1 : FALSE
    OBVIOUS
  <2> QED
    BY <2>3, <2>4 DEF Present
<1>16. \A e \in Effects, p \in 1 .. m + 1 : Present(e, p + 1) => Present(e, p)'
  BY <1>8, <1>9, <1>10, <1>12, Arriving
<1>17. \A p \in 1 .. m : Way'[p] = Way[p + 1]
  BY <1>9, <1>10 DEF Skips
<1>18. ASSUME NEW p \in Places', NEW e \in Effects,
              IsFor(p, "Play", e)', \A q \in 1 .. p : Way'[q] \notin expired'
       PROVE  Present(e, p)'
  <2>1. p \in 1 .. m /\ p + 1 \in Places /\ IsFor(p + 1, "Play", e)
    <3>1. p \in 1 .. m /\ p + 1 \in Places
      BY <1>10
    <3> QED
      BY <1>8, <1>17, <1>18, <3>1 DEF IsFor
  <2>2. ASSUME NEW q \in 1 .. p + 1
        PROVE  Way[q] \notin expired
    <3>1. CASE q = 1
      BY <1>13, <3>1
    <3>2. CASE q # 1
      <4>1. q - 1 \in 1 .. p /\ q - 1 \in 1 .. m /\ (q - 1) + 1 = q
        BY <2>1, <3>2
      <4> QED
        BY <1>8, <1>17, <1>18, <4>1
    <3> QED
      BY <3>1, <3>2
  <2> QED
    BY <1>14, <1>16, <2>1, <2>2
<1>19. ASSUME NEW e \in Effects, game'[e] # "absent", expired' = {}, ~ Erasing(e)'
       PROVE  Present(e, m + 1)'
  <2>1. ~ Erasing(e)
    BY <1>8, <1>19 DEF Erasing
  <2>2. Present(e, (m + 1) + 1)
    BY <1>8, <1>10, <1>14, <1>19, <2>1
  <2> QED
    BY <1>16, <2>2
<1> QED
  BY <1>10, <1>12, <1>14, <1>15, <1>18, <1>19 DEF Playable

LEMMA PlayableInitially == Init => Playable
<1>1. Init => Places = {} /\ events = <<>> /\ rejected = {} /\ \A e \in Effects : game[e] = "absent"
  BY EmptySeq DEF Init, Places, OnTheWay, NoEffects
<1> QED
  BY <1>1 DEF Playable

LEMMA PlayableKeeps ==
  ASSUME IInv, IInv', Held, Playable, [Next]_vars
  PROVE  Held' /\ Playable'
<1>1. CASE Next
  <2>1. OfTheGame \/ OfTheClient \/ StartsAgain \/ Server
    BY <1>1, Operations DEF IInv
  <2> QED
    BY <2>1, HeldKeeps, GamePlayable, ClientPlayable, AgainPlayable, ServerPlayable
<1>2. CASE UNCHANGED vars
  <2>1. UNCHANGED <<game, waiting, expired, issued, events, pending_commands, net, device, rejected,
                    faults>>
    BY <1>2 DEF vars, gameVars, clientVars, serverVars
  <2>2. OnTheWay' = OnTheWay /\ Way' = Way /\ Places' = Places
    BY <2>1 DEF OnTheWay, Way, Places
  <2>3. Held'
    BY <2>1 DEF Held
  <2>4. Playable'
    BY <2>1, <2>2 DEF Playable, Never, Present, IsFor, Erasing
  <2> QED
    BY <2>3, <2>4
<1> QED
  BY <1>1, <1>2

(* The bridge asks nothing of a working wheel that the wheel cannot do:    *)
(* with a network that delivers in order and DirectInput calls that        *)
(* succeed, no request is rejected, though the game is told of success     *)
(* long before the wheel hears of the request, though requests queue for   *)
(* a client that has not found its server, though the kernel gives up on   *)
(* some of them, and however often the client is started again.            *)
THEOREM NothingRejectedHolds == Spec => []NothingRejected
<1>1. Init => Held /\ Playable
  BY HeldInitially, PlayableInitially
<1>2. IInv /\ IInv' /\ Held /\ Playable /\ [Next]_vars => (Held /\ Playable)'
  BY PlayableKeeps
<1>3. Playable => NothingRejected
  BY DEF Playable, NothingRejected
<1> QED
  BY <1>1, <1>2, <1>3, Invariance, PTL DEF Spec

-----------------------------------------------------------------------------
(* Of a network that loses nothing and a wheel that works: of the requests *)
(* executed so far, a Play is the last that names an effect if and only if *)
(* the wheel plays it.                                                     *)
Undisturbed == gone = 0 /\ Never(FaultKinds \ {"client"})
Sounding ==
  Undisturbed => \A e \in Effects : device.effects[e] = "playing" <=> PlayedLast(e, applied)

(* Nothing undoes a loss or a fault.                                       *)
LEMMA Undoing ==
  ASSUME IInv, IInv', [Next]_vars, Undisturbed'
  PROVE  Undisturbed
<1>1. gone \in Nat /\ gone' = 0 /\ Typed
  BY DEF IInv, Typed, Undisturbed
<1>2. Never(FaultKinds \ {"client"}) \/ \A kinds : ~ Faults(kinds)
  BY <1>1, FaultsGrow DEF Undisturbed, Never
<1>3. faults' = faults \/ \E kinds : Faults(kinds)
  <2>1. CASE UNCHANGED vars
    BY <2>1 DEF vars
  <2>2. CASE OfTheGame \/ OfTheClient
    BY <2>2 DEF OfTheGame, Request, OfTheClient, GiveUp, Connect, SendQueued, ReadBatchOfEvents,
                Polls
  <2>3. CASE StartsAgain
    BY <2>3 DEF StartsAgain
  <2>4. CASE Server
    BY <2>4 DEF Server, Arrival, RecvCommand, Lose, RestartServer
  <2> QED
    BY <1>1, <2>1, <2>2, <2>3, <2>4, Operations
<1>4. gone' >= gone
  <2>1. Len(pending_commands) \in Nat /\ Len(events) \in Nat /\ Len(net) \in Nat
    BY <1>1, QueueLengths
  <2>2. CASE UNCHANGED vars
    BY <1>1, <2>2 DEF vars
  <2>3. CASE OfTheGame \/ OfTheClient
    BY <1>1, <2>3 DEF OfTheGame, Request, OfTheClient, GiveUp, Connect, SendQueued,
                      ReadBatchOfEvents, Polls
  <2>4. CASE StartsAgain
    BY <1>1, <2>1, <2>4 DEF StartsAgain, ClientAgain
  <2>5. CASE Server
    <3>1. ASSUME NEW k \in DOMAIN net, Lose(k)
          PROVE  gone' >= gone
      BY <1>1, <3>1 DEF Lose
    <3>2. ASSUME NEW u \in 0 .. Len(net), RestartServer(u)
          PROVE  gone' >= gone
      BY <1>1, <2>1, <3>2 DEF RestartServer
    <3>3. CASE Arrival
      BY <1>1, <3>3 DEF Arrival, RecvCommand
    <3> QED
      BY <2>5, <3>1, <3>2, <3>3 DEF Server
  <2> QED
    BY <1>1, <2>2, <2>3, <2>4, <2>5, Operations
<1> QED
  BY <1>1, <1>2, <1>3, <1>4 DEF Undisturbed, Never

(* What the wheel plays after a request it has not rejected.               *)
LEMMA Sounds ==
  ASSUME NEW d \in Devices, NEW c \in Kinds, NEW e \in Effects, ~ Rejects(d, c, "ok"),
         c.kind # "ResetState"
  PROVE  Applied(d, c, "ok").effects[e] = "playing" <=>
           IF Names(c, e) THEN c.kind = "Play" ELSE d.effects[e] = "playing"
<1>1. c.kind \in {"Upload", "Erase", "Play", "Stop", "SetGain", "SetAutocenter"}
  BY DEF Kinds
<1>2. d.effects \in [Effects -> {"absent", "stopped", "playing"}]
  BY DEF Devices
<1>3. ASSUME NEW f \in Effects, NEW s
      PROVE  Put(d, f, s).effects[e] = IF e = f THEN s ELSE d.effects[e]
  BY <1>2 DEF Put, Devices
<1>4. CASE c.kind \in {"Upload", "Erase", "Play", "Stop"}
  <2>1. c.effect_id \in Effects
    BY <1>4 DEF Kinds
  <2> QED
    BY <1>2, <1>3, <1>4, <2>1
    DEF Applied, Rejects, Names, upload_effect, erase_effect, play_effect, stop_effect
<1>5. CASE c.kind \in {"SetGain", "SetAutocenter"}
  <2>1. Applied(d, c, "ok").effects = d.effects
    BY <1>5 DEF Applied, set_gain, set_autocenter, Devices
  <2> QED
    BY <1>5, <2>1 DEF Names
<1> QED
  BY <1>1, <1>4, <1>5

(* No request resets the wheel: games have no such request.                *)
NoReset == \A k \in 1 .. Len(issued) : issued[k].kind # "ResetState"

LEMMA NoResetKeeps ==
  ASSUME IInv, NoReset, [Next]_vars
  PROVE  NoReset'
<1>1. issued \in Seq(Kinds) /\ Len(issued) \in Nat
  BY QueueLengths DEF IInv, Typed
<1>2. ASSUME NEW c, c.kind # "ResetState", Request(c)
      PROVE  NoReset'
  <2>1. /\ issued' = Append(issued, c) /\ Len(issued') = Len(issued) + 1
        /\ \A i \in 1 .. Len(issued) : issued'[i] = issued[i]
        /\ issued'[Len(issued) + 1] = c
    BY <1>1, <1>2 DEF Request
  <2>2. \A k \in 1 .. Len(issued) + 1 : k \in 1 .. Len(issued) \/ k = Len(issued) + 1
    BY <1>1
  <2> QED
    BY <1>2, <2>1, <2>2 DEF NoReset
<1>3. CASE UNCHANGED issued
  BY <1>3 DEF NoReset
<1>4. CASE Game
  <2>1. \A c \in Settings : c.kind # "ResetState"
    BY PathAssumption
  <2> QED
    BY <1>2, <1>3, <1>4, <2>1
    DEF Game, GameUpload, GameErase, GamePlay, GameStop, GameSetting, GiveUp
<1>5. CASE Client
  BY <1>3, <1>5 DEF Client, PollFfb, Connect, FfbTick, SendQueued, NothingToSend,
                    ReadBatchOfEvents, ReadExpired, RestartClient, ClientAgain, Polls
<1>6. CASE Server
  BY <1>3, <1>6 DEF Server, Arrival, RecvCommand, Lose, RestartServer
<1>7. CASE UNCHANGED vars
  BY <1>3, <1>7 DEF vars
<1> QED
  BY <1>4, <1>5, <1>6, <1>7 DEF Next

(* The next request in the order arrives.                                  *)
LEMMA ArrivalSounds ==
  ASSUME IInv, IInv', Held, Playable, Playable', NoReset, Sounding, Server
  PROVE  Sounding'
<1> SUFFICES ASSUME Undisturbed', NEW e \in Effects
             PROVE  device'.effects[e] = "playing" <=> PlayedLast(e, applied)'
  BY DEF Sounding
<1>1. Undisturbed /\ \A f \in FaultKinds \ {"client"} : faults'[f] = 0
  BY Undoing DEF Undisturbed, Never, Next
<1>2. ASSUME NEW kinds, Faults(kinds), NEW f \in FaultKinds \ {"client"}
      PROVE  f \notin kinds
  <2>1. Typed /\ faults'[f] = 0
    BY <1>1 DEF IInv
  <2> QED
    BY <1>2, <2>1, FaultsGrow
<1>3. PICK k \in DOMAIN net, copied \in BOOLEAN, o \in Outcomes : RecvCommand(k, copied, o)
  <2>1. \A k \in DOMAIN net : ~ Lose(k)
    BY <1>2 DEF Lose, FaultKinds
  <2>2. \A u \in 0 .. Len(net) : ~ RestartServer(u)
    BY <1>2 DEF RestartServer, FaultKinds
  <2> QED
    BY <2>1, <2>2 DEF Server, Arrival
<1>4. ~ copied /\ ~ k > 1 /\ o = "ok"
  <2> DEFINE bad == {f \in FaultKinds : \/ f = "copied" /\ copied
                                        \/ f = "swapped" /\ k > 1
                                        \/ f = "failed" /\ o # "ok"}
  <2>1. Faults(bad)
    BY <1>3 DEF RecvCommand
  <2>2. \A f \in FaultKinds \ {"client"} : f \notin bad
    BY <1>2, <2>1
  <2> QED
    BY <2>2 DEF FaultKinds
<1>5. k = 1 /\ 1 \in 1 .. Len(net) /\ Typed /\ applied \in Nat /\ gone = 0
  <2>1. k \in 1 .. Len(net) /\ Len(net) \in Nat
    BY QueueLengths, LenProperties DEF IInv, Typed
  <2>2. k = 1 /\ 1 \in 1 .. Len(net)
    BY <1>4, <2>1
  <2>3. Typed
    BY DEF IInv
  <2>4. applied \in Nat
    <3>1. applied \in 0 .. Len(issued) /\ Len(issued) \in Nat
      BY <2>3, LenProperties DEF Typed
    <3> QED
      BY <3>1
  <2> QED
    BY <1>1, <2>2, <2>3, <2>4 DEF Undisturbed
<1>6. 1 \in Places /\ Way[1] = net[1].index
  BY <1>5, Parts
<1>7. Way[1] = applied + 1 /\ Way[1] \in 1 .. Len(issued)
  <2>1. Way[1] \in 1 .. Len(issued)
    BY <1>6 DEF IInv, Increasing
  <2>2. applied < Way[1] /\ Way[1] <= applied + 1 + gone
    BY <1>1, <1>6 DEF IInv, Complete, Undisturbed, Never, FaultKinds
  <2> QED
    BY <1>5, <2>1, <2>2
<1> DEFINE c == issued[applied + 1]
<1>8. /\ device' = Applied(device, c, "ok") /\ applied' = applied + 1 /\ issued' = issued
      /\ rejected' = IF Rejects(device, c, "ok") THEN rejected \cup {applied + 1} ELSE rejected
  BY <1>3, <1>4, <1>5, <1>6, <1>7 DEF RecvCommand
<1>9. c \in Kinds /\ device \in Devices /\ c.kind # "ResetState"
  BY <1>7, ElementOfSeq DEF IInv, Typed, NoReset
<1>10. ~ Rejects(device, c, "ok")
  BY <1>8 DEF Playable, Undisturbed
<1>11. device'.effects[e] = "playing" <=>
         IF Names(c, e) THEN c.kind = "Play" ELSE device.effects[e] = "playing"
  BY <1>8, <1>9, <1>10, Sounds
<1>12. PlayedLast(e, applied)' <=>
         \E n \in 1 .. applied + 1 : /\ issued[n].kind = "Play" /\ issued[n].effect_id = e
                                     /\ \A j \in n + 1 .. applied + 1 : ~ Names(issued[j], e)
  BY <1>8 DEF PlayedLast, Names
<1>13. CASE Names(c, e)
  <2>1. ASSUME c.kind = "Play"
        PROVE  PlayedLast(e, applied)'
    <3>1. applied + 1 \in 1 .. applied + 1 /\ \A j \in (applied + 1) + 1 .. applied + 1 : FALSE
      BY <1>5
    <3> QED
      BY <1>12, <1>13, <2>1, <3>1 DEF Names
  <2>2. ASSUME PlayedLast(e, applied)'
        PROVE  c.kind = "Play"
    <3>1. PICK n \in 1 .. applied + 1 :
            /\ issued[n].kind = "Play"
            /\ \A j \in n + 1 .. applied + 1 : ~ Names(issued[j], e)
      BY <1>12, <2>2
    <3>2. n = applied + 1 \/ applied + 1 \in n + 1 .. applied + 1
      BY <1>5
    <3> QED
      BY <1>13, <3>1, <3>2
  <2> QED
    BY <1>11, <1>13, <2>1, <2>2
<1>14. CASE ~ Names(c, e)
  <2>1. ASSUME PlayedLast(e, applied)
        PROVE  PlayedLast(e, applied)'
    <3>1. PICK n \in 1 .. applied :
            /\ issued[n].kind = "Play" /\ issued[n].effect_id = e
            /\ \A j \in n + 1 .. applied : ~ Names(issued[j], e)
      BY <2>1 DEF PlayedLast
    <3>2. n \in 1 .. applied + 1
          /\ \A j \in n + 1 .. applied + 1 : j \in n + 1 .. applied \/ j = applied + 1
      BY <1>5
    <3> QED
      BY <1>12, <1>14, <3>1, <3>2
  <2>2. ASSUME PlayedLast(e, applied)'
        PROVE  PlayedLast(e, applied)
    <3>1. PICK n \in 1 .. applied + 1 :
            /\ issued[n].kind = "Play" /\ issued[n].effect_id = e
            /\ \A j \in n + 1 .. applied + 1 : ~ Names(issued[j], e)
      BY <1>12, <2>2
    <3>2. n # applied + 1
      BY <1>14, <3>1 DEF Names
    <3>3. n \in 1 .. applied /\ \A j \in n + 1 .. applied : j \in n + 1 .. applied + 1
      BY <1>5, <3>2
    <3> QED
      BY <3>1, <3>3 DEF PlayedLast
  <2> QED
    BY <1>1, <1>11, <1>14, <2>1, <2>2 DEF Sounding
<1> QED
  BY <1>13, <1>14

(* Nothing but an arrival touches what has been executed.                  *)
LEMMA ElsewhereSounds ==
  ASSUME IInv, IInv', Sounding, OfTheGame \/ OfTheClient \/ StartsAgain, Next
  PROVE  Sounding'
<1>1. device' = device /\ applied' = applied /\ applied \in 0 .. Len(issued)
      /\ Len(issued) \in Nat
  BY QueueLengths
  DEF OfTheGame, Request, OfTheClient, GiveUp, Connect, SendQueued, ReadBatchOfEvents, Polls,
      StartsAgain, ClientAgain, serverVars, IInv, Typed
<1>2. \A i \in 1 .. Len(issued) : issued'[i] = issued[i]
  <2>1. CASE OfTheGame
    BY <2>1, RequestJoins DEF OfTheGame, IInv
  <2>2. CASE OfTheClient \/ StartsAgain
    BY <2>2 DEF OfTheClient, GiveUp, Connect, SendQueued, ReadBatchOfEvents, Polls, StartsAgain,
                ClientAgain
  <2> QED
    BY <2>1, <2>2
<1>3. \A i \in 1 .. applied : issued'[i] = issued[i] /\ \A j \in i + 1 .. applied : issued'[j] = issued[j]
  BY <1>1, <1>2
<1>4. \A e \in Effects : PlayedLast(e, applied)' <=> PlayedLast(e, applied)
  BY <1>1, <1>3 DEF PlayedLast, Names
<1> QED
  BY <1>1, <1>4, Undoing DEF Sounding

(* When everything has arrived, with no loss and no failure, the wheel     *)
(* plays exactly the effects of which a Play is the last request, for any  *)
(* number of requests, any batches, and however often the client was       *)
(* started again in between.                                               *)
THEOREM PlaysAsAskedHolds == Spec => []PlaysAsAsked
<1>1. Init => Held /\ Playable /\ NoReset /\ Sounding
  <2>1. Init => NoReset /\ Sounding
    BY DEF Init, NoReset, Sounding, PlayedLast, OpenedDevice
  <2> QED
    BY <2>1, HeldInitially, PlayableInitially
<1>2. IInv /\ IInv' /\ Held /\ Playable /\ NoReset /\ Sounding /\ [Next]_vars =>
        (Held /\ Playable /\ NoReset /\ Sounding)'
  <2> SUFFICES ASSUME IInv, IInv', Held, Playable, NoReset, Sounding, [Next]_vars
               PROVE  (Held /\ Playable /\ NoReset /\ Sounding)'
    OBVIOUS
  <2>1. Held' /\ Playable' /\ NoReset'
    BY PlayableKeeps, NoResetKeeps
  <2>2. CASE Next
    <3>1. OfTheGame \/ OfTheClient \/ StartsAgain \/ Server
      BY <2>2, Operations DEF IInv
    <3> QED
      BY <2>1, <2>2, <3>1, ArrivalSounds, ElsewhereSounds
  <2>3. CASE UNCHANGED vars
    BY <2>1, <2>3 DEF vars, serverVars, Sounding, Undisturbed, Never, PlayedLast, Names
  <2> QED
    BY <2>1, <2>2, <2>3
<1>3. IInv /\ Sounding => PlaysAsAsked
  <2> SUFFICES ASSUME IInv, Sounding, Undisturbed, pending_commands \o net \o events = <<>>,
                      NEW e \in Effects
               PROVE  device.effects[e] = "playing" <=> PlayedLast(e, Len(issued))
    BY DEF PlaysAsAsked, Undisturbed
  <2>1. OnTheWay = 0
    <3>1. /\ pending_commands \in Seq(Datagrams) /\ net \in Seq(Datagrams)
          /\ events \in Seq(1 .. MaxRequests)
      BY DEF IInv, Typed
    <3>2. Len(pending_commands \o net) = Len(pending_commands) + Len(net)
          /\ pending_commands \o net \in Seq(Datagrams)
      BY <3>1, ConcatProperties
    <3>3. Len(pending_commands \o net \o events) = Len(pending_commands \o net) + Len(events)
      BY <3>1, <3>2
    <3> QED
      BY <3>2, <3>3, QueueLengths DEF OnTheWay, IInv
  <2>2. Len(issued) <= applied + OnTheWay + gone /\ gone = 0
    BY DEF IInv, Complete, Undisturbed, Never, FaultKinds
  <2>3. applied \in 0 .. Len(issued) /\ Len(issued) \in Nat
    BY QueueLengths DEF IInv, Typed
  <2>4. applied = Len(issued)
    BY <2>1, <2>2, <2>3
  <2> QED
    BY <2>4 DEF Sounding
<1> QED
  BY <1>1, <1>2, <1>3, Invariance, PTL DEF Spec
=============================================================================
