------------------------ MODULE FfbReliabilityProofs ------------------------
(***************************************************************************)
(* Proofs about FfbReliability, for every retry interval, every sequence   *)
(* of commands and any number of faults: with fresh ids the table forgets  *)
(* no command, although it is keyed by ids and inserts replace; and used   *)
(* for one command at a time it hides that commands are executed again.    *)
(* At the end, about EffectPath, for effects of any strengths and lengths: *)
(* what a command carries arrives, and the wheel keeps nothing that was    *)
(* replaced.                                                               *)
(***************************************************************************)
EXTENDS FfbReliability, EffectPath, SequenceTheorems, FiniteSetTheorems, TLAPS

(* An entry is kept under its own command's id.                            *)
Entries(k) == [command : {k}, attempts : Nat, age : Nat]
KeyedById == \A i \in DOMAIN pending : pending[i] \in Entries(i)

(* A reply names the command that has the reply's id.                      *)
Matched == \E S : replies \in Seq(S) /\ \A r \in S : r.id = r.index

IInv == sent \in Seq(Requests) /\ KeyedById /\ Matched /\ NothingForgotten

(* What is left of a queue when an element is taken out of it: elements of *)
(* the queue, in their order.                                              *)
LEMMA Removing ==
  ASSUME NEW S, NEW q \in Seq(S), NEW j \in DOMAIN q
  PROVE  /\ RemoveAt(q, j) \in Seq(S) /\ Len(RemoveAt(q, j)) = Len(q) - 1
         /\ \A p \in 1 .. Len(q) - 1 :
              RemoveAt(q, j)[p] = IF p < j THEN q[p] ELSE q[p + 1]
<1>1. /\ SubSeq(q, 1, j - 1) \in Seq(S) /\ Len(SubSeq(q, 1, j - 1)) = j - 1
      /\ \A p \in 1 .. j - 1 : SubSeq(q, 1, j - 1)[p] = q[p]
  BY SubSeqProperties
<1>2. /\ SubSeq(q, j + 1, Len(q)) \in Seq(S) /\ Len(SubSeq(q, j + 1, Len(q))) = Len(q) - j
      /\ \A p \in 1 .. Len(q) - j : SubSeq(q, j + 1, Len(q))[p] = q[j + p]
  BY SubSeqProperties
<1> DEFINE a == SubSeq(q, 1, j - 1)
           b == SubSeq(q, j + 1, Len(q))
<1> HIDE DEF a, b
<1>3. /\ a \o b \in Seq(S) /\ Len(a \o b) = Len(a) + Len(b)
      /\ \A p \in 1 .. Len(a) + Len(b) :
           (a \o b)[p] = IF p <= Len(a) THEN a[p] ELSE b[p - Len(a)]
  BY <1>1, <1>2, ConcatProperties DEF a, b
<1>4. RemoveAt(q, j) = a \o b
  BY DEF RemoveAt, a, b
<1>5. Len(a) = j - 1 /\ Len(b) = Len(q) - j
  BY <1>1, <1>2 DEF a, b
<1>6. /\ \A p \in 1 .. j - 1 : a[p] = q[p]
      /\ \A p \in 1 .. Len(q) - j : b[p] = q[j + p]
  BY <1>1, <1>2 DEF a, b
<1>7. j \in 1 .. Len(q) /\ Len(q) \in Nat
  BY LenProperties
<1>8. ASSUME NEW p \in 1 .. Len(q) - 1
      PROVE  (a \o b)[p] = IF p < j THEN q[p] ELSE q[p + 1]
  <2>1. p \in 1 .. Len(a) + Len(b) /\ p \in Int /\ j \in Int
    BY <1>5, <1>7
  <2>2. (a \o b)[p] = IF p <= j - 1 THEN a[p] ELSE b[p - (j - 1)]
    BY <1>3, <1>5, <2>1
  <2>3. CASE p < j
    BY <1>6, <2>1, <2>2, <2>3
  <2>4. CASE ~ p < j
    <3>1. p - (j - 1) \in 1 .. Len(q) - j /\ j + (p - (j - 1)) = p + 1
      BY <1>7, <2>1, <2>4
    <3>2. b[p - (j - 1)] = q[p + 1]
      BY <1>6, <3>1
    <3> QED
      BY <2>1, <2>2, <2>4, <3>2
  <2> QED
    BY <2>3, <2>4
<1>9. RemoveAt(q, j) \in Seq(S) /\ Len(RemoveAt(q, j)) = Len(q) - 1
  BY <1>3, <1>4, <1>5, <1>7
<1> QED
  BY <1>4, <1>8, <1>9

LEMMA Initially == Init => IInv
<1> SUFFICES ASSUME Init PROVE IInv
  OBVIOUS
<1>1. replies \in Seq({}) /\ sent = <<>> /\ DOMAIN pending = {}
  BY DEF Init
<1> QED
  BY <1>1 DEF IInv, KeyedById, Matched, NothingForgotten

(* Commands: an id that is new is nobody else's.                           *)
LEMMA SendKeeps ==
  ASSUME IInv, NEW c \in Requests, SendCommand(c)
  PROVE  IInv'
<1> DEFINE k == Len(sent) + 1
<1>1. sent' = Append(sent, c) /\ sent' \in Seq(Requests) /\ Len(sent') = k
      /\ DOMAIN sent' = DOMAIN sent \cup {k}
  BY DEF SendCommand, IInv
<1>2. pending' = With(k, [command |-> k, attempts |-> 1, age |-> 0])
  BY <1>1 DEF SendCommand, track_sent, CommandId
<1>3. /\ DOMAIN pending' = DOMAIN pending \cup {k}
      /\ \A i \in DOMAIN pending : i # k => pending'[i] = pending[i]
      /\ pending'[k] \in Entries(k)
  BY <1>2 DEF With, Entries
<1>4. KeyedById'
  BY <1>3 DEF IInv, KeyedById
<1>5. NothingForgotten'
  <2> SUFFICES ASSUME NEW n \in DOMAIN sent'
               PROVE  n \in answered' \/ \E i \in DOMAIN pending' : pending'[i].command = n
    BY DEF NothingForgotten
  <2>1. CASE n = k
    BY <1>3, <2>1 DEF Entries
  <2>2. CASE n # k
    <3>1. n \in answered \/ \E i \in DOMAIN pending : pending[i].command = n
      BY <1>1, <2>2 DEF IInv, NothingForgotten
    <3> QED
      BY <1>3, <2>2, <3>1 DEF SendCommand, IInv, KeyedById, Entries
  <2> QED
    BY <2>1, <2>2
<1> QED
  BY <1>1, <1>4, <1>5 DEF SendCommand, IInv, Matched

(* Time and retries keep the entries' keys and commands.                   *)
LEMMA TimeKeeps ==
  ASSUME IInv, ClockTick \/ DueRetries
  PROVE  IInv'
<1>1. /\ DOMAIN pending' = DOMAIN pending
      /\ \A i \in DOMAIN pending : pending'[i] \in Entries(i)
  <2>1. CASE ClockTick
    <3>1. \A age \in Nat : Older(age) \in Nat
      BY DEF Older
    <3>2. pending' = [i \in DOMAIN pending |-> [pending[i] EXCEPT !.age = Older(@)]]
      BY <2>1 DEF ClockTick
    <3>3. ASSUME NEW i \in DOMAIN pending
          PROVE  pending'[i] \in Entries(i)
      <4>1. pending[i] \in Entries(i) /\ pending'[i] = [pending[i] EXCEPT !.age = Older(@)]
        BY <3>2 DEF IInv, KeyedById
      <4> QED
        BY <3>1, <4>1 DEF Entries
    <3>4. DOMAIN pending' = DOMAIN pending
      BY <3>2, Zenon
    <3> QED
      BY <3>3, <3>4
  <2>2. CASE DueRetries
    <3>1. \A n \in Nat : OneMore(n) \in Nat
      BY DEF OneMore
    <3>2. pending' = AfterRetry
      BY <2>2 DEF DueRetries
    <3>3. ASSUME NEW i \in DOMAIN pending
          PROVE  pending'[i] \in Entries(i)
      <4>1. /\ pending[i] \in Entries(i)
            /\ \/ pending'[i] = pending[i]
               \/ pending'[i] = [pending[i] EXCEPT !.age = 0, !.attempts = OneMore(@)]
        BY <3>2 DEF AfterRetry, IInv, KeyedById
      <4>2. [pending[i] EXCEPT !.age = 0] \in Entries(i)
        BY <4>1 DEF Entries
      <4>3. OneMore(pending[i].attempts) \in Nat
        BY <3>1, <4>1 DEF Entries
      <4> QED
        BY <4>1, <4>2, <4>3 DEF Entries
    <3>4. DOMAIN pending' = DOMAIN pending
      BY <3>2, Zenon DEF AfterRetry
    <3> QED
      BY <3>3, <3>4
  <2> QED
    BY <2>1, <2>2
<1>2. UNCHANGED <<replies, sent, answered>>
  BY DEF ClockTick, DueRetries, netVars, sentVars
<1> QED
  BY <1>1, <1>2 DEF IInv, KeyedById, Entries, Matched, NothingForgotten

(* A reply removes no entry but that of the command it answers.            *)
LEMMA ReplyKeeps ==
  ASSUME IInv, NEW j \in DOMAIN replies, NEW copied \in BOOLEAN, DeliverReply(j, copied)
  PROVE  IInv'
<1> DEFINE r == replies[j]
<1>1. PICK S : replies \in Seq(S) /\ \A q \in S : q.id = q.index
  BY DEF IInv, Matched
<1>2. r.id = r.index
  BY <1>1
<1>3. replies' \in Seq(S)
  BY <1>1, Removing DEF DeliverReply, Delivered
<1>4. /\ pending' = apply_reply(r) /\ answered' = answered \cup {r.index}
      /\ sent' = sent
  BY DEF DeliverReply, RecvReply, sentVars
<1> HIDE DEF r
<1>5. /\ DOMAIN pending' \subseteq DOMAIN pending
      /\ DOMAIN pending \subseteq DOMAIN pending' \cup {r.id}
      /\ \A i \in DOMAIN pending' : pending'[i] = pending[i]
  BY <1>4 DEF apply_reply, Without
<1>6. NothingForgotten'
  BY <1>2, <1>4, <1>5 DEF IInv, KeyedById, Entries, NothingForgotten
<1> QED
  BY <1>1, <1>3, <1>4, <1>5, <1>6 DEF IInv, KeyedById, Matched

(* The server's reply has the id and the index of one command.             *)
LEMMA CommandKeeps ==
  ASSUME IInv, NEW j \in DOMAIN commands, NEW copied \in BOOLEAN, DeliverCommand(j, copied)
  PROVE  IInv'
<1>1. PICK S : replies \in Seq(S) /\ \A q \in S : q.id = q.index
  BY DEF IInv, Matched
<1>2. PICK r : replies' = Append(replies, r) /\ r.id = r.index
  BY DEF DeliverCommand, RecvCommand, CommandId
<1>3. replies' \in Seq(S \cup {r})
  BY <1>1, <1>2
<1>4. Matched'
  BY <1>1, <1>2, <1>3 DEF Matched
<1> QED
  BY <1>4 DEF DeliverCommand, RecvCommand, sentVars, IInv, KeyedById, NothingForgotten

LEMMA LoseKeeps ==
  ASSUME IInv, Lose
  PROVE  IInv'
<1>1. PICK S : replies \in Seq(S) /\ \A q \in S : q.id = q.index
  BY DEF IInv, Matched
<1>2. replies' \in Seq(S)
  BY <1>1, Removing DEF Lose
<1>3. Matched'
  BY <1>1, <1>2 DEF Matched
<1> QED
  BY <1>3 DEF Lose, sentVars, IInv, KeyedById, NothingForgotten

LEMMA StepKeeps == IInv /\ [Next]_vars => IInv'
<1> SUFFICES ASSUME IInv, [Next]_vars PROVE IInv'
  OBVIOUS
<1>1. CASE UNCHANGED vars
  BY <1>1 DEF vars, netVars, sentVars, IInv, KeyedById, Matched, NothingForgotten
<1>2. CASE Next
  BY <1>2, SendKeeps, TimeKeeps, ReplyKeeps, CommandKeeps, LoseKeeps DEF Next
<1> QED
  BY <1>1, <1>2

-----------------------------------------------------------------------------
(* FfbReliability forgets no command before its own reply has arrived: no  *)
(* reply of another command, late or repeated, and no retry removes it.    *)
THEOREM NothingForgottenHolds == Spec => []NothingForgotten
<1>1. IInv => NothingForgotten
  BY DEF IInv
<1> QED
  BY <1>1, Initially, StepKeeps, PTL DEF Spec

-----------------------------------------------------------------------------
(* What the table hides, one command at a time: the wheel is either as if  *)
(* each command had been executed once, and only repetitions of the last   *)
(* one are in flight (Repeated), or it lacks the last one, which is still  *)
(* pending, while repetitions of the one before may come first (Awaited).  *)
OnceTyped ==
  /\ sent \in Seq(Requests) /\ device \in Devices /\ once \in Devices
  /\ commands \in Seq(1 .. Len(sent)) /\ DOMAIN pending \subseteq 1 .. Len(sent)
  /\ \E S : replies \in Seq(S) /\ \A r \in S : r.id \in 1 .. Len(sent)

Latest == sent[Len(sent)]

Repeated ==
  /\ device = once
  /\ \A i \in DOMAIN commands : commands[i] = Len(sent)
  /\ Len(sent) > 0 => Applied(device, Latest, "ok") = device

Awaited ==
  /\ Len(sent) \in DOMAIN pending
  /\ \A j \in DOMAIN replies : replies[j].id # Len(sent)
  /\ \A i \in DOMAIN commands : commands[i] >= Len(sent) - 1
  /\ \A i, j \in DOMAIN commands : i <= j => commands[i] <= commands[j]
  /\ Applied(device, Latest, "ok") = once
  /\ \A i \in DOMAIN commands :
       commands[i] < Len(sent) => Applied(device, sent[commands[i]], "ok") = device

OneAtATime ==
  orderly /\ alone => DOMAIN pending \subseteq {Len(sent)} /\ (Repeated \/ Awaited)

OInv == OnceTyped /\ OneAtATime

LEMMA AppliedType ==
  ASSUME NEW d \in Devices, NEW c \in Requests
  PROVE  Applied(d, c, "ok") \in Devices
<1>1. /\ c.kind \in {"Upload", "Erase", "Play", "Stop", "SetGain", "SetAutocenter", "ResetState"}
      /\ c.kind \in {"Upload", "Erase", "Play", "Stop"} => c.effect_id \in Effects
      /\ c.kind \in {"SetGain", "SetAutocenter"} => c.level \in Levels
  BY ReliabilityAssumption DEF Kinds
<1>2. \A e \in Effects, s \in {"absent", "stopped", "playing"} : Put(d, e, s) \in Devices
  BY DEF Put, Devices
<1>3. CASE c.kind \in {"Upload", "Erase", "Play", "Stop"}
  BY <1>1, <1>2, <1>3
  DEF Applied, upload_effect, erase_effect, play_effect, stop_effect
<1>4. CASE c.kind \in {"SetGain", "SetAutocenter"}
  <2>1. c.level \in Levels /\ (c.level > 0) \in BOOLEAN
    BY <1>1, <1>4, BackendAssumption
  <2>2. set_gain(d, c.level, "ok") \in Devices
    BY <2>1 DEF set_gain, Devices
  <2>3. set_autocenter(d, c.level, "ok") \in Devices
    BY <2>1 DEF set_autocenter, Devices
  <2> QED
    BY <1>4, <2>2, <2>3 DEF Applied
<1>5. CASE c.kind = "ResetState"
  BY <1>5 DEF Applied, reset_ffb, Devices
<1> QED
  BY <1>1, <1>3, <1>4, <1>5

(* On a wheel that works, to execute a command again changes nothing.      *)
LEMMA Idempotence ==
  ASSUME NEW d \in Devices, NEW c \in Requests
  PROVE  Applied(Applied(d, c, "ok"), c, "ok") = Applied(d, c, "ok")
<1>1. /\ c.kind \in {"Upload", "Erase", "Play", "Stop", "SetGain", "SetAutocenter", "ResetState"}
      /\ c.kind \in {"Upload", "Erase", "Play", "Stop"} => c.effect_id \in Effects
      /\ c.kind \in {"SetGain", "SetAutocenter"} => c.level \in Levels
  BY ReliabilityAssumption DEF Kinds
<1>2. \A e \in Effects, s \in {"absent", "stopped", "playing"} :
        /\ Put(d, e, s).effects[e] = s
        /\ Put(Put(d, e, s), e, s) = Put(d, e, s)
  <2> SUFFICES ASSUME NEW e \in Effects, NEW s \in {"absent", "stopped", "playing"}
               PROVE  Put(d, e, s).effects[e] = s /\ Put(Put(d, e, s), e, s) = Put(d, e, s)
    OBVIOUS
  <2> DEFINE f == [d.effects EXCEPT ![e] = s]
  <2>1. Put(d, e, s) = [d EXCEPT !.effects = f] /\ Put(d, e, s).effects = f
    BY DEF Put, Devices
  <2>2. f[e] = s /\ [f EXCEPT ![e] = s] = f
    BY DEF Devices
  <2>3. Put(Put(d, e, s), e, s) = [Put(d, e, s) EXCEPT !.effects = [f EXCEPT ![e] = s]]
    BY <2>1 DEF Put
  <2>4. [[d EXCEPT !.effects = f] EXCEPT !.effects = f] = [d EXCEPT !.effects = f]
    BY DEF Devices
  <2> HIDE DEF f
  <2> QED
    BY <2>1, <2>2, <2>3, <2>4
<1>3. CASE c.kind \in {"Upload", "Erase"}
  BY <1>1, <1>2, <1>3 DEF Applied, upload_effect, erase_effect
<1>4. CASE c.kind = "Play"
  BY <1>1, <1>2, <1>4 DEF Applied, play_effect
<1>5. CASE c.kind = "Stop"
  BY <1>1, <1>2, <1>5 DEF Applied, stop_effect
<1>6. CASE c.kind \in {"SetGain", "SetAutocenter"}
  BY <1>1, <1>6 DEF Applied, set_gain, set_autocenter, Devices
<1>7. CASE c.kind = "ResetState"
  BY <1>1, <1>7 DEF Applied, reset_ffb, Devices
<1> QED
  BY <1>1, <1>3, <1>4, <1>5, <1>6, <1>7

LEMMA OnceInitially == Init => OInv
<1> SUFFICES ASSUME Init PROVE OInv
  OBVIOUS
<1>1. /\ replies \in Seq({}) /\ sent = <<>> /\ Len(sent) = 0 /\ DOMAIN pending = {}
      /\ commands = <<>> /\ DOMAIN commands = {} /\ commands \in Seq(1 .. 0)
  BY DEF Init
<1>2. OpenedDevice \in Devices
  BY BackendAssumption DEF OpenedDevice, Devices
<1> QED
  BY <1>1, <1>2 DEF Init, OInv, OnceTyped, OneAtATime, Repeated

(* A command that is sent alone finds the wheel without need of another:   *)
(* now it awaits this one.                                                 *)
LEMMA SendOnce ==
  ASSUME OInv, NEW c \in Requests, SendCommand(c)
  PROVE  OInv'
<1> DEFINE n == Len(sent)
<1>1. /\ n \in Nat /\ sent' \in Seq(Requests) /\ Len(sent') = n + 1
      /\ sent'[n + 1] = c /\ \A i \in 1 .. n : sent'[i] = sent[i]
  BY DEF SendCommand, OInv, OnceTyped
<1>2. /\ commands' = Append(commands, n + 1) /\ once' = Applied(once, c, "ok")
      /\ pending' = With(n + 1, [command |-> n + 1, attempts |-> 1, age |-> 0])
      /\ UNCHANGED <<device, replies, orderly>> /\ alone' = (alone /\ pending = <<>>)
  BY <1>1 DEF SendCommand, track_sent, CommandId
<1>3. DOMAIN pending' = DOMAIN pending \cup {n + 1}
  BY <1>2 DEF With
<1>4. commands \in Seq(1 .. n + 1) /\ commands' \in Seq(1 .. n + 1)
  BY <1>1, <1>2 DEF OInv, OnceTyped
<1>5. once' \in Devices
  BY <1>2, AppliedType DEF OInv, OnceTyped
<1>6. OnceTyped'
  <2>1. PICK S : replies \in Seq(S) /\ \A r \in S : r.id \in 1 .. n
    BY DEF OInv, OnceTyped
  <2>2. 1 .. n \subseteq 1 .. Len(sent') /\ n + 1 \in 1 .. Len(sent')
    BY <1>1
  <2> QED
    BY <1>1, <1>2, <1>3, <1>4, <1>5, <2>1, <2>2 DEF OInv, OnceTyped
<1>7. OneAtATime'
  <2> SUFFICES ASSUME orderly, alone, pending = <<>>
               PROVE  DOMAIN pending' \subseteq {n + 1} /\ Awaited'
    BY <1>1, <1>2 DEF OneAtATime
  <2>1. DOMAIN pending = {} /\ Repeated
    BY DEF OInv, OneAtATime, Awaited
  <2>2. \A i \in DOMAIN commands' :
          \/ i = Len(commands) + 1 /\ commands'[i] = n + 1
          \/ i \in DOMAIN commands /\ commands'[i] = n /\ n \in 1 .. n
    BY <1>1, <1>2, <2>1 DEF Repeated, OInv, OnceTyped
  <2>3. \A j \in DOMAIN replies : replies[j].id # n + 1
    BY <1>1 DEF OInv, OnceTyped
  <2>4. Applied(device, sent'[n + 1], "ok") = once'
    BY <1>1, <1>2, <2>1 DEF Repeated
  <2>5. \A i \in DOMAIN commands' : commands'[i] >= n
    BY <1>1, <2>2
  <2>6. \A i, j \in DOMAIN commands' : i <= j => commands'[i] <= commands'[j]
    <3>1. DOMAIN commands = 1 .. Len(commands) /\ Len(commands) \in Nat
      BY DEF OInv, OnceTyped
    <3> QED
      BY <1>1, <2>2, <3>1
  <2>7. ASSUME NEW i \in DOMAIN commands', commands'[i] < n + 1
        PROVE  Applied(device, sent'[commands'[i]], "ok") = device
    <3>1. commands'[i] = n /\ n \in 1 .. n
      BY <1>1, <2>2, <2>7
    <3>2. sent'[n] = Latest
      BY <1>1, <3>1 DEF Latest
    <3> QED
      BY <1>1, <2>1, <3>1, <3>2 DEF Repeated
  <2> QED
    BY <1>1, <1>2, <1>3, <2>1, <2>3, <2>4, <2>5, <2>6, <2>7 DEF Awaited, Latest
<1> QED
  BY <1>6, <1>7 DEF OInv

(* A retry repeats what is pending, hence the last command.                *)
LEMMA TimeOnce ==
  ASSUME IInv, OInv, ClockTick \/ DueRetries
  PROVE  OInv'
<1> DEFINE n == Len(sent)
<1>1. /\ DOMAIN pending' = DOMAIN pending
      /\ UNCHANGED <<replies, device, orderly, sent, once, alone>>
  BY Zenon DEF ClockTick, DueRetries, AfterRetry, netVars, sentVars
<1>2. CASE ClockTick
  BY <1>1, <1>2 DEF ClockTick, netVars, OInv, OnceTyped, OneAtATime, Repeated, Awaited, Latest
<1>3. CASE DueRetries
  <2>1. PICK due \in Ascending(Due) :
          commands' = commands \o [j \in DOMAIN due |-> pending[due[j]].command]
    BY <1>3 DEF DueRetries
  <2> DEFINE again == [j \in DOMAIN due |-> pending[due[j]].command]
  <2>2. due \in [1 .. Cardinality(Due) -> Due]
    BY DEF Ascending
  <2>3. \A j \in DOMAIN due : due[j] \in DOMAIN pending /\ again[j] = due[j]
    BY <2>2 DEF Due, IInv, KeyedById, Entries
  <2>4. commands' \in Seq(1 .. n)
    <3>1. Due \subseteq 1 .. n
      BY DEF Due, OInv, OnceTyped
    <3>2. IsFiniteSet(Due)
      <4>1. n \in Int /\ 1 \in Int
        BY DEF OInv, OnceTyped
      <4>2. IsFiniteSet(1 .. n)
        BY <4>1, FS_Interval
      <4> QED
        BY <3>1, <4>2, FS_Subset
    <3>3. Cardinality(Due) \in Nat
      BY <3>2, FS_CardinalityType
    <3>4. again \in Seq(1 .. n)
      BY <2>2, <2>3, <3>1, <3>3
    <3> QED
      BY <2>1, <3>4, ConcatProperties DEF OInv, OnceTyped
  <2>5. OnceTyped'
    BY <1>1, <2>4 DEF OInv, OnceTyped
  <2>6. OneAtATime'
    <3> SUFFICES ASSUME orderly, alone
                 PROVE  DOMAIN pending \subseteq {n} /\ (Repeated' \/ Awaited')
      BY <1>1 DEF OneAtATime
    <3>1. DOMAIN pending \subseteq {n} /\ (Repeated \/ Awaited)
      BY DEF OInv, OneAtATime
    <3>2. n \in Nat /\ Len(commands) \in Nat /\ DOMAIN commands = 1 .. Len(commands)
      BY DEF OInv, OnceTyped
    <3>3. again \in Seq({n})
      <4>1. Due \subseteq {n}
        BY <3>1 DEF Due
      <4>2. Cardinality(Due) \in Nat
        BY <4>1, FS_Singleton, FS_Subset, FS_CardinalityType
      <4> QED
        BY <2>2, <2>3, <4>1, <4>2
    <3> HIDE DEF again
    <3>4. \A i \in DOMAIN commands' :
            \/ i \in DOMAIN commands /\ commands'[i] = commands[i]
            \/ i > Len(commands) /\ commands'[i] = n
      <4>1. commands' = commands \o again
        BY <2>1 DEF again
      <4>2. commands \in Seq(1 .. n) /\ n \in Nat
        BY DEF OInv, OnceTyped
      <4> QED
        BY <3>3, <4>1, <4>2
    <3>5. \A i \in DOMAIN commands' : i \in Nat /\ commands'[i] \in 1 .. n
      BY <2>4
    <3>6. CASE Repeated
      BY <1>1, <3>1, <3>4, <3>6 DEF Repeated, Latest
    <3>7. CASE Awaited
      <4>1. \A i \in DOMAIN commands' : commands'[i] >= n - 1
        BY <3>2, <3>4, <3>7 DEF Awaited
      <4>2. \A i, j \in DOMAIN commands' : i <= j => commands'[i] <= commands'[j]
        BY <3>2, <3>4, <3>5, <3>7 DEF Awaited
      <4>3. \A i \in DOMAIN commands' :
              commands'[i] < n => Applied(device, sent[commands'[i]], "ok") = device
        BY <3>2, <3>4, <3>7 DEF Awaited
      <4>4. n \in DOMAIN pending /\ Applied(device, Latest, "ok") = once
            /\ \A j \in DOMAIN replies : replies[j].id # n
        BY <3>7 DEF Awaited
      <4> QED
        BY <1>1, <3>1, <4>1, <4>2, <4>3, <4>4 DEF Awaited, Latest
    <3> QED
      BY <3>1, <3>6, <3>7
  <2> QED
    BY <2>5, <2>6 DEF OInv
<1> QED
  BY <1>2, <1>3

(* While the wheel lacks a command no reply in flight is for it.           *)
LEMMA ReplyOnce ==
  ASSUME IInv, OInv, NEW j \in DOMAIN replies, NEW copied \in BOOLEAN,
         DeliverReply(j, copied)
  PROVE  OInv'
<1> DEFINE n == Len(sent)
           r == replies[j]
<1>1. /\ pending' = apply_reply(r) /\ UNCHANGED <<commands, device, sent, once, alone>>
      /\ orderly' => orderly
      /\ replies' = replies \/ replies' = RemoveAt(replies, j)
  BY DEF DeliverReply, RecvReply, NetworkFault, Delivered, sentVars
<1>2. PICK S : replies \in Seq(S) /\ \A q \in S : q.id \in 1 .. n
  BY DEF OInv, OnceTyped
<1>3. replies' \in Seq(S) /\ \A p \in DOMAIN replies' : \E q \in DOMAIN replies :
                                 replies'[p] = replies[q]
  <2>1. CASE replies' = replies
    BY <1>2, <2>1
  <2>2. CASE replies' = RemoveAt(replies, j)
    <3>1. /\ replies' \in Seq(S) /\ Len(replies') = Len(replies) - 1
          /\ \A p \in 1 .. Len(replies) - 1 :
               replies'[p] = IF p < j THEN replies[p] ELSE replies[p + 1]
      BY <1>2, <2>2, Removing
    <3>2. DOMAIN replies = 1 .. Len(replies) /\ DOMAIN replies' = 1 .. Len(replies) - 1
          /\ Len(replies) \in Nat
      BY <1>2, <3>1
    <3>3. ASSUME NEW p \in DOMAIN replies'
          PROVE  p \in DOMAIN replies /\ p + 1 \in DOMAIN replies
      BY <3>2
    <3> QED
      BY <3>1, <3>2, <3>3
  <2> QED
    BY <1>1, <2>1, <2>2
<1>4. DOMAIN pending' \subseteq DOMAIN pending /\ DOMAIN pending \ {r.id} \subseteq DOMAIN pending'
  BY <1>1 DEF apply_reply, Without
<1>5. OnceTyped'
  BY <1>1, <1>2, <1>3, <1>4 DEF OInv, OnceTyped
<1>6. OneAtATime'
  <2> SUFFICES ASSUME orderly, alone
               PROVE  DOMAIN pending' \subseteq {n} /\ (Repeated' \/ Awaited')
    BY <1>1 DEF OneAtATime
  <2>1. DOMAIN pending \subseteq {n} /\ (Repeated \/ Awaited)
    BY DEF OInv, OneAtATime
  <2>2. CASE Repeated
    BY <1>1, <1>4, <2>1, <2>2 DEF Repeated, Latest
  <2>3. CASE Awaited
    <3>1. r.id # n
      BY <2>3 DEF Awaited
    <3>2. n \in DOMAIN pending'
      BY <1>4, <2>3, <3>1 DEF Awaited
    <3> QED
      BY <1>1, <1>3, <1>4, <2>1, <2>3, <3>2 DEF Awaited, Latest
  <2> QED
    BY <1>4, <2>1, <2>2, <2>3
<1> QED
  BY <1>5, <1>6 DEF OInv

(* In order, the command before the last one changes nothing any more, and *)
(* the last one completes the wheel; after it come only its repetitions.   *)
LEMMA CommandOnce ==
  ASSUME OInv, NEW j \in DOMAIN commands, NEW copied \in BOOLEAN,
         DeliverCommand(j, copied)
  PROVE  OInv'
<1> DEFINE n == Len(sent)
           k == commands[j]
<1>1. /\ device' = Applied(device, sent[k], "ok")
      /\ UNCHANGED <<pending, sent, once, alone>>
      /\ commands' = Delivered(commands, j, copied)
      /\ orderly' => orderly /\ ~ (j > 1 \/ copied)
  BY DEF DeliverCommand, RecvCommand, NetworkFault, sentVars
<1>2. PICK r : replies' = Append(replies, r) /\ r.id = k
  BY DEF DeliverCommand, RecvCommand, CommandId
<1>3. k \in 1 .. n /\ n \in Nat /\ j \in Nat \ {0} /\ sent[k] \in Requests
      /\ commands \in Seq(1 .. n) /\ DOMAIN commands = 1 .. Len(commands)
      /\ Len(commands) \in Nat
  BY DEF OInv, OnceTyped
<1>4. device' \in Devices
  BY <1>1, <1>3, AppliedType DEF OInv, OnceTyped
<1>5. commands' \in Seq(1 .. n)
  BY <1>1, <1>3, Removing DEF Delivered
<1>6. OnceTyped'
  <2>1. PICK S : replies \in Seq(S) /\ \A q \in S : q.id \in 1 .. n
    BY DEF OInv, OnceTyped
  <2>2. replies' \in Seq(S \cup {r}) /\ \A q \in S \cup {r} : q.id \in 1 .. n
    BY <1>2, <1>3, <2>1
  <2> QED
    BY <1>1, <1>4, <1>5, <2>2 DEF OInv, OnceTyped
<1>7. OneAtATime'
  <2> SUFFICES ASSUME orderly, alone, j = 1, ~ copied
               PROVE  DOMAIN pending \subseteq {n} /\ (Repeated' \/ Awaited')
    BY <1>1, <1>3 DEF OneAtATime
  <2>1. DOMAIN pending \subseteq {n} /\ (Repeated \/ Awaited)
    BY DEF OInv, OneAtATime
  <2>2. \A p \in DOMAIN commands' : p \in Nat /\ p + 1 \in DOMAIN commands
                                   /\ commands'[p] = commands[p + 1]
    <3>1. /\ commands' = RemoveAt(commands, 1) /\ Len(commands') = Len(commands) - 1
          /\ \A p \in 1 .. Len(commands) - 1 :
               commands'[p] = IF p < 1 THEN commands[p] ELSE commands[p + 1]
      BY <1>1, <1>3, Removing DEF Delivered
    <3>2. DOMAIN commands' = 1 .. Len(commands) - 1
      BY <1>3, <1>5, <3>1
    <3>3. ASSUME NEW p \in DOMAIN commands'
          PROVE  p \in Nat /\ ~ p < 1 /\ p + 1 \in DOMAIN commands /\ p \in 1 .. Len(commands) - 1
      BY <1>3, <3>2
    <3> QED
      BY <3>1, <3>3
  <2>3. CASE Repeated
    <3>1. k = n /\ device' = device
      BY <1>1, <1>3, <2>3 DEF Repeated, Latest
    <3> QED
      BY <1>1, <2>1, <2>2, <2>3, <3>1 DEF Repeated, Latest
  <2>4. CASE Awaited /\ k = n
    <3>1. device' = once
      BY <1>1, <2>4 DEF Awaited, Latest
    <3>2. Applied(device', Latest, "ok") = device'
      BY <1>1, <1>3, <2>4, Idempotence DEF OInv, OnceTyped, Latest
    <3>3. \A p \in DOMAIN commands' : commands'[p] = n
      <4> SUFFICES ASSUME NEW p \in DOMAIN commands' PROVE commands'[p] = n
        OBVIOUS
      <4>1. commands[1] <= commands[p + 1]
        BY <2>2, <2>4 DEF Awaited
      <4>2. commands[p + 1] \in 1 .. n
        BY <1>3, <2>2
      <4> QED
        BY <1>3, <2>2, <2>4, <4>1, <4>2
    <3> QED
      BY <1>1, <2>1, <3>1, <3>2, <3>3 DEF Repeated, Latest
  <2>5. CASE Awaited /\ k # n
    <3>1. device' = device
      BY <1>1, <1>3, <2>5 DEF Awaited
    <3>2. \A q \in DOMAIN replies' : replies'[q].id # n
      <4>1. PICK S : replies \in Seq(S)
        BY DEF OInv, OnceTyped
      <4>2. \A q \in DOMAIN replies' :
              replies'[q] = r \/ (q \in DOMAIN replies /\ replies'[q] = replies[q])
        BY <1>2, <4>1
      <4> QED
        BY <1>2, <2>5, <4>2 DEF Awaited
    <3>3. \A p, q \in DOMAIN commands' : p <= q => commands'[p] <= commands'[q]
      <4> SUFFICES ASSUME NEW p \in DOMAIN commands', NEW q \in DOMAIN commands', p <= q
                   PROVE  commands'[p] <= commands'[q]
        OBVIOUS
      <4>1. p + 1 <= q + 1
        BY <2>2
      <4> QED
        BY <2>2, <2>5, <4>1 DEF Awaited
    <3>4. \A p \in DOMAIN commands' :
            /\ commands'[p] >= n - 1
            /\ commands'[p] < n => Applied(device, sent[commands'[p]], "ok") = device
      BY <2>2, <2>5 DEF Awaited
    <3> QED
      BY <1>1, <2>1, <2>5, <3>1, <3>2, <3>3, <3>4 DEF Awaited, Latest
  <2> QED
    BY <2>1, <2>3, <2>4, <2>5
<1> QED
  BY <1>6, <1>7 DEF OInv

(* What is lost leaves the rest in its order.                              *)
LEMMA LoseOnce ==
  ASSUME OInv, Lose
  PROVE  OInv'
<1> DEFINE n == Len(sent)
<1>1. UNCHANGED <<pending, device, orderly, sent, once, alone>>
  BY DEF Lose, sentVars
<1>2. CASE \E j \in DOMAIN commands : commands' = RemoveAt(commands, j) /\ UNCHANGED replies
  <2>1. PICK j \in DOMAIN commands : commands' = RemoveAt(commands, j) /\ replies' = replies
    BY <1>2
  <2>2. commands \in Seq(1 .. n) /\ DOMAIN commands = 1 .. Len(commands)
        /\ Len(commands) \in Nat /\ j \in Nat /\ n \in Nat
    BY DEF OInv, OnceTyped
  <2>3. /\ commands' \in Seq(1 .. n) /\ Len(commands') = Len(commands) - 1
        /\ \A p \in 1 .. Len(commands) - 1 :
             commands'[p] = IF p < j THEN commands[p] ELSE commands[p + 1]
    BY <2>1, <2>2, Removing
  <2>4. DOMAIN commands' = 1 .. Len(commands) - 1
    BY <2>2, <2>3
  <2> DEFINE from(p) == IF p < j THEN p ELSE p + 1
  <2>5. \A p \in DOMAIN commands' :
          p \in Nat /\ from(p) \in DOMAIN commands /\ commands'[p] = commands[from(p)]
    <3> SUFFICES ASSUME NEW p \in DOMAIN commands'
                 PROVE  p \in Nat /\ from(p) \in DOMAIN commands
                        /\ commands'[p] = commands[from(p)]
      OBVIOUS
    <3>1. p \in 1 .. Len(commands) - 1 /\ p \in Nat
      BY <2>2, <2>4
    <3>2. from(p) \in DOMAIN commands
      BY <2>2, <3>1
    <3> QED
      BY <2>3, <3>1, <3>2
  <2>6. \A p, q \in DOMAIN commands' : p <= q => from(p) <= from(q)
    BY <2>2, <2>5
  <2> HIDE DEF from
  <2>7. OnceTyped'
    BY <1>1, <2>1, <2>3 DEF OInv, OnceTyped
  <2>8. Repeated => Repeated'
    BY <1>1, <2>5 DEF Repeated, Latest
  <2>9. Awaited => Awaited'
    BY <1>1, <2>1, <2>5, <2>6 DEF Awaited, Latest
  <2> QED
    BY <1>1, <2>7, <2>8, <2>9 DEF OInv, OneAtATime
<1>3. CASE \E j \in DOMAIN replies : replies' = RemoveAt(replies, j) /\ UNCHANGED commands
  <2>1. PICK j \in DOMAIN replies : replies' = RemoveAt(replies, j) /\ commands' = commands
    BY <1>3
  <2>2. PICK S : replies \in Seq(S) /\ \A q \in S : q.id \in 1 .. n
    BY DEF OInv, OnceTyped
  <2>3. /\ replies' \in Seq(S) /\ Len(replies') = Len(replies) - 1
        /\ \A p \in 1 .. Len(replies) - 1 :
             replies'[p] = IF p < j THEN replies[p] ELSE replies[p + 1]
    BY <2>1, <2>2, Removing
  <2>4. DOMAIN replies = 1 .. Len(replies) /\ DOMAIN replies' = 1 .. Len(replies) - 1
        /\ Len(replies) \in Nat
    BY <2>2, <2>3
  <2>5. ASSUME NEW p \in DOMAIN replies'
        PROVE  p \in DOMAIN replies /\ p + 1 \in DOMAIN replies
    BY <2>4
  <2>6. \A p \in DOMAIN replies' : \E q \in DOMAIN replies : replies'[p] = replies[q]
    BY <2>3, <2>4, <2>5
  <2>7. OnceTyped'
    BY <1>1, <2>1, <2>2, <2>3 DEF OInv, OnceTyped
  <2>8. Repeated => Repeated'
    BY <1>1, <2>1 DEF Repeated, Latest
  <2>9. Awaited => Awaited'
    BY <1>1, <2>1, <2>6 DEF Awaited, Latest
  <2> QED
    BY <1>1, <2>7, <2>8, <2>9 DEF OInv, OneAtATime
<1> QED
  BY <1>2, <1>3 DEF Lose

-----------------------------------------------------------------------------
(* FfbReliability, one command at a time and on a network that keeps the   *)
(* order: with nothing pending the wheel is as if each command had been    *)
(* executed once, whatever was lost, retried and executed again.           *)
THEOREM AsIfOnceHolds == Spec => []AsIfOnce
<1>1. IInv /\ [Next]_vars => IInv'
  BY StepKeeps
<1>2. IInv /\ OInv /\ [Next]_vars => OInv'
  <2> SUFFICES ASSUME IInv, OInv, [Next]_vars PROVE OInv'
    OBVIOUS
  <2>1. CASE UNCHANGED vars
    BY <2>1 DEF vars, netVars, sentVars, OInv, OnceTyped, OneAtATime, Repeated, Awaited, Latest
  <2>2. CASE Next
    BY <2>2, SendOnce, TimeOnce, ReplyOnce, CommandOnce, LoseOnce DEF Next
  <2> QED
    BY <2>1, <2>2
<1>3. OInv => AsIfOnce
  <2> SUFFICES ASSUME OInv, orderly, alone, pending = <<>>
               PROVE  device = once
    BY DEF AsIfOnce
  <2>1. DOMAIN pending = {}
    OBVIOUS
  <2> QED
    BY <2>1 DEF OInv, OneAtATime, Repeated, Awaited
<1> QED
  BY <1>1, <1>2, <1>3, Initially, OnceInitially, PTL DEF Spec

-----------------------------------------------------------------------------
(* What a command carries: EffectPath, whose wheel is another.             *)

(* The kernel's table holds effects the wheel advertises.                  *)
Tables ==
  /\ slots \in [Effects -> KernelEffects \cup {None}]
  /\ created \in [Effects -> DirectInputEffects \cup {None}]
  /\ backend \in Devices
  /\ \A id \in Effects : slots[id] # None => Supported(slots[id].effect)

EInv == Tables /\ NeverStale /\ AcceptedArrives

(* The test's effects and the kernel's emulation of rumble are among those *)
(* a game may upload.                                                      *)
LEMMA TestedIsSys ==
  ASSUME NEW c \in TestSteps
  PROVE  ffb_effect_to_sys(c) \in SysEffects
BY DEF TestSteps, ffb_effect_to_sys, waveform_to_sys, condition_kind_to_sys,
    SysEffects, Shape, FF_Types, FF_Waveforms

LEMMA EmulatedIsSys ==
  ASSUME NEW e \in SysEffects
  PROVE  Emulated(e) \in SysEffects
BY DEF Emulated, SysEffects, Shape, FF_Types, FF_Waveforms

(* What the kernel lets through is one of four, each of which poll_ffb     *)
(* and the server know by its name.                                        *)
LEMMA Translated ==
  ASSUME NEW e \in SysEffects, Supported(e)
  PROVE  /\ ffb_effect_from_sys(e).form # "Err"
         /\ Guid(ffb_effect_from_sys(e)) # "Err"
         /\ Guid(ffb_effect_from_sys(e)) = Meaning(e)
         /\ Guid(ffb_effect_from_sys(e)) \in Guids
         /\ ffb_effect_from_sys(e).strength = e.strength
         /\ ffb_effect_from_sys(e).length = e.length
         /\ e.strength \in Int /\ e.length \in Nat
<1> DEFINE c == ffb_effect_from_sys(e)
<1>1. e.strength \in Int /\ e.length \in Nat
  BY EffectAssumption DEF SysEffects, Shape
<1>2. \/ e.type_ = "FF_PERIODIC" /\ e.waveform = "FF_SINE"
      \/ e.type_ = "FF_CONSTANT" \/ e.type_ = "FF_SPRING" \/ e.type_ = "FF_DAMPER"
  BY DEF Supported, t150_ff_kinds, SysEffects, Shape, FF_Types, FF_Waveforms
<1>3. CASE e.type_ = "FF_PERIODIC" /\ e.waveform = "FF_SINE"
  <2>1. c = FfbEffect("Periodic", "Sine", e)
    BY <1>3 DEF ffb_effect_from_sys, waveform_from_sys
  <2> HIDE DEF c
  <2>2. /\ c.form = "Sine" /\ c.strength = e.strength /\ c.length = e.length
        /\ Guid(c) = "GUID_Sine"
    BY <2>1 DEF FfbEffect, Guid
  <2>3. Meaning(e) = "GUID_Sine"
    BY <1>3 DEF Meaning
  <2> QED
    BY <1>1, <2>2, <2>3 DEF c, Guids
<1>4. CASE e.type_ = "FF_CONSTANT"
  <2>1. c = FfbEffect("Constant", None, e)
    BY <1>4 DEF ffb_effect_from_sys
  <2> HIDE DEF c
  <2>2. /\ c.form = None /\ c.strength = e.strength /\ c.length = e.length
        /\ Guid(c) = "GUID_ConstantForce"
    BY <2>1 DEF FfbEffect, Guid
  <2>3. Meaning(e) = "GUID_ConstantForce"
    BY <1>4 DEF Meaning
  <2> QED
    BY <1>1, <2>2, <2>3, EffectAssumption DEF c, Guids
<1>5. CASE e.type_ = "FF_SPRING"
  <2>1. c = FfbEffect("Condition", "Spring", e)
    BY <1>5 DEF ffb_effect_from_sys, condition_kind_from_sys
  <2> HIDE DEF c
  <2>2. /\ c.form = "Spring" /\ c.strength = e.strength /\ c.length = e.length
        /\ Guid(c) = "GUID_Spring"
    BY <2>1 DEF FfbEffect, Guid
  <2>3. Meaning(e) = "GUID_Spring"
    BY <1>5 DEF Meaning
  <2> QED
    BY <1>1, <2>2, <2>3 DEF c, Guids
<1>6. CASE e.type_ = "FF_DAMPER"
  <2>1. c = FfbEffect("Condition", "Damper", e)
    BY <1>6 DEF ffb_effect_from_sys, condition_kind_from_sys
  <2> HIDE DEF c
  <2>2. /\ c.form = "Damper" /\ c.strength = e.strength /\ c.length = e.length
        /\ Guid(c) = "GUID_Damper"
    BY <2>1 DEF FfbEffect, Guid
  <2>3. Meaning(e) = "GUID_Damper"
    BY <1>6 DEF Meaning
  <2> QED
    BY <1>1, <2>2, <2>3 DEF c, Guids
<1> QED
  BY <1>2, <1>3, <1>4, <1>5, <1>6

LEMMA EffectsInitially ==
  ASSUME EffectInit
  PROVE  EInv
BY BackendAssumption, EffectAssumption, NoneAssumption
DEF EffectInit, EInv, Tables, NeverStale, AcceptedArrives, OpenedDevice,
    Devices

(* One slot of the three tables.                                           *)
Fits(id) ==
  /\ (created[id] = None) = (backend.effects[id] = "absent")
  /\ created[id] # None =>
       /\ slots[id] # None
       /\ created[id].guid = Meaning(slots[id].effect)
       /\ Absolute(created[id].strength) = Absolute(slots[id].effect.strength)
       /\ (created[id].duration = "INFINITE") = (slots[id].effect.length = 0)

(* What is created of a supported effect is that effect.                   *)
LEMMA CreatedFits ==
  ASSUME NEW e \in SysEffects, Supported(e), NEW gain \in Levels
  PROVE  LET made == create_direct_input_effect(ffb_effect_from_sys(e), gain) IN
         /\ made \in DirectInputEffects /\ made # None
         /\ made.guid = Meaning(e) /\ Absolute(made.strength) = Absolute(e.strength)
         /\ (made.duration = "INFINITE") = (e.length = 0)
<1> DEFINE c == ffb_effect_from_sys(e)
           made == create_direct_input_effect(c, gain)
<1>1. /\ Guid(c) = Meaning(e) /\ Guid(c) \in Guids /\ c.strength = e.strength
      /\ c.length = e.length /\ e.strength \in Int /\ e.length \in Nat
  BY Translated
<1>2. /\ Absolute(e.strength) \in Int
      /\ Absolute(Absolute(e.strength)) = Absolute(e.strength)
  BY <1>1 DEF Absolute
<1> HIDE DEF c
<1>3. made \in DirectInputEffects
  BY <1>1, <1>2 DEF create_direct_input_effect, DirectInputEffects
<1>4. made.guid = Meaning(e) /\ Absolute(made.strength) = Absolute(e.strength)
  BY <1>1, <1>2 DEF create_direct_input_effect
<1>5. (made.duration = "INFINITE") = (e.length = 0)
  BY <1>1 DEF create_direct_input_effect
<1>6. made # None
  BY <1>3, NoneAssumption
<1> QED
  BY <1>3, <1>4, <1>5, <1>6 DEF c

LEMMA EffectUploadKeeps ==
  ASSUME EInv, NEW id \in Effects, NEW e \in SysEffects,
         NEW owner \in {"game", "test"}, NEW outcome \in Outcomes,
         SysUpload(owner, id, e, outcome)
  PROVE  EInv'
<1> DEFINE f == Emulated(e)
           c == ffb_effect_from_sys(f)
<1>1. f \in SysEffects
  BY EmulatedIsSys
<1>2. CASE ~ Supported(f)
  <2>1. answer'.reply = None /\ UNCHANGED <<slots, client, backend, created>>
    BY <1>2 DEF SysUpload, Answered
  <2> QED
    BY <2>1, EffectAssumption DEF EInv, Tables, NeverStale, AcceptedArrives
<1>3. CASE Supported(f)
  <2>1. /\ c.form # "Err" /\ Guid(c) # "Err"
    BY <1>1, <1>3, Translated
  <2>2. /\ answer' = [type_ |-> e.type_, waveform |-> e.waveform, result |-> "ok",
                      reply |-> Reply(c, outcome)]
        /\ slots' = [slots EXCEPT ![id] = [owner |-> owner, effect |-> f]]
        /\ Upload(id, c, outcome) /\ client' = client
    BY <1>3, <2>1 DEF SysUpload, Answered
  <2>3. answer'.reply # "UnsupportedOperation"
    BY <2>1, <2>2 DEF Reply
  <2> DEFINE made == create_direct_input_effect(c, backend.master_gain)
             slot == [owner |-> owner, effect |-> f]
  <2>4. backend.master_gain \in Levels
    BY DEF EInv, Tables, Devices
  <2>5. /\ made \in DirectInputEffects /\ made # None
        /\ made.guid = Meaning(f) /\ Absolute(made.strength) = Absolute(f.strength)
        /\ (made.duration = "INFINITE") = (f.length = 0)
    BY <1>1, <1>3, <2>4, CreatedFits
  <2>6. slot \in KernelEffects /\ slot # None
    BY <1>1, NoneAssumption DEF KernelEffects
  <2>7. /\ created' = [created EXCEPT ![id] = IF outcome = "ok" THEN made ELSE None]
        /\ backend' = [backend EXCEPT !.effects[id] =
                         IF outcome = "ok" THEN "stopped" ELSE "absent"]
        /\ slots' = [slots EXCEPT ![id] = slot]
    BY <2>1, <2>2 DEF Upload, upload_effect, Put
  <2> HIDE DEF made, f, c
  <2>8. slot.effect = f
    OBVIOUS
  <2> HIDE DEF slot
  <2>9. Tables'
    BY <1>3, <2>5, <2>6, <2>7, <2>8 DEF EInv, Tables, Devices
  <2>10. ASSUME NEW i \in Effects PROVE Fits(i)'
    <3>1. CASE i # id
      <4>1. slots'[i] = slots[i] /\ created'[i] = created[i]
            /\ backend'.effects[i] = backend.effects[i]
        BY <2>7, <3>1 DEF EInv, Tables, Devices
      <4> QED
        BY <4>1 DEF EInv, NeverStale, Fits
    <3>2. CASE i = id
      <4>1. /\ slots'[i] = slot
            /\ created'[i] = IF outcome = "ok" THEN made ELSE None
            /\ backend'.effects[i] = IF outcome = "ok" THEN "stopped" ELSE "absent"
        BY <2>7, <3>2 DEF EInv, Tables, Devices
      <4> QED
        BY <2>5, <2>6, <2>8, <4>1 DEF Fits
    <3> QED
      BY <3>1, <3>2
  <2> QED
    BY <2>2, <2>3, <2>9, <2>10 DEF EInv, NeverStale, Fits, AcceptedArrives
<1> QED
  BY <1>2, <1>3

(* A slot that is given up is given up in all three tables.                *)
LEMMA EffectErasureKeeps ==
  ASSUME EInv, NEW id, UNCHANGED <<answer, client>>,
         slots' = [slots EXCEPT ![id] = None], Erase(id)
  PROVE  EInv'
<1>1. /\ created' = [created EXCEPT ![id] = None]
      /\ backend' = [backend EXCEPT !.effects[id] = "absent"]
  BY DEF Erase, erase_effect, Put
<1>2. Tables'
  BY <1>1 DEF EInv, Tables, Devices
<1>3. ASSUME NEW i \in Effects PROVE Fits(i)'
  <2>1. CASE i # id
    <3>1. slots'[i] = slots[i] /\ created'[i] = created[i]
          /\ backend'.effects[i] = backend.effects[i]
      BY <1>1, <2>1 DEF EInv, Tables, Devices
    <3> QED
      BY <3>1 DEF EInv, NeverStale, Fits
  <2>2. CASE i = id
    <3>1. created'[i] = None /\ backend'.effects[i] = "absent"
      BY <1>1, <2>2 DEF EInv, Tables, Devices
    <3> QED
      BY <3>1 DEF Fits
  <2> QED
    BY <2>1, <2>2
<1> QED
  BY <1>2, <1>3 DEF EInv, NeverStale, Fits, AcceptedArrives

(* The gain of the moment is in none of what the tables are compared by.   *)
LEMMA EffectGainKeeps ==
  ASSUME EInv, NEW gain \in Levels, NEW outcome \in Outcomes, GameGain(gain, outcome)
  PROVE  EInv'
<1>1. backend' \in Devices /\ backend'.effects = backend.effects
  BY DEF GameGain, set_gain, EInv, Tables, Devices
<1>2. UNCHANGED <<slots, answer, client, created>>
  BY DEF GameGain
<1> QED
  BY <1>1, <1>2 DEF EInv, Tables, NeverStale, AcceptedArrives

LEMMA EffectsKeep ==
  ASSUME EInv, [EffectNext]_effectVars
  PROVE  EInv'
<1>1. CASE UNCHANGED effectVars
  BY <1>1 DEF effectVars, EInv, Tables, NeverStale, AcceptedArrives
<1>2. ASSUME NEW id \in Effects, NEW o \in Outcomes, NEW e \in SysEffects,
             GameUpload(id, e, o)
      PROVE  EInv'
  BY <1>2, EffectUploadKeeps DEF GameUpload
<1>3. ASSUME NEW id \in Effects, NEW o \in Outcomes, NEW c \in TestSteps,
             TestUpload(id, c, o)
      PROVE  EInv'
  BY <1>3, EffectUploadKeeps, TestedIsSys DEF TestUpload
<1>4. ASSUME NEW id \in Effects, GameErase(id) PROVE EInv'
  BY <1>4, EffectErasureKeeps DEF GameErase
<1>5. CASE TestErase
  BY <1>5, EffectErasureKeeps DEF TestErase
<1>6. ASSUME NEW gain \in Levels, NEW o \in Outcomes, GameGain(gain, o) PROVE EInv'
  BY <1>6, EffectGainKeeps
<1> QED
  BY <1>1, <1>2, <1>3, <1>4, <1>5, <1>6 DEF EffectNext

(* The three tables of a slot agree in every state.                        *)
THEOREM EffectsInvariance == EffectSpec => []EInv
BY EffectsInitially, EffectsKeep, PTL DEF EffectSpec

(* What the kernel lets through, ffb_effect_from_sys translates and        *)
(* create_direct_input_effect supports: no upload ends the client, none is *)
(* of a kind the server refuses.                                           *)
THEOREM AcceptedArrivesHolds == EffectSpec => []AcceptedArrives
<1>1. EInv => AcceptedArrives
  BY DEF EInv
<1> QED
  BY <1>1, EffectsInvariance, PTL

(* Through replacements, failed creations and erasures by game and test, a *)
(* slot of the wheel holds the effect the kernel has there or none.        *)
THEOREM NeverStaleHolds == EffectSpec => []NeverStale
<1>1. EInv => NeverStale
  BY DEF EInv
<1> QED
  BY <1>1, EffectsInvariance, PTL
=============================================================================
