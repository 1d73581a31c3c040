--------------------------- MODULE TestForceProofs ---------------------------
(***************************************************************************)
(* Proofs about TestForce, for forces of any number of steps, any number   *)
(* of forces, and any losses, copies, delays and answers of DirectInput: a *)
(* force stays in lockstep with the wheel, and "done" is said only of one  *)
(* that was played.                                                        *)
(***************************************************************************)
EXTENDS TestForce, TLAPS

Phases == {"menu", "ready", "await", "play"}

(* Where a force is, and what is in flight.                                *)
Typed ==
  /\ phase \in Phases /\ force \in 0 .. MaxForces /\ command_id \in 0 .. LastId
  /\ result \in [Forces -> {"none", "done", "failed"}]
  /\ net \subseteq Commands \cup Replies /\ device \in Devices
  /\ executed \subseteq Forces \X (1 .. LastId) /\ faults \in [lost : Nat, copied : Nat]

Counted ==
  /\ phase # "menu" => force \in Forces /\ result[force] = "none"
  /\ phase \in {"ready", "play"} => command_id < LastId
  /\ phase = "await" => command_id > 0
  /\ force = 0 => command_id = 0
  /\ \A f \in Forces : f > force => result[f] = "none"
  /\ \A f \in Forces : f = force /\ result[f] = "done" => command_id = LastId
  /\ \A m \in net : m.force <= force
  /\ \A x \in executed : x[1] <= force

(* The commands of this force that the wheel has executed: the first n.    *)
Executed(n) == \A id \in 1 .. LastId : <<force, id>> \in executed <=> id <= n

(* As long as the force has not been given up.                             *)
Alive == phase = "menu" /\ force > 0 => result[force] = "done"

(* The wheel has executed all commands, or all but the one whose reply is  *)
(* awaited; a reply in flight is for one that was executed.  Nothing       *)
(* duplicated, there is one datagram at most, for that command.            *)
Lockstep ==
  Undisturbed(force) /\ Alive =>
    /\ Executed(command_id) \/ (phase = "await" /\ Executed(command_id - 1))
    /\ \A m \in net : m.force = force /\ m.command_id <= command_id
    /\ \A m \in net \cap Replies : <<force, m.command_id>> \in executed
    /\ faults.copied = 0 =>
         /\ \A m \in net : phase = "await" /\ m.command_id = command_id
         /\ \A m, l \in net : m = l
         /\ Executed(command_id) /\ command_id % 4 = 0 => device.effects[1] = "absent"

IInv == Typed /\ Counted /\ Lockstep /\ DoneMeansPlayed

-----------------------------------------------------------------------------
LEMMA Ids == LastId \in Nat /\ LastId > 0 /\ LastId % 4 = 0
<1>1. PICK n \in Nat : n = Steps /\ n > 0
  BY TestAssumption
<1>2. (4 * n) \in Nat /\ 4 * n > 0 /\ (4 * n) % 4 = 0
  BY <1>1
<1> QED
  BY <1>1, <1>2 DEF LastId

LEMMA Kind ==
  ASSUME NEW id \in Nat
  PROVE  /\ CommandKind(id).kind \in {"Upload", "Play", "Stop", "Erase"}
         /\ CommandKind(id).effect_id = 1
         /\ id % 4 = 0 => CommandKind(id).kind = "Erase"
<1>1. id % 4 \in {0, 1, 2, 3}
  OBVIOUS
<1> QED
  BY <1>1 DEF CommandKind

(* Whatever DirectInput answers, after an Erase the effect is absent.      *)
LEMMA Wheel ==
  ASSUME device \in Devices, NEW id \in Nat, NEW o
  PROVE  /\ Applied(device, CommandKind(id), o) \in Devices
         /\ id % 4 = 0 => Applied(device, CommandKind(id), o).effects[1] = "absent"
<1> DEFINE c == CommandKind(id)
<1>1. /\ c.kind \in {"Upload", "Play", "Stop", "Erase"} /\ c.effect_id = 1
      /\ id % 4 = 0 => c.kind = "Erase"
  BY Kind
<1> HIDE DEF c
<1>2. \A s \in {"absent", "stopped", "playing"} :
        Put(device, 1, s) \in Devices /\ Put(device, 1, s).effects[1] = s
  BY TestAssumption DEF Put, Devices
<1>3. Applied(device, c, o) \in Devices
  BY <1>1, <1>2 DEF Applied, upload_effect, erase_effect, play_effect, stop_effect
<1>4. c.kind = "Erase" => Applied(device, c, o).effects[1] = "absent"
  BY <1>1, <1>2 DEF Applied, erase_effect
<1> QED
  BY <1>1, <1>3, <1>4 DEF c

LEMMA Initially == Init => IInv
<1> SUFFICES ASSUME Init PROVE IInv
  OBVIOUS
<1>1. OpenedDevice \in Devices /\ OpenedDevice.effects[1] = "absent"
  BY BackendAssumption, TestAssumption DEF OpenedDevice, Devices
<1>2. Typed
  BY <1>1, Ids, TestAssumption DEF Init, Typed, Phases
<1>3. Counted
  BY Ids DEF Init, Counted, Forces
<1>4. Executed(command_id)
  BY Ids DEF Init, Executed
<1>5. Lockstep
  BY <1>1, <1>4 DEF Init, Lockstep
<1>6. DoneMeansPlayed
  BY DEF Init, DoneMeansPlayed
<1> QED
  BY <1>2, <1>3, <1>5, <1>6 DEF IInv

(* What a force that is done was, it stays.                                *)
LEMMA DoneStays ==
  ASSUME DoneMeansPlayed, result' = result, executed \subseteq executed',
         faults'.copied = 0 => faults.copied = 0
  PROVE  DoneMeansPlayed'
BY DEF DoneMeansPlayed, Undisturbed

(* The next force begins where the last one has left the wheel clean.      *)
LEMMA ChooseKeeps ==
  ASSUME IInv, ChooseForce
  PROVE  IInv'
<1>1. /\ phase = "menu" /\ phase' = "ready" /\ force < MaxForces /\ force' = force + 1
      /\ command_id' = 0 /\ UNCHANGED <<result, net, device, executed, faults>>
  BY DEF ChooseForce, serverVars
<1>2. force \in Nat /\ force' \in Forces /\ LastId \in Nat /\ LastId > 0
  BY <1>1, Ids, TestAssumption DEF IInv, Typed, Forces
<1>3. Typed'
  BY <1>1, <1>2, TestAssumption DEF IInv, Typed, Phases, Forces
<1>4. Counted'
  <2>1. result[force'] = "none"
    BY <1>1, <1>2 DEF IInv, Counted
  <2>2. \A f \in Forces : f > force' => result[f] = "none"
    BY <1>1, <1>2 DEF IInv, Counted, Forces
  <2>3. \A m \in net : m.force <= force'
    BY <1>1, <1>2 DEF IInv, Counted, Typed, Commands, Replies, Forces
  <2>4. \A x \in executed : x[1] <= force'
    <3>1. \A x \in executed : x[1] \in Nat /\ x[1] <= force
      BY DEF IInv, Counted, Typed, Forces
    <3> QED
      BY <1>1, <1>2, <3>1
  <2> QED
    BY <1>1, <1>2, <2>1, <2>2, <2>3, <2>4 DEF Counted
<1>5. Lockstep'
  <2> SUFFICES ASSUME Undisturbed(force)' PROVE Lockstep'
    BY DEF Lockstep
  <2>1. /\ \A g \in 1 .. force : result[g] = "done"
        /\ force > 0 => faults.copied = 0
    BY <1>1, <1>2 DEF Undisturbed
  <2>2. Undisturbed(force) /\ Alive
    BY <1>2, <2>1 DEF Undisturbed, Alive
  <2>3. net = {}
    <3>1. CASE force = 0
      BY <3>1 DEF IInv, Counted, Typed, Commands, Replies, Forces
    <3>2. CASE force > 0
      BY <1>1, <2>1, <2>2, <3>2 DEF IInv, Lockstep
    <3> QED
      BY <1>2, <3>1, <3>2
  <2>4. \A id \in 1 .. LastId : <<force', id>> \notin executed
    BY <1>1, <1>2 DEF IInv, Counted
  <2>5. Executed(0)'
    BY <1>1, <1>2, <2>4 DEF Executed
  <2>6. faults.copied = 0 => device.effects[1] = "absent"
    <3>1. command_id % 4 = 0
      <4>1. CASE force = 0
        BY <4>1 DEF IInv, Counted
      <4>2. CASE force > 0
        BY <1>2, <2>1, <4>2, Ids, TestAssumption DEF IInv, Counted, Typed, Forces
      <4> QED
        BY <1>2, <4>1, <4>2
    <3>2. Executed(command_id)
      BY <1>1, <2>2 DEF IInv, Lockstep
    <3> QED
      BY <2>2, <3>1, <3>2 DEF IInv, Lockstep
  <2> QED
    BY <1>1, <2>3, <2>5, <2>6 DEF Lockstep, Executed
<1> QED
  BY <1>1, <1>3, <1>4, <1>5, DoneStays DEF IInv

LEMMA SendKeeps ==
  ASSUME IInv, SendCommand
  PROVE  IInv'
<1> DEFINE m == [type |-> "FfbCommand", force |-> force, command_id |-> command_id + 1]
<1>1. /\ phase = "ready" /\ phase' = "await" /\ command_id' = command_id + 1
      /\ net' = net \cup {m} /\ UNCHANGED <<force, result, device, executed, faults>>
  BY DEF SendCommand, serverVars
<1>2. /\ command_id \in Nat /\ command_id < LastId /\ force \in Forces /\ LastId \in Nat
      /\ force \in Nat /\ force > 0 /\ result[force] = "none"
  BY <1>1, Ids DEF IInv, Typed, Counted, Forces
<1>3. m \in Commands /\ m \notin Replies /\ command_id' \in 0 .. LastId
  BY <1>1, <1>2 DEF Commands, Replies
<1>4. Typed'
  BY <1>1, <1>3 DEF IInv, Typed, Phases
<1>5. Counted'
  BY <1>1, <1>2 DEF IInv, Counted
<1>6. Lockstep'
  <2> SUFFICES ASSUME Undisturbed(force)' PROVE Lockstep'
    BY DEF Lockstep
  <2>1. Undisturbed(force) /\ Alive
    BY <1>1 DEF Undisturbed, Alive
  <2>2. /\ Executed(command_id)
        /\ \A l \in net : l.force = force /\ l.command_id <= command_id
        /\ \A l \in net \cap Replies : <<force, l.command_id>> \in executed
        /\ faults.copied = 0 => net = {}
    BY <1>1, <2>1 DEF IInv, Lockstep
  <2>3. command_id' - 1 = command_id /\ command_id' \in 1 .. LastId
        /\ <<force, command_id'>> \notin executed
    BY <1>1, <1>2, <2>2 DEF Executed
  <2>4. \A l \in net' : l.force = force /\ l.command_id <= command_id'
    <3>1. \A l \in net : l.command_id \in Nat
      BY DEF IInv, Typed, Commands, Replies
    <3> QED
      BY <1>1, <1>2, <2>2, <3>1
  <2>5. (Executed(command_id - 1))'
    BY <1>1, <2>2, <2>3 DEF Executed
  <2> QED
    BY <1>1, <1>3, <2>2, <2>3, <2>4, <2>5 DEF Lockstep, Executed
<1> QED
  BY <1>1, <1>4, <1>5, <1>6, DoneStays DEF IInv

(* What is lost, or comes too late for anyone to wait for it.              *)
LEMMA LoseKeeps ==
  ASSUME IInv, NEW m \in net, Lose(m)
  PROVE  IInv'
<1>1. /\ net' = net \ {m} /\ faults' = [faults EXCEPT !.lost = @ + 1]
      /\ UNCHANGED <<phase, force, command_id, result, device, executed>>
  BY DEF Lose, testerVars, serverVars
<1>2. faults' \in [lost : Nat, copied : Nat] /\ faults'.copied = faults.copied
  BY <1>1 DEF IInv, Typed
<1>3. Typed' /\ Counted'
  BY <1>1, <1>2 DEF IInv, Typed, Counted
<1>4. Lockstep'
  BY <1>1, <1>2 DEF IInv, Lockstep, Undisturbed, Alive, Executed
<1> QED
  BY <1>1, <1>2, <1>3, <1>4, DoneStays DEF IInv

LEMMA SleepKeeps ==
  ASSUME IInv, StepPlayed
  PROVE  IInv'
<1>1. /\ phase = "play" /\ phase' = "ready"
      /\ UNCHANGED <<force, command_id, result, net, device, executed, faults>>
  BY DEF StepPlayed, serverVars
<1>2. Typed' /\ Counted'
  BY <1>1 DEF IInv, Typed, Counted, Phases
<1>3. Lockstep'
  BY <1>1 DEF IInv, Lockstep, Undisturbed, Alive, Executed
<1> QED
  BY <1>1, <1>2, <1>3, DoneStays DEF IInv

(* A force that is given up: nothing is claimed of it any more.            *)
LEMMA GivingUp ==
  ASSUME IInv, phase = "await", Return("failed"), net' \subseteq net,
         UNCHANGED <<force, command_id, device, executed>>,
         faults' \in [lost : Nat, copied : Nat], faults'.copied = 0 => faults.copied = 0
  PROVE  IInv'
<1>1. phase' = "menu" /\ result' = [result EXCEPT ![force] = "failed"] /\ force \in Forces
      /\ force \in Nat
  BY DEF Return, IInv, Counted, Forces
<1>2. /\ result' \in [Forces -> {"none", "done", "failed"}] /\ result'[force] = "failed"
      /\ \A f \in Forces : f # force => result'[f] = result[f]
  BY <1>1 DEF IInv, Typed
<1>3. Typed'
  BY <1>1, <1>2 DEF IInv, Typed, Phases
<1>4. Counted'
  <2>1. \A f \in Forces : f > force => f # force
    BY <1>1 DEF Forces
  <2> QED
    BY <1>1, <1>2, <2>1 DEF IInv, Counted
<1>5. Lockstep'
  BY <1>1, <1>2 DEF Lockstep, Alive, Forces
<1>6. DoneMeansPlayed'
  <2> SUFFICES ASSUME NEW f \in Forces, result'[f] = "done", Undisturbed(f)'
               PROVE  \A id \in 1 .. LastId : <<f, id>> \in executed
    BY DEF DoneMeansPlayed
  <2>1. f # force /\ result[f] = "done"
    BY <1>2
  <2>2. \A g \in 1 .. f - 1 : g \in Forces
    BY TestAssumption DEF Forces
  <2>3. Undisturbed(f)
    BY <1>2, <2>2 DEF Undisturbed
  <2> QED
    BY <2>1, <2>3 DEF IInv, DoneMeansPlayed
<1> QED
  BY <1>3, <1>4, <1>5, <1>6 DEF IInv

LEMMA Copying ==
  ASSUME faults \in [lost : Nat, copied : Nat], NEW copies \in 0 .. 1, Copied(copies)
  PROVE  /\ faults' \in [lost : Nat, copied : Nat]
         /\ faults'.copied = 0 => faults.copied = 0 /\ copies = 0
<1>1. faults' = [faults EXCEPT !.copied = @ + copies] /\ copies \in Nat /\ faults.copied \in Nat
  BY DEF Copied
<1>2. faults'.copied = faults.copied + copies
  BY <1>1
<1> QED
  BY <1>1, <1>2

(* The awaited reply says that its command was executed, and so were those *)
(* before it; a late one is skipped.                                       *)
LEMMA ReplyKeeps ==
  ASSUME IInv, NEW m \in net, NEW copies \in 0 .. 1, RecvReply(m, copies)
  PROVE  IInv'
<1>1. /\ phase = "await" /\ m \in net \cap Replies /\ Copied(copies)
      /\ net' = Remaining(m, copies) /\ net' \subseteq net
      /\ UNCHANGED <<force, command_id, device, executed>>
  BY DEF RecvReply, serverVars, Remaining
<1>2. /\ faults' \in [lost : Nat, copied : Nat]
      /\ faults'.copied = 0 => faults.copied = 0 /\ net' = net \ {m}
  BY <1>1, Copying DEF IInv, Typed, Remaining
<1>3. /\ force \in Forces /\ force \in Nat /\ result[force] = "none" /\ command_id > 0
      /\ command_id \in 1 .. LastId /\ LastId \in Nat
  BY <1>1, Ids DEF IInv, Counted, Typed, Forces
<1>4. CASE UNCHANGED <<phase, result>>
  <2>1. Typed' /\ Counted'
    BY <1>1, <1>2, <1>4 DEF IInv, Typed, Counted
  <2>2. Lockstep'
    BY <1>1, <1>2, <1>4 DEF IInv, Lockstep, Undisturbed, Alive, Executed
  <2> QED
    BY <1>1, <1>2, <1>4, <2>1, <2>2, DoneStays DEF IInv
<1>5. CASE Return("failed")
  BY <1>1, <1>2, <1>5, GivingUp DEF IInv
<1>6. CASE Awaited(m) /\ AfterAck
  <2>1. Undisturbed(force) => Executed(command_id)
    <3> SUFFICES ASSUME Undisturbed(force) PROVE Executed(command_id)
      OBVIOUS
    <3>1. Alive
      BY <1>1 DEF Alive
    <3>2. <<force, command_id>> \in executed
      BY <1>1, <1>6, <3>1 DEF Awaited, IInv, Lockstep
    <3>3. ~ Executed(command_id - 1)
      BY <1>3, <3>2 DEF Executed
    <3> QED
      BY <3>1, <3>3 DEF IInv, Lockstep
  <2>2. faults'.copied = 0 /\ Undisturbed(force) => net' = {}
    BY <1>1, <1>2 DEF IInv, Lockstep, Alive
  <2>3. CASE command_id # LastId
    <3>1. phase' \in {"play", "ready"} /\ result' = result
      BY <1>6, <2>3 DEF AfterAck
    <3>2. Typed' /\ Counted'
      BY <1>1, <1>2, <1>3, <2>3, <3>1 DEF IInv, Typed, Counted, Phases
    <3>3. Lockstep'
      <4> SUFFICES ASSUME Undisturbed(force)' PROVE Lockstep'
        BY DEF Lockstep
      <4>1. Undisturbed(force) /\ Alive /\ Executed(command_id) /\ Executed(command_id)'
        BY <1>1, <1>2, <2>1, <3>1 DEF Undisturbed, Alive, Executed
      <4> QED
        BY <1>1, <1>2, <2>2, <4>1 DEF IInv, Lockstep
    <3> QED
      BY <1>1, <1>2, <3>1, <3>2, <3>3, DoneStays DEF IInv
  <2>4. CASE command_id = LastId
    <3>1. phase' = "menu" /\ result' = [result EXCEPT ![force] = "done"]
      BY <1>6, <2>4 DEF AfterAck, Return
    <3>2. /\ result' \in [Forces -> {"none", "done", "failed"}] /\ result'[force] = "done"
          /\ \A f \in Forces : f # force => result'[f] = result[f]
      BY <1>3, <3>1 DEF IInv, Typed
    <3>3. \A f \in Forces : \A g \in 1 .. f - 1 : g \in Forces
      BY TestAssumption DEF Forces
    <3>4. Typed'
      BY <1>1, <1>2, <3>1, <3>2 DEF IInv, Typed, Phases
    <3>5. Counted'
      <4>1. \A f \in Forces : f > force => f # force
        BY <1>3 DEF Forces
      <4> QED
        BY <1>1, <1>2, <1>3, <2>4, <3>1, <3>2, <4>1 DEF IInv, Counted
    <3>6. ASSUME NEW f \in Forces, f <= force, Undisturbed(f)' PROVE Undisturbed(f)
      <4>1. \A g \in 1 .. f - 1 : g \in Forces /\ g # force
        BY <1>3, <3>3, <3>6 DEF Forces
      <4> QED
        BY <1>2, <3>2, <3>6, <4>1 DEF Undisturbed
    <3>7. Lockstep'
      <4> SUFFICES ASSUME Undisturbed(force)' PROVE Lockstep'
        BY DEF Lockstep
      <4>1. Undisturbed(force) /\ Alive
        BY <1>1, <1>3, <3>6 DEF Alive
      <4>2. Executed(command_id) /\ Executed(command_id)'
        BY <1>1, <2>1, <4>1 DEF Executed
      <4> QED
        BY <1>1, <1>2, <2>2, <4>1, <4>2 DEF IInv, Lockstep
    <3>8. DoneMeansPlayed'
      <4> SUFFICES ASSUME NEW f \in Forces, result'[f] = "done", Undisturbed(f)'
                   PROVE  \A id \in 1 .. LastId : <<f, id>> \in executed
        BY <1>1 DEF DoneMeansPlayed
      <4>1. f <= force
        BY <1>3, <3>2 DEF IInv, Counted, Forces
      <4>2. Undisturbed(f)
        BY <3>6, <4>1
      <4>3. CASE f = force
        BY <1>3, <2>1, <2>4, <4>2, <4>3 DEF Executed
      <4>4. CASE f # force
        BY <3>2, <4>2, <4>4 DEF IInv, DoneMeansPlayed
      <4> QED
        BY <4>3, <4>4
    <3> QED
      BY <3>4, <3>5, <3>7, <3>8 DEF IInv
  <2> QED
    BY <2>3, <2>4
<1> QED
  BY <1>4, <1>5, <1>6 DEF RecvReply

(* A command that is executed was sent: it is the last one, or one before  *)
(* it that comes again.                                                    *)
LEMMA CommandKeeps ==
  ASSUME IInv, NEW m \in net, NEW copies \in 0 .. 1, NEW o \in Outcomes,
         RecvCommand(m, copies, o)
  PROVE  IInv'
<1>1. /\ m \in net \cap Commands /\ Copied(copies)
      /\ device' = Applied(device, CommandKind(m.command_id), o)
      /\ executed' = executed \cup {<<m.force, m.command_id>>}
      /\ UNCHANGED <<phase, force, command_id, result>>
  BY DEF RecvCommand, testerVars
<1>2. PICK r \in Replies : /\ net' = Remaining(m, copies) \cup {r}
                           /\ r.force = m.force /\ r.command_id = m.command_id
  <2> DEFINE r == [type |-> "FfbReply", force |-> m.force, command_id |-> m.command_id,
                   kind |-> IF Rejects(device, CommandKind(m.command_id), o)
                              THEN "Rejected" ELSE "Ack"]
  <2>1. net' = Remaining(m, copies) \cup {r}
    BY DEF RecvCommand
  <2>2. r \in Replies
    BY <1>1 DEF Commands, Replies
  <2> QED
    BY <2>1, <2>2
<1>3. /\ faults' \in [lost : Nat, copied : Nat]
      /\ faults'.copied = 0 => faults.copied = 0 /\ net' = (net \ {m}) \cup {r}
      /\ net' \subseteq net \cup {r}
  BY <1>1, <1>2, Copying DEF IInv, Typed, Remaining
<1>4. /\ m.force \in Forces /\ m.command_id \in 1 .. LastId /\ m.command_id \in Nat
      /\ LastId \in Nat /\ command_id \in Nat /\ m.force <= force
  BY <1>1, Ids DEF Commands, IInv, Typed, Counted
<1>5. /\ device' \in Devices
      /\ m.command_id % 4 = 0 => device'.effects[1] = "absent"
  BY <1>1, <1>4, Wheel DEF IInv, Typed
<1>6. Typed'
  BY <1>1, <1>2, <1>3, <1>4, <1>5 DEF IInv, Typed
<1>7. Counted'
  BY <1>1, <1>2, <1>3, <1>4 DEF IInv, Counted
<1>8. Lockstep'
  <2> SUFFICES ASSUME Undisturbed(force)', Alive' PROVE Lockstep'
    BY DEF Lockstep
  <2>1. Undisturbed(force) /\ Alive
    BY <1>1, <1>3 DEF Undisturbed, Alive
  <2>2. m.force = force /\ m.command_id <= command_id
    BY <2>1 DEF IInv, Lockstep
  <2>3. \A l \in net' : l.force = force /\ l.command_id <= command_id
    BY <1>2, <1>3, <2>1, <2>2 DEF IInv, Lockstep
  <2>4. \A l \in net' \cap Replies : <<force, l.command_id>> \in executed'
    BY <1>1, <1>2, <1>3, <2>1, <2>2 DEF IInv, Lockstep
  <2>5. \/ \A id \in 1 .. LastId : <<force, id>> \in executed' <=> id <= command_id
        \/ /\ phase = "await"
           /\ \A id \in 1 .. LastId : <<force, id>> \in executed' <=> id <= command_id - 1
    <3>1. \A id \in 1 .. LastId :
            <<force, id>> \in executed' <=> <<force, id>> \in executed \/ id = m.command_id
      BY <1>1, <2>2
    <3>2. CASE Executed(command_id)
      BY <1>4, <2>2, <3>1, <3>2 DEF Executed
    <3>3. CASE phase = "await" /\ Executed(command_id - 1)
      BY <1>4, <2>2, <3>1, <3>3 DEF Executed
    <3> QED
      BY <2>1, <3>2, <3>3 DEF IInv, Lockstep
  <2>6. ASSUME faults'.copied = 0
        PROVE  /\ \A l \in net' : phase = "await" /\ l.command_id = command_id
               /\ \A k, l \in net' : k = l
               /\ command_id % 4 = 0 => device'.effects[1] = "absent"
    <3>1. phase = "await" /\ m.command_id = command_id /\ net = {m}
      BY <1>3, <2>1, <2>6 DEF IInv, Lockstep
    <3>2. net' = {r}
      BY <1>3, <2>6, <3>1
    <3> QED
      BY <1>2, <1>5, <3>1, <3>2
  <2> QED
    BY <1>1, <2>3, <2>4, <2>5, <2>6 DEF Lockstep, Executed
<1> QED
  BY <1>1, <1>3, <1>6, <1>7, <1>8, DoneStays DEF IInv

LEMMA StepKeeps == IInv /\ [Next]_vars => IInv'
<1> SUFFICES ASSUME IInv, [Next]_vars PROVE IInv'
  OBVIOUS
<1>1. CASE UNCHANGED vars
  <2>1. UNCHANGED <<phase, force, command_id, result, net, device, executed, faults>>
    BY <1>1 DEF vars, testerVars, serverVars
  <2>2. Typed' /\ Counted'
    BY <2>1 DEF IInv, Typed, Counted
  <2>3. Lockstep'
    BY <2>1 DEF IInv, Lockstep, Undisturbed, Alive, Executed
  <2> QED
    BY <2>1, <2>2, <2>3, DoneStays DEF IInv
<1>2. CASE ReplyTimeout
  BY <1>2, GivingUp DEF ReplyTimeout, serverVars, IInv, Typed
<1> QED
  BY <1>1, <1>2, ChooseKeeps, SendKeeps, SleepKeeps, LoseKeeps, ReplyKeeps, CommandKeeps DEF Next

-----------------------------------------------------------------------------
(* Every state of the test, the wheel and the network between them keeps   *)
(* the invariant.                                                          *)
THEOREM Invariance == Spec => []IInv
BY Initially, StepKeeps, PTL DEF Spec

(* "done" is said only of a force whose every command the wheel executed,  *)
(* although a reply is known by its id alone and ids start over with each  *)
(* force, as long as none before it was given up.                          *)
THEOREM DoneMeansPlayedHolds == Spec => []DoneMeansPlayed
<1>1. IInv => DoneMeansPlayed
  BY DEF IInv
<1> QED
  BY <1>1, Invariance, PTL

(* wait_for_ffb_reply keeps the tester and the wheel within one command of *)
(* each other, and the wheel has lost the step's effect when the step ends.*)
THEOREM InLockstepHolds == Spec => []InLockstep
<1>1. IInv => InLockstep
  <2> SUFFICES ASSUME IInv, Undisturbed(force), NEW ids,
                      ids = {id \in 1 .. LastId : <<force, id>> \in executed}
               PROVE  /\ phase = "await" => ids \in {1 .. command_id - 1, 1 .. command_id}
                      /\ phase \in {"ready", "play"} => ids = 1 .. command_id
                      /\ \/ phase = "ready" /\ command_id % 4 = 0
                         \/ phase = "menu" /\ force > 0 /\ result[force] = "done"
                         => (faults.copied = 0 => device.effects[1] = "absent")
    BY DEF InLockstep
  <2>1. command_id \in 0 .. LastId /\ LastId \in Nat
    BY Ids DEF IInv, Typed
  <2>2. Executed(command_id) => ids = 1 .. command_id
    BY <2>1 DEF Executed
  <2>3. Executed(command_id - 1) => ids = 1 .. command_id - 1
    BY <2>1 DEF Executed
  <2>4. phase # "menu" => Alive
    BY DEF Alive
  <2>5. CASE phase = "menu" /\ force > 0 /\ result[force] = "done"
    <3>1. Alive /\ force \in Forces
      BY <2>5, TestAssumption DEF Alive, IInv, Typed, Forces
    <3>2. command_id = LastId /\ command_id % 4 = 0
      BY <2>5, <3>1, Ids DEF IInv, Counted
    <3>3. Executed(command_id)
      BY <2>5, <3>1 DEF IInv, Lockstep
    <3> QED
      BY <2>5, <3>1, <3>2, <3>3 DEF IInv, Lockstep
  <2>6. CASE phase # "menu"
    BY <2>2, <2>3, <2>4, <2>6 DEF IInv, Lockstep
  <2> QED
    BY <2>5, <2>6
<1> QED
  BY <1>1, Invariance, PTL
=============================================================================
