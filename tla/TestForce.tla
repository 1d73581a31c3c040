------------------------------ MODULE TestForce ------------------------------
(***************************************************************************)
(* `remote-steer test`: a force is a list of steps; each step uploads an   *)
(* effect, plays it, stops it and erases it, one command at a time, each   *)
(* awaited for 3 s.  In the menu one force follows another on the same     *)
(* socket.  Datagrams are lost, duplicated and delayed at will.            *)
(***************************************************************************)
EXTENDS PhysicalBackend, FiniteSets

CONSTANTS Steps,                 \* steps of a force
          MaxForces,             \* bound: forces chosen in the menu
          MaxLosses, MaxCopies   \* bounds: datagrams lost, duplicated

ASSUME TestAssumption ==
  /\ Steps \in Nat \ {0} /\ MaxForces \in Nat
  /\ MaxLosses \in Nat /\ MaxCopies \in Nat
  /\ Effects = {1}               \* EffectId(1) for every step

VARIABLES
  phase,       \* menu; await, a command's reply; ready, to send the next; play, the sleep
  force,       \* forces chosen so far
  command_id,  \* of the last command sent; 0 before a force's first
  result,      \* [forces -> none, done, failed]
  net,         \* commands and replies in flight
  device,      \* the server's backend
  executed,    \* history: <<force, command_id>> of the commands executed
  faults       \* datagrams lost and duplicated so far

testerVars == <<phase, force, command_id, result>>
serverVars == <<device, executed>>
vars == <<testerVars, net, serverVars, faults>>

Forces == 1 .. MaxForces
LastId == 4 * Steps

(* The command with an id: Upload, Play, Stop and Erase in turn.           *)
CommandKind(id) ==
  [kind |-> CASE id % 4 = 1 -> "Upload" [] id % 4 = 2 -> "Play"
              [] id % 4 = 3 -> "Stop" [] id % 4 = 0 -> "Erase",
   effect_id |-> 1]

Commands == [type : {"FfbCommand"}, force : Forces, command_id : 1 .. LastId]
Replies == [type : {"FfbReply"}, force : Forces, command_id : 1 .. LastId,
            kind : {"Ack", "Rejected"}]

Init ==
  /\ phase = "menu" /\ force = 0 /\ command_id = 0
  /\ result = [f \in Forces |-> "none"]
  /\ net = {} /\ device = OpenedDevice /\ executed = {}
  /\ faults = [lost |-> 0, copied |-> 0]

ChooseForce ==
  /\ phase = "menu" /\ force < MaxForces
  /\ phase' = "ready" /\ force' = force + 1 /\ command_id' = 0
  /\ UNCHANGED <<result, net, serverVars, faults>>

(* send_ffb_command                                                        *)
SendCommand ==
  /\ phase = "ready"
  /\ command_id' = command_id + 1
  /\ net' = net \cup {[type |-> "FfbCommand", force |-> force, command_id |-> command_id']}
  /\ phase' = "await"
  /\ UNCHANGED <<force, result, serverVars, faults>>

Return(how) ==
  /\ phase' = "menu"
  /\ result' = [result EXCEPT ![force] = how]

(* A Play is followed by the sleep of step.duration_ms, the last Erase by  *)
(* the end of the force.                                                   *)
AfterAck ==
  IF command_id = LastId THEN Return("done")
  ELSE /\ phase' = IF CommandKind(command_id).kind = "Play" THEN "play" ELSE "ready"
       /\ UNCHANGED result

(* A slip: any reply is taken for the awaited one.                         *)
Awaited_Any(m) == TRUE

Awaited(m) == m.command_id = command_id

Copied(copies) ==
  /\ faults.copied + copies <= MaxCopies
  /\ faults' = [faults EXCEPT !.copied = @ + copies]

Remaining(m, copies) == IF copies = 0 THEN net \ {m} ELSE net

(* wait_for_ffb_reply: replies with another id are skipped.                *)
RecvReply(m, copies) ==
  /\ phase = "await" /\ m \in net \cap Replies
  /\ Copied(copies) /\ net' = Remaining(m, copies)
  /\ IF ~ Awaited(m) THEN UNCHANGED <<phase, result>>
     ELSE IF m.kind = "Ack" THEN AfterAck ELSE Return("failed")
  /\ UNCHANGED <<force, command_id, serverVars>>

(* A slip: no deadline.                                                    *)
ReplyTimeout_Never == FALSE

ReplyTimeout ==
  /\ phase = "await" /\ Return("failed")
  /\ UNCHANGED <<force, command_id, net, serverVars, faults>>

StepPlayed ==
  /\ phase = "play" /\ phase' = "ready"
  /\ UNCHANGED <<force, command_id, result, net, serverVars, faults>>

(* The server applies a command and answers.                               *)
RecvCommand(m, copies, outcome) ==
  LET c == CommandKind(m.command_id) IN
  /\ m \in net \cap Commands /\ Copied(copies)
  /\ device' = Applied(device, c, outcome)
  /\ executed' = executed \cup {<<m.force, m.command_id>>}
  /\ net' = Remaining(m, copies) \cup
       {[type |-> "FfbReply", force |-> m.force, command_id |-> m.command_id,
         kind |-> IF Rejects(device, c, outcome) THEN "Rejected" ELSE "Ack"]}
  /\ UNCHANGED testerVars

Lose(m) ==
  /\ m \in net /\ faults.lost < MaxLosses
  /\ net' = net \ {m} /\ faults' = [faults EXCEPT !.lost = @ + 1]
  /\ UNCHANGED <<testerVars, serverVars>>

Next ==
  \/ ChooseForce \/ SendCommand \/ ReplyTimeout \/ StepPlayed
  \/ \E m \in net :
       \/ Lose(m)
       \/ \E copies \in 0 .. 1 :
            RecvReply(m, copies) \/ \E o \in Outcomes : RecvCommand(m, copies, o)

Spec == Init /\ [][Next]_vars

(* Timers fire and a force, once begun, is carried on.                     *)
FairSpec == Spec /\ WF_vars(SendCommand) /\ WF_vars(ReplyTimeout) /\ WF_vars(StepPlayed)

-----------------------------------------------------------------------------
(* Each force numbers its commands from 1: what is left in flight of an    *)
(* earlier one may be taken for its own.  A force is undisturbed when none *)
(* before it was given up and, after the first, nothing was duplicated.    *)
Undisturbed(f) ==
  /\ \A g \in 1 .. f - 1 : result[g] = "done"
  /\ f > 1 => faults.copied = 0

(* "done" is said only of a force whose every command the wheel executed.  *)
DoneMeansPlayed ==
  \A f \in Forces : result[f] = "done" /\ Undisturbed(f) =>
    \A id \in 1 .. LastId : <<f, id>> \in executed

(* One command is outstanding at a time, so that loss and delay never      *)
(* reorder a force: a step's upload finds the slot of the last step free,  *)
(* and the wheel is left without the effect when the force is done, unless *)
(* a duplicated command comes late.                                        *)
InLockstep ==
  Undisturbed(force) =>
    LET ids == {id \in 1 .. LastId : <<force, id>> \in executed}
        stepEnded == phase = "ready" /\ command_id % 4 = 0
        done == phase = "menu" /\ force > 0 /\ result[force] = "done"
    IN /\ phase = "await" => ids \in {1 .. command_id - 1, 1 .. command_id}
       /\ phase \in {"ready", "play"} => ids = 1 .. command_id
       /\ (stepEnded \/ done) /\ faults.copied = 0 => device.effects[1] = "absent"

(* A force comes to its end, whatever the network does (the 3 s timeout).  *)
ForceEnds == phase # "menu" ~> phase = "menu"
=============================================================================
