--------------------------- MODULE ManagedProcess ---------------------------
(***************************************************************************)
(* `remote-steer server|client start`, `stop` and `status`: a background   *)
(* process and the record file that names its pid.  Several invocations of *)
(* the command may run at once and each may be killed; each is the         *)
(* sequence of its system calls.  A pid whose process has ended may be     *)
(* given to another program.  One role (server or client) is modelled: the *)
(* roles share no state.                                                   *)
(***************************************************************************)
EXTENDS Naturals, FiniteSets

CONSTANTS Invocations,    \* commands of the user that may run at once
          Pids,           \* process ids
          Unreaped,       \* Unix: a dead child is a zombie while its parent lives
          IgnoresTerm,    \* pids of processes that do not end on SIGTERM
          MaxStarts,      \* bound: starts; none gets the pid of an earlier one
          MaxPolls,       \* bound: stop's 20 polls
          None,
          Unreadable      \* contents of a record that was truncated or mixed

ASSUME ManagedAssumption ==
  /\ Unreaped \in BOOLEAN
  /\ MaxStarts \in Nat /\ MaxPolls \in Nat
  /\ IsFiniteSet(Pids) /\ MaxStarts <= Cardinality(Pids)
  /\ IgnoresTerm \subseteq Pids
  /\ None \notin Pids \cup Invocations /\ Unreadable \notin Pids \cup {None}

VARIABLES
  os,        \* [Pids -> free, alive, dying of a signal, zombie, or another program's]
  parent,    \* [Pids -> the invocation that spawned it]
  starts,    \* starts so far
  overlapped, \* history: whether a start and another start or stop ever were
              \* under way at once
  deserted,  \* history: whether a start was ever killed between spawn and record
  record,    \* the record file: a pid, Unreadable or None
  writers,   \* the invocations that have the record file open
  pc,        \* [Invocations -> the next step]
  found,     \* [Invocations -> the record it read, or None]
  child,     \* [Invocations -> the process it spawned, or None]
  polls,     \* [Invocations -> polls of stop so far]
  outcome    \* [Invocations -> how its last command ended]

locals == <<found, child, polls>>
history == <<starts, overlapped, deserted>>
vars == <<os, parent, history, record, writers, pc, locals, outcome>>

Init ==
  /\ os = [p \in Pids |-> "free"] /\ parent = [p \in Pids |-> None]
  /\ starts = 0 /\ overlapped = FALSE /\ deserted = FALSE
  /\ record = None /\ writers = {}
  /\ pc = [i \in Invocations |-> "idle"]
  /\ found = [i \in Invocations |-> None]
  /\ child = [i \in Invocations |-> None]
  /\ polls = [i \in Invocations |-> 0]
  /\ outcome = [i \in Invocations |-> "none"]

(* process_is_running: kill(pid, 0) succeeds on a zombie too, and on a     *)
(* process of another program, or is refused, which counts as well.        *)
Running(p) == os[p] # "free"
Alive == {p \in Pids : os[p] = "alive"}

(* The steps of start_managed, and of stop_managed.                        *)
Starting == {"start", "spawn", "verify", "truncate", "write"}
Stopping == {"stop", "terminate", "poll", "force", "remove", "forget"}
NoStart == \A i \in Invocations : pc[i] \notin Starting

Goto(i, label) == pc' = [pc EXCEPT ![i] = label]

(* The command returns; its dead children are reaped by init.              *)
Reaped(i, o) == [p \in Pids |-> IF o[p] = "zombie" /\ parent[p] = i THEN "free" ELSE o[p]]

Return(i, how) ==
  /\ Goto(i, "idle")
  /\ outcome' = [outcome EXCEPT ![i] = how]
  /\ os' = Reaped(i, os)
  /\ found' = [found EXCEPT ![i] = None]
  /\ child' = [child EXCEPT ![i] = None]
  /\ polls' = [polls EXCEPT ![i] = 0]

Dead(p) ==
  IF Unreaped /\ parent[p] # None /\ pc[parent[p]] # "idle" /\ child[parent[p]] = p
    THEN "zombie" ELSE "free"

-----------------------------------------------------------------------------
(* The user gives a command, perhaps while another is under way, at one of *)
(* the steps `at` that it must not meet.                                   *)
Begun(i, at) ==
  /\ pc[i] = "idle"
  /\ overlapped' = (overlapped \/ \E j \in Invocations : pc[j] \in at)
  /\ UNCHANGED deserted

(* read_process_record: a file that does not parse ends the command.       *)
ReadRecord(i, label) ==
  IF record = Unreadable
    THEN outcome' = [outcome EXCEPT ![i] = "failed"] /\ UNCHANGED <<found, pc>>
    ELSE /\ found' = [found EXCEPT ![i] = record] /\ Goto(i, label)
         /\ outcome' = [outcome EXCEPT ![i] = "none"]

(* fs::remove_file: an open file loses its name.                           *)
RemoveRecord == record' = None /\ writers' = {}

(* start_managed                                                           *)
StartRead(i) ==
  /\ Begun(i, Starting \cup Stopping) /\ starts < MaxStarts /\ starts' = starts + 1
  /\ ReadRecord(i, "start")
  /\ UNCHANGED <<os, parent, record, writers, child, polls>>

(* A slip: the record is not looked at.                                    *)
AlreadyRunning_Unchecked(i) == FALSE

AlreadyRunning(i) == found[i] # None /\ Running(found[i])

StartCheck(i) ==
  /\ pc[i] = "start"
  /\ IF AlreadyRunning(i)
       THEN Return(i, "already running") /\ UNCHANGED <<record, writers>>
       ELSE /\ Goto(i, "spawn")
            /\ IF found[i] = None THEN UNCHANGED <<record, writers>> ELSE RemoveRecord
            /\ UNCHANGED <<os, locals, outcome>>
  /\ UNCHANGED <<parent, history>>

(* What the child does is not modelled here; a server whose port is in use *)
(* ends as soon as it runs (Die), any number of clients can run.           *)
Spawn(i, p) ==
  /\ pc[i] = "spawn"
  /\ os[p] = "free" /\ parent[p] = None
  /\ os' = [os EXCEPT ![p] = "alive"] /\ parent' = [parent EXCEPT ![p] = i]
  /\ child' = [child EXCEPT ![i] = p]
  /\ Goto(i, "verify")
  /\ UNCHANGED <<history, record, writers, found, polls, outcome>>

(* After 500 ms.                                                           *)
Verify(i) ==
  /\ pc[i] = "verify"
  /\ IF Running(child[i])
       THEN Goto(i, "truncate") /\ UNCHANGED <<os, locals, outcome>>
       ELSE Return(i, "exited immediately")
  /\ UNCHANGED <<parent, history, record, writers>>

(* write_private_file opens the record and truncates it, then writes.      *)
TruncateRecord(i) ==
  /\ pc[i] = "truncate" /\ Goto(i, "write")
  /\ record' = Unreadable /\ writers' = writers \cup {i}
  /\ UNCHANGED <<os, parent, history, locals, outcome>>

(* What another start has written since is overwritten from the beginning; *)
(* a longer pid leaves its tail behind.  A file that was removed since     *)
(* takes what is written with it.                                          *)
WriteRecord(i) ==
  /\ pc[i] = "write"
  /\ IF i \notin writers THEN UNCHANGED record
     ELSE \/ record' = child[i]
          \/ record \in Pids /\ record' = Unreadable
  /\ writers' = writers \ {i}
  /\ Return(i, "started")
  /\ UNCHANGED <<parent, history>>

-----------------------------------------------------------------------------
(* stop_managed                                                            *)
StopRead(i) ==
  /\ Begun(i, Starting) /\ UNCHANGED starts
  /\ IF record = None
       THEN outcome' = [outcome EXCEPT ![i] = "stopped"] /\ UNCHANGED <<pc, found>>
       ELSE ReadRecord(i, "stop")
  /\ UNCHANGED <<os, parent, record, writers, child, polls>>

(* A slip: the record is removed before the process is dead.               *)
StopCheck_Forgets(i) ==
  /\ pc[i] = "stop"
  /\ Goto(i, IF Running(found[i]) THEN "terminate" ELSE "forget")
  /\ RemoveRecord
  /\ UNCHANGED <<os, parent, history, locals, outcome>>

StopCheck(i) ==
  /\ pc[i] = "stop"
  /\ Goto(i, IF Running(found[i]) THEN "terminate" ELSE "forget")
  /\ UNCHANGED <<os, parent, history, record, writers, locals, outcome>>

(* A signal ends a process some time after kill has returned (Die); when   *)
(* another program ends, by a signal or not, is Reuse.                     *)
Killed(p) == os' = [os EXCEPT ![p] = IF @ = "alive" THEN "dying" ELSE @]

(* kill fails when the process is gone by now, or is another user's, and   *)
(* ends stop.                                                              *)
KillFails(i) ==
  /\ os[found[i]] \in {"free", "other"}
  /\ Return(i, "failed")
  /\ UNCHANGED <<parent, history, record, writers>>

(* SIGTERM.                                                                *)
Terminate(i) ==
  /\ pc[i] = "terminate"
  /\ \/ KillFails(i)
     \/ /\ Running(found[i])
        /\ Goto(i, "poll")
        /\ IF found[i] \in IgnoresTerm THEN UNCHANGED os ELSE Killed(found[i])
        /\ UNCHANGED <<parent, history, record, writers, locals, outcome>>

(* Slips: one poll too many; no SIGKILL after the polls; polls for ever.   *)
Poll_Extra(i) ==
  /\ pc[i] = "poll"
  /\ IF ~ Running(found[i]) THEN Goto(i, "remove") /\ UNCHANGED polls
     ELSE IF polls[i] <= MaxPolls
       THEN polls' = [polls EXCEPT ![i] = @ + 1] /\ UNCHANGED pc
       ELSE Goto(i, "force") /\ UNCHANGED polls
  /\ UNCHANGED <<os, parent, history, record, writers, found, child, outcome>>
Poll_NoForce(i) ==
  /\ pc[i] = "poll"
  /\ IF Running(found[i]) /\ polls[i] < MaxPolls
       THEN polls' = [polls EXCEPT ![i] = @ + 1] /\ UNCHANGED pc
       ELSE Goto(i, "remove") /\ UNCHANGED polls
  /\ UNCHANGED <<os, parent, history, record, writers, found, child, outcome>>
Poll_Forever(i) ==
  /\ pc[i] = "poll" /\ ~ Running(found[i]) /\ Goto(i, "remove")
  /\ UNCHANGED <<os, parent, history, record, writers, locals, outcome>>

Poll(i) ==
  /\ pc[i] = "poll"
  /\ IF ~ Running(found[i]) THEN Goto(i, "remove") /\ UNCHANGED polls
     ELSE IF polls[i] < MaxPolls
       THEN polls' = [polls EXCEPT ![i] = @ + 1] /\ UNCHANGED pc
       ELSE Goto(i, "force") /\ UNCHANGED polls
  /\ UNCHANGED <<os, parent, history, record, writers, found, child, outcome>>

(* SIGKILL, after which stop does not look again.                          *)
ForceTerminate(i) ==
  /\ pc[i] = "force"
  /\ \/ KillFails(i)
     \/ /\ Running(found[i])
        /\ Goto(i, "remove") /\ Killed(found[i])
        /\ UNCHANGED <<parent, history, record, writers, locals, outcome>>

(* The record file is removed, whatever it names by now.                   *)
Remove(i) ==
  /\ pc[i] \in {"remove", "forget"}
  /\ RemoveRecord
  /\ Return(i, IF pc[i] = "remove" THEN "stopped" ELSE "stale removed")
  /\ UNCHANGED <<parent, history>>

(* status_managed                                                          *)
StatusRead(i) ==
  /\ Begun(i, {}) /\ UNCHANGED starts
  /\ IF record = None
       THEN outcome' = [outcome EXCEPT ![i] = "not running"] /\ UNCHANGED <<pc, found>>
       ELSE ReadRecord(i, "status")
  /\ UNCHANGED <<os, parent, record, writers, child, polls>>

StatusCheck(i) ==
  /\ pc[i] = "status"
  /\ Return(i, IF Running(found[i]) THEN "running" ELSE "stale")
  /\ UNCHANGED <<parent, history, record, writers>>

-----------------------------------------------------------------------------
(* A background process ends, by itself (an error, or a port in use) or of *)
(* a signal.                                                               *)
Die(p) ==
  /\ os[p] \in {"alive", "dying"}
  /\ os' = [os EXCEPT ![p] = Dead(p)]
  /\ UNCHANGED <<parent, history, record, writers, pc, locals, outcome>>

(* Another program gets the pid of a process that has ended, or ends.      *)
Reuse(p) ==
  /\ parent[p] # None /\ os[p] \in {"free", "other"}
  /\ os' = [os EXCEPT ![p] = IF @ = "free" THEN "other" ELSE "free"]
  /\ UNCHANGED <<parent, history, record, writers, pc, locals, outcome>>

(* The command itself is killed; setsid has detached its child.            *)
Interrupt(i) ==
  /\ pc[i] # "idle"
  /\ deserted' = (deserted \/ pc[i] \in {"verify", "truncate", "write"})
  /\ writers' = writers \ {i}
  /\ Return(i, "killed")
  /\ UNCHANGED <<parent, starts, overlapped, record>>

Start(i) ==
  \/ StartRead(i) \/ StartCheck(i) \/ \E p \in Pids : Spawn(i, p)
  \/ Verify(i) \/ TruncateRecord(i) \/ WriteRecord(i)
Stop(i) ==
  StopRead(i) \/ StopCheck(i) \/ Terminate(i) \/ Poll(i) \/ ForceTerminate(i) \/ Remove(i)
Status(i) == StatusRead(i) \/ StatusCheck(i)

Next == \/ \E i \in Invocations : Start(i) \/ Stop(i) \/ Status(i) \/ Interrupt(i)
        \/ \E p \in Pids : Die(p) \/ Reuse(p)
Spec == Init /\ [][Next]_vars

(* A command that was begun is executed to its end.                        *)
Continue(i) == pc[i] # "idle" /\ (Start(i) \/ Stop(i) \/ Status(i))
FairSpec == Spec /\ \A i \in Invocations : WF_vars(Continue(i))

-----------------------------------------------------------------------------
(* Every variable holds a value of its kind.                               *)
TypeOK ==
  /\ os \in [Pids -> {"free", "alive", "dying", "zombie", "other"}]
  /\ parent \in [Pids -> Invocations \cup {None}]
  /\ starts \in 0 .. MaxStarts /\ overlapped \in BOOLEAN /\ deserted \in BOOLEAN
  /\ record \in Pids \cup {None, Unreadable} /\ writers \subseteq Invocations
  /\ pc \in [Invocations -> {"idle", "status"} \cup Starting \cup Stopping]
  /\ found \in [Invocations -> Pids \cup {None}]
  /\ child \in [Invocations -> Pids \cup {None}]
  /\ polls \in [Invocations -> 0 .. MaxPolls]
  /\ outcome \in [Invocations -> {"none", "started", "already running",
                                  "exited immediately", "stopped", "stale removed",
                                  "failed", "killed", "running", "stale", "not running"}]

(* A background process that lives is the one the record names, so that    *)
(* stop and status can reach it: while no start is under way, however many *)
(* commands overlap and wherever they are killed.  Two ways out are known: *)
(* a start together with another start or a stop, and a start killed after *)
(* its spawn (start_managed writes the record 500 ms later).               *)
Undisturbed == ~ overlapped /\ ~ deserted
NoOrphan == NoStart /\ Undisturbed => \A p \in Alive : record = p

(* What status says is so, unless a start is under way or there was one    *)
(* after status read the record.  "not running" or "stale": no background  *)
(* process lives.  "running": the recorded pid is in use, and no other     *)
(* background process lives, so that it is wrong only of a pid another     *)
(* program has got since.                                                  *)
StatusTells ==
  [][\A i \in Invocations :
       outcome'[i] # outcome[i] /\ Undisturbed /\ NoStart /\ record \in {found[i], None} =>
       /\ outcome'[i] \in {"not running", "stale"} => Alive = {}
       /\ outcome'[i] = "running" =>
            os[found[i]] \in {"alive", "dying", "other"} /\ Alive \subseteq {found[i]}]_vars

(* When stop says "stopped" or that it removed a stale pid, the process it *)
(* found in the record is dead or dying: SIGKILL follows a SIGTERM that is *)
(* ignored.                                                                *)
StopStops ==
  [][\A i \in Invocations :
       pc[i] \in {"remove", "forget"} /\ outcome'[i] \in {"stopped", "stale removed"} =>
         found[i] \notin Alive']_vars

(* Every command comes to its end, even when the process ignores SIGTERM   *)
(* (the 20 polls of stop_managed), the record cannot be read, or another   *)
(* command interferes.                                                     *)
CommandsEnd == \A i \in Invocations : pc[i] # "idle" ~> pc[i] = "idle"
=============================================================================
