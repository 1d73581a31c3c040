------------------------ MODULE ManagedProcessProofs ------------------------
(***************************************************************************)
(* Proofs about ManagedProcess, for any number of commands, processes and  *)
(* polls: stop stops what it looked at, whatever other commands do; and    *)
(* when no start met another start or a stop, and none was killed before   *)
(* its record, no process lives that the record does not name, and status  *)
(* tells what is so.                                                       *)
(***************************************************************************)
EXTENDS ManagedProcess, TLAPS

Labels == {"idle", "status"} \cup Starting \cup Stopping
Outcomes == {"none", "started", "already running", "exited immediately", "stopped",
             "stale removed", "failed", "killed", "running", "stale", "not running"}
States == {"free", "alive", "dying", "zombie", "other"}

(* Whatever a command knows by its pid was spawned: no later start is      *)
(* given that pid.                                                         *)
Spawned ==
  \A p \in Pids :
    record = p \/ (\E i \in Invocations : found[i] = p \/ child[i] = p) => parent[p] # None

(* A stop that is about to remove the record has seen its process gone, or *)
(* has killed it.                                                          *)
Terminated == \A i \in Invocations : pc[i] \in {"remove", "forget"} => found[i] \notin Alive

(* A start whose process has no record yet.                                *)
Late == {"verify", "truncate", "write"}

(* The record names what lives.                                            *)
Named == (\A i \in Invocations : pc[i] \notin Late) => \A p \in Alive : p = record

(* A start meets no other start and no stop.                               *)
Apart ==
  \A i, j \in Invocations :
    i # j /\ pc[i] \in Starting => pc[j] \notin Starting \cup Stopping

(* What may live at a step of a start or a stop.                           *)
Stage(i) ==
  /\ pc[i] \in {"start", "stop", "terminate", "poll", "force"} => \A p \in Alive : p = found[i]
  /\ pc[i] \in {"spawn", "remove", "forget"} => Alive = {}
  /\ pc[i] \in Late => \A p \in Alive : p = child[i]
  /\ pc[i] = "write" => i \in writers /\ record = Unreadable

Tracked == Undisturbed => Named /\ Apart /\ \A i \in Invocations : Stage(i)

IInv == TypeOK /\ Spawned /\ Terminated /\ Tracked

-----------------------------------------------------------------------------
LEMMA Initially == Init => IInv
<1> SUFFICES ASSUME Init PROVE IInv
  OBVIOUS
<1>1. TypeOK
  <2>1. starts \in 0 .. MaxStarts
    BY ManagedAssumption DEF Init
  <2>2. /\ pc \in [Invocations -> Labels] /\ polls \in [Invocations -> 0 .. MaxPolls]
        /\ outcome \in [Invocations -> Outcomes]
    BY ManagedAssumption DEF Init, Labels, Outcomes
  <2>3. /\ os \in [Pids -> States] /\ parent \in [Pids -> Invocations \cup {None}]
        /\ found \in [Invocations -> Pids \cup {None}]
        /\ child \in [Invocations -> Pids \cup {None}]
    BY DEF Init, States
  <2> QED
    BY <2>1, <2>2, <2>3 DEF Init, TypeOK, Labels, Outcomes, States
<1>2. Alive = {} /\ \A i \in Invocations : pc[i] = "idle"
  BY DEF Init, Alive
<1> QED
  BY <1>1, <1>2, ManagedAssumption
  DEF Init, IInv, Spawned, Terminated, Tracked, Named, Apart, Stage, Late, Starting, Stopping

(* A command that returns leaves the living and the other commands alone.  *)
LEMMA Returning ==
  ASSUME TypeOK, NEW i \in Invocations, NEW how \in Outcomes, Return(i, how)
  PROVE  /\ os' \in [Pids -> States] /\ Alive' = Alive
         /\ pc' \in [Invocations -> Labels] /\ pc'[i] = "idle"
         /\ found' \in [Invocations -> Pids \cup {None}] /\ found'[i] = None
         /\ child' \in [Invocations -> Pids \cup {None}] /\ child'[i] = None
         /\ polls' \in [Invocations -> 0 .. MaxPolls]
         /\ outcome' \in [Invocations -> Outcomes]
         /\ \A j \in Invocations : j # i =>
              pc'[j] = pc[j] /\ found'[j] = found[j] /\ child'[j] = child[j]
<1>4. polls' \in [Invocations -> 0 .. MaxPolls]
  <2>1. 0 \in 0 .. MaxPolls
    BY ManagedAssumption
  <2>2. polls \in [Invocations -> 0 .. MaxPolls] /\ polls' = [polls EXCEPT ![i] = 0]
    BY DEF TypeOK, Return
  <2> QED
    BY <2>1, <2>2
<1> USE DEF TypeOK, Return, Outcomes, States, Labels
<1>1. os' \in [Pids -> States] /\ \A p \in Pids : os'[p] = "alive" <=> os[p] = "alive"
  BY DEF Reaped
<1>2. Alive' = Alive
  BY <1>1 DEF Alive
<1>3. pc' \in [Invocations -> Labels] /\ pc'[i] = "idle"
  BY DEF Goto
<1>5. \A j \in Invocations : j # i =>
        pc'[j] = pc[j] /\ found'[j] = found[j] /\ child'[j] = child[j]
  BY DEF Goto
<1> QED
  BY <1>1, <1>2, <1>3, <1>4, <1>5

(* A step of one command to the next: `label` is where it goes on.         *)
LEMMA Going ==
  ASSUME TypeOK, NEW i \in Invocations, NEW label \in Labels, Goto(i, label)
  PROVE  /\ pc' \in [Invocations -> Labels] /\ pc'[i] = label
         /\ \A j \in Invocations : j # i => pc'[j] = pc[j]
BY DEF TypeOK, Goto, Labels

-----------------------------------------------------------------------------
(* How commands begin, and the two ways reading the record goes.           *)
LEMMA Reading ==
  ASSUME IInv, NEW i \in Invocations, NEW label \in {"start", "stop", "status"}, NEW at,
         Begun(i, at), ReadRecord(i, label),
         label = "start" => Starting \cup Stopping \subseteq at,
         label = "stop" => Starting \subseteq at,
         starts' \in 0 .. MaxStarts,
         UNCHANGED <<os, parent, record, writers, child, polls>>
  PROVE  IInv'
<1>0. /\ overlapped' \in BOOLEAN /\ deserted' = deserted /\ pc[i] = "idle"
      /\ ~ overlapped' => ~ overlapped /\ \A j \in Invocations : pc[j] \notin at
  BY DEF Begun, IInv, TypeOK
<1>1. CASE record = Unreadable
  <2>1. UNCHANGED <<found, pc>> /\ outcome' \in [Invocations -> Outcomes]
    BY <1>1 DEF ReadRecord, IInv, TypeOK, Outcomes
  <2>2. TypeOK'
    BY <1>0, <2>1 DEF IInv, TypeOK, Outcomes
  <2> QED
    BY <1>0, <2>1, <2>2
    DEF IInv, Spawned, Terminated, Tracked, Undisturbed, Named, Apart, Stage, Alive
<1>2. CASE record # Unreadable
  <2>1. /\ found' = [found EXCEPT ![i] = record] /\ Goto(i, label)
        /\ outcome' \in [Invocations -> Outcomes] /\ record \in Pids \cup {None}
    BY <1>2 DEF ReadRecord, IInv, TypeOK, Outcomes
  <2>2. /\ pc' \in [Invocations -> Labels] /\ pc'[i] = label
        /\ \A j \in Invocations : j # i => pc'[j] = pc[j]
    BY <2>1, Going DEF IInv, Labels, Starting, Stopping
  <2>3. /\ found' \in [Invocations -> Pids \cup {None}] /\ found'[i] = record
        /\ \A j \in Invocations : j # i => found'[j] = found[j]
    BY <2>1 DEF IInv, TypeOK
  <2>5. TypeOK'
    BY <1>0, <2>1, <2>2, <2>3 DEF IInv, TypeOK, Outcomes, Labels
  <2>6. Spawned' /\ Terminated'
    BY <2>2, <2>3 DEF IInv, Spawned, Terminated, Alive
  <2>7. Tracked'
    <3> SUFFICES ASSUME Undisturbed' PROVE Named' /\ Apart' /\ \A j \in Invocations : Stage(j)'
      BY DEF Tracked
    <3>1. Named /\ Apart /\ (\A j \in Invocations : Stage(j))
          /\ \A j \in Invocations : pc[j] \notin at
      BY <1>0 DEF Undisturbed, IInv, Tracked
    <3>2. Named'
      BY <1>0, <2>2, <3>1 DEF Named, Alive, Late
    <3>3. Apart'
      BY <2>2, <3>1 DEF Apart, Starting, Stopping
    <3>4. Stage(i)'
      <4>1. CASE label = "status"
        BY <2>2, <4>1 DEF Stage, Late
      <4>2. CASE label # "status"
        <5>1. \A p \in Alive : p = record
          BY <3>1, <4>2 DEF Named, Late, Starting
        <5> QED
          BY <2>2, <2>3, <5>1 DEF Stage, Late, Alive
      <4> QED
        BY <4>1, <4>2
    <3>5. ASSUME NEW j \in Invocations, j # i PROVE Stage(j)'
      BY <2>2, <2>3, <3>1, <3>5 DEF Stage, Alive
    <3> QED
      BY <3>2, <3>3, <3>4, <3>5
  <2> QED
    BY <2>5, <2>6, <2>7 DEF IInv
<1> QED
  BY <1>1, <1>2

(* A command that finds no record ends at once.                            *)
LEMMA NothingRead ==
  ASSUME IInv, NEW i \in Invocations, NEW at, Begun(i, at),
         outcome' \in [Invocations -> Outcomes],
         UNCHANGED <<starts, pc, found, os, parent, record, writers, child, polls>>
  PROVE  IInv'
<1>1. overlapped' \in BOOLEAN /\ (overlapped => overlapped') /\ deserted' = deserted
  BY DEF Begun, IInv, TypeOK
<1>2. TypeOK'
  BY <1>1 DEF IInv, TypeOK, Outcomes
<1> QED
  BY <1>1, <1>2
  DEF IInv, Spawned, Terminated, Tracked, Undisturbed, Named, Apart, Stage, Alive

LEMMA BeginningKeeps ==
  ASSUME IInv, NEW i \in Invocations, StartRead(i) \/ StopRead(i) \/ StatusRead(i)
  PROVE  IInv'
<1>1. CASE StartRead(i)
  <2>1. starts' \in 0 .. MaxStarts
    <3>1. starts \in 0 .. MaxStarts /\ starts < MaxStarts /\ starts' = starts + 1
      BY <1>1 DEF StartRead, IInv, TypeOK
    <3> QED
      BY <3>1, ManagedAssumption
  <2> QED
    BY <1>1, <2>1, Reading DEF StartRead
<1>2. CASE StopRead(i)
  <2>1. /\ Begun(i, Starting) /\ starts' = starts /\ starts \in 0 .. MaxStarts
        /\ UNCHANGED <<os, parent, record, writers, child, polls>>
    BY <1>2 DEF StopRead, IInv, TypeOK
  <2>2. CASE record = None
    <3>1. outcome' \in [Invocations -> Outcomes] /\ UNCHANGED <<pc, found>>
      BY <1>2, <2>2 DEF StopRead, IInv, TypeOK, Outcomes
    <3> QED
      BY <2>1, <3>1, NothingRead
  <2>3. CASE record # None
    BY <1>2, <2>1, <2>3, Reading DEF StopRead
  <2> QED
    BY <2>2, <2>3
<1>3. CASE StatusRead(i)
  BY <1>3, Reading, NothingRead DEF StatusRead, IInv, TypeOK, Outcomes
<1> QED
  BY <1>1, <1>2, <1>3

-----------------------------------------------------------------------------
(* A step of command i that spawns nothing keeps the first two parts.      *)
LEMMA Safe ==
  ASSUME IInv, NEW i \in Invocations, Alive' \subseteq Alive, parent' = parent,
         record' \in {record, None, Unreadable, child[i]},
         \A j \in Invocations : j # i =>
           pc'[j] = pc[j] /\ found'[j] = found[j] /\ child'[j] = child[j],
         found'[i] \in {found[i], None}, child'[i] \in {child[i], None},
         pc'[i] \in {"remove", "forget"} => found'[i] \notin Alive'
  PROVE  Spawned' /\ Terminated'
<1>1. Spawned'
  <2> SUFFICES ASSUME NEW p \in Pids,
                      record' = p \/ \E j \in Invocations : found'[j] = p \/ child'[j] = p
               PROVE  parent[p] # None
    BY DEF Spawned
  <2>1. p # None /\ p # Unreadable
    BY ManagedAssumption
  <2>2. record = p \/ \E j \in Invocations : found[j] = p \/ child[j] = p
    BY <2>1
  <2> QED
    BY <2>2 DEF IInv, Spawned
<1>2. Terminated'
  BY DEF IInv, Terminated
<1> QED
  BY <1>1, <1>2

(* A step of command i that spawns nothing and touches the record only as  *)
(* part of a start or a stop disturbs no other command.                    *)
LEMMA Stepping ==
  ASSUME IInv, NEW i \in Invocations, TypeOK', Spawned', Terminated',
         Undisturbed' => Undisturbed,
         Alive' \subseteq Alive,
         \A j \in Invocations : j # i =>
           pc'[j] = pc[j] /\ found'[j] = found[j] /\ child'[j] = child[j],
         pc'[i] \in Starting => pc[i] \in Starting,
         pc'[i] \in Stopping => pc[i] \in Stopping,
         \/ pc[i] \in Starting \cup Stopping
         \/ record' = record /\ writers \ {i} \subseteq writers',
         Undisturbed' /\ Stage(i) => Stage(i)',
         Undisturbed' /\ Stage(i) /\ pc'[i] \notin Late =>
           (pc[i] \notin Late /\ record' = record) \/ \A p \in Alive' : p = record'
  PROVE  IInv'
<1>1. Tracked'
  <2> SUFFICES ASSUME Undisturbed'
               PROVE  Named' /\ Apart' /\ \A j \in Invocations : Stage(j)'
    BY DEF Tracked
  <2>1. Named /\ Apart /\ \A j \in Invocations : Stage(j)
    BY DEF IInv, Tracked
  <2>2. Named'
    <3> SUFFICES ASSUME \A j \in Invocations : pc'[j] \notin Late, NEW p \in Alive'
                 PROVE  p = record'
      BY DEF Named
    <3>1. CASE pc[i] \notin Late /\ record' = record
      BY <2>1, <3>1 DEF Named
    <3> QED
      BY <2>1, <3>1
  <2>3. Apart'
    BY <2>1 DEF Apart
  <2>4. ASSUME NEW j \in Invocations, j # i PROVE Stage(j)'
    <3>1. Stage(j)
      BY <2>1
    <3>2. pc[j] = "write" => record' = record /\ writers \ {i} \subseteq writers'
      BY <2>1, <2>4 DEF Apart, Starting
    <3> QED
      BY <2>4, <3>1, <3>2 DEF Stage
  <2> QED
    BY <2>1, <2>2, <2>3, <2>4
<1> QED
  BY <1>1 DEF IInv

(* A command that returns and leaves the record, or removes or writes it.  *)
LEMMA ReturnKeeps ==
  ASSUME IInv, NEW i \in Invocations, NEW how \in Outcomes, Return(i, how),
         record' \in Pids \cup {None, Unreadable},
         record' \in {record, None, Unreadable, child[i]}, writers' \subseteq writers,
         \/ pc[i] \in Starting \cup Stopping
         \/ record' = record /\ writers \ {i} \subseteq writers',
         parent' = parent, starts' = starts, overlapped' = overlapped,
         deserted' \in BOOLEAN, deserted => deserted',
         Undisturbed' /\ Stage(i) =>
           (pc[i] \notin Late /\ record' = record) \/ \A p \in Alive : p = record'
  PROVE  IInv'
<1>1. /\ os' \in [Pids -> States] /\ Alive' = Alive
      /\ pc' \in [Invocations -> Labels] /\ pc'[i] = "idle"
      /\ found' \in [Invocations -> Pids \cup {None}] /\ found'[i] = None
      /\ child' \in [Invocations -> Pids \cup {None}] /\ child'[i] = None
      /\ polls' \in [Invocations -> 0 .. MaxPolls]
      /\ outcome' \in [Invocations -> Outcomes]
      /\ \A j \in Invocations : j # i =>
           pc'[j] = pc[j] /\ found'[j] = found[j] /\ child'[j] = child[j]
  BY Returning DEF IInv
<1>2. TypeOK'
  BY <1>1 DEF IInv, TypeOK, States, Labels, Outcomes
<1>3. Spawned' /\ Terminated'
  BY <1>1, Safe
<1>4. Undisturbed' => Undisturbed
  BY DEF Undisturbed
<1>5. Stage(i)' /\ pc'[i] \notin Starting \cup Stopping
  BY <1>1 DEF Stage, Late, Starting, Stopping
<1> QED
  BY <1>1, <1>2, <1>3, <1>4, <1>5, Stepping

(* A start or a stop that goes on to another step.                         *)
LEMMA GoKeeps ==
  ASSUME IInv, NEW i \in Invocations, NEW label, Goto(i, label),
         \/ pc[i] \in Starting /\ label \in Starting
         \/ pc[i] \in Stopping /\ label \in Stopping,
         os' \in [Pids -> States], Alive' \subseteq Alive,
         record' \in {record, None, Unreadable}, writers' \subseteq Invocations,
         polls' \in [Invocations -> 0 .. MaxPolls],
         UNCHANGED <<parent, history, found, child, outcome>>,
         label \in {"remove", "forget"} => found[i] \notin Alive',
         Undisturbed /\ Stage(i) => Stage(i)',
         Undisturbed /\ Stage(i) /\ label \notin Late =>
           pc[i] \notin Late /\ (record' = record \/ Alive' = {})
  PROVE  IInv'
<1>1. /\ pc' \in [Invocations -> Labels] /\ pc'[i] = label
      /\ \A j \in Invocations : j # i => pc'[j] = pc[j]
  BY Going DEF IInv, Labels
<1>2. TypeOK'
  BY <1>1 DEF IInv, TypeOK, States, Labels, history
<1>3. Spawned' /\ Terminated'
  BY <1>1, Safe
<1>4. Undisturbed' = Undisturbed
  BY DEF Undisturbed, history
<1>5. /\ label \in Starting => pc[i] \in Starting
      /\ label \in Stopping => pc[i] \in Stopping
  BY DEF Starting, Stopping
<1> QED
  BY <1>1, <1>2, <1>3, <1>4, <1>5, Stepping

-----------------------------------------------------------------------------
LEMMA Killing ==
  ASSUME TypeOK, NEW p \in Pids \cup {None}, Killed(p)
  PROVE  /\ os' \in [Pids -> States] /\ Alive' = Alive \ {p}
         /\ \A q \in Pids : os'[q] = "zombie" => os[q] = "zombie"
<1>1. os' \in [Pids -> States] /\ \A q \in Pids : os'[q] =
        IF q = p /\ os[q] = "alive" THEN "dying" ELSE os[q]
  BY DEF Killed, TypeOK, States
<1> QED
  BY <1>1 DEF Alive

LEMMA StartKeeps ==
  ASSUME IInv, NEW i \in Invocations,
         StartCheck(i) \/ Verify(i) \/ TruncateRecord(i) \/ WriteRecord(i)
  PROVE  IInv'
<1>0. /\ found[i] \in Pids \cup {None} /\ child[i] \in Pids \cup {None}
      /\ record \in Pids \cup {None, Unreadable}
      /\ os \in [Pids -> States] /\ polls \in [Invocations -> 0 .. MaxPolls]
      /\ writers \subseteq Invocations /\ deserted \in BOOLEAN
      /\ pc[i] \in Starting
  BY DEF IInv, TypeOK, States, Starting, StartCheck, Verify, TruncateRecord, WriteRecord
<1>1. CASE StartCheck(i) /\ AlreadyRunning(i)
  <2>1. pc[i] \notin Late
    BY <1>1 DEF StartCheck, Late
  <2> QED
    BY <1>0, <1>1, <2>1, ReturnKeeps DEF StartCheck, history, Outcomes
<1>2. CASE StartCheck(i) /\ ~ AlreadyRunning(i)
  <2>1. found[i] \notin Alive
    BY <1>2, ManagedAssumption DEF AlreadyRunning, Running, Alive
  <2>2. /\ Goto(i, "spawn") /\ UNCHANGED <<os, locals, outcome, parent, history>>
        /\ record' \in {record, None} /\ writers' \subseteq writers
    BY <1>2 DEF StartCheck, RemoveRecord
  <2>3. pc'[i] = "spawn"
    BY <2>2, Going DEF IInv, Labels, Starting
  <2>4. Stage(i) => Alive = {}
    BY <1>2, <2>1 DEF StartCheck, Stage
  <2>5. (Stage(i) => Stage(i)') /\ pc[i] \notin Late /\ (Stage(i) => Alive' = {})
    BY <1>2, <2>2, <2>3, <2>4 DEF StartCheck, Stage, Alive, Late
  <2> QED
    BY <1>0, <1>2, <2>2, <2>5, GoKeeps DEF StartCheck, Starting, Alive, locals
<1>3. CASE Verify(i) /\ Running(child[i])
  <2>1. Goto(i, "truncate") /\ UNCHANGED <<os, locals, outcome, parent, history, record, writers>>
    BY <1>3 DEF Verify
  <2>2. pc'[i] = "truncate"
    BY <2>1, Going DEF IInv, Labels, Starting
  <2>3. Stage(i) => Stage(i)'
    BY <1>3, <2>1, <2>2 DEF Verify, Stage, Alive, locals, Late
  <2> QED
    BY <1>0, <1>3, <2>1, <2>3, GoKeeps DEF Verify, Starting, Late, Alive, locals
<1>4. CASE Verify(i) /\ ~ Running(child[i])
  <2>1. Stage(i) => Alive = {}
    BY <1>4 DEF Verify, Stage, Running, Alive, Late
  <2> QED
    BY <1>0, <1>4, <2>1, ReturnKeeps DEF Verify, history, Outcomes
<1>5. CASE TruncateRecord(i)
  <2>1. /\ Goto(i, "write") /\ record' = Unreadable /\ writers' = writers \cup {i}
        /\ UNCHANGED <<os, parent, history, locals, outcome>>
    BY <1>5 DEF TruncateRecord
  <2>2. pc'[i] = "write"
    BY <2>1, Going DEF IInv, Labels, Starting
  <2>3. Stage(i) => Stage(i)'
    BY <1>5, <2>1, <2>2 DEF TruncateRecord, Stage, Alive, locals, Late
  <2> QED
    BY <1>0, <1>5, <2>1, <2>3, GoKeeps DEF TruncateRecord, Starting, Late, Alive, locals
<1>6. CASE WriteRecord(i)
  <2>1. record' \in {record, Unreadable, child[i]}
    BY <1>6 DEF WriteRecord
  <2>2. Stage(i) => record' = child[i] /\ \A p \in Alive : p = child[i]
    BY <1>6, ManagedAssumption DEF WriteRecord, Stage, Late
  <2> QED
    BY <1>0, <1>6, <2>1, <2>2, ReturnKeeps DEF WriteRecord, history, Outcomes
<1> QED
  BY <1>1, <1>2, <1>3, <1>4, <1>5, <1>6

(* The only step that brings a process to life; its pid is new to all, and *)
(* no other start or stop is under way to be disturbed.                    *)
LEMMA SpawnKeeps ==
  ASSUME IInv, NEW i \in Invocations, NEW p \in Pids, Spawn(i, p)
  PROVE  IInv'
<1>1. /\ pc' \in [Invocations -> Labels] /\ pc'[i] = "verify" /\ pc[i] = "spawn"
      /\ \A j \in Invocations : j # i => pc'[j] = pc[j]
  BY Going DEF Spawn, IInv, Labels, Starting
<1>2. /\ os' \in [Pids -> States] /\ Alive' = Alive \cup {p}
      /\ parent' \in [Pids -> Invocations \cup {None}] /\ parent'[p] = i
      /\ \A q \in Pids : q # p => parent'[q] = parent[q]
      /\ child' \in [Invocations -> Pids \cup {None}] /\ child'[i] = p
      /\ \A j \in Invocations : j # i => child'[j] = child[j]
  BY DEF Spawn, IInv, TypeOK, States, Alive
<1>3. UNCHANGED <<history, record, writers, found, polls, outcome>>
  BY DEF Spawn
<1>4. TypeOK'
  BY <1>1, <1>2, <1>3 DEF IInv, TypeOK, States, Labels, history
<1>5. Spawned'
  BY <1>2, <1>3, ManagedAssumption DEF IInv, Spawned
<1>6. Terminated'
  <2>1. \A j \in Invocations : found[j] # p
    BY DEF Spawn, IInv, Spawned
  <2> QED
    BY <1>1, <1>2, <1>3, <2>1 DEF IInv, Terminated
<1>7. Tracked'
  <2> SUFFICES ASSUME Undisturbed'
               PROVE  Named' /\ Apart' /\ \A j \in Invocations : Stage(j)'
    BY DEF Tracked
  <2>1. Apart /\ \A j \in Invocations : Stage(j)
    BY <1>3 DEF IInv, Tracked, Undisturbed, history
  <2>2. \A j \in Invocations : j # i => pc'[j] \notin Starting \cup Stopping
    BY <1>1, <2>1 DEF Apart, Starting
  <2>3. Alive' = {p}
    BY <1>1, <1>2, <2>1 DEF Stage
  <2>4. \A j \in Invocations : Stage(j)'
    BY <1>1, <1>2, <2>2, <2>3 DEF Stage, Late, Starting, Stopping
  <2>5. Named'
    BY <1>1 DEF Named, Late
  <2>6. Apart'
    BY <2>2 DEF Apart
  <2> QED
    BY <2>4, <2>5, <2>6
<1> QED
  BY <1>4, <1>5, <1>6, <1>7 DEF IInv

-----------------------------------------------------------------------------
LEMMA StopKeeps ==
  ASSUME IInv, NEW i \in Invocations,
         StopCheck(i) \/ Terminate(i) \/ Poll(i) \/ ForceTerminate(i) \/ Remove(i)
  PROVE  IInv'
<1>0. /\ found[i] \in Pids \cup {None}
      /\ record \in Pids \cup {None, Unreadable}
      /\ os \in [Pids -> States] /\ polls \in [Invocations -> 0 .. MaxPolls]
      /\ writers \subseteq Invocations /\ deserted \in BOOLEAN
      /\ pc[i] \in Stopping /\ pc[i] \notin Late
  BY DEF IInv, TypeOK, States, Stopping, Late, StopCheck, Terminate, Poll, ForceTerminate, Remove
<1>1. CASE KillFails(i)
  BY <1>0, <1>1, ReturnKeeps DEF KillFails, history, Outcomes
<1>2. CASE StopCheck(i)
  <2>1. PICK label \in {"terminate", "forget"} :
          Goto(i, label) /\ (label = "forget" => ~ Running(found[i]))
    BY <1>2 DEF StopCheck
  <2>2. label = "forget" => found[i] \notin Alive
    BY <2>1 DEF Running, Alive
  <2>3. UNCHANGED <<os, parent, history, record, writers, locals, outcome>> /\ pc[i] = "stop"
    BY <1>2 DEF StopCheck
  <2>4. pc'[i] = label
    BY <2>1, Going DEF IInv, Labels, Stopping
  <2>5. Stage(i) => Stage(i)'
    BY <2>2, <2>3, <2>4 DEF Stage, Alive, locals, Late
  <2> QED
    BY <1>0, <2>1, <2>2, <2>3, <2>5, GoKeeps DEF Stopping, Alive, locals
<1>3. CASE Terminate(i) /\ ~ KillFails(i)
  <2>1. /\ Goto(i, "poll") /\ pc[i] = "terminate"
        /\ UNCHANGED <<parent, history, record, writers, locals, outcome>>
    BY <1>3 DEF Terminate
  <2>2. os' \in [Pids -> States] /\ Alive' \subseteq Alive
    BY <1>0, <1>3, Killing DEF Terminate, IInv, Alive
  <2>3. pc'[i] = "poll"
    BY <2>1, Going DEF IInv, Labels, Stopping
  <2>4. Stage(i) => Stage(i)'
    BY <2>1, <2>2, <2>3 DEF Stage, locals, Late
  <2> QED
    BY <1>0, <2>1, <2>2, <2>4, GoKeeps DEF Stopping, locals
<1>4. CASE Poll(i)
  <2>1. /\ pc[i] = "poll"
        /\ UNCHANGED <<os, parent, history, record, writers, found, child, outcome>>
    BY <1>4 DEF Poll
  <2>2. CASE polls[i] < MaxPolls /\ Running(found[i])
    <3>1. polls[i] + 1 \in 0 .. MaxPolls /\ pc' = pc
      BY <1>0, <1>4, <2>2, ManagedAssumption DEF Poll
    <3>2. polls' \in [Invocations -> 0 .. MaxPolls]
      BY <1>0, <1>4, <2>2, <3>1 DEF Poll
    <3>3. TypeOK'
      BY <2>1, <3>1, <3>2 DEF IInv, TypeOK, history
    <3> QED
      BY <2>1, <3>1, <3>3
      DEF IInv, Spawned, Terminated, Tracked, Undisturbed, Named, Apart, Stage, Alive, history
  <2>3. CASE ~ (polls[i] < MaxPolls /\ Running(found[i]))
    <3>1. PICK label \in {"remove", "force"} :
            Goto(i, label) /\ (label = "remove" => ~ Running(found[i]))
      BY <1>4, <2>3 DEF Poll
    <3>2. label = "remove" => found[i] \notin Alive
      BY <3>1 DEF Running, Alive
    <3>3. pc'[i] = label /\ polls' = polls
      BY <1>4, <2>3, <3>1, Going DEF Poll, IInv, Labels, Stopping
    <3>4. Stage(i) => Stage(i)'
      BY <2>1, <3>2, <3>3 DEF Stage, Alive, Late
    <3> QED
      BY <1>0, <2>1, <3>1, <3>2, <3>3, <3>4, GoKeeps DEF Stopping, Alive
  <2> QED
    BY <2>2, <2>3
<1>5. CASE ForceTerminate(i) /\ ~ KillFails(i)
  <2>1. /\ Goto(i, "remove") /\ pc[i] = "force" /\ Killed(found[i])
        /\ UNCHANGED <<parent, history, record, writers, locals, outcome>>
    BY <1>5 DEF ForceTerminate
  <2>2. os' \in [Pids -> States] /\ Alive' = Alive \ {found[i]}
    BY <1>0, <2>1, Killing DEF IInv
  <2>3. pc'[i] = "remove"
    BY <2>1, Going DEF IInv, Labels, Stopping
  <2>4. Stage(i) => Stage(i)'
    BY <2>1, <2>2, <2>3 DEF Stage, locals, Late
  <2> QED
    BY <1>0, <2>1, <2>2, <2>4, GoKeeps DEF Stopping, locals
<1>6. CASE Remove(i)
  <2>1. Stage(i) => Alive = {}
    BY <1>6 DEF Remove, Stage
  <2> QED
    BY <1>0, <1>6, <2>1, ReturnKeeps DEF Remove, RemoveRecord, history, Outcomes
<1> QED
  BY <1>1, <1>2, <1>3, <1>4, <1>5, <1>6 DEF Terminate, ForceTerminate

LEMMA StatusKeeps ==
  ASSUME IInv, NEW i \in Invocations, StatusCheck(i)
  PROVE  IInv'
<1>1. PICK how \in {"running", "stale"} : Return(i, how)
  BY DEF StatusCheck
<1>2. /\ pc[i] \notin Late /\ deserted \in BOOLEAN
      /\ record \in Pids \cup {None, Unreadable}
  BY DEF StatusCheck, Late, IInv, TypeOK
<1> QED
  BY <1>1, <1>2, ReturnKeeps DEF StatusCheck, history, Outcomes

(* A command that is killed between spawn and record is marked; at any     *)
(* other step the record still names what lives, or nothing lives.         *)
LEMMA InterruptKeeps ==
  ASSUME IInv, NEW i \in Invocations, Interrupt(i)
  PROVE  IInv'
<1>1. Undisturbed' => pc[i] \notin Late
  BY DEF Interrupt, Undisturbed, Late
<1>2. /\ record \in Pids \cup {None, Unreadable} /\ Return(i, "killed")
      /\ writers' = writers \ {i} /\ UNCHANGED <<parent, starts, overlapped, record>>
  BY DEF Interrupt, IInv, TypeOK
<1>3. deserted' \in BOOLEAN /\ (deserted => deserted')
  BY DEF Interrupt, IInv, TypeOK
<1> QED
  BY <1>1, <1>2, <1>3, ReturnKeeps DEF Outcomes

LEMMA WorldKeeps ==
  ASSUME IInv, NEW p \in Pids, Die(p) \/ Reuse(p)
  PROVE  IInv'
<1>1. os' \in [Pids -> States] /\ Alive' \subseteq Alive
  <2>1. Dead(p) \in {"zombie", "free"}
    BY DEF Dead
  <2>2. PICK new \in States \ {"alive"} : os' = [os EXCEPT ![p] = new]
    BY <2>1 DEF Die, Reuse, States
  <2> QED
    BY <2>2 DEF IInv, TypeOK, Alive, States
<1>2. UNCHANGED <<parent, history, record, writers, pc, locals, outcome>>
  BY DEF Die, Reuse
<1>3. TypeOK'
  BY <1>1, <1>2 DEF IInv, TypeOK, States, history, locals
<1>4. Tracked'
  BY <1>1, <1>2 DEF IInv, Tracked, Undisturbed, Named, Apart, Stage, history, locals
<1> QED
  BY <1>1, <1>2, <1>3, <1>4 DEF IInv, Spawned, Terminated, locals

LEMMA StepKeeps ==
  ASSUME IInv, [Next]_vars
  PROVE  IInv'
<1>1. CASE UNCHANGED vars
  BY <1>1
  DEF vars, locals, history, IInv, TypeOK, Spawned, Terminated, Tracked, Undisturbed, Named,
      Apart, Stage, Alive
<1>2. CASE Next
  BY <1>2, BeginningKeeps, StartKeeps, SpawnKeeps, StopKeeps, StatusKeeps, InterruptKeeps,
     WorldKeeps DEF Next, Start, Stop, Status
<1> QED
  BY <1>1, <1>2

(* Only a start brings a process to life, and under a pid never used.      *)
LEMMA Reviving ==
  ASSUME IInv, [Next]_vars, NEW p \in Alive', p \notin Alive
  PROVE  parent[p] = None
<1>1. TypeOK /\ (os' = os => FALSE)
  BY DEF Alive, IInv
<1>2. ASSUME NEW i \in Invocations, Start(i) PROVE parent[p] = None
  <2>1. ASSUME NEW how \in Outcomes, Return(i, how) PROVE FALSE
    BY <1>1, <2>1, Returning
  <2>2. ASSUME NEW q \in Pids, Spawn(i, q) PROVE parent[p] = None
    BY <1>1, <2>2 DEF Spawn, Alive, TypeOK
  <2> QED
    BY <1>1, <1>2, <2>1, <2>2
    DEF Start, StartRead, StartCheck, Verify, TruncateRecord, WriteRecord, Outcomes
<1>3. ASSUME NEW i \in Invocations, Stop(i) \/ Status(i) \/ Interrupt(i) PROVE FALSE
  <2>1. ASSUME NEW how \in Outcomes, Return(i, how) PROVE FALSE
    BY <1>1, <2>1, Returning
  <2>2. ASSUME Killed(found[i]) PROVE FALSE
    BY <1>1, <2>2, Killing DEF TypeOK
  <2> QED
    BY <1>1, <1>3, <2>1, <2>2
    DEF Stop, Status, StopRead, StopCheck, Terminate, KillFails, Poll, ForceTerminate, Remove,
        StatusRead, StatusCheck, Interrupt, Outcomes
<1>4. ASSUME NEW q \in Pids, Die(q) \/ Reuse(q) PROVE FALSE
  <2>1. Dead(q) \in {"zombie", "free"}
    BY DEF Dead
  <2> QED
    BY <1>1, <1>4, <2>1 DEF Die, Reuse, Alive, TypeOK
<1> QED
  BY <1>1, <1>2, <1>3, <1>4 DEF Next, vars

-----------------------------------------------------------------------------
(* Every state of the commands, their processes and the record keeps the   *)
(* invariant.                                                              *)
THEOREM Invariance == Spec => []IInv
BY Initially, StepKeeps, PTL DEF Spec

(* The variables of start_managed, stop_managed and status keep their      *)
(* types.                                                                  *)
THEOREM TypeCorrect == Spec => []TypeOK
<1>1. IInv => TypeOK
  BY DEF IInv
<1> QED
  BY <1>1, Invariance, PTL

(* As long as no start met another start or a stop, and none was killed in *)
(* its 500 ms, no background process lives that the record does not name,  *)
(* except while a start is under way.                                      *)
THEOREM NoOrphanHolds == Spec => []NoOrphan
<1>1. IInv => NoOrphan
  BY DEF IInv, Tracked, Named, NoStart, NoOrphan, Late, Starting
<1> QED
  BY <1>1, Invariance, PTL

(* stop_managed says that it stopped a process, or removed the record of a *)
(* stale one, only of a process that is dead or dying, whatever other      *)
(* commands do meanwhile and whoever is killed.                            *)
THEOREM StopStopsHolds == Spec => StopStops
<1>1. IInv /\ [Next]_vars =>
        [\A i \in Invocations :
           pc[i] \in {"remove", "forget"} /\ outcome'[i] \in {"stopped", "stale removed"} =>
             found[i] \notin Alive']_vars
  <2> SUFFICES ASSUME IInv, [Next]_vars, NEW i \in Invocations,
                      pc[i] \in {"remove", "forget"}, found[i] \in Alive'
               PROVE  FALSE
    OBVIOUS
  <2>1. found[i] \notin Alive
    BY DEF IInv, Terminated
  <2>2. parent[found[i]] = None
    BY <2>1, Reviving
  <2>3. found[i] \in Pids
    BY DEF Alive
  <2> QED
    BY <2>2, <2>3 DEF IInv, Spawned
<1> QED
  BY <1>1, Invariance, PTL DEF Spec, StopStops

-----------------------------------------------------------------------------
(* What status looks at: a dead process that is still a zombie is the      *)
(* child of a start that is under way, and status has a pid to look for.   *)
Parents ==
  \A p \in Pids : os[p] = "zombie" => parent[p] \in Invocations /\ child[parent[p]] = p
Children ==
  \A i \in Invocations : child[i] # None => pc[i] \in {"verify", "truncate", "write"}
Asked == \A i \in Invocations : pc[i] = "status" => found[i] # None

Witnessed == Parents /\ Children /\ Asked

(* A command that goes on while its processes may get a signal.            *)
LEMMA GoWitnessed ==
  ASSUME IInv, Witnessed, NEW i \in Invocations, NEW label \in Labels, Goto(i, label),
         label # "status",
         child[i] # None => label \in {"verify", "truncate", "write"},
         UNCHANGED <<parent, found, child>>,
         UNCHANGED os \/ \E p \in Pids \cup {None} : Killed(p)
  PROVE  Witnessed'
<1>1. /\ pc' \in [Invocations -> Labels] /\ pc'[i] = label
      /\ \A j \in Invocations : j # i => pc'[j] = pc[j]
  BY Going DEF IInv
<1>2. \A q \in Pids : os'[q] = "zombie" => os[q] = "zombie"
  BY Killing DEF IInv
<1>3. Parents'
  BY <1>2 DEF Witnessed, Parents
<1>4. Children' /\ Asked'
  BY <1>1 DEF Witnessed, Children, Asked
<1> QED
  BY <1>3, <1>4 DEF Witnessed

(* A command that returns leaves no zombie behind.                         *)
LEMMA ReturnWitnessed ==
  ASSUME IInv, Witnessed, NEW i \in Invocations, NEW how \in Outcomes, Return(i, how),
         parent' = parent
  PROVE  Witnessed'
<1>1. /\ pc'[i] = "idle" /\ child'[i] = None
      /\ \A j \in Invocations : j # i =>
           pc'[j] = pc[j] /\ found'[j] = found[j] /\ child'[j] = child[j]
  BY Returning DEF IInv
<1>2. \A p \in Pids : os'[p] = "zombie" => os[p] = "zombie" /\ parent[p] # i
  BY DEF Return, Reaped, IInv, TypeOK
<1> QED
  BY <1>1, <1>2 DEF Witnessed, Parents, Children, Asked

LEMMA BeginWitnessed ==
  ASSUME IInv, Witnessed, NEW i \in Invocations, StartRead(i) \/ StopRead(i) \/ StatusRead(i)
  PROVE  Witnessed'
<1>1. pc[i] = "idle" /\ UNCHANGED <<os, parent, child>>
  BY DEF StartRead, StopRead, StatusRead, Begun
<1>2. CASE UNCHANGED <<pc, found>>
  BY <1>1, <1>2 DEF Witnessed, Parents, Children, Asked
<1>3. ASSUME NEW label \in {"start", "stop", "status"}, Goto(i, label),
             found' = [found EXCEPT ![i] = record], label = "status" => record # None
      PROVE  Witnessed'
  <2>1. /\ pc'[i] = label /\ \A j \in Invocations : j # i => pc'[j] = pc[j]
    BY <1>3, Going DEF IInv, Labels, Starting, Stopping
  <2>2. found'[i] = record /\ \A j \in Invocations : j # i => found'[j] = found[j]
    BY <1>3 DEF IInv, TypeOK
  <2> QED
    BY <1>1, <1>3, <2>1, <2>2 DEF Witnessed, Parents, Children, Asked
<1> QED
  BY <1>2, <1>3 DEF StartRead, StopRead, StatusRead, ReadRecord

LEMMA CommandWitnessed ==
  ASSUME IInv, Witnessed, NEW i \in Invocations, Start(i) \/ Stop(i) \/ Status(i) \/ Interrupt(i)
  PROVE  Witnessed'
<1>1. ASSUME NEW how \in Outcomes, Return(i, how), parent' = parent
      PROVE  Witnessed'
  BY <1>1, ReturnWitnessed
<1>2. ASSUME NEW label \in Labels, Goto(i, label), label # "status",
             child[i] # None => label \in {"verify", "truncate", "write"},
             UNCHANGED <<parent, found, child>>,
             UNCHANGED os \/ Killed(found[i])
      PROVE  Witnessed'
  <2>1. found[i] \in Pids \cup {None}
    BY DEF IInv, TypeOK
  <2> QED
    BY <1>2, <2>1, GoWitnessed
<1>3. pc[i] \notin {"verify", "truncate", "write"} => child[i] = None
  BY DEF Witnessed, Children
<1>4. CASE StartRead(i) \/ StopRead(i) \/ StatusRead(i)
  BY <1>4, BeginWitnessed
<1>5. CASE StartCheck(i)
  BY <1>1, <1>2, <1>3, <1>5 DEF StartCheck, locals, Outcomes, Labels, Starting, Stopping
<1>6. ASSUME NEW p \in Pids, Spawn(i, p)
      PROVE  Witnessed'
  <2>1. /\ pc'[i] = "verify" /\ \A j \in Invocations : j # i => pc'[j] = pc[j]
    BY <1>6, Going DEF Spawn, IInv, Labels, Starting, Stopping
  <2>2. /\ child'[i] = p /\ \A j \in Invocations : j # i => child'[j] = child[j]
        /\ found' = found /\ \A q \in Pids : q # p => os'[q] = os[q] /\ parent'[q] = parent[q]
        /\ os'[p] = "alive" /\ child[i] = None
    BY <1>3, <1>6 DEF Spawn, IInv, TypeOK
  <2>3. ASSUME NEW q \in Pids, os'[q] = "zombie"
        PROVE  parent'[q] \in Invocations /\ child'[parent'[q]] = q
    <3>1. q # p /\ os[q] = "zombie"
      BY <2>2, <2>3
    <3>2. parent[q] \in Invocations /\ child[parent[q]] = q
      BY <3>1 DEF Witnessed, Parents
    <3>3. parent[q] # i
      BY <2>2, <3>2, ManagedAssumption
    <3> QED
      BY <2>2, <3>1, <3>2, <3>3
  <2> QED
    BY <2>1, <2>2, <2>3 DEF Witnessed, Parents, Children, Asked
<1>7. CASE Verify(i)
  BY <1>1, <1>2, <1>7 DEF Verify, locals, Outcomes, Labels, Starting, Stopping
<1>8. CASE TruncateRecord(i)
  BY <1>2, <1>8 DEF TruncateRecord, locals, Labels, Starting, Stopping
<1>9. CASE WriteRecord(i)
  BY <1>1, <1>9 DEF WriteRecord, Outcomes
<1>10. CASE StopCheck(i)
  <2>1. PICK label \in {"terminate", "forget"} : Goto(i, label)
    BY <1>10 DEF StopCheck
  <2> QED
    BY <1>2, <1>3, <1>10, <2>1 DEF StopCheck, locals, Labels, Starting, Stopping
<1>11. CASE Terminate(i)
  BY <1>1, <1>2, <1>3, <1>11 DEF Terminate, KillFails, locals, Outcomes, Labels, Starting, Stopping
<1>12. CASE Poll(i)
  <2>1. UNCHANGED pc \/ \E label \in {"remove", "force"} : Goto(i, label)
    BY <1>12 DEF Poll
  <2>2. UNCHANGED <<os, parent, found, child>> /\ pc[i] = "poll"
    BY <1>12 DEF Poll
  <2>3. CASE UNCHANGED pc
    BY <2>2, <2>3 DEF Witnessed, Parents, Children, Asked
  <2> QED
    BY <1>2, <1>3, <2>1, <2>2, <2>3 DEF Labels, Starting, Stopping
<1>13. CASE ForceTerminate(i)
  BY <1>1, <1>2, <1>3, <1>13 DEF ForceTerminate, KillFails, locals, Outcomes, Labels, Starting, Stopping
<1>14. CASE Remove(i)
  BY <1>1, <1>14 DEF Remove, Outcomes
<1>15. CASE StatusCheck(i)
  BY <1>1, <1>15 DEF StatusCheck, Outcomes
<1>16. CASE Interrupt(i)
  BY <1>1, <1>16 DEF Interrupt, Outcomes
<1> QED
  BY <1>4, <1>5, <1>6, <1>7, <1>8, <1>9, <1>10, <1>11, <1>12, <1>13, <1>14, <1>15, <1>16
  DEF Start, Stop, Status

LEMMA WorldWitnessed ==
  ASSUME IInv, Witnessed, NEW p \in Pids, Die(p) \/ Reuse(p)
  PROVE  Witnessed'
<1>1. UNCHANGED <<parent, pc, found, child>>
  BY DEF Die, Reuse, locals
<1>2. Dead(p) = "zombie" => parent[p] # None /\ child[parent[p]] = p
  BY DEF Dead
<1>3. \A q \in Pids : os'[q] = "zombie" => os[q] = "zombie" \/ (q = p /\ Dead(p) = "zombie")
  BY DEF Die, Reuse, IInv, TypeOK
<1>4. ASSUME NEW q \in Pids, os'[q] = "zombie"
      PROVE  parent[q] \in Invocations /\ child[parent[q]] = q
  <2>1. CASE os[q] = "zombie"
    BY <2>1 DEF Witnessed, Parents
  <2>2. CASE q = p /\ Dead(p) = "zombie"
    BY <1>2, <2>2 DEF IInv, TypeOK
  <2> QED
    BY <1>3, <1>4, <2>1, <2>2
<1> QED
  BY <1>1, <1>4 DEF Witnessed, Parents, Children, Asked

LEMMA StepWitnessed == IInv /\ Witnessed /\ [Next]_vars => Witnessed'
<1> SUFFICES ASSUME IInv, Witnessed, [Next]_vars PROVE Witnessed'
  OBVIOUS
<1>1. CASE UNCHANGED vars
  BY <1>1 DEF vars, locals, Witnessed, Parents, Children, Asked
<1>2. CASE Next
  BY <1>2, CommandWitnessed, WorldWitnessed DEF Next
<1> QED
  BY <1>1, <1>2

(* Only status ends with what status says.                                 *)
LEMMA Saying ==
  ASSUME IInv, Next, NEW i \in Invocations, outcome'[i] # outcome[i],
         outcome'[i] \in {"not running", "stale", "running"}
  PROVE  StatusRead(i) \/ StatusCheck(i)
<1>1. ASSUME NEW k \in Invocations, NEW how, outcome' = [outcome EXCEPT ![k] = how]
      PROVE  i = k /\ outcome'[i] = how
  BY <1>1 DEF IInv, TypeOK
<1>2. ASSUME NEW k \in Invocations, NEW how, Return(k, how)
      PROVE  i = k /\ outcome'[i] = how
  BY <1>1, <1>2 DEF Return
<1>3. ASSUME NEW k \in Invocations, Start(k) PROVE FALSE
  <2>1. outcome' = outcome \/ (\E how \in Outcomes \ {"not running", "stale", "running"} :
                                  Return(k, how) \/ outcome' = [outcome EXCEPT ![k] = how])
    BY <1>3
    DEF Start, StartRead, ReadRecord, StartCheck, Spawn, Verify, TruncateRecord, WriteRecord,
        Outcomes
  <2> QED
    BY <1>1, <1>2, <2>1
<1>4. ASSUME NEW k \in Invocations, Stop(k) PROVE FALSE
  <2>1. outcome' = outcome \/ (\E how \in Outcomes \ {"not running", "stale", "running"} :
                                  Return(k, how) \/ outcome' = [outcome EXCEPT ![k] = how])
    BY <1>4
    DEF Stop, StopRead, ReadRecord, StopCheck, Terminate, KillFails, Poll, ForceTerminate,
        Remove, Outcomes
  <2> QED
    BY <1>1, <1>2, <2>1
<1>5. ASSUME NEW k \in Invocations, Interrupt(k) PROVE FALSE
  <2>1. Return(k, "killed")
    BY <1>5 DEF Interrupt
  <2>2. outcome'[i] = "killed"
    BY <1>2, <2>1
  <2> QED
    BY <2>2
<1>6. ASSUME NEW k \in Invocations, Status(k) PROVE i = k
  BY <1>1, <1>2, <1>6 DEF Status, StatusRead, ReadRecord, StatusCheck
<1> QED
  BY <1>3, <1>4, <1>5, <1>6 DEF Next, Status, Die, Reuse

(* What `remote-steer status` says is so while no start is under way, if   *)
(* none came after status read the record: "not running" or "stale" when   *)
(* none of our processes lives, and "running" when the recorded pid is in  *)
(* use and no other process of ours lives.                                 *)
THEOREM StatusTellsHolds == Spec => StatusTells
<1>1. Init => Witnessed
  BY DEF Init, Witnessed, Parents, Children, Asked
<1>2. IInv /\ Witnessed /\ [Next]_vars =>
        [\A i \in Invocations :
           outcome'[i] # outcome[i] /\ Undisturbed /\ NoStart /\ record \in {found[i], None} =>
           /\ outcome'[i] \in {"not running", "stale"} => Alive = {}
           /\ outcome'[i] = "running" =>
                os[found[i]] \in {"alive", "dying", "other"} /\ Alive \subseteq {found[i]}]_vars
  <2> SUFFICES ASSUME IInv, Witnessed, Next, NEW i \in Invocations, outcome'[i] # outcome[i],
                      Undisturbed, NoStart, record \in {found[i], None},
                      outcome'[i] \in {"not running", "stale", "running"}
               PROVE  /\ outcome'[i] \in {"not running", "stale"} => Alive = {}
                      /\ outcome'[i] = "running" =>
                           /\ os[found[i]] \in {"alive", "dying", "other"}
                           /\ Alive \subseteq {found[i]}
    OBVIOUS
  <2>0. \A p \in Alive : p = record
    BY DEF IInv, Tracked, Named, NoStart, Late, Starting
  <2>1. CASE StatusRead(i)
    <3>1. record = None /\ outcome'[i] = "not running"
      BY <2>1 DEF StatusRead, ReadRecord, IInv, TypeOK
    <3> QED
      BY <2>0, <3>1, ManagedAssumption DEF Alive
  <2>2. CASE StatusCheck(i)
    <3>1. pc[i] = "status" /\ outcome'[i] = IF Running(found[i]) THEN "running" ELSE "stale"
      BY <2>2 DEF StatusCheck, Return, IInv, TypeOK
    <3>2. found[i] \in Pids /\ os[found[i]] \in States
      BY <3>1 DEF Witnessed, Asked, IInv, TypeOK, States
    <3>3. Alive \subseteq {found[i]}
      BY <2>0, ManagedAssumption DEF Alive
    <3>4. CASE outcome'[i] = "stale"
      BY <3>1, <3>3, <3>4 DEF Running, Alive
    <3>5. CASE outcome'[i] = "running"
      <4>1. os[found[i]] # "zombie"
        <5> SUFFICES ASSUME os[found[i]] = "zombie" PROVE FALSE
          OBVIOUS
        <5>1. PICK k \in Invocations : child[k] = found[i]
          BY <3>2 DEF Witnessed, Parents
        <5>2. pc[k] \in {"verify", "truncate", "write"}
          BY <3>2, <5>1, ManagedAssumption DEF Witnessed, Children
        <5> QED
          BY <5>2 DEF NoStart, Starting
      <4> QED
        BY <3>1, <3>2, <3>3, <3>5, <4>1 DEF Running, States
    <3> QED
      BY <3>1, <3>4, <3>5
  <2> QED
    BY <2>1, <2>2, Saying
<1> QED
  BY <1>1, <1>2, Initially, StepKeeps, StepWitnessed, PTL DEF Spec, StatusTells
=============================================================================
