--------------------------- MODULE InputPathProofs ---------------------------
(* Theorems about InputPath, for every profile, every set of frames and    *)
(* all bounds.                                                             *)
EXTENDS InputPath, TLAPS, SequenceTheorems

-----------------------------------------------------------------------------
(* Clamping keeps an axis an integer: what input_events_for_snapshot       *)
(* writes, and what a new device shows, is a value for every control.      *)
LEMMA ClampType == \A a \in Axes, v \in Int : ClampAxis(a, v) \in Int
  BY ControlsAssumption DEF ClampAxis

LEMMA ShownType == \A f \in Frames : Shown(f) \in [Controls -> Int]
<1> SUFFICES ASSUME NEW f \in Frames PROVE Shown(f) \in [Controls -> Int]
  OBVIOUS
<1>1. f \in [Controls -> Int]
  BY ControlsAssumption
<1>2. \A c \in Controls : (IF c \in Axes THEN ClampAxis(c, f[c]) ELSE f[c]) \in Int
  BY <1>1, ClampType
<1> QED
  BY <1>2 DEF Shown

LEMMA NewDeviceType == NewDevice \in [Controls -> Int]
<1>1. \A a \in Axes : minimum[a] + (maximum[a] - minimum[a]) \div 2 \in Int
  BY ControlsAssumption
<1>2. \A a \in Axes : initial_abs_value(a) \in Int
  <2> SUFFICES ASSUME NEW a \in Axes PROVE initial_abs_value(a) \in Int
    OBVIOUS
  <2>1. CASE a = "Wheel"
    BY <1>1, <2>1, ClampType DEF initial_abs_value
  <2>2. CASE a \in {"PedalY", "PedalRz", "Throttle"}
    BY <2>2, ClampType, ControlsAssumption DEF initial_abs_value
  <2>3. CASE a \notin {"Wheel", "PedalY", "PedalRz", "Throttle"}
    BY <2>3, ClampType DEF initial_abs_value
  <2> QED
    BY <2>1, <2>2, <2>3
<1> QED
  BY <1>2 DEF NewDevice

-----------------------------------------------------------------------------
(* The inductive invariant.  A snapshot in flight is a frame that was read;*)
(* the client's last_axes and last_buttons are those of the last snapshot  *)
(* it accepted and so is the device.                                       *)
InFlight ==
  \A m \in net : m.timestamp \in DOMAIN readings /\ m.values = readings[m.timestamp]

OnDisplay ==
  IF last_seq = None
    THEN last_values = [c \in Controls |-> None] /\ device = NewDevice
    ELSE /\ shown \in DOMAIN readings
         /\ last_values = Shown(readings[shown])
         /\ device = Shown(readings[shown])

Counted == seq <= Len(readings) /\ shown <= Len(readings)

IInv == TypeOK /\ InFlight /\ OnDisplay /\ Counted

LEMMA InitIInv == Init => IInv
<1> SUFFICES ASSUME Init PROVE IInv
  OBVIOUS
<1> USE DEF Init
<1>1. TypeOK
  <2>1. 0 \in 0 .. MaxPolls /\ 1 \in 1 .. MaxServerStarts /\ 1 \in 1 .. MaxClientStarts
        /\ 0 \in 0 .. MaxLosses /\ 0 \in 0 .. MaxCopies
    BY BoundsAssumption
  <2>2. readings \in Seq(Frames) /\ Len(readings) <= MaxPolls
    BY BoundsAssumption
  <2>3. last_values \in [Controls -> Int \cup {None}] /\ device \in [Controls -> Int]
    BY NewDeviceType
  <2>4. net \subseteq Snapshots /\ wheel \in Frames /\ elapsed \in Nat
    OBVIOUS
  <2> QED
    BY <2>1, <2>2, <2>3, <2>4 DEF TypeOK
<1>2. InFlight /\ OnDisplay /\ Counted
  BY DEF InFlight, OnDisplay, Counted
<1> QED
  BY <1>1, <1>2 DEF IInv

(* A read appends a frame and leaves the earlier ones as they were.        *)
LEMMA Reading ==
  ASSUME IInv, NEW f \in Frames, readings' = Append(readings, f)
  PROVE  /\ readings' \in Seq(Frames)
         /\ Len(readings') = Len(readings) + 1
         /\ readings'[Len(readings')] = f
         /\ \A k \in DOMAIN readings : k \in DOMAIN readings' /\ readings'[k] = readings[k]
  BY DEF IInv, TypeOK

LEMMA TickIInv == ASSUME IInv, Tick PROVE IInv'
<1> USE DEF Tick
<1>1. wheel \in Frames /\ Len(readings) \in Nat /\ Len(readings) < MaxPolls /\ MaxPolls \in Nat
  BY BoundsAssumption DEF IInv, TypeOK, MayPoll
<1>2. readings' \in Seq(Frames) /\ Len(readings') = Len(readings) + 1
      /\ readings'[Len(readings')] = wheel
      /\ \A k \in DOMAIN readings : k \in DOMAIN readings' /\ readings'[k] = readings[k]
  BY <1>1, Reading
<1> DEFINE s == [seq |-> seq', timestamp |-> Len(readings'), values |-> wheel]
<1>3. seq' \in 1 .. MaxPolls /\ seq' <= Len(readings')
  BY <1>1, <1>2 DEF IInv, TypeOK, Counted
<1>4. net' \subseteq net \cup {s}
  OBVIOUS
<1>5. s \in Snapshots
  BY <1>1, <1>2, <1>3 DEF Snapshots
<1>6. TypeOK'
  <2>1. net' \subseteq Snapshots
    BY <1>4, <1>5 DEF IInv, TypeOK
  <2>2. last_sent' \in Frames \cup {None} /\ elapsed' \in Nat
    BY <1>1 DEF IInv, TypeOK
  <2> QED
    BY <1>1, <1>2, <1>3, <2>1, <2>2 DEF IInv, TypeOK, clientVars
<1>7. InFlight'
  <2> SUFFICES ASSUME NEW m \in net'
               PROVE m.timestamp \in DOMAIN readings' /\ m.values = readings'[m.timestamp]
    BY DEF InFlight
  <2>1. CASE m \in net
    BY <1>2, <2>1 DEF IInv, InFlight
  <2>2. CASE m = s
    <3>1. m.timestamp = Len(readings') /\ m.values = wheel
      BY <2>2
    <3>2. Len(readings') \in DOMAIN readings'
      BY <1>1, <1>2
    <3> QED
      BY <1>2, <3>1, <3>2
  <2> QED
    BY <1>4, <2>1, <2>2
<1>8. OnDisplay'
  BY <1>2 DEF IInv, OnDisplay, clientVars
<1>9. Counted'
  BY <1>1, <1>2, <1>3 DEF IInv, TypeOK, Counted, clientVars
<1> QED
  BY <1>6, <1>7, <1>8, <1>9 DEF IInv

(* The counters of the records stay within their bounds.                   *)
LEMMA CountersType ==
  ASSUME TypeOK
  PROVE  /\ \A n \in 0 .. 1 : faults.copied + n <= MaxCopies =>
              [faults EXCEPT !.copied = @ + n] \in [lost : 0 .. MaxLosses, copied : 0 .. MaxCopies]
         /\ faults.lost < MaxLosses =>
              [faults EXCEPT !.lost = @ + 1] \in [lost : 0 .. MaxLosses, copied : 0 .. MaxCopies]
         /\ lives.server < MaxServerStarts =>
              [lives EXCEPT !.server = @ + 1]
                \in [server : 1 .. MaxServerStarts, client : 1 .. MaxClientStarts]
         /\ lives.client < MaxClientStarts =>
              [lives EXCEPT !.client = @ + 1]
                \in [server : 1 .. MaxServerStarts, client : 1 .. MaxClientStarts]
<1>1. /\ faults \in [lost : 0 .. MaxLosses, copied : 0 .. MaxCopies]
      /\ faults.lost \in 0 .. MaxLosses /\ faults.copied \in 0 .. MaxCopies
  BY DEF TypeOK
<1>2. /\ lives \in [server : 1 .. MaxServerStarts, client : 1 .. MaxClientStarts]
      /\ lives.server \in 1 .. MaxServerStarts /\ lives.client \in 1 .. MaxClientStarts
  BY DEF TypeOK
<1>3. /\ \A n \in 0 .. 1 : faults.copied + n <= MaxCopies => faults.copied + n \in 0 .. MaxCopies
      /\ faults.lost < MaxLosses => faults.lost + 1 \in 0 .. MaxLosses
      /\ lives.server < MaxServerStarts => lives.server + 1 \in 1 .. MaxServerStarts
      /\ lives.client < MaxClientStarts => lives.client + 1 \in 1 .. MaxClientStarts
  BY <1>1, <1>2, BoundsAssumption
<1> QED
  BY <1>1, <1>2, <1>3

(* A snapshot that is accepted is shown whole: a control without an event  *)
(* has the snapshot's value already.                                       *)
LEMMA AcceptedIsShown ==
  ASSUME IInv, NEW m \in net, NEW copies \in 0 .. 1, Deliver(m, copies), Accepts(m)
  PROVE  /\ last_seq' = m.seq /\ shown' = m.timestamp
         /\ last_values' = Shown(m.values) /\ device' = Shown(m.values)
<1> DEFINE S == Shown(m.values)
<1>1. m.values \in Frames /\ S \in [Controls -> Int]
  BY ShownType DEF IInv, TypeOK, Snapshots
<1>2. \A c \in Controls \ ChangedControls(m.values) : last_values[c] = S[c] /\ device[c] = S[c]
  <2> SUFFICES ASSUME NEW c \in Controls, last_values[c] = S[c]
               PROVE  device[c] = S[c]
    BY DEF ChangedControls
  <2>1. last_values[c] # None
    BY <1>1, ControlsAssumption
  <2>2. last_values = device
    BY <2>1 DEF IInv, OnDisplay
  <2> QED
    BY <2>2
<1>3. S = [c \in Controls |-> S[c]]
  BY <1>1
<1>4. /\ last_seq' = m.seq /\ shown' = m.timestamp
      /\ last_values' = [c \in Controls |->
           IF c \in ChangedControls(m.values) THEN S[c] ELSE last_values[c]]
      /\ device' = [c \in Controls |->
           IF c \in ChangedControls(m.values) THEN S[c] ELSE device[c]]
  BY Zenon DEF Deliver
<1> QED
  BY <1>2, <1>3, <1>4

LEMMA DeliverIInv ==
  ASSUME IInv, NEW m \in net, NEW copies \in 0 .. 1, Deliver(m, copies)
  PROVE  IInv'
<1>1. m \in Snapshots /\ m.timestamp \in DOMAIN readings /\ m.values = readings[m.timestamp]
  BY DEF IInv, TypeOK, InFlight
<1>2. net' \subseteq net /\ faults' \in [lost : 0 .. MaxLosses, copied : 0 .. MaxCopies]
  <2>1. TypeOK
    BY DEF IInv
  <2>2. faults.copied + copies <= MaxCopies /\ faults' = [faults EXCEPT !.copied = @ + copies]
    BY Zenon DEF Deliver
  <2>3. net' \subseteq net
    BY DEF Deliver
  <2> QED
    BY <2>1, <2>2, <2>3, CountersType
<1>3. /\ UNCHANGED <<wheel, serverVars, lives, readings>>
  BY DEF Deliver
<1>4. CASE Accepts(m)
  <2>1. /\ last_seq' = m.seq /\ shown' = m.timestamp
        /\ last_values' = Shown(m.values) /\ device' = Shown(m.values)
    BY <1>4, AcceptedIsShown
  <2>2. Shown(m.values) \in [Controls -> Int]
    BY <1>1, ShownType DEF Snapshots
  <2>3. m.seq \in 1 .. MaxPolls /\ m.timestamp \in 1 .. MaxPolls
    BY <1>1 DEF Snapshots
  <2>4. TypeOK'
    BY <1>2, <1>3, <2>1, <2>2, <2>3, BoundsAssumption DEF IInv, TypeOK, serverVars
  <2>5. OnDisplay'
    <3>1. last_seq' # None
      BY <2>1, <2>3, ControlsAssumption
    <3> QED
      BY <1>1, <1>3, <2>1, <3>1 DEF OnDisplay
  <2>6. InFlight' /\ Counted'
    BY <1>1, <1>2, <1>3, <2>1 DEF IInv, TypeOK, InFlight, Counted, serverVars
  <2> QED
    BY <2>4, <2>5, <2>6 DEF IInv
<1>5. CASE ~ Accepts(m)
  <2>1. UNCHANGED clientVars
    BY <1>5 DEF Deliver
  <2> QED
    BY <1>2, <1>3, <2>1
    DEF IInv, TypeOK, InFlight, OnDisplay, Counted, serverVars, clientVars
<1> QED
  BY <1>4, <1>5

LEMMA NextIInv == IInv /\ [Next]_vars => IInv'
<1> SUFFICES ASSUME IInv, [Next]_vars PROVE IInv'
  OBVIOUS
<1>0. TypeOK
  BY DEF IInv
<1>1. ASSUME NEW f \in Frames, MoveWheel(f) PROVE IInv'
  BY <1>1 DEF MoveWheel, IInv, TypeOK, InFlight, OnDisplay, Counted, serverVars, clientVars
<1>2. CASE RecvHello
  <2>1. remote' \in (1 .. MaxClientStarts) \cup {None}
    BY <1>0, <1>2 DEF RecvHello, TypeOK
  <2> QED
    BY <1>2, <2>1 DEF RecvHello, IInv, TypeOK, InFlight, OnDisplay, Counted, clientVars
<1>3. CASE Tick
  BY <1>3, TickIInv
<1>4. CASE TickWithoutSnapshot
  BY <1>4 DEF TickWithoutSnapshot, IInv, TypeOK, InFlight, OnDisplay, Counted, clientVars
<1>5. \A m \in net, copies \in 0 .. 1 : Deliver(m, copies) => IInv'
  BY DeliverIInv
<1>6. \A m \in net : Lose(m) => IInv'
  <2> SUFFICES ASSUME NEW m \in net, Lose(m) PROVE IInv'
    OBVIOUS
  <2>1. faults' \in [lost : 0 .. MaxLosses, copied : 0 .. MaxCopies]
    BY <1>0, CountersType DEF Lose
  <2> QED
    BY <2>1 DEF Lose, IInv, TypeOK, InFlight, OnDisplay, Counted, serverVars, clientVars
<1>7. CASE RestartServer
  <2>1. lives' \in [server : 1 .. MaxServerStarts, client : 1 .. MaxClientStarts]
    BY <1>0, <1>7, CountersType DEF RestartServer
  <2>2. seq' \in 0 .. MaxPolls /\ seq' <= Len(readings)
    BY <1>0, <1>7, BoundsAssumption DEF RestartServer, TypeOK
  <2> QED
    BY <1>7, <2>1, <2>2
    DEF RestartServer, IInv, TypeOK, InFlight, OnDisplay, Counted, clientVars
<1>8. CASE RestartClient
  <2>1. lives' \in [server : 1 .. MaxServerStarts, client : 1 .. MaxClientStarts]
    BY <1>0, <1>8, CountersType DEF RestartClient
  <2>2. TypeOK'
    BY <1>0, <1>8, <2>1, NewDeviceType DEF RestartClient, TypeOK, serverVars
  <2>3. InFlight' /\ OnDisplay' /\ Counted'
    BY <1>8 DEF RestartClient, IInv, InFlight, OnDisplay, Counted, serverVars
  <2> QED
    BY <2>2, <2>3 DEF IInv
<1>9. CASE UNCHANGED vars
  BY <1>9 DEF vars, IInv, TypeOK, InFlight, OnDisplay, Counted, serverVars, clientVars
<1> QED
  BY <1>1, <1>2, <1>3, <1>4, <1>5, <1>6, <1>7, <1>8, <1>9 DEF Next

(* The inductive invariant holds in every state InputPath reaches, with    *)
(* any number of losses, copies and restarts of either process.            *)
THEOREM Invariance == Spec => []IInv
  BY InitIInv, NextIInv, PTL DEF Spec

(* Every variable of run_physical, run_virtual and the socket between them *)
(* keeps its type: seq and the sequence numbers in flight stay positive    *)
(* and bounded by the reads, whatever is lost, copied or restarted.        *)
THEOREM TypeCorrect == Spec => []TypeOK
<1>1. IInv => TypeOK
  BY DEF IInv
<1> QED
  BY <1>1, Invariance, PTL

(* However many snapshots are lost, copied, reordered or refused, and      *)
(* however often both processes are restarted, the virtual device shows a  *)
(* whole frame of the wheel: the client's caches last_axes and             *)
(* last_buttons never hide a change (input_events_for_snapshot).           *)
THEOREM WholeFrameHolds == Spec => []WholeFrame
<1>1. IInv => WholeFrame
  BY DEF IInv, OnDisplay, WholeFrame
<1> QED
  BY <1>1, Invariance, PTL

-----------------------------------------------------------------------------
(* One life of the server: its sequence numbers are the positions of the   *)
(* reads, so the order InputStaleDrop compares is the order of the reads.  *)
(* A client that has accepted nothing yet is new, and what is on its way   *)
(* to it was sent after the last snapshot its predecessor showed.          *)
OneLife ==
  /\ seq = Len(readings)
  /\ \A m \in net : m.timestamp = m.seq
  /\ IF last_seq = None THEN \A m \in net : m.timestamp > shown
                        ELSE last_seq = shown

Numbered == lives.server = 1 => OneLife

LEMMA InitNumbered == Init => Numbered
  BY DEF Init, Numbered, OneLife

LEMMA AcceptedIsLater ==
  ASSUME IInv, OneLife, NEW m \in net, Accepts(m)
  PROVE  m.timestamp > shown
<1>1. m.seq \in Int /\ m.timestamp = m.seq
  BY DEF IInv, TypeOK, Snapshots, OneLife
<1>2. CASE last_seq = None
  BY <1>2 DEF OneLife
<1>3. CASE last_seq # None
  BY <1>1, <1>3 DEF OneLife, Accepts
<1> QED
  BY <1>2, <1>3

LEMMA TickOneLife == ASSUME IInv, OneLife, Tick PROVE OneLife'
<1> USE DEF Tick
<1>1. wheel \in Frames /\ Len(readings) \in Nat /\ shown \in Nat /\ shown <= Len(readings)
  BY DEF IInv, TypeOK, Counted
<1>2. Len(readings') = Len(readings) + 1
  BY <1>1, Reading
<1>3. last_seq' = last_seq /\ shown' = shown
  BY DEF clientVars
<1>4. seq' = Len(readings')
  BY <1>1, <1>2 DEF OneLife
<1>5. \A m \in net' : m \in net \/ (m.seq = seq' /\ m.timestamp = Len(readings'))
  OBVIOUS
<1>6. \A m \in net' : m.timestamp = m.seq
  BY <1>4, <1>5 DEF OneLife
<1>7. last_seq = None => \A m \in net' : m.timestamp > shown
  BY <1>1, <1>2, <1>5 DEF OneLife
<1>8. last_seq # None => last_seq = shown
  BY DEF OneLife
<1> QED
  BY <1>3, <1>4, <1>6, <1>7, <1>8 DEF OneLife

LEMMA DeliverOneLife ==
  ASSUME IInv, OneLife, NEW m \in net, NEW copies \in 0 .. 1, Deliver(m, copies)
  PROVE  OneLife'
<1>1. net' \subseteq net /\ UNCHANGED <<seq, readings>>
  BY DEF Deliver, serverVars
<1>2. CASE Accepts(m)
  <2>1. last_seq' = m.seq /\ shown' = m.timestamp
    BY <1>2, AcceptedIsShown
  <2>2. m.seq # None /\ m.timestamp = m.seq
    BY ControlsAssumption DEF IInv, TypeOK, Snapshots, OneLife
  <2> QED
    BY <1>1, <2>1, <2>2 DEF OneLife
<1>3. CASE ~ Accepts(m)
  <2>1. UNCHANGED <<last_seq, shown>>
    BY <1>3 DEF Deliver, clientVars
  <2> QED
    BY <1>1, <2>1 DEF OneLife
<1> QED
  BY <1>2, <1>3

LEMMA NextNumbered == IInv /\ Numbered /\ [Next]_vars => Numbered'
<1> SUFFICES ASSUME IInv, Numbered, [Next]_vars, lives'.server = 1 PROVE OneLife'
  BY DEF Numbered
<1>0. lives.server = 1 /\ ~ RestartServer /\ OneLife
  <2>1. lives \in [server : 1 .. MaxServerStarts, client : 1 .. MaxClientStarts]
    BY DEF IInv, TypeOK
  <2>2. lives.server \in Nat /\ lives.server >= 1
    BY <2>1
  <2>3. RestartServer => lives'.server = lives.server + 1
    BY <2>1 DEF RestartServer
  <2>4. RestartClient => lives'.server = lives.server
    BY <2>1 DEF RestartClient
  <2>5. RestartServer \/ RestartClient \/ lives' = lives
    BY DEF Next, MoveWheel, RecvHello, Tick, TickWithoutSnapshot, Deliver, Lose, vars
  <2> QED
    BY <2>2, <2>3, <2>4, <2>5 DEF Numbered
<1>1. ASSUME NEW f \in Frames, MoveWheel(f) PROVE OneLife'
  BY <1>0, <1>1 DEF MoveWheel, OneLife, serverVars, clientVars
<1>2. CASE RecvHello
  BY <1>0, <1>2 DEF RecvHello, OneLife, clientVars
<1>3. CASE Tick
  BY <1>0, <1>3, TickOneLife
<1>4. CASE TickWithoutSnapshot
  BY <1>0, <1>4 DEF TickWithoutSnapshot, OneLife, clientVars
<1>5. \A m \in net, copies \in 0 .. 1 : Deliver(m, copies) => OneLife'
  BY <1>0, DeliverOneLife
<1>6. \A m \in net : Lose(m) => OneLife'
  BY <1>0 DEF Lose, OneLife, serverVars, clientVars
<1>7. CASE RestartClient
  BY <1>0, <1>7 DEF RestartClient, OneLife, serverVars
<1>8. CASE UNCHANGED vars
  BY <1>0, <1>8 DEF vars, OneLife, serverVars, clientVars
<1> QED
  BY <1>0, <1>1, <1>2, <1>3, <1>4, <1>5, <1>6, <1>7, <1>8 DEF Next

(* While the first server lives, sequence number, timestamp and the number *)
(* of the read agree (poll_input's seq is not reset within a life), and a  *)
(* client that has accepted a snapshot remembers what it shows.            *)
THEOREM NumberedHolds == Spec => []Numbered
  BY NextNumbered, InitNumbered, Invariance, PTL DEF Spec

(* While the first server lives, nothing but stale input is dropped: no    *)
(* snapshot that was read after the one on display is refused              *)
(* (InputStaleDrop).  Of a second life this is false: run                  *)
(* InputPathStaleSeq.                                                      *)
THEOREM OnlyStaleIsDroppedHolds == Spec => OnlyStaleIsDropped
<1>1. IInv /\ Numbered /\ [Next]_vars => [lives.server = 1 => FresherIsShown]_vars
  <2> SUFFICES ASSUME IInv, Numbered, lives.server = 1,
                      NEW m \in net, m.timestamp > shown, Deliver(m, 0)
               PROVE  shown' = m.timestamp
    BY DEF FresherIsShown
  <2>1. m.timestamp = m.seq /\ (last_seq = None \/ last_seq = shown)
    BY DEF Numbered, OneLife
  <2>2. Accepts(m)
    BY <2>1 DEF Accepts
  <2> QED
    BY <2>2, AcceptedIsShown
<1> QED
  BY <1>1, Invariance, NumberedHolds, PTL DEF Spec, OnlyStaleIsDropped

-----------------------------------------------------------------------------
(* Every step of the input path is a step of VirtualWheel or leaves it     *)
(* alone.                                                                  *)
LEMMA InitPromise == Init => Promise!Init
  BY DEF Init, Promise!Init

LEMMA StepPromise ==
  ASSUME IInv, Numbered, [Next]_vars PROVE [Promise!Next]_Promise!vars
<1> USE DEF Promise!vars
<1>1. ASSUME NEW f \in Frames, MoveWheel(f) PROVE UNCHANGED Promise!vars
  BY <1>1 DEF MoveWheel, clientVars
<1>2. RecvHello => UNCHANGED Promise!vars
  BY DEF RecvHello, clientVars
<1>3. Tick => Promise!Next
  <2>1. wheel \in Frames
    BY DEF IInv, TypeOK
  <2> QED
    BY <2>1 DEF Tick, clientVars, Promise!Next, Promise!Read
<1>4. TickWithoutSnapshot => UNCHANGED Promise!vars
  BY DEF TickWithoutSnapshot, clientVars
<1>5. ASSUME NEW m \in net, NEW copies \in 0 .. 1, Deliver(m, copies)
      PROVE  Promise!Next \/ UNCHANGED Promise!vars
  <2>1. readings' = readings /\ lives' = lives
    BY <1>5 DEF Deliver
  <2>2. CASE Accepts(m)
    <3>1. shown' = m.timestamp /\ device' = Shown(m.values)
      BY <1>5, <2>2, AcceptedIsShown
    <3>2. lives.server = 1 => m.timestamp > shown
      BY <2>2, AcceptedIsLater DEF Numbered
    <3>3. m.timestamp \in DOMAIN readings /\ m.values = readings[m.timestamp]
      BY DEF IInv, InFlight
    <3>4. Promise!Show(m.timestamp)
      BY <2>1, <3>1, <3>2, <3>3 DEF Promise!Show
    <3> QED
      BY <3>3, <3>4 DEF Promise!Next
  <2>3. CASE ~ Accepts(m)
    BY <1>5, <2>1, <2>3 DEF Deliver, clientVars
  <2> QED
    BY <2>2, <2>3
<1>6. \A m \in net : Lose(m) => UNCHANGED Promise!vars
  BY DEF Lose, clientVars
<1>7. RestartServer => Promise!Next
  <2> SUFFICES ASSUME RestartServer PROVE Promise!StartServerAgain
    BY DEF Promise!Next
  <2>1. lives'.server = lives.server + 1 /\ lives.server \in Nat \ {0}
    <3>1. lives \in [server : 1 .. MaxServerStarts, client : 1 .. MaxClientStarts]
      BY DEF IInv, TypeOK
    <3> QED
      BY <3>1, BoundsAssumption DEF RestartServer
  <2> QED
    BY <2>1 DEF RestartServer, clientVars, Promise!StartServerAgain
<1>8. RestartClient => Promise!Next
  BY DEF RestartClient, Promise!Next, Promise!Recreate
<1>9. UNCHANGED vars => UNCHANGED Promise!vars
  BY DEF vars, clientVars
<1> QED
  BY <1>1, <1>2, <1>3, <1>4, <1>5, <1>6, <1>7, <1>8, <1>9 DEF Next

(* The bridge implements a virtual wheel that shows whole frames only, and *)
(* as long as the first server lives only moves forward through the frames *)
(* read, whatever UDP does to the snapshots and however often the client   *)
(* is started again.                                                       *)
THEOREM InOrderHolds == Spec => InOrder
<1>1. IInv /\ Numbered /\ [Next]_vars => [Promise!Next]_Promise!vars
  BY StepPromise
<1> QED
  BY <1>1, InitPromise, Invariance, NumberedHolds, PTL DEF Spec, InOrder, Promise!Spec

=============================================================================
