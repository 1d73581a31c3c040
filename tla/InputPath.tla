------------------------------ MODULE InputPath ------------------------------
(***************************************************************************)
(* The input half of the bridge: the server's 4 ms tick reads the wheel    *)
(* and sends a snapshot when it changed or a resync is due; UDP loses,     *)
(* duplicates and reorders the snapshots; the client drops the stale ones  *)
(* and writes the rest to its uinput device as events for the controls     *)
(* that changed.  Either process may crash and be started again.           *)
(*                                                                         *)
(* A frame is the value of every control (axes and buttons) at one read.   *)
(* A snapshot's timestamp is the index of its read, over all the server's  *)
(* lives; its seq counts the reads of one life of the server.              *)
(***************************************************************************)
EXTENDS Integers, Sequences, FiniteSets

CONSTANTS Axes, Buttons,       \* the controls of the profile
          minimum, maximum,    \* [Axes -> Int], the profile's ranges
          Frames,              \* frames DirectInput may report
          ResyncTicks,         \* INPUT_RESYNC_INTERVAL in ticks
          MaxPolls,            \* bound: reads of the wheel
          MoveHorizon,         \* bound: the wheel and the processes are quiet after it
          MaxLosses, MaxCopies,  \* bounds: datagrams lost, duplicated
          MaxServerStarts, MaxClientStarts,  \* bounds: lives of a process
          None

AxisKind == {"Wheel", "PedalY", "PedalRz", "Throttle", "HatX", "HatY"}
Controls == Axes \cup Buttons

ASSUME ControlsAssumption ==
  /\ Axes \subseteq AxisKind
  /\ Axes \cap Buttons = {}
  /\ minimum \in [Axes -> Int] /\ maximum \in [Axes -> Int]
  /\ \A a \in Axes : minimum[a] <= maximum[a]
  /\ Frames \subseteq [Controls -> Int] /\ Frames # {}
  /\ None \notin Int /\ None \notin Frames
ASSUME BoundsAssumption ==
  /\ ResyncTicks \in Nat /\ MaxPolls \in Nat /\ MoveHorizon \in Nat
  /\ MaxLosses \in Nat /\ MaxCopies \in Nat
  /\ MaxServerStarts \in Nat \ {0} /\ MaxClientStarts \in Nat \ {0}

VARIABLES
  wheel,          \* the physical wheel's frame
  seq,            \* server: WindowsPhysicalBackend.seq
  session_ready,  \* server: run_physical's session_ready
  remote,         \* server: the life of the client its UdpPeer.remote names, or None
  last_sent,      \* server: InputSendState.last_sent, a frame or None
  elapsed,        \* server: ticks since InputSendState.last_sent_at
  net,            \* snapshots in flight
  last_seq,       \* client: InputStaleDrop.last_seq or None
  last_values,    \* client: last_axes and last_buttons
  device,         \* client: what the kernel's virtual device shows
  lives,          \* how often each process was started
  faults,         \* datagrams lost and duplicated so far
  readings,       \* history: every frame read
  shown           \* history: timestamp of the last snapshot injected, 0 if none

serverVars == <<seq, session_ready, remote, last_sent, elapsed>>
clientVars == <<last_seq, last_values, device, shown>>
vars == <<wheel, serverVars, net, clientVars, lives, faults, readings>>

Snapshots ==
  [seq : 1 .. MaxPolls, timestamp : 1 .. MaxPolls, values : Frames]

-----------------------------------------------------------------------------
(* The frame a snapshot writes: axis.value.clamp(minimum, maximum), a      *)
(* button as it is.                                                        *)
ClampAxis(a, v) ==
  IF v < minimum[a] THEN minimum[a] ELSE IF v > maximum[a] THEN maximum[a] ELSE v

Shown(f) == [c \in Controls |-> IF c \in Axes THEN ClampAxis(c, f[c]) ELSE f[c]]

initial_abs_value(a) ==
  ClampAxis(a, CASE a = "Wheel" -> minimum[a] + (maximum[a] - minimum[a]) \div 2
                 [] a \in {"PedalY", "PedalRz", "Throttle"} -> maximum[a]
                 [] OTHER -> 0)

NewDevice == [c \in Controls |-> IF c \in Axes THEN initial_abs_value(c) ELSE 0]

Changed(f) == last_sent # f
(* A slip: the first snapshot of a life is sent, but none is repeated.     *)
ResyncDue_Once == last_sent = None

ResyncDue == last_sent = None \/ elapsed >= ResyncTicks
ShouldSend(f) == Changed(f) \/ ResyncDue

(* Slips: no comparison at all; one with the wrong bound.                  *)
Accepts_Any(snapshot) == TRUE
Accepts_Gap(snapshot) == last_seq = None \/ snapshot.seq > last_seq + 1

Accepts(snapshot) == last_seq = None \/ snapshot.seq > last_seq

(* A slip: buttons are written with the axes only.                         *)
ChangedControls_Axes(f) == {c \in Axes : last_values[c] # Shown(f)[c]}

(* The controls input_events_for_snapshot writes an event for.             *)
ChangedControls(f) == {c \in Controls : last_values[c] # Shown(f)[c]}

-----------------------------------------------------------------------------
Init ==
  /\ wheel \in Frames
  /\ seq = 0 /\ session_ready = FALSE /\ remote = None
  /\ last_sent = None /\ elapsed = 0
  /\ net = {}
  /\ last_seq = None /\ last_values = [c \in Controls |-> None] /\ device = NewDevice
  /\ lives = [server |-> 1, client |-> 1]
  /\ faults = [lost |-> 0, copied |-> 0]
  /\ readings = <<>> /\ shown = 0

Unsettled == Len(readings) < MoveHorizon

(* The driver turns the wheel.                                             *)
MoveWheel(f) ==
  /\ Unsettled /\ f # wheel
  /\ wheel' = f
  /\ UNCHANGED <<serverVars, net, clientVars, lives, faults, readings>>

(* The client's hello, sent when it connects and every second, arrives.    *)
RecvHello ==
  /\ ~ (session_ready /\ remote = lives.client)
  /\ session_ready' = TRUE /\ remote' = lives.client
  /\ UNCHANGED <<wheel, seq, last_sent, elapsed, net, clientVars, lives, faults, readings>>

(* The bound on reads is not spent on scheduling: past MoveHorizon a tick  *)
(* waits for the network to be empty and the client to be known.           *)
MayPoll ==
  /\ Len(readings) < MaxPolls
  /\ Unsettled \/ (net = {} /\ remote = lives.client)

(* poll_input succeeds on an input tick; what should_send lets through     *)
(* goes to the socket `remote` names.                                      *)
Tick ==
  /\ session_ready /\ MayPoll
  /\ readings' = Append(readings, wheel)
  /\ seq' = seq + 1
  /\ IF ShouldSend(wheel)
       THEN /\ last_sent' = wheel /\ elapsed' = 0
            /\ net' = IF remote = lives.client
                        THEN net \cup {[seq |-> seq', timestamp |-> Len(readings'),
                                        values |-> wheel]}
                        ELSE net
       ELSE /\ elapsed' = elapsed + 1
            /\ UNCHANGED <<last_sent, net>>
  /\ UNCHANGED <<wheel, session_ready, remote, clientVars, lives, faults>>

(* The device was lost and reacquired: the tick has no snapshot.           *)
TickWithoutSnapshot ==
  /\ session_ready /\ MayPoll
  /\ last_sent # None /\ elapsed < ResyncTicks
  /\ elapsed' = elapsed + 1
  /\ UNCHANGED <<wheel, seq, session_ready, remote, last_sent, net, clientVars,
                 lives, faults, readings>>

(* A datagram reaches the client; the network may keep a copy.             *)
Deliver(m, copies) ==
  /\ m \in net
  /\ faults.copied + copies <= MaxCopies
  /\ net' = IF copies = 0 THEN net \ {m} ELSE net
  /\ faults' = [faults EXCEPT !.copied = @ + copies]
  /\ IF Accepts(m)
       THEN /\ last_seq' = m.seq
            /\ shown' = m.timestamp
            /\ LET events == ChangedControls(m.values) IN
               /\ last_values' = [c \in Controls |->
                    IF c \in events THEN Shown(m.values)[c] ELSE last_values[c]]
               /\ device' = [c \in Controls |->
                    IF c \in events THEN Shown(m.values)[c] ELSE device[c]]
       ELSE UNCHANGED clientVars
  /\ UNCHANGED <<wheel, serverVars, lives, readings>>

Lose(m) ==
  /\ m \in net /\ faults.lost < MaxLosses
  /\ net' = net \ {m}
  /\ faults' = [faults EXCEPT !.lost = @ + 1]
  /\ UNCHANGED <<wheel, serverVars, clientVars, lives, readings>>

(* The server process ends (a failed read, a crash) and is started again:  *)
(* the wheel is opened anew and its seq starts over.                       *)
RestartServer ==
  /\ Unsettled /\ lives.server < MaxServerStarts
  /\ lives' = [lives EXCEPT !.server = @ + 1]
  /\ seq' = 0 /\ session_ready' = FALSE /\ remote' = None
  /\ last_sent' = None /\ elapsed' = 0
  /\ UNCHANGED <<wheel, net, clientVars, faults, readings>>

(* A slip: last_seq starts at 0 instead of None.                           *)
RestartClient_Zero ==
  /\ Unsettled /\ lives.client < MaxClientStarts
  /\ lives' = [lives EXCEPT !.client = @ + 1]
  /\ net' = {} /\ last_seq' = 0
  /\ last_values' = [c \in Controls |-> None] /\ device' = NewDevice
  /\ UNCHANGED <<wheel, serverVars, faults, readings, shown>>

(* The client process ends and is started again: a new socket, which the   *)
(* datagrams for the old one do not reach, and a new virtual device.       *)
RestartClient ==
  /\ Unsettled /\ lives.client < MaxClientStarts
  /\ lives' = [lives EXCEPT !.client = @ + 1]
  /\ net' = {}
  /\ last_seq' = None /\ last_values' = [c \in Controls |-> None]
  /\ device' = NewDevice
  /\ UNCHANGED <<wheel, serverVars, faults, readings, shown>>

Next ==
  \/ \E f \in Frames : MoveWheel(f)
  \/ RecvHello
  \/ Tick
  \/ TickWithoutSnapshot
  \/ \E m \in net : Deliver(m, 0) \/ Deliver(m, 1) \/ Lose(m)
  \/ RestartServer
  \/ RestartClient

(* Hellos are resent every second, the interval ticks for ever and a       *)
(* datagram that is neither lost nor read by now is read some day.         *)
Fairness ==
  /\ WF_vars(RecvHello)
  /\ WF_vars(Tick)
  /\ WF_vars(\E m \in net : Deliver(m, 0))

Spec == Init /\ [][Next]_vars
FairSpec == Spec /\ Fairness

-----------------------------------------------------------------------------
(* Every variable holds a value of its kind.                               *)
TypeOK ==
  /\ wheel \in Frames
  /\ seq \in 0 .. MaxPolls /\ session_ready \in BOOLEAN
  /\ remote \in (1 .. MaxClientStarts) \cup {None}
  /\ last_sent \in Frames \cup {None}
  /\ elapsed \in Nat
  /\ net \subseteq Snapshots
  /\ last_seq \in (1 .. MaxPolls) \cup {None}
  /\ last_values \in [Controls -> Int \cup {None}]
  /\ device \in [Controls -> Int]
  /\ lives \in [server : 1 .. MaxServerStarts, client : 1 .. MaxClientStarts]
  /\ faults \in [lost : 0 .. MaxLosses, copied : 0 .. MaxCopies]
  /\ readings \in Seq(Frames) /\ Len(readings) <= MaxPolls
  /\ shown \in 0 .. MaxPolls

(* The virtual device shows exactly the last accepted snapshot, all its    *)
(* controls, although only the controls that differ from last_axes and     *)
(* last_buttons are written (input_events_for_snapshot): no control keeps  *)
(* a value of another frame.                                               *)
WholeFrame ==
  IF last_seq = None THEN device = NewDevice
                     ELSE device = Shown(readings[shown])

(* The virtual wheel shows frames in the order they were read, whatever    *)
(* the network reorders or duplicates (InputStaleDrop::accept), as long as *)
(* the server is not started again; whole frames it shows even then.       *)
Promise == INSTANCE VirtualWheel WITH orderly <- lives.server = 1
InOrder == Promise!Spec

(* A snapshot that reaches the client and was read from the wheel after    *)
(* the one on display is shown.                                            *)
FresherIsShown ==
  \A m \in net : m.timestamp > shown /\ Deliver(m, 0) => shown' = m.timestamp

(* In one life of the server InputStaleDrop refuses only stale input: a    *)
(* snapshot read after the one on display is never thrown away.            *)
OnlyStaleIsDropped == [][lives.server = 1 => FresherIsShown]_vars

(* InputStaleDrop refuses only stale input, whoever sent it.               *)
FreshIsAccepted == [][FresherIsShown]_vars

(* Lost datagrams are repaired by the resync of should_send: once driver   *)
(* and processes are quiet, the virtual wheel comes to rest where the      *)
(* physical wheel is.                                                      *)
Converges == <>[](device = Shown(wheel))
=============================================================================
