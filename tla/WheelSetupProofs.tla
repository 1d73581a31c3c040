-------------------------- MODULE WheelSetupProofs --------------------------
(***************************************************************************)
(* Proofs about WheelSetup, for every list of devices and any number of    *)
(* interruptions: DirectInput never refuses a call for the order of the    *)
(* calls, what plays on a wheel just opened is the server's, and a         *)
(* snapshot shows each control of the T150 in its own place.               *)
(* At the end, about WheelSweep: what the conversions promise holds of      *)
(* every integer, whichever the sweep goes through.                        *)
(***************************************************************************)
EXTENDS WheelSetup, WheelSweep, FiniteSetTheorems, WellFoundedInduction, TLAPS

(* The calls before which a step of the opening has been made.             *)
BeforeFormat == {"EnumDevices", "CreateDevice", "EnumObjects", "SetDataFormat"}
BeforeClaim == BeforeFormat \cup {"EnumActuators", "SetRanges", "SetCooperativeLevel"}
BeforeAcquire == BeforeClaim \cup {"Acquire"}
BeforeStop == BeforeAcquire \cup {"STOPALL"}
All == BeforeStop \cup {"RESET", "Poll", "GetDeviceState", "ended"}

Typed ==
  /\ call \in All /\ holder \in {None, "server", "game"}
  /\ taken \in BOOLEAN /\ exclusive \in BOOLEAN /\ interruptions \in Nat

(* What the calls made so far have achieved; between Acquire and the end   *)
(* only Windows takes the wheel away.                                      *)
Prepared ==
  /\ call = "SetDataFormat" => selection # <<>>
  /\ call \notin BeforeFormat \cup {"ended"} => format # <<>>
  /\ call \notin BeforeClaim \cup {"ended"} => exclusive
  /\ call \in BeforeAcquire => holder # "server"
  /\ call \notin BeforeAcquire \cup {"ended"} =>
       holder = "server" \/ interruptions > 0

(* A game that has the wheel has had it, and what plays after the STOPALL  *)
(* was left by one.                                                        *)
Quiet ==
  /\ holder = "game" => taken
  /\ call \notin BeforeStop \cup {"ended"} /\ ~ taken => motors = "idle"

IInv == Typed /\ Prepared /\ Quiet /\ EndsForCause

-----------------------------------------------------------------------------
LEMMA OrderOfCalls ==
  /\ After("EnumDevices") = "CreateDevice" /\ After("CreateDevice") = "EnumObjects"
  /\ After("EnumObjects") = "SetDataFormat" /\ After("SetDataFormat") = "EnumActuators"
  /\ After("EnumActuators") = "SetRanges" /\ After("SetRanges") = "SetCooperativeLevel"
  /\ After("SetCooperativeLevel") = "Acquire" /\ After("Acquire") = "STOPALL"
  /\ After("STOPALL") = "RESET" /\ After("RESET") = "Poll"
BY DEF After, Calls

LEMMA OpeningCalls == Opening = BeforeStop \cup {"RESET"}
BY DEF Opening, Calls, Range, BeforeStop, BeforeAcquire, BeforeClaim, BeforeFormat

(* A data format is a record, not the empty function.                      *)
LEMMA FormatIsRecord ==
  ASSUME NEW objects
  PROVE  t150_data_format_from_records(objects) # <<>>
<1>1. "pov" \in DOMAIN t150_data_format_from_records(objects)
  BY DEF t150_data_format_from_records
<1>2. "pov" \notin DOMAIN <<>>
  OBVIOUS
<1> QED
  BY <1>1, <1>2

LEMMA Initially == Init => IInv
<1> SUFFICES ASSUME Init PROVE IInv
  OBVIOUS
<1>1. /\ call = "EnumDevices" /\ cause = None /\ exclusive \in BOOLEAN /\ holder = None
      /\ taken \in BOOLEAN /\ interruptions = 0
  BY DEF Init
<1> QED
  BY <1>1, SetupAssumption
  DEF IInv, Typed, Prepared, Quiet, EndsForCause, All, BeforeStop, BeforeAcquire,
      BeforeClaim, BeforeFormat

-----------------------------------------------------------------------------
(* A step of the opening that leaves the holder and the motors alone.      *)
LEMMA OpeningKeeps ==
  ASSUME IInv,
         EnumDevices \/ CreateDevice \/ EnumObjects \/ SetDataFormat \/ EnumActuators
           \/ (\E refused \in SUBSET (Fields \X {"offset", "id"}) : SetRanges(refused))
           \/ SetCooperativeLevel
  PROVE  IInv'
<1> USE OrderOfCalls, SetupAssumption
    DEF IInv, Typed, Prepared, Quiet, EndsForCause, All, BeforeStop, BeforeAcquire,
        BeforeClaim, BeforeFormat, Step, others
<1>1. CASE EnumDevices
  BY <1>1 DEF EnumDevices
<1>2. CASE CreateDevice
  BY <1>2 DEF CreateDevice
<1>3. CASE EnumObjects
  <2>1. selection' # <<>>
    BY <1>3, FormatIsRecord DEF EnumObjects
  <2> QED
    BY <1>3, <2>1 DEF EnumObjects
<1>4. CASE SetDataFormat
  BY <1>4 DEF SetDataFormat
<1>5. CASE EnumActuators
  BY <1>5 DEF EnumActuators
<1>6. ASSUME NEW refused, SetRanges(refused) PROVE IInv'
  BY <1>6 DEF SetRanges
<1>7. CASE SetCooperativeLevel
  BY <1>7 DEF SetCooperativeLevel
<1> QED
  BY <1>1, <1>2, <1>3, <1>4, <1>5, <1>6, <1>7

LEMMA AcquiringKeeps ==
  ASSUME IInv, Acquire \/ \E c \in {"STOPALL", "RESET"} : SendForceFeedbackCommand(c)
  PROVE  IInv'
<1>0. Acquire => taken' \in BOOLEAN
  BY Zenon DEF Acquire
<1> USE OrderOfCalls, SetupAssumption
    DEF IInv, Typed, Prepared, Quiet, EndsForCause, All, BeforeStop, BeforeAcquire,
        BeforeClaim, BeforeFormat, Step, opening
<1>1. CASE Acquire
  <2>1. call = "Acquire" /\ call' = "STOPALL" /\ holder' = "server"
    BY <1>1 DEF Acquire
  <2>2. UNCHANGED <<cause, format, exclusive, interruptions>>
    BY <1>1 DEF Acquire
  <2> QED
    BY <1>0, <1>1, <2>1, <2>2
<1>2. ASSUME NEW c \in {"STOPALL", "RESET"}, SendForceFeedbackCommand(c) PROVE IInv'
  BY <1>2 DEF SendForceFeedbackCommand
<1> QED
  BY <1>1, <1>2

(* The heart of EndsForCause: a call whose precondition does not hold was  *)
(* prevented by a game or an interruption.                                 *)
LEMMA RefusedForCause ==
  ASSUME IInv, Refused
  PROVE  holder = "game" \/ interruptions > 0
<1> SUFFICES ASSUME holder # "game", ~ (interruptions > 0) PROVE FALSE
  OBVIOUS
<1>1. call \in Opening /\ ~ Allowed(call)
  BY DEF Refused
<1>2. call \in {"SetDataFormat", "SetCooperativeLevel"} => holder # "server"
  BY DEF IInv, Prepared, BeforeAcquire, BeforeClaim, BeforeFormat
<1>3. call = "Acquire" => format # <<>>
  BY DEF IInv, Prepared, BeforeFormat
<1>4. call \in {"STOPALL", "RESET"} => exclusive /\ holder = "server"
  BY DEF IInv, Prepared, BeforeAcquire, BeforeClaim, BeforeFormat
<1> QED
  BY <1>1, <1>2, <1>3, <1>4 DEF Allowed

LEMMA EndingKeeps ==
  ASSUME IInv, Missing \/ Refused \/ DriverFails
  PROVE  IInv'
<1>1. /\ call' = "ended" /\ cause' # "order"
      /\ holder' = IF holder = "server" THEN None ELSE holder
      /\ UNCHANGED <<opening, others>>
  BY RefusedForCause DEF Missing, Refused, DriverFails, End
<1> QED
  BY <1>1, SetupAssumption
  DEF IInv, Typed, Prepared, Quiet, EndsForCause, All, BeforeStop, BeforeAcquire,
      BeforeClaim, BeforeFormat, opening, others

LEMMA PollingKeeps ==
  ASSUME IInv, Poll \/ GetDeviceState
  PROVE  IInv'
<1>1. /\ call \in {"Poll", "GetDeviceState"} /\ UNCHANGED <<opening, others>>
      /\ \/ call' \in {"Poll", "GetDeviceState"} /\ UNCHANGED cause
            /\ (holder' = holder \/ holder' = "server")
         \/ call' = "ended" /\ cause' = "taken" /\ holder = "game" /\ holder' = holder
  BY SetupAssumption DEF Poll, GetDeviceState, Lost, End, Reacquired, IInv, Typed
<1> QED
  BY <1>1, SetupAssumption
  DEF IInv, Typed, Prepared, Quiet, EndsForCause, All, BeforeStop, BeforeAcquire,
      BeforeClaim, BeforeFormat, opening, others

LEMMA ComputerKeeps ==
  ASSUME IInv, GameTakes \/ GameLeaves \/ Interrupt
  PROVE  IInv'
<1> USE SetupAssumption
    DEF IInv, Typed, Prepared, Quiet, EndsForCause, All, BeforeStop, BeforeAcquire,
        BeforeClaim, BeforeFormat, opening, others
<1>1. CASE GameTakes
  BY <1>1 DEF GameTakes
<1>2. CASE GameLeaves
  BY <1>2 DEF GameLeaves
<1>3. CASE Interrupt
  BY <1>3 DEF Interrupt
<1> QED
  BY <1>1, <1>2, <1>3

-----------------------------------------------------------------------------
(* Every state of the opening and of the polls keeps the invariant.        *)
THEOREM Invariance == Spec => []IInv
<1>1. IInv /\ [Next]_vars => IInv'
  <2> SUFFICES ASSUME IInv, [Next]_vars PROVE IInv'
    OBVIOUS
  <2>1. CASE UNCHANGED vars
    BY <2>1 DEF vars, opening, others, reading, IInv, Typed, Prepared, Quiet, EndsForCause
  <2>2. CASE Next
    BY <2>2, OpeningKeeps, AcquiringKeeps, EndingKeeps, PollingKeeps, ComputerKeeps
    DEF Next, Setup
  <2> QED
    BY <2>1, <2>2
<1> QED
  BY <1>1, Initially, PTL DEF Spec

(* open_t150 and configure_device make their calls in an order DirectInput *)
(* accepts, whatever other programs do between any two of them.            *)
THEOREM EndsForCauseHolds == Spec => []EndsForCause
<1>1. IInv => EndsForCause
  BY DEF IInv
<1> QED
  BY <1>1, Invariance, PTL

(* After configure_device nothing plays that another program has left,     *)
(* unless a game has had the wheel since Acquire.                          *)
THEOREM StartsQuietHolds == Spec => []StartsQuiet
<1>1. IInv => StartsQuiet
  BY DEF IInv, Quiet, StartsQuiet, Open, BeforeStop, BeforeAcquire, BeforeClaim, BeforeFormat
<1> QED
  BY <1>1, Invariance, PTL

-----------------------------------------------------------------------------
(* What a snapshot is read through: the device opened is the first T150 of *)
(* the list, its data format the objects' own, and each of its axes has    *)
(* its own range or the driver's.                                          *)
AxisOf(f) == FirstId(T150.objects, t150_axis_specs[f].guid)

Chosen ==
  call \notin {"EnumDevices", "ended"} => device = T150 /\ ObjectsOk(T150.objects)
Selected ==
  call \notin {"EnumDevices", "CreateDevice", "EnumObjects", "ended"} =>
    /\ selection = t150_data_format_from_records(T150.objects)
    /\ \A f \in Fields : AxisOf(f) # None
Formatted == call \notin BeforeFormat \cup {"ended"} => format = selection
Ranged ==
  call \notin {"EnumDevices", "CreateDevice", "ended"} =>
    /\ DOMAIN range = AxisIds(T150.objects)
    /\ \A f \in Fields : AxisOf(f) # None =>
         range[AxisOf(f)] \in {DefaultRange, <<0, t150_axis_specs[f].maximum>>}
Unread == call \in Opening => snapshot = None

Laid ==
  attached \in Attached /\ Chosen /\ Selected /\ Formatted /\ Ranged /\ Unread

SInv == Laid /\ SnapshotIsTheWheel

LEMMA Least ==
  ASSUME NEW S, S \subseteq Nat, S # {}
  PROVE  Min(S) \in S /\ \A y \in S : Min(S) <= y
<1>1. PICK R : R = OpToRel(<, Nat)
  OBVIOUS
<1>2. IsWellFoundedOn(R, Nat) /\ R = {ss \in Nat \X Nat : ss[1] < ss[2]}
  BY <1>1, NatLessThanWellFounded, Zenon DEF OpToRel
<1> HIDE <1>1
<1>3. PICK x \in S : \A y \in S : ~ (<<y, x>> \in R)
  BY <1>2, WFMin, Zenon
<1>4. \A y \in S : ~ (y < x)
  <2>1. \A a, b \in Nat : a < b => <<a, b>> \in R
    BY <1>2, Zenon
  <2> QED
    BY <1>3, <2>1
<1>5. \A y \in S : x <= y
  BY <1>4
<1> QED
  BY <1>5 DEF Min

LEMMA Specs ==
  /\ Fields = {"lX", "lY", "lRz", "slider0"}
  /\ t150_axis_specs["lX"] = [guid |-> "XAxis", maximum |-> 65535]
  /\ t150_axis_specs["lY"] = [guid |-> "YAxis", maximum |-> 255]
  /\ t150_axis_specs["lRz"] = [guid |-> "RzAxis", maximum |-> 255]
  /\ t150_axis_specs["slider0"] = [guid |-> "Slider", maximum |-> 255]
BY DEF Fields, t150_axis_specs

LEMMA SpecGuids ==
  /\ \A f \in Fields : t150_axis_specs[f].guid \in {"XAxis", "YAxis", "RzAxis", "Slider"}
  /\ \A f, g \in Fields : t150_axis_specs[f].guid = t150_axis_specs[g].guid => f = g
BY Specs

(* The first object with a guid has that guid, and the id is its own.      *)
LEMMA FirstFound ==
  ASSUME NEW objects, ObjectsOk(objects), NEW guid, FirstId(objects, guid) # None
  PROVE  \E i \in DOMAIN objects :
           /\ i = Min({k \in DOMAIN objects : objects[k].guid = guid})
           /\ objects[i].guid = guid /\ objects[i].id = FirstId(objects, guid)
<1> DEFINE places == WithGuid(objects, guid)
<1>1. FirstId(objects, guid) = objects[Min(places)].id /\ places # {}
  BY DEF FirstId, IdOfFirst
<1>2. DOMAIN objects \subseteq Nat
  BY DEF ObjectsOk
<1>3. places \subseteq Nat /\ places = {k \in DOMAIN objects : objects[k].guid = guid}
  BY <1>2 DEF WithGuid
<1> HIDE DEF places
<1>4. Min(places) \in places
  BY <1>1, <1>3, Least
<1> QED
  BY <1>1, <1>3, <1>4

LEMMA AxisFound ==
  ASSUME ObjectsOk(T150.objects), NEW f \in Fields, AxisOf(f) # None
  PROVE  /\ AxisOf(f) = Part(t150_axis_specs[f].guid)
         /\ AxisOf(f) \in AxisIds(T150.objects)
         /\ \A g \in Fields : AxisOf(g) = AxisOf(f) => g = f
<1> DEFINE objects == T150.objects
<1>1. PICK i \in DOMAIN objects :
        /\ i = Min({k \in DOMAIN objects : objects[k].guid = t150_axis_specs[f].guid})
        /\ objects[i].guid = t150_axis_specs[f].guid /\ objects[i].id = AxisOf(f)
  BY FirstFound DEF AxisOf
<1>2. AxisOf(f) = Part(t150_axis_specs[f].guid)
  BY <1>1 DEF Part
<1>3. AxisOf(f) \in AxisIds(objects)
  BY <1>1, SpecGuids DEF AxisIds, Range
<1>4. ASSUME NEW g \in Fields, AxisOf(g) = AxisOf(f) PROVE g = f
  <2>1. PICK j \in DOMAIN objects :
          objects[j].guid = t150_axis_specs[g].guid /\ objects[j].id = AxisOf(g)
    BY <1>4, FirstFound DEF AxisOf
  <2>2. i = j
    BY <1>1, <1>4, <2>1 DEF ObjectsOk
  <2> QED
    BY <1>1, <2>1, <2>2, SpecGuids
<1> QED
  BY <1>2, <1>3, <1>4

-----------------------------------------------------------------------------
LEMMA InitiallyLaid == Init => SInv
BY DEF Init, SInv, Laid, Chosen, Selected, Formatted, Ranged, Unread, SnapshotIsTheWheel,
       BeforeFormat

(* A property of the state last read stays while the ranges stay.          *)
LEMMA SameView ==
  ASSUME SnapshotIsTheWheel, UNCHANGED <<attached, range, wheel, snapshot>>
  PROVE  SnapshotIsTheWheel'
<1>1. T150' = T150
  BY DEF T150
<1>2. \A guid : Part(guid)' = Part(guid)
  BY <1>1 DEF Part
<1> QED
  BY <1>1, <1>2 DEF SnapshotIsTheWheel, Reports

LEMMA NoView ==
  ASSUME snapshot' = None
  PROVE  SnapshotIsTheWheel'
BY DEF SnapshotIsTheWheel

LEMMA ChoosingLays ==
  ASSUME IInv, SInv, EnumDevices \/ CreateDevice \/ EnumObjects
  PROVE  SInv'
<1> USE OrderOfCalls, OpeningCalls
    DEF Step, BeforeFormat, BeforeClaim, BeforeAcquire, BeforeStop
<1>1. UNCHANGED <<attached, snapshot>> /\ snapshot = None /\ attached \in Attached
  BY DEF EnumDevices, CreateDevice, EnumObjects, reading, SInv, Laid, Unread
<1>2. SnapshotIsTheWheel'
  BY <1>1, NoView
<1>3. CASE EnumDevices
  <2>1. PICK i \in DOMAIN attached :
          /\ is_t150(attached[i]) /\ \A j \in 1 .. i - 1 : ~ is_t150(attached[j])
          /\ device' = attached[i]
    BY <1>3 DEF EnumDevices
  <2>2. call' = "CreateDevice"
    BY <1>3 DEF EnumDevices
  <2>3. DOMAIN attached = 1 .. Len(attached) /\ Len(attached) \in Nat
        /\ ObjectsOk(attached[i].objects)
    BY <1>1, ObjectsAssumption
  <2>4. i = Min({j \in DOMAIN attached : is_t150(attached[j])})
    <3> DEFINE found == {j \in DOMAIN attached : is_t150(attached[j])}
    <3>1. found \subseteq Nat /\ i \in found
      BY <2>1, <2>3
    <3>2. \A j \in found : i <= j
      BY <2>1, <2>3
    <3> HIDE DEF found
    <3>3. Min(found) \in found /\ Min(found) <= i
      BY <3>1, Least
    <3>4. i <= Min(found)
      BY <3>2, <3>3
    <3>5. i \in Nat /\ Min(found) \in Nat
      BY <3>1, <3>3
    <3>6. i = Min(found)
      BY <3>3, <3>4, <3>5
    <3> QED
      BY <3>6 DEF found
  <2>5. T150 = attached[i] /\ T150' = T150
    BY <1>1, <2>4 DEF T150
  <2> QED
    BY <1>1, <1>2, <2>1, <2>2, <2>3, <2>5
    DEF SInv, Laid, Chosen, Selected, Formatted, Ranged, Unread
<1>4. CASE CreateDevice
  <2>1. /\ call = "CreateDevice" /\ call' = "EnumObjects" /\ device = T150 /\ device' = device
        /\ range' = [id \in AxisIds(T150.objects) |-> DefaultRange] /\ T150' = T150
        /\ ObjectsOk(T150.objects)
    BY <1>1, <1>4 DEF CreateDevice, SInv, Laid, Chosen, T150
  <2>2. \A f \in Fields : AxisOf(f) # None => AxisOf(f) \in AxisIds(T150.objects)
    BY <2>1, AxisFound
  <2>3. Ranged'
    BY <2>1, <2>2 DEF Ranged, AxisOf
  <2> QED
    BY <1>1, <1>2, <2>1, <2>3 DEF SInv, Laid, Chosen, Selected, Formatted, Unread
<1>5. CASE EnumObjects
  <2>1. /\ call = "EnumObjects" /\ call' = "SetDataFormat" /\ device = T150
        /\ selection' = t150_data_format_from_records(T150.objects)
        /\ \A f \in Fields : selection'.axes[f] # None
        /\ UNCHANGED <<device, range>> /\ T150' = T150
    BY <1>1, <1>5 DEF EnumObjects, SInv, Laid, Chosen, T150
  <2>2. \A f \in Fields : selection'.axes[f] = AxisOf(f)
    BY <2>1 DEF t150_data_format_from_records, AxisOf
  <2>3. Ranged'
    BY <2>1 DEF SInv, Laid, Ranged, AxisOf
  <2>4. Selected'
    BY <2>1, <2>2 DEF Selected, AxisOf
  <2> QED
    BY <1>1, <1>2, <2>1, <2>3, <2>4 DEF SInv, Laid, Chosen, Formatted, Unread
<1> QED
  BY <1>3, <1>4, <1>5

(* Whichever ranges the driver refuses, an axis gets its own or keeps the  *)
(* one it had: an id names one axis.                                       *)
LEMMA RangesLay ==
  ASSUME IInv, SInv, NEW refused, SetRanges(refused)
  PROVE  SInv'
<1> USE OrderOfCalls, OpeningCalls
    DEF Step, BeforeFormat, BeforeClaim, BeforeAcquire, BeforeStop
<1>1. /\ call = "SetRanges" /\ call' = "SetCooperativeLevel"
      /\ UNCHANGED <<attached, snapshot, device, selection, format>>
      /\ range' = configure_axis_ranges(refused)
  BY DEF SetRanges, reading
<1>2. /\ snapshot = None /\ attached \in Attached /\ device = T150 /\ ObjectsOk(T150.objects)
      /\ selection = t150_data_format_from_records(T150.objects) /\ format = selection
      /\ DOMAIN range = AxisIds(T150.objects)
      /\ \A f \in Fields : AxisOf(f) # None
      /\ \A f \in Fields :
           range[AxisOf(f)] \in {DefaultRange, <<0, t150_axis_specs[f].maximum>>}
  BY <1>1 DEF SInv, Laid, Chosen, Selected, Formatted, Ranged, Unread
<1>3. \A f \in Fields : selection.axes[f] = AxisOf(f)
  BY <1>2 DEF t150_data_format_from_records, AxisOf
<1> DEFINE target(f) ==
        IF <<f, "offset">> \notin refused /\ format # <<>> THEN format.axes[f]
        ELSE IF <<f, "id">> \notin refused THEN selection.axes[f] ELSE None
<1>4. range' = [id \in DOMAIN range |->
        IF \E f \in Fields : target(f) = id
          THEN <<0, t150_axis_specs[CHOOSE f \in Fields : target(f) = id].maximum>>
          ELSE range[id]]
  BY <1>1 DEF configure_axis_ranges
<1>5. \A f \in Fields : target(f) \in {AxisOf(f), None}
  BY <1>2, <1>3
<1> HIDE DEF target
<1>6. ASSUME NEW f \in Fields
      PROVE  range'[AxisOf(f)] \in {DefaultRange, <<0, t150_axis_specs[f].maximum>>}
  <2> DEFINE a == AxisOf(f)
  <2>1. a \in DOMAIN range /\ a # None /\ \A g \in Fields : AxisOf(g) = a => g = f
    BY <1>2, AxisFound
  <2> HIDE DEF a
  <2>2. \A g \in Fields : target(g) = a => g = f
    BY <1>5, <2>1
  <2>3. CASE \E g \in Fields : target(g) = a
    <3>1. (CHOOSE g \in Fields : target(g) = a) = f
      BY <2>2, <2>3
    <3>2. range'[a] = <<0, t150_axis_specs[f].maximum>>
      BY <1>4, <2>1, <2>3, <3>1
    <3> QED
      BY <3>2 DEF a
  <2>4. CASE ~ \E g \in Fields : target(g) = a
    <3>1. range'[a] = range[a]
      BY <1>4, <2>1, <2>4
    <3> QED
      BY <1>2, <3>1 DEF a
  <2> QED
    BY <2>3, <2>4
<1>7. T150' = T150 /\ \A f \in Fields : AxisOf(f)' = AxisOf(f)
  BY <1>1 DEF T150, AxisOf
<1>8. DOMAIN range' = DOMAIN range
  BY <1>4
<1>9. Ranged'
  BY <1>2, <1>6, <1>7, <1>8 DEF Ranged, AxisOf
<1>10. Selected'
  BY <1>1, <1>2, <1>7 DEF Selected, AxisOf
<1> QED
  BY <1>1, <1>2, <1>7, <1>9, <1>10, NoView
  DEF SInv, Laid, Chosen, Formatted, Unread

(* The other calls of the opening leave the ranges and the objects alone.  *)
LEMMA OpeningLays ==
  ASSUME IInv, SInv,
         SetDataFormat \/ EnumActuators \/ SetCooperativeLevel \/ Acquire
           \/ \E c \in {"STOPALL", "RESET"} : SendForceFeedbackCommand(c)
  PROVE  SInv'
<1> USE OrderOfCalls, OpeningCalls
    DEF Step, BeforeFormat, BeforeClaim, BeforeAcquire, BeforeStop
<1>1. /\ call \in BeforeStop \cup {"RESET"}
      /\ call \notin {"EnumDevices", "CreateDevice", "EnumObjects"}
      /\ call' \notin {"EnumDevices", "CreateDevice", "EnumObjects", "ended"}
      /\ UNCHANGED <<attached, wheel, snapshot, device, selection, range>>
      /\ (call = "SetDataFormat" => format' = selection)
      /\ (call # "SetDataFormat" => format' = format)
  BY DEF SetDataFormat, EnumActuators, SetCooperativeLevel, Acquire, SendForceFeedbackCommand,
         opening, reading
<1>2. T150' = T150 /\ \A f \in Fields : AxisOf(f)' = AxisOf(f)
  BY <1>1 DEF T150, AxisOf
<1>3. snapshot = None /\ attached \in Attached
  BY <1>1 DEF SInv, Laid, Unread
<1>4. Selected' /\ Ranged'
  BY <1>1, <1>2 DEF SInv, Laid, Selected, Ranged, AxisOf
<1> QED
  BY <1>1, <1>2, <1>3, <1>4, NoView DEF SInv, Laid, Chosen, Formatted, Unread

LEMMA EndingLays ==
  ASSUME SInv, Missing \/ Refused \/ DriverFails
  PROVE  SInv'
<1>1. call' = "ended" /\ UNCHANGED <<attached, range>>
      /\ (UNCHANGED <<wheel, snapshot>> \/ snapshot' = None)
  BY DEF Missing, Refused, DriverFails, End, opening, reading
<1> QED
  BY <1>1, SameView, NoView, OpeningCalls
  DEF SInv, Laid, Chosen, Selected, Formatted, Ranged, Unread, BeforeFormat, BeforeStop,
      BeforeClaim, BeforeAcquire

LEMMA ComputerLays ==
  ASSUME SInv, GameTakes \/ GameLeaves \/ Interrupt
  PROVE  SInv'
<1>1. UNCHANGED <<attached, call, opening, reading>>
  BY DEF GameTakes, GameLeaves, Interrupt
<1>2. UNCHANGED <<attached, call, device, selection, format, range, wheel, snapshot>>
  BY <1>1 DEF opening, reading
<1>3. T150' = T150 /\ \A f \in Fields : AxisOf(f)' = AxisOf(f)
  BY <1>2 DEF T150, AxisOf
<1> QED
  BY <1>2, <1>3, SameView DEF SInv, Laid, Chosen, Selected, Formatted, Ranged, AxisOf, Unread

-----------------------------------------------------------------------------
(* A reading beyond the narrow range, as the range's share of the wide one.*)
LEMMA PedalShare ==
  ASSUME NEW v \in Int
  PROVE  /\ direct_input_u8_axis(v) \in Int
         /\ v < 0 => direct_input_u8_axis(v) = 0
         /\ 0 <= v /\ v <= 255 => direct_input_u8_axis(v) = v
         /\ 255 < v /\ v <= 65535 => direct_input_u8_axis(v) = (v * 255) \div 65535
         /\ 65535 < v => direct_input_u8_axis(v) = 255
<1>1. U16_MAX = 65535 /\ U8_MAX = 255
  BY DEF U16_MAX, U8_MAX
<1>2. v \in 0 .. U8_MAX <=> 0 <= v /\ v <= 255
  BY <1>1
<1>3. /\ (0 * 255) \div 65535 = 0 /\ (65535 * 255) \div 65535 = 255
      /\ (v * 255) \div 65535 \in Int
  OBVIOUS
<1> QED
  BY <1>1, <1>2, <1>3 DEF direct_input_u8_axis, ClampTo

(* The driver's scaling of a position to an axis's range, and what         *)
(* snapshot_from_dijoystate makes of a pedal in either range.              *)
LEMMA PositionsCount ==
  ASSUME NEW p \in 0 .. Full
  PROVE  Full = 65535 /\ p \in Int /\ 0 <= p /\ p <= 65535
<1>1. Full = 65535
  BY DEF Full
<1> QED
  BY <1>1

LEMMA Scaling ==
  ASSUME NEW p \in 0 .. Full
  PROVE  /\ 0 + (p * (65535 \div 255)) \div (Full \div 255) = p
         /\ 0 + (p * (255 \div 255)) \div (Full \div 255) = p \div 257
<1>1. 65535 \div 255 = 257 /\ 255 \div 255 = 1 /\ Full \div 255 = 257
  BY PositionsCount
<1>2. (p * 257) \div 257 = p /\ p \in Nat
  BY PositionsCount
<1> QED
  BY <1>1, <1>2

LEMMA Pedals ==
  ASSUME NEW p \in 0 .. Full
  PROVE  /\ direct_input_u8_axis(p \div 257) = (p * 255) \div Full
         /\ \/ p < 256 /\ direct_input_u8_axis(p) = p
            \/ direct_input_u8_axis(p) = (p * 255) \div Full
<1>1. p \in Int /\ 0 <= p /\ p <= 65535
  BY PositionsCount
<1>2. /\ p \div 257 \in Int /\ 0 <= p \div 257 /\ p \div 257 <= 255
      /\ p \div 257 = (p * 255) \div 65535
  BY <1>1
<1>3. direct_input_u8_axis(p \div 257) = p \div 257
  BY <1>2, PedalShare
<1>4. CASE p <= 255
  BY <1>1, <1>2, <1>3, <1>4, PedalShare, PositionsCount
<1>5. CASE 255 < p
  BY <1>1, <1>2, <1>3, <1>5, PedalShare, PositionsCount
<1> QED
  BY <1>1, <1>4, <1>5

(* The field of an axis holds its position, in one range or the other.     *)
Position(w, f) == w.axes[Part(t150_axis_specs[f].guid)]
RangeOf(f) == range[Part(t150_axis_specs[f].guid)]
Shown(value, w, guid) ==
  \/ value = (w.axes[Part(guid)] * 255) \div Full
  \/ range[Part(guid)] = DefaultRange /\ w.axes[Part(guid)] < 256 /\ value = w.axes[Part(guid)]

LEMMA FieldsFilled ==
  ASSUME SInv, call = "GetDeviceState", NEW w \in Placements(T150.objects), NEW f \in Fields
  PROVE  /\ Position(w, f) \in 0 .. Full
         /\ \/ RangeOf(f) = DefaultRange /\ DIJOYSTATE2(w).axes[f] = Position(w, f)
            \/ /\ t150_axis_specs[f].maximum = 65535
               /\ DIJOYSTATE2(w).axes[f] = Position(w, f)
            \/ /\ t150_axis_specs[f].maximum = 255
               /\ DIJOYSTATE2(w).axes[f] = Position(w, f) \div 257
<1> DEFINE r == RangeOf(f)
           p == Position(w, f)
           v == DIJOYSTATE2(w).axes[f]
<1>1. /\ ObjectsOk(T150.objects) /\ format = t150_data_format_from_records(T150.objects)
      /\ AxisOf(f) # None
      /\ range[AxisOf(f)] \in {DefaultRange, <<0, t150_axis_specs[f].maximum>>}
  BY OpeningCalls DEF SInv, Laid, Chosen, Selected, Formatted, Ranged, BeforeFormat
<1>2. format.axes[f] = AxisOf(f)
  BY <1>1 DEF t150_data_format_from_records, AxisOf
<1>3. AxisOf(f) = Part(t150_axis_specs[f].guid) /\ AxisOf(f) \in AxisIds(T150.objects)
  BY <1>1, AxisFound
<1>4. p \in 0 .. Full
  <2>1. w.axes \in [AxisIds(T150.objects) -> Positions]
    BY DEF Placements
  <2>2. w.axes[AxisOf(f)] \in Positions
    BY <1>3, <2>1
  <2>3. Positions \subseteq 0 .. Full
    BY SetupAssumption
  <2>4. w.axes[AxisOf(f)] \in 0 .. Full
    BY <2>2, <2>3
  <2>5. p = w.axes[AxisOf(f)]
    BY <1>3 DEF Position
  <2> QED
    BY <2>4, <2>5
<1>5. v = r[1] + (p * (r[2] \div 255)) \div (Full \div 255)
  BY <1>2, <1>3 DEF DIJOYSTATE2, RangeOf, Position
<1>6. t150_axis_specs[f].maximum \in {65535, 255}
  BY Specs
<1>7. r \in {DefaultRange, <<0, t150_axis_specs[f].maximum>>}
  BY <1>1, <1>3 DEF RangeOf
<1> HIDE DEF r, p, v
<1>8. CASE r = DefaultRange
  <2>1. r[1] = 0 /\ r[2] = 65535
    BY <1>8 DEF DefaultRange
  <2>2. v = p
    BY <1>4, <1>5, <2>1, Scaling
  <2> QED
    BY <1>4, <1>8, <2>2 DEF r, p, v
<1>9. CASE r = <<0, t150_axis_specs[f].maximum>>
  <2>1. r[1] = 0 /\ r[2] = t150_axis_specs[f].maximum
    BY <1>9
  <2>2. t150_axis_specs[f].maximum = 65535 => v = p
    BY <1>4, <1>5, <2>1, Scaling
  <2>3. t150_axis_specs[f].maximum = 255 => v = p \div 257
    BY <1>4, <1>5, <2>1, Scaling
  <2> QED
    BY <1>4, <1>6, <2>2, <2>3 DEF r, p, v
<1> QED
  BY <1>7, <1>8, <1>9

(* The n-th button of the device is the n-th of the snapshot.              *)
LEMMA ButtonsFilled ==
  ASSUME SInv, call = "GetDeviceState", NEW w \in Placements(T150.objects)
  PROVE  snapshot_from_dijoystate(DIJOYSTATE2(w)).pressed
           = {i \in 0 .. Min({NumButtons, ButtonCount(T150.objects)}) - 1 :
                ButtonId(T150.objects, i + 1) \in w.pressed}
<1> DEFINE count == ButtonCount(T150.objects)
<1>1. ObjectsOk(T150.objects) /\ format = t150_data_format_from_records(T150.objects)
  BY OpeningCalls DEF SInv, Laid, Chosen, Selected, Formatted, BeforeFormat
<1>2. count \in Nat
  <2>1. Len(T150.objects) \in Nat /\ DOMAIN T150.objects = 1 .. Len(T150.objects)
    BY <1>1 DEF ObjectsOk
  <2>2. IsFiniteSet(1 .. Len(T150.objects))
    BY <2>1, FS_Interval
  <2>3. WithGuid(T150.objects, "Button") \subseteq 1 .. Len(T150.objects)
    BY <2>1 DEF WithGuid
  <2> QED
    BY <2>2, <2>3, FS_Subset, FS_CardinalityType DEF ButtonCount
<1>3. format.buttons = [n \in 1 .. Min({count, MaxFormatButtons}) |-> ButtonId(T150.objects, n)]
  BY <1>1 DEF t150_data_format_from_records
<1> DEFINE s == DIJOYSTATE2(w)
<1>4. /\ snapshot_from_dijoystate(s).pressed = {i \in 0 .. NumButtons - 1 : s.buttons[i]}
      /\ s.buttons = [i \in 0 .. MaxFormatButtons - 1 |->
            i + 1 \in DOMAIN format.buttons /\ format.buttons[i + 1] \in w.pressed]
  BY DEF snapshot_from_dijoystate, DIJOYSTATE2
<1> HIDE DEF count, s
<1>5. \A k, l \in Nat : Min({k, l}) \in {k, l} /\ Min({k, l}) <= k /\ Min({k, l}) <= l
  <2> SUFFICES ASSUME NEW k \in Nat, NEW l \in Nat
               PROVE  Min({k, l}) \in {k, l} /\ Min({k, l}) <= k /\ Min({k, l}) <= l
    OBVIOUS
  <2>1. {k, l} \subseteq Nat /\ {k, l} # {}
    OBVIOUS
  <2> QED
    BY <2>1, Least
<1>6. ASSUME NEW i
      PROVE  (i \in 0 .. NumButtons - 1 /\ s.buttons[i])
               <=> (/\ i \in 0 .. Min({NumButtons, count}) - 1
                    /\ ButtonId(T150.objects, i + 1) \in w.pressed)
  <2>1. NumButtons \in Nat /\ MaxFormatButtons \in Nat /\ NumButtons <= MaxFormatButtons
    BY SetupAssumption
  <2>2. Min({count, MaxFormatButtons}) \in Nat /\ Min({NumButtons, count}) \in Nat
    BY <1>2, <1>5, <2>1
  <2>3. i \in 0 .. NumButtons - 1 =>
          (i + 1 \in 1 .. Min({count, MaxFormatButtons}) <=> i \in 0 .. Min({NumButtons, count}) - 1)
    BY <1>2, <1>5, <2>1, <2>2
  <2>4. i \in 0 .. Min({NumButtons, count}) - 1 => i \in 0 .. NumButtons - 1
    BY <1>2, <1>5, <2>1, <2>2
  <2>5. i \in 0 .. NumButtons - 1 => i \in 0 .. MaxFormatButtons - 1
    BY <2>1
  <2>6. ASSUME i \in 0 .. NumButtons - 1
        PROVE  s.buttons[i] <=> /\ i + 1 \in 1 .. Min({count, MaxFormatButtons})
                                /\ ButtonId(T150.objects, i + 1) \in w.pressed
    <3>1. i \in 0 .. MaxFormatButtons - 1
      BY <2>5, <2>6
    <3>2. s.buttons[i] <=> i + 1 \in DOMAIN format.buttons /\ format.buttons[i + 1] \in w.pressed
      BY <1>4, <3>1
    <3> HIDE <1>4
    <3>3. DOMAIN format.buttons = 1 .. Min({count, MaxFormatButtons})
      BY <1>3
    <3>4. i + 1 \in DOMAIN format.buttons => format.buttons[i + 1] = ButtonId(T150.objects, i + 1)
      BY <1>3
    <3> QED
      BY <3>2, <3>3, <3>4
  <2> QED
    BY <2>3, <2>4, <2>6
<1> QED
  BY <1>4, <1>6 DEF count, s

LEMMA PollingLays ==
  ASSUME SInv, Poll \/ GetDeviceState
  PROVE  SInv'
<1>1. /\ call \in {"Poll", "GetDeviceState"} /\ call' \in {"Poll", "GetDeviceState", "ended"}
      /\ UNCHANGED <<attached, opening>>
  BY DEF Poll, GetDeviceState, Lost, End
<1>2. UNCHANGED <<device, selection, format, range>>
  BY <1>1 DEF opening
<1>3. T150' = T150 /\ (\A f \in Fields : AxisOf(f)' = AxisOf(f))
      /\ \A guid : Part(guid)' = Part(guid)
  BY <1>1 DEF T150, AxisOf, Part
<1>4. Laid'
  BY <1>1, <1>2, <1>3, OpeningCalls
  DEF SInv, Laid, Chosen, Selected, Formatted, Ranged, AxisOf, Unread, BeforeFormat, BeforeStop,
      BeforeAcquire, BeforeClaim
<1>5. CASE snapshot' = None \/ UNCHANGED reading
  BY <1>1, <1>2, <1>4, <1>5, SameView, NoView DEF SInv, reading
<1>6. CASE /\ call = "GetDeviceState" /\ wheel' \in Placements(device.objects)
           /\ snapshot' = snapshot_from_dijoystate(DIJOYSTATE2(wheel'))
  <2>1. PICK w : w = wheel' /\ w \in Placements(T150.objects)
    BY <1>6 DEF SInv, Laid, Chosen
  <2> DEFINE s == DIJOYSTATE2(w)
  <2>2. snapshot' = snapshot_from_dijoystate(s)
    BY <1>6, <2>1
  <2>3. snapshot'.wheel = w.axes[Part("XAxis")]
    <3>1. DIJOYSTATE2(w).axes["lX"] = Position(w, "lX")
      BY <1>6, <2>1, FieldsFilled, Specs
    <3> QED
      BY <2>2, <3>1, Specs DEF snapshot_from_dijoystate, Position
  <2>4. ASSUME NEW f \in {"lY", "lRz", "slider0"}
        PROVE  Shown(direct_input_u8_axis(s.axes[f]), w, t150_axis_specs[f].guid)
    <3> DEFINE p == Position(w, f)
    <3>1. /\ p \in 0 .. Full
          /\ \/ RangeOf(f) = DefaultRange /\ s.axes[f] = p
             \/ s.axes[f] = p \div 257
      BY <1>6, <2>1, FieldsFilled, Specs
    <3> HIDE DEF s, p
    <3>2. \/ direct_input_u8_axis(s.axes[f]) = (p * 255) \div Full
          \/ /\ RangeOf(f) = DefaultRange /\ p < 256
             /\ direct_input_u8_axis(s.axes[f]) = p
      <4>1. CASE s.axes[f] = p \div 257
        BY <3>1, <4>1, Pedals
      <4>2. CASE RangeOf(f) = DefaultRange /\ s.axes[f] = p
        BY <3>1, <4>2, Pedals
      <4> QED
        BY <3>1, <4>1, <4>2
    <3> QED
      BY <3>2 DEF p, Shown, Position, RangeOf
  <2>5. FirstId(T150.objects, "POV") # None => snapshot'.hat = pov_to_hat(w.pov)
    <3>1. format.pov = FirstId(T150.objects, "POV")
      BY <1>6, OpeningCalls
      DEF SInv, Laid, Selected, Formatted, BeforeFormat, t150_data_format_from_records
    <3> QED
      BY <2>2, <3>1, Zenon DEF snapshot_from_dijoystate, DIJOYSTATE2
  <2>6. snapshot'.pressed = {i \in 0 .. Min({NumButtons, ButtonCount(T150.objects)}) - 1 :
                              ButtonId(T150.objects, i + 1) \in w.pressed}
    BY <1>6, <2>1, <2>2, ButtonsFilled
  <2>7. /\ snapshot'.pedal_y = direct_input_u8_axis(s.axes["lY"])
        /\ snapshot'.pedal_rz = direct_input_u8_axis(s.axes["lRz"])
        /\ snapshot'.throttle = direct_input_u8_axis(s.axes["slider0"])
    BY <2>2 DEF snapshot_from_dijoystate
  <2> HIDE DEF s
  <2>8. /\ Shown(snapshot'.pedal_y, w, "YAxis") /\ Shown(snapshot'.pedal_rz, w, "RzAxis")
        /\ Shown(snapshot'.throttle, w, "Slider")
    BY <2>4, <2>7, Specs
  <2>9. \A value, guid : Reports(value, guid)' <=> Shown(value, w, guid)
    BY <1>2, <1>3, <2>1 DEF Reports, Shown
  <2> QED
    BY <1>3, <1>4, <2>1, <2>3, <2>5, <2>6, <2>8, <2>9 DEF SInv, SnapshotIsTheWheel, Reports, Shown
<1> QED
  BY <1>5, <1>6 DEF Poll, GetDeviceState

(* What the driver lays out and what the server reads stay as they are, in *)
(* every step.                                                             *)
LEMMA StepLays == IInv /\ SInv /\ [Next]_vars => SInv'
<1> SUFFICES ASSUME IInv, SInv, [Next]_vars PROVE SInv'
  OBVIOUS
<1>1. CASE UNCHANGED vars
  <2>1. UNCHANGED <<attached, call, device, selection, format, range, wheel, snapshot>>
    BY <1>1 DEF vars, opening, reading
  <2>2. T150' = T150 /\ \A f \in Fields : AxisOf(f)' = AxisOf(f)
    BY <2>1 DEF T150, AxisOf
  <2> QED
    BY <2>1, <2>2, SameView
    DEF SInv, Laid, Chosen, Selected, Formatted, Ranged, AxisOf, Unread
<1>2. CASE Next
  BY <1>2, ChoosingLays, RangesLay, OpeningLays, EndingLays, PollingLays, ComputerLays
  DEF Next, Setup
<1> QED
  BY <1>1, <1>2

(* open_t150 and poll_input together: whatever ranges the driver refuses   *)
(* and whatever objects the device has, a snapshot holds each control of   *)
(* the T150 in its own place and scale.                                    *)
THEOREM SnapshotIsTheWheelHolds == Spec => []SnapshotIsTheWheel
<1>1. SInv => SnapshotIsTheWheel
  BY DEF SInv
<1> QED
  BY <1>1, InitiallyLaid, StepLays, Invariance, PTL DEF Spec
-----------------------------------------------------------------------------
(* The conversions: WheelSweep.  A scale is monotone because its product,  *)
(* its division, whichever way it rounds, and its clamp are.               *)
LEMMA QuotientIsMonotone ==
  ASSUME NEW a \in Int, NEW b \in Int, a <= b
  PROVE  /\ Quotient(a, I16_MAX) \in Int /\ Quotient(b, I16_MAX) \in Int
         /\ Quotient(a, I16_MAX) <= Quotient(b, I16_MAX)
<1>1. ASSUME NEW n \in Int PROVE Quotient(n, 32767) \in Int
  BY DEF Quotient
<1>2. CASE 0 <= a
  BY <1>1, <1>2 DEF Quotient, I16_MAX
<1>3. CASE a < 0 /\ 0 <= b
  BY <1>1, <1>3 DEF Quotient, I16_MAX
<1>4. CASE b < 0
  <2>1. (- b) \div 32767 <= (- a) \div 32767
    BY <1>4
  <2> QED
    BY <1>1, <1>4, <2>1 DEF Quotient, I16_MAX
<1> QED
  BY <1>2, <1>3, <1>4

LEMMA ClampIsMonotone ==
  ASSUME NEW a \in Int, NEW b \in Int, a <= b, NEW hi \in Nat, NEW lo \in {- hi, 0}
  PROVE  /\ ClampTo(a, lo, hi) \in lo .. hi /\ ClampTo(b, lo, hi) \in lo .. hi
         /\ ClampTo(a, lo, hi) <= ClampTo(b, lo, hi)
BY DEF ClampTo

LEMMA ForceIsMonotone ==
  ASSUME NEW v \in Int, NEW w \in Int, v <= w
  PROVE  /\ scale_i16_to_di(v) <= scale_i16_to_di(w)
         /\ scale_i16_to_di(v) \in - DI_FFNOMINALMAX .. DI_FFNOMINALMAX
         /\ scale_i16_to_di(w) \in - DI_FFNOMINALMAX .. DI_FFNOMINALMAX
<1> DEFINE a == Quotient(v * DI_FFNOMINALMAX, I16_MAX)
           b == Quotient(w * DI_FFNOMINALMAX, I16_MAX)
<1>1. /\ v * DI_FFNOMINALMAX \in Int /\ w * DI_FFNOMINALMAX \in Int
      /\ v * DI_FFNOMINALMAX <= w * DI_FFNOMINALMAX /\ DI_FFNOMINALMAX \in Nat
  BY DEF DI_FFNOMINALMAX
<1>2. a \in Int /\ b \in Int /\ a <= b
  BY <1>1, QuotientIsMonotone
<1> HIDE DEF a, b
<1>3. /\ ClampTo(a, - DI_FFNOMINALMAX, DI_FFNOMINALMAX) \in - DI_FFNOMINALMAX .. DI_FFNOMINALMAX
      /\ ClampTo(b, - DI_FFNOMINALMAX, DI_FFNOMINALMAX) \in - DI_FFNOMINALMAX .. DI_FFNOMINALMAX
      /\ ClampTo(a, - DI_FFNOMINALMAX, DI_FFNOMINALMAX)
           <= ClampTo(b, - DI_FFNOMINALMAX, DI_FFNOMINALMAX)
  BY <1>1, <1>2, ClampIsMonotone
<1> QED
  BY <1>3 DEF scale_i16_to_di, a, b

(* Truncation and clamp treat both signs alike.                            *)
LEMMA ForceIsOdd ==
  ASSUME NEW v \in Int
  PROVE  /\ scale_i16_to_di(- v) = - scale_i16_to_di(v)
         /\ scale_i16_magnitude_to_di(- v) = scale_i16_magnitude_to_di(v)
<1> DEFINE q == Quotient(v * 10000, 32767)
<1>1. q \in Int
  BY DEF Quotient
<1>2. Quotient((- v) * 10000, 32767) = - q
  <2>1. CASE v * 10000 < 0
    BY <2>1 DEF Quotient
  <2>2. CASE v * 10000 = 0
    BY <2>2 DEF Quotient
  <2>3. CASE v * 10000 > 0
    BY <2>3 DEF Quotient
  <2> QED
    BY <2>1, <2>2, <2>3
<1> HIDE DEF q
<1>3. ClampTo(- q, - 10000, 10000) = - ClampTo(q, - 10000, 10000)
  BY <1>1 DEF ClampTo
<1>4. /\ scale_i16_to_di(v) = ClampTo(q, - 10000, 10000)
      /\ scale_i16_to_di(- v) = ClampTo(- q, - 10000, 10000)
  BY <1>2 DEF scale_i16_to_di, DI_FFNOMINALMAX, I16_MAX, q
<1>5. scale_i16_to_di(v) \in Int
  BY <1>1, <1>4 DEF ClampTo
<1>6. scale_i16_to_di(- v) = - scale_i16_to_di(v)
  BY <1>3, <1>4
<1> QED
  BY <1>5, <1>6 DEF scale_i16_magnitude_to_di

(* i16::MIN, which has no opposite of its width, is clamped to the force   *)
(* of the number after it.                                                 *)
LEMMA LowestForce == scale_i16_to_di(-32768) = scale_i16_to_di(-32767)
<1>1. Quotient(-32768 * 10000, 32767) <= -10000 /\ Quotient(-32767 * 10000, 32767) = -10000
  BY DEF Quotient
<1> QED
  BY <1>1 DEF scale_i16_to_di, ClampTo, Quotient, DI_FFNOMINALMAX, I16_MAX

LEMMA GainIsMonotone ==
  ASSUME NEW v \in Int, NEW w \in Int, v <= w
  PROVE  scale_u16_to_di(v) <= scale_u16_to_di(w) /\ scale_u16_to_di(w) <= DI_FFNOMINALMAX
<1> DEFINE a == (v * DI_FFNOMINALMAX) \div U16_MAX
           b == (w * DI_FFNOMINALMAX) \div U16_MAX
<1>1. a \in Int /\ b \in Int /\ a <= b
  BY DEF DI_FFNOMINALMAX, U16_MAX
<1>2. DI_FFNOMINALMAX \in Nat
  BY DEF DI_FFNOMINALMAX
<1> HIDE DEF a, b
<1>3. /\ ClampTo(a, 0, DI_FFNOMINALMAX) <= ClampTo(b, 0, DI_FFNOMINALMAX)
      /\ ClampTo(b, 0, DI_FFNOMINALMAX) <= DI_FFNOMINALMAX
  BY <1>1, <1>2 DEF ClampTo
<1> QED
  BY <1>3 DEF scale_u16_to_di, a, b

(* Quotients of quotients: the split by which phase_to_direct_input stays  *)
(* within TLC's integers is the source's value * 35999 / 65535.            *)
THEOREM PhaseIsOneQuotient ==
  ASSUME NEW v \in Int PROVE phase_to_direct_input(v) = (v * 35999) \div 65535
<1>1. ASSUME NEW n \in Int PROVE (n \div 5) \div 13107 = n \div 65535
  OBVIOUS
<1>2. v * 7199 + (v * 4) \div 5 = (v * 35999) \div 5
  OBVIOUS
<1> QED
  BY <1>1, <1>2 DEF phase_to_direct_input

LEMMA PhaseIsMonotone ==
  ASSUME NEW v \in Int, NEW w \in U16, v <= w
  PROVE  /\ phase_to_direct_input(v) <= phase_to_direct_input(w)
         /\ phase_to_direct_input(w) <= 35999
<1>1. w \in Int /\ w <= U16_MAX /\ U16_MAX = 65535
  BY DEF U16, U16_MAX
<1>2. (v * 35999) \div 65535 <= (w * 35999) \div 65535 /\ (w * 35999) \div 65535 <= 35999
  BY <1>1
<1> QED
  BY <1>1, <1>2, PhaseIsOneQuotient

(* A pedal is monotone in its two ranges, up to 255 and from 256 on, and   *)
(* reported in the profile's.                                              *)
LEMMA PedalIsMonotoneInRange ==
  ASSUME NEW v \in Int, NEW w \in Int, v <= w, w <= 255 \/ 255 < v
  PROVE  direct_input_u8_axis(v) <= direct_input_u8_axis(w)
<1>1. /\ (v * 255) \div 65535 <= (w * 255) \div 65535
      /\ v <= 65535 => (v * 255) \div 65535 <= 255
      /\ (v * 255) \div 65535 \in Int /\ (w * 255) \div 65535 \in Int
  OBVIOUS
<1> QED
  BY <1>1, PedalShare

LEMMA PedalInRange == ASSUME NEW v \in Int PROVE direct_input_u8_axis(v) \in 0 .. U8_MAX
<1>1. 0 <= v /\ v <= 65535 => 0 <= (v * 255) \div 65535 /\ (v * 255) \div 65535 <= 255
  OBVIOUS
<1>2. U8_MAX = 255
  BY DEF U8_MAX
<1>3. 0 <= direct_input_u8_axis(v) /\ direct_input_u8_axis(v) <= 255
  BY <1>1, PedalShare
<1> QED
  BY <1>2, <1>3, PedalShare

(* The degree on the other side.                                           *)
LEMMA OppositeDegree ==
  ASSUME NEW v \in Int, 0 <= v, v < 36000
  PROVE  /\ v \div 100 \in Int /\ 0 <= v \div 100 /\ v \div 100 < 360
         /\ (v + 18000) % 36000 \in Int /\ 0 <= (v + 18000) % 36000
         /\ ((v + 18000) % 36000) \div 100 =
              IF v \div 100 < 180 THEN v \div 100 + 180 ELSE v \div 100 - 180
<1>1. v \div 100 \in Int /\ 0 <= v \div 100 /\ v \div 100 < 360
  OBVIOUS
<1>2. (v + 18000) \div 100 = v \div 100 + 180 /\ (v - 18000) \div 100 = v \div 100 - 180
  OBVIOUS
<1>3. (v + 18000) % 36000 = IF v < 18000 THEN v + 18000 ELSE v - 18000
  OBVIOUS
<1>4. v \div 100 < 180 <=> v < 18000
  OBVIOUS
<1> QED
  BY <1>1, <1>2, <1>3, <1>4

(* The hat of each sector, of 45 degrees; the first is on both sides of    *)
(* north.                                                                  *)
LEMMA HatAt ==
  ASSUME NEW v \in Int, v # NoDirection, NEW d, d = v \div 100
  PROVE  /\ d \in 0 .. 22 \/ d \in 338 .. 359 => pov_to_hat(v) = <<0, -1>>
         /\ d \in 23 .. 67 => pov_to_hat(v) = <<1, -1>>
         /\ d \in 68 .. 112 => pov_to_hat(v) = <<1, 0>>
         /\ d \in 113 .. 157 => pov_to_hat(v) = <<1, 1>>
         /\ d \in 158 .. 202 => pov_to_hat(v) = <<0, 1>>
         /\ d \in 203 .. 247 => pov_to_hat(v) = <<-1, 1>>
         /\ d \in 248 .. 292 => pov_to_hat(v) = <<-1, 0>>
         /\ d \in 293 .. 337 => pov_to_hat(v) = <<-1, -1>>
<1>1. ASSUME d \in 0 .. 22 \/ d \in 338 .. 359 PROVE pov_to_hat(v) = <<0, -1>>
  BY <1>1 DEF pov_to_hat
<1>2. ASSUME d \in 23 .. 67 PROVE pov_to_hat(v) = <<1, -1>>
  BY <1>2 DEF pov_to_hat
<1>3. ASSUME d \in 68 .. 112 PROVE pov_to_hat(v) = <<1, 0>>
  BY <1>3 DEF pov_to_hat
<1>4. ASSUME d \in 113 .. 157 PROVE pov_to_hat(v) = <<1, 1>>
  BY <1>4 DEF pov_to_hat
<1>5. ASSUME d \in 158 .. 202 PROVE pov_to_hat(v) = <<0, 1>>
  BY <1>5 DEF pov_to_hat
<1>6. ASSUME d \in 203 .. 247 PROVE pov_to_hat(v) = <<-1, 1>>
  BY <1>6 DEF pov_to_hat
<1>7. ASSUME d \in 248 .. 292 PROVE pov_to_hat(v) = <<-1, 0>>
  BY <1>7 DEF pov_to_hat
<1>8. ASSUME d \in 293 .. 337 PROVE pov_to_hat(v) = <<-1, -1>>
  BY <1>8 DEF pov_to_hat
<1> QED
  BY <1>1, <1>2, <1>3, <1>4, <1>5, <1>6, <1>7, <1>8

LEMMA OppositeHat ==
  ASSUME NEW v \in Int, 0 <= v, v < 36000
  PROVE  LET hat == pov_to_hat(v)
             opposite == pov_to_hat((v + 18000) % 36000)
         IN hat # <<0, 0>> /\ opposite = <<- hat[1], - hat[2]>>
<1> DEFINE w == (v + 18000) % 36000
           d == v \div 100
           e == w \div 100
<1>1. /\ d \in Int /\ 0 <= d /\ d < 360 /\ e = IF d < 180 THEN d + 180 ELSE d - 180
      /\ w \in Int /\ 0 <= w
  BY OppositeDegree
<1>2. v # NoDirection /\ w # NoDirection
  BY <1>1 DEF NoDirection
<1> HIDE DEF w
<1>3. CASE d \in 0 .. 22 \/ d \in 338 .. 359
  <2>1. e \in 158 .. 202
    BY <1>1, <1>3
  <2>2. pov_to_hat(v) = <<0, -1>> /\ pov_to_hat(w) = <<0, 1>>
    BY <1>1, <1>2, <1>3, <2>1, HatAt
  <2> QED
    BY <2>2 DEF w
<1>4. CASE d \in 23 .. 67
  <2>1. e \in 203 .. 247
    BY <1>1, <1>4
  <2>2. pov_to_hat(v) = <<1, -1>> /\ pov_to_hat(w) = <<-1, 1>>
    BY <1>1, <1>2, <1>4, <2>1, HatAt
  <2> QED
    BY <2>2 DEF w
<1>5. CASE d \in 68 .. 112
  <2>1. e \in 248 .. 292
    BY <1>1, <1>5
  <2>2. pov_to_hat(v) = <<1, 0>> /\ pov_to_hat(w) = <<-1, 0>>
    BY <1>1, <1>2, <1>5, <2>1, HatAt
  <2> QED
    BY <2>2 DEF w
<1>6. CASE d \in 113 .. 157
  <2>1. e \in 293 .. 337
    BY <1>1, <1>6
  <2>2. pov_to_hat(v) = <<1, 1>> /\ pov_to_hat(w) = <<-1, -1>>
    BY <1>1, <1>2, <1>6, <2>1, HatAt
  <2> QED
    BY <2>2 DEF w
<1>7. CASE d \in 158 .. 202
  <2>1. e \in 0 .. 22 \/ e \in 338 .. 359
    BY <1>1, <1>7
  <2>2. pov_to_hat(v) = <<0, 1>> /\ pov_to_hat(w) = <<0, -1>>
    BY <1>1, <1>2, <1>7, <2>1, HatAt
  <2> QED
    BY <2>2 DEF w
<1>8. CASE d \in 203 .. 247
  <2>1. e \in 23 .. 67
    BY <1>1, <1>8
  <2>2. pov_to_hat(v) = <<-1, 1>> /\ pov_to_hat(w) = <<1, -1>>
    BY <1>1, <1>2, <1>8, <2>1, HatAt
  <2> QED
    BY <2>2 DEF w
<1>9. CASE d \in 248 .. 292
  <2>1. e \in 68 .. 112
    BY <1>1, <1>9
  <2>2. pov_to_hat(v) = <<-1, 0>> /\ pov_to_hat(w) = <<1, 0>>
    BY <1>1, <1>2, <1>9, <2>1, HatAt
  <2> QED
    BY <2>2 DEF w
<1>10. CASE d \in 293 .. 337
  <2>1. e \in 113 .. 157
    BY <1>1, <1>10
  <2>2. pov_to_hat(v) = <<-1, -1>> /\ pov_to_hat(w) = <<1, 1>>
    BY <1>1, <1>2, <1>10, <2>1, HatAt
  <2> QED
    BY <2>2 DEF w
<1>11. d \in 0 .. 22 \/ d \in 338 .. 359 \/ d \in 23 .. 67 \/ d \in 68 .. 112 \/ d \in 113 .. 157
       \/ d \in 158 .. 202 \/ d \in 203 .. 247 \/ d \in 248 .. 292 \/ d \in 293 .. 337
  BY <1>1
<1> QED
  BY <1>3, <1>4, <1>5, <1>6, <1>7, <1>8, <1>9, <1>10, <1>11

(* The inputs of a sweep.                                                  *)
LEMMA Samples == Sweep => [](sample \in Int)
<1>1. SweepInit => sample \in Int
  BY SweepAssumption DEF SweepInit
<1>2. sample \in Int /\ [SweepNext]_sample => (sample \in Int)'
  BY DEF SweepNext
<1> QED
  BY <1>1, <1>2, PTL DEF Sweep

(* pov_to_hat, at every angle the driver reports.                          *)
THEOREM HatOpposesHolds == Sweep => []HatOpposes
<1>1. sample \in Int => HatOpposes
  BY OppositeHat DEF HatOpposes
<1> QED
  BY <1>1, Samples, PTL

(* scale_i16_to_di, scale_u16_to_di and phase_to_direct_input, from any    *)
(* first input to any last.                                                *)
THEOREM ScalesAreMonotoneHolds == Sweep => ScalesAreMonotone
<1>1. ASSUME sample \in Int, SweepNext PROVE ForceStep
  <2>1. sample' \in Int /\ sample <= sample' /\ sample = sample' - 1
    BY <1>1 DEF SweepNext
  <2>2. /\ scale_i16_to_di(sample) <= scale_i16_to_di(sample')
        /\ scale_i16_to_di(sample) \in - DI_FFNOMINALMAX .. DI_FFNOMINALMAX
        /\ scale_i16_to_di(sample') \in - DI_FFNOMINALMAX .. DI_FFNOMINALMAX
    BY <1>1, <2>1, ForceIsMonotone
  <2>3. DI_FFNOMINALMAX \in Int /\ (sample' = - I16_MAX => sample = -32768 /\ sample' = -32767)
    BY <2>1 DEF I16_MAX, DI_FFNOMINALMAX
  <2>4. /\ scale_i16_to_di(- sample') = - scale_i16_to_di(sample')
        /\ scale_i16_magnitude_to_di(- sample') = scale_i16_magnitude_to_di(sample')
    BY <2>1, ForceIsOdd
  <2>5. scale_i16_to_di(sample) \in - DI_FFNOMINALMAX .. scale_i16_to_di(sample')
    BY <2>2, <2>3
  <2>6. scale_i16_to_di(sample') <= DI_FFNOMINALMAX
    BY <2>2, <2>3
  <2> QED
    BY <2>3, <2>4, <2>5, <2>6, LowestForce DEF ForceStep
<1>2. ASSUME sample \in Int, SweepNext PROVE GainStep
  <2>1. sample' \in Int /\ sample <= sample'
    BY <1>2 DEF SweepNext
  <2> QED
    BY <1>2, <2>1, GainIsMonotone, PhaseIsMonotone DEF GainStep
<1>3. sample \in Int /\ [SweepNext]_sample => [ForceStep /\ GainStep]_sample
  BY <1>1, <1>2
<1> QED
  BY <1>3, Samples, PTL DEF Sweep, ScalesAreMonotone

(* direct_input_u8_axis falls only from 255 to 256, whatever a driver      *)
(* reports.                                                                *)
THEOREM PedalIsMonotoneHolds == Sweep => PedalIsMonotone
<1>1. ASSUME sample \in Int, SweepNext PROVE PedalStep
  <2>1. sample' \in Int /\ sample' = sample + 1
    BY <1>1 DEF SweepNext
  <2>2. sample # 255 => direct_input_u8_axis(sample) <= direct_input_u8_axis(sample')
    <3>1. sample <= sample' /\ (sample # 255 => sample' <= 255 \/ 255 < sample)
      BY <1>1, <2>1
    <3> QED
      BY <1>1, <2>1, <3>1, PedalIsMonotoneInRange
  <2>3. U8_MAX = 255
    BY DEF U8_MAX
  <2> QED
    BY <1>1, <2>1, <2>2, <2>3, PedalInRange DEF PedalStep
<1>2. sample \in Int /\ [SweepNext]_sample => [PedalStep]_sample
  BY <1>1
<1> QED
  BY <1>2, Samples, PTL DEF Sweep, PedalIsMonotone
=============================================================================
