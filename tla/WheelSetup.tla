----------------------------- MODULE WheelSetup -----------------------------
(***************************************************************************)
(* How the server comes to hold the wheel and reads it: open_t150 calls    *)
(* DirectInput in a fixed order, each call with preconditions the driver   *)
(* insists on, and poll_input reads the device state that the data format  *)
(* and the ranges made then lay out.  Other programs of the same computer  *)
(* take the wheel and leave it between any two calls, and Windows may take *)
(* it away.  `monitor` makes the same calls and polls the same way.        *)
(***************************************************************************)
EXTENDS WheelMath, Sequences, Functions, FiniteSetsExt

CONSTANTS Attached,          \* sequences of devices EnumDevices may list
          Positions,         \* of an axis, as parts of Full
          Directions,        \* of the POV, NoDirection among them
          NumButtons,        \* 13: buttons of a snapshot
          MaxFormatButtons,  \* 128: buttons of the data format
          MaxInterruptions,  \* bound: times Windows takes the wheel away
          None

Full == 65535

ASSUME SetupAssumption ==
  /\ Positions \subseteq 0 .. Full
  /\ NoDirection \in Directions /\ Directions \subseteq NoDirection .. 35999
  /\ None \notin {"server", "game", "order"}
  /\ NumButtons \in Nat /\ MaxFormatButtons \in Nat /\ MaxFormatButtons >= NumButtons
  /\ MaxInterruptions \in Nat

(* An object's id is its dwType, the kind and the number of the object: no *)
(* two objects of a device have the same.                                  *)
ObjectsOk(objects) ==
  /\ objects \in Seq(Range(objects))
  /\ \A i \in DOMAIN objects : objects[i].id # None
  /\ \A i, j \in DOMAIN objects : objects[i].id = objects[j].id => i = j

ASSUME ObjectsAssumption ==
  \A list \in Attached :
    /\ list \in Seq(Range(list))
    /\ \A i \in DOMAIN list : ObjectsOk(list[i].objects)

VARIABLES
  attached,       \* the game controllers, each [ids, named, objects]
  call,           \* the DirectInput call the server makes next
  cause,          \* why the server ended: driver, missing, taken, order or None
  device,         \* the device created, or None
  selection,      \* T150DataFormat: [axes, pov, buttons], or <<>>
  format,         \* the data format the driver has, or <<>>
  range,          \* [object ids of its axes -> <<minimum, maximum>>]
  ffb_axis,       \* ffb_axis_object_id
  exclusive,      \* whether the cooperative level was set
  holder,         \* who has the wheel acquired: server, game or None
  motors,         \* idle or playing
  taken,          \* a game has had the wheel since the server opened it
  interruptions,  \* times Windows has taken it away
  wheel, snapshot \* the physical wheel at the last poll and what it gave

opening == <<device, selection, format, range, ffb_axis, exclusive>>
others == <<motors, taken, interruptions>>
reading == <<wheel, snapshot>>
vars == <<attached, call, cause, opening, holder, others, reading>>

-----------------------------------------------------------------------------
(* The data format: which object of the device fills which field of        *)
(* DIJOYSTATE2.                                                            *)
is_t150(d) == d.ids \/ d.named

WithGuid(objects, guid) == {i \in DOMAIN objects : objects[i].guid = guid}
IdOfFirst(objects, places) == IF places = {} THEN None ELSE objects[Min(places)].id
FirstId(objects, guid) == IdOfFirst(objects, WithGuid(objects, guid))

Nth(places, n) == CHOOSE i \in places : Cardinality({j \in places : j <= i}) = n
ButtonId(objects, n) == objects[Nth(WithGuid(objects, "Button"), n)].id
ButtonCount(objects) == Cardinality(WithGuid(objects, "Button"))

(* A slip: the two pedals' fields are swapped.                             *)
t150_axis_specs_Swapped ==
  [lX |-> [guid |-> "XAxis", maximum |-> 65535], lY |-> [guid |-> "RzAxis", maximum |-> 255],
   lRz |-> [guid |-> "YAxis", maximum |-> 255], slider0 |-> [guid |-> "Slider", maximum |-> 255]]

t150_axis_specs ==
  [lX |-> [guid |-> "XAxis", maximum |-> 65535], lY |-> [guid |-> "YAxis", maximum |-> 255],
   lRz |-> [guid |-> "RzAxis", maximum |-> 255], slider0 |-> [guid |-> "Slider", maximum |-> 255]]

Fields == DOMAIN t150_axis_specs

t150_data_format_from_records(objects) ==
  [axes |-> [f \in Fields |-> FirstId(objects, t150_axis_specs[f].guid)],
   pov |-> FirstId(objects, "POV"),
   buttons |-> [n \in 1 .. Min({ButtonCount(objects), MaxFormatButtons}) |-> ButtonId(objects, n)]]

(* The X axis if it has an actuator, else the first object that has one.   *)
find_ffb_axis_object_id(objects) ==
  LET actuators == {i \in DOMAIN objects : objects[i].actuator}
      x_axes == actuators \cap WithGuid(objects, "XAxis")
  IN IdOfFirst(objects, IF x_axes # {} THEN x_axes ELSE actuators)

AxisIds(objects) ==
  {o.id : o \in {q \in Range(objects) : q.guid \in {"XAxis", "YAxis", "RzAxis", "Slider"}}}
DefaultRange == <<0, 65535>>

(* Each axis is set by its offset, which the driver looks up in the data   *)
(* format, or by its id; an axis it refuses both ways keeps its range.     *)
configure_axis_ranges(refused) ==
  LET target(f) ==
        IF <<f, "offset">> \notin refused /\ format # <<>> THEN format.axes[f]
        ELSE IF <<f, "id">> \notin refused THEN selection.axes[f] ELSE None
  IN [id \in DOMAIN range |->
        IF \E f \in Fields : target(f) = id
          THEN <<0, t150_axis_specs[CHOOSE f \in Fields : target(f) = id].maximum>>
          ELSE range[id]]

-----------------------------------------------------------------------------
(* Slips: the wheel is acquired before it is claimed; what plays is not    *)
(* stopped; a lost wheel is not acquired again.                            *)
Calls_AcquireFirst ==
  <<"EnumDevices", "CreateDevice", "EnumObjects", "SetDataFormat", "EnumActuators",
    "SetRanges", "Acquire", "SetCooperativeLevel", "STOPALL", "RESET", "Poll">>
Calls_NoStop ==
  <<"EnumDevices", "CreateDevice", "EnumObjects", "SetDataFormat", "EnumActuators",
    "SetRanges", "SetCooperativeLevel", "Acquire", "Poll">>
Reacquired_Never == holder

(* The order of open_t150 and configure_device, then poll_input.           *)
Calls ==
  <<"EnumDevices", "CreateDevice", "EnumObjects", "SetDataFormat", "EnumActuators",
    "SetRanges", "SetCooperativeLevel", "Acquire", "STOPALL", "RESET", "Poll">>

After(c) == Calls[1 + CHOOSE i \in DOMAIN Calls : Calls[i] = c]
Opening == Range(Calls) \ {"Poll"}
Open == call \in {"Poll", "GetDeviceState"}

(* What acquiring the wheel makes of its holder: exclusive access is       *)
(* refused while a game has it.                                            *)
Reacquired == IF holder = None THEN "server" ELSE holder

End(why) ==
  /\ call' = "ended" /\ cause' = why
  /\ holder' = IF holder = "server" THEN None ELSE holder

(* What DirectInput demands before a call.                                 *)
Allowed(c) ==
  CASE c \in {"SetDataFormat", "SetCooperativeLevel"} -> holder # "server"
    [] c = "Acquire" -> format # <<>> /\ holder # "game"
    [] c \in {"STOPALL", "RESET"} -> exclusive /\ holder = "server"
    [] OTHER -> TRUE

Step(c) == call = c /\ Allowed(c) /\ call' = After(c) /\ UNCHANGED <<attached, cause, reading>>

(* A call whose precondition fails ends the server: because of a game or   *)
(* of Windows, or for no other reason than the order of the calls.         *)
Refused ==
  /\ call \in Opening /\ ~ Allowed(call)
  /\ End(IF holder = "game" \/ interruptions > 0 THEN "taken" ELSE "order")
  /\ UNCHANGED <<attached, opening, others, reading>>

(* Any call but those whose result is ignored may fail for the driver's    *)
(* own reasons, a wheel that was unplugged among them.                     *)
DriverFails ==
  /\ call \notin {"SetRanges", "ended"} /\ End("driver")
  /\ wheel' = None /\ snapshot' = None
  /\ UNCHANGED <<attached, opening, others>>

(* A list without a T150, an object or an actuator missing.                *)
Missing ==
  /\ \/ call = "EnumDevices" /\ \A i \in DOMAIN attached : ~ is_t150(attached[i])
     \/ call = "EnumObjects" /\ \E f \in Fields :
          t150_data_format_from_records(device.objects).axes[f] = None
     \/ call = "EnumActuators" /\ find_ffb_axis_object_id(device.objects) = None
  /\ End("missing") /\ UNCHANGED <<attached, opening, others, reading>>

(* find_t150_candidate: the first T150 of the list.                        *)
EnumDevices ==
  /\ Step("EnumDevices")
  /\ \E i \in DOMAIN attached :
       /\ is_t150(attached[i]) /\ \A j \in 1 .. i - 1 : ~ is_t150(attached[j])
       /\ device' = attached[i]
  /\ UNCHANGED <<selection, format, range, ffb_axis, exclusive, holder, others>>

CreateDevice ==
  /\ Step("CreateDevice")
  /\ range' = [id \in AxisIds(device.objects) |-> DefaultRange]
  /\ UNCHANGED <<device, selection, format, ffb_axis, exclusive, holder, others>>

EnumObjects ==
  /\ Step("EnumObjects")
  /\ selection' = t150_data_format_from_records(device.objects)
  /\ \A f \in Fields : selection'.axes[f] # None
  /\ UNCHANGED <<device, format, range, ffb_axis, exclusive, holder, others>>

SetDataFormat ==
  /\ Step("SetDataFormat") /\ format' = selection
  /\ UNCHANGED <<device, selection, range, ffb_axis, exclusive, holder, others>>

EnumActuators ==
  /\ Step("EnumActuators")
  /\ ffb_axis' = find_ffb_axis_object_id(device.objects) /\ ffb_axis' # None
  /\ UNCHANGED <<device, selection, format, range, exclusive, holder, others>>

SetRanges(refused) ==
  /\ Step("SetRanges") /\ range' = configure_axis_ranges(refused)
  /\ UNCHANGED <<device, selection, format, ffb_axis, exclusive, holder, others>>

(* Autocenter and gain follow, whose errors are ignored.                   *)
SetCooperativeLevel ==
  /\ Step("SetCooperativeLevel") /\ exclusive' = TRUE
  /\ UNCHANGED <<device, selection, format, range, ffb_axis, holder, others>>

Acquire ==
  /\ Step("Acquire") /\ holder' = "server" /\ taken' = FALSE
  /\ UNCHANGED <<opening, motors, interruptions>>

(* STOPALL and RESET both leave the motors idle.                           *)
SendForceFeedbackCommand(c) ==
  /\ Step(c) /\ motors' = "idle"
  /\ UNCHANGED <<opening, holder, taken, interruptions>>

-----------------------------------------------------------------------------
(* poll_input: two calls, and the wheel may be gone at either.             *)
Lost(next) ==
  /\ holder # "server"
  /\ IF Reacquired = "game" THEN End("taken")
     ELSE holder' = Reacquired /\ call' = next /\ UNCHANGED cause

Poll ==
  /\ call = "Poll"
  /\ \/ holder = "server" /\ call' = "GetDeviceState" /\ UNCHANGED <<holder, cause>>
     \/ Lost("GetDeviceState")
  /\ wheel' = None /\ snapshot' = None
  /\ UNCHANGED <<attached, opening, others>>

(* Where the parts of the device are.                                      *)
Placements(objects) ==
  [axes : [AxisIds(objects) -> Positions], pov : Directions,
   pressed : SUBSET {objects[i].id : i \in WithGuid(objects, "Button")}]

(* The driver fills DIJOYSTATE2 by the data format, scaled to the ranges;  *)
(* fields without an object stay 0.                                        *)
DIJOYSTATE2(w) ==
  [axes |-> [f \in Fields |->
     LET r == range[format.axes[f]]
     IN r[1] + (w.axes[format.axes[f]] * (r[2] \div 255)) \div (Full \div 255)],
   pov |-> IF format.pov = None THEN 0 ELSE w.pov,
   buttons |-> [i \in 0 .. MaxFormatButtons - 1 |->
     i + 1 \in DOMAIN format.buttons /\ format.buttons[i + 1] \in w.pressed]]

snapshot_from_dijoystate(s) ==
  [wheel |-> s.axes["lX"],
   pedal_y |-> direct_input_u8_axis(s.axes["lY"]),
   pedal_rz |-> direct_input_u8_axis(s.axes["lRz"]),
   throttle |-> direct_input_u8_axis(s.axes["slider0"]),
   hat |-> pov_to_hat(s.pov),
   pressed |-> {i \in 0 .. NumButtons - 1 : s.buttons[i]}]

(* A wheel that was lost in between gives no snapshot this time.           *)
GetDeviceState ==
  /\ call = "GetDeviceState"
  /\ \/ /\ holder = "server" /\ call' = "Poll" /\ UNCHANGED <<holder, cause>>
        /\ wheel' \in Placements(device.objects)
        /\ snapshot' = snapshot_from_dijoystate(DIJOYSTATE2(wheel'))
     \/ Lost("Poll") /\ UNCHANGED reading
  /\ UNCHANGED <<attached, opening, others>>

-----------------------------------------------------------------------------
(* The rest of the computer: a game may leave an effect playing when it    *)
(* ends.                                                                   *)
GameTakes ==
  /\ holder = None
  /\ holder' = "game" /\ motors' = "playing" /\ taken' = TRUE
  /\ UNCHANGED <<attached, call, cause, opening, interruptions, reading>>

GameLeaves ==
  /\ holder = "game" /\ holder' = None
  /\ motors' \in {"idle", "playing"}
  /\ UNCHANGED <<attached, call, cause, opening, taken, interruptions, reading>>

Interrupt ==
  /\ holder = "server" /\ interruptions < MaxInterruptions
  /\ holder' = None /\ interruptions' = interruptions + 1
  /\ UNCHANGED <<attached, call, cause, opening, motors, taken, reading>>

Init ==
  /\ attached \in Attached /\ call = "EnumDevices" /\ cause = None
  /\ device = None /\ selection = <<>> /\ format = <<>> /\ range = <<>>
  /\ ffb_axis = None /\ exclusive = FALSE
  /\ holder = None /\ motors \in {"idle", "playing"} /\ taken = FALSE /\ interruptions = 0
  /\ wheel = None /\ snapshot = None

Setup ==
  \/ EnumDevices \/ CreateDevice \/ EnumObjects \/ SetDataFormat \/ EnumActuators
  \/ \E refused \in SUBSET (Fields \X {"offset", "id"}) : SetRanges(refused)
  \/ SetCooperativeLevel \/ Acquire
  \/ \E c \in {"STOPALL", "RESET"} : SendForceFeedbackCommand(c)
  \/ Missing \/ Refused

Next == Setup \/ Poll \/ GetDeviceState \/ DriverFails \/ GameTakes \/ GameLeaves \/ Interrupt

(* The server makes its next call.                                         *)
Spec == Init /\ [][Next]_vars /\ WF_vars(Setup) /\ WF_vars(Poll) /\ WF_vars(GetDeviceState)

-----------------------------------------------------------------------------
(* The T150 of a list and the object that is its part, as a user sees it.  *)
T150 == attached[Min({i \in DOMAIN attached : is_t150(attached[i])})]
Part(guid) == T150.objects[Min({i \in DOMAIN T150.objects : T150.objects[i].guid = guid})].id

(* A pedal's position in the profile's range.  Below 256 of the 65535 that *)
(* a driver reports which has refused the range 0..255, the reading itself *)
(* is taken for the position.                                              *)
Reports(value, guid) ==
  LET position == wheel.axes[Part(guid)] IN
  \/ value = (position * 255) \div Full
  \/ range[Part(guid)] = DefaultRange /\ position < 256 /\ value = position

(* A snapshot shows the T150 as it stands: every control its own part, a   *)
(* pedal from 0 to 255 and the wheel to 65535 whichever ranges the driver  *)
(* refused, the first buttons in their order whatever else the device has. *)
(* (Without a POV the hat reads up: rgdwPOV stays 0.)                      *)
SnapshotIsTheWheel ==
  snapshot # None =>
    /\ snapshot.wheel = wheel.axes[Part("XAxis")]
    /\ Reports(snapshot.pedal_y, "YAxis") /\ Reports(snapshot.pedal_rz, "RzAxis")
    /\ Reports(snapshot.throttle, "Slider")
    /\ FirstId(T150.objects, "POV") # None => snapshot.hat = pov_to_hat(wheel.pov)
    /\ snapshot.pressed = {i \in 0 .. Min({NumButtons, ButtonCount(T150.objects)}) - 1 :
                              ButtonId(T150.objects, i + 1) \in wheel.pressed}

(* No call is refused for the order in which the server makes its calls:   *)
(* it ends for a wheel that is missing, taken or broken.                   *)
EndsForCause == cause # "order"

(* Once the wheel is open nothing plays that another program has left, up  *)
(* to and after an interruption, unless a game has had the wheel since.    *)
StartsQuiet == Open /\ ~ taken => motors = "idle"

(* A server that does not end reads the wheel again and again, also after  *)
(* Windows has taken it away at any point of a poll.                       *)
ReadsOn == <>[](call # "ended") => []<>(snapshot # None)
=============================================================================
