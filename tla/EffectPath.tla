----------------------------- MODULE EffectPath -----------------------------
(***************************************************************************)
(* What becomes of an effect on its way from the game to the wheel: the    *)
(* kernel checks it against the bits the virtual wheel advertises, the     *)
(* client translates it (ffb_effect_from_sys), the server creates it in    *)
(* DirectInput.  `test virtual` sends its own effects the same way, after  *)
(* translating them for the kernel (ffb_effect_to_sys).  Order, loss and   *)
(* playing are the matter of FfbPath, units that of WheelMath; here every  *)
(* command arrives at once and a strength is a small integer.              *)
(***************************************************************************)
EXTENDS PhysicalBackend, Integers

CONSTANTS Strengths,   \* levels and magnitudes, negative ones too
          Lengths,     \* replay lengths, with 0
          None

ASSUME EffectAssumption ==
  /\ Effects \subseteq Nat /\ None \notin Effects
  /\ None \notin {"Err", "UnsupportedOperation"}
  /\ Strengths \subseteq Int /\ Lengths \subseteq Nat

VARIABLES
  slots,    \* the kernel's table: [Effects -> None or [owner, effect]]
  answer,   \* to the last upload: the kernel's result and the server's reply
  client,   \* running or ended
  tester,   \* the slot of the test's effect, or None
  backend,  \* the server's backend
  created   \* the DirectInput effects: [Effects -> None or [guid, ...]]

effectVars == <<slots, answer, client, tester, backend, created>>

-----------------------------------------------------------------------------
(* struct ff_effect and FfbEffect, and the way from one to the other.      *)
FF_Types == {"FF_CONSTANT", "FF_PERIODIC", "FF_RAMP", "FF_SPRING", "FF_DAMPER",
             "FF_FRICTION", "FF_INERTIA", "FF_RUMBLE", "FF_CUSTOM"}
FF_Waveforms == {"FF_SINE", "FF_SQUARE", "FF_TRIANGLE", "FF_SAW_UP", "FF_SAW_DOWN"}

Shape(types) == [type_ : types, waveform : {None}, strength : Strengths, length : Lengths]
SysEffects == Shape(FF_Types \ {"FF_PERIODIC"}) \cup
  [type_ : {"FF_PERIODIC"}, waveform : FF_Waveforms, strength : Strengths, length : Lengths]

(* What the kernel's table holds of an effect, and DirectInput.            *)
KernelEffects == [owner : {"game", "test"}, effect : SysEffects]
Guids == {"GUID_ConstantForce", "GUID_RampForce", "GUID_Sine", "GUID_Square", "GUID_Triangle",
          "GUID_SawtoothUp", "GUID_SawtoothDown", "GUID_Spring", "GUID_Damper", "GUID_Friction",
          "GUID_Inertia"}
DirectInputEffects ==
  [guid : Guids, strength : Int, duration : {"INFINITE", "finite"}, gain : Levels]

ASSUME NoneAssumption == None \notin KernelEffects /\ None \notin DirectInputEffects

waveform_from_sys(w) ==
  CASE w = "FF_SINE" -> "Sine" [] w = "FF_SQUARE" -> "Square" [] w = "FF_TRIANGLE" -> "Triangle"
    [] w = "FF_SAW_UP" -> "SawUp" [] w = "FF_SAW_DOWN" -> "SawDown" [] OTHER -> "Err"

waveform_to_sys(w) ==
  CASE w = "Sine" -> "FF_SINE" [] w = "Square" -> "FF_SQUARE" [] w = "Triangle" -> "FF_TRIANGLE"
    [] w = "SawUp" -> "FF_SAW_UP" [] w = "SawDown" -> "FF_SAW_DOWN"

condition_kind_from_sys(t) ==
  CASE t = "FF_SPRING" -> "Spring" [] t = "FF_DAMPER" -> "Damper"
    [] t = "FF_FRICTION" -> "Friction" [] t = "FF_INERTIA" -> "Inertia" [] OTHER -> "Err"

condition_kind_to_sys(k) ==
  CASE k = "Spring" -> "FF_SPRING" [] k = "Damper" -> "FF_DAMPER"
    [] k = "Friction" -> "FF_FRICTION" [] k = "Inertia" -> "FF_INERTIA"

(* An FfbEffect's form is its waveform or condition; the samples of a      *)
(* custom effect are dropped.                                              *)
FfbEffect(kind, form, e) ==
  [kind |-> kind, form |-> form, strength |-> e.strength, length |-> e.length]

(* A slip: dampers are forgotten.                                          *)
ffb_effect_from_sys_NoDamper(e) ==
  IF e.type_ = "FF_DAMPER" THEN FfbEffect("Condition", "Err", e)
  ELSE IF e.type_ = "FF_PERIODIC" THEN FfbEffect("Periodic", waveform_from_sys(e.waveform), e)
  ELSE FfbEffect("Constant", None, e)

ffb_effect_from_sys(e) ==
  CASE e.type_ = "FF_CONSTANT" -> FfbEffect("Constant", None, e)
    [] e.type_ = "FF_PERIODIC" -> FfbEffect("Periodic", waveform_from_sys(e.waveform), e)
    [] e.type_ = "FF_RAMP" -> FfbEffect("Ramp", None, e)
    [] e.type_ = "FF_RUMBLE" -> FfbEffect("Rumble", None, e)
    [] e.type_ = "FF_CUSTOM" -> FfbEffect("Custom", None, e)
    [] e.type_ \in {"FF_SPRING", "FF_DAMPER", "FF_FRICTION", "FF_INERTIA"} ->
         FfbEffect("Condition", condition_kind_from_sys(e.type_), e)

(* Of the kinds test_force_steps uses.                                     *)
ffb_effect_to_sys(c) ==
  [type_ |-> CASE c.kind = "Constant" -> "FF_CONSTANT" [] c.kind = "Periodic" -> "FF_PERIODIC"
               [] c.kind = "Condition" -> condition_kind_to_sys(c.form),
   waveform |-> IF c.kind = "Periodic" THEN waveform_to_sys(c.form) ELSE None,
   strength |-> c.strength, length |-> c.length]

(* The kinds of effects in test_force_steps; a condition's coefficients    *)
(* and a step's length are positive.                                       *)
TestSteps ==
  {[kind |-> k[1], form |-> k[2], strength |-> s, length |-> l] :
     k \in {<<"Constant", None>>, <<"Periodic", "Sine">>, <<"Periodic", "SawUp">>,
            <<"Periodic", "SawDown">>, <<"Condition", "Spring">>, <<"Condition", "Damper">>},
     s \in {n \in Strengths : n > 0}, l \in Lengths \ {0}}

-----------------------------------------------------------------------------
(* The server: the guid DirectInput creates, or Err.                       *)
Guid(c) ==
  CASE c.kind = "Constant" -> "GUID_ConstantForce"
    [] c.kind = "Ramp" -> "GUID_RampForce"
    [] c.kind = "Periodic" ->
         (CASE c.form = "Sine" -> "GUID_Sine" [] c.form = "Square" -> "GUID_Square"
            [] c.form = "Triangle" -> "GUID_Triangle" [] c.form = "SawUp" -> "GUID_SawtoothUp"
            [] c.form = "SawDown" -> "GUID_SawtoothDown")
    [] c.kind = "Condition" ->
         (CASE c.form = "Spring" -> "GUID_Spring" [] c.form = "Damper" -> "GUID_Damper"
            [] c.form = "Friction" -> "GUID_Friction" [] c.form = "Inertia" -> "GUID_Inertia")
    [] c.kind \in {"Rumble", "Custom"} -> "Err"

Absolute(n) == IF n < 0 THEN - n ELSE n

(* A periodic magnitude loses its sign; a length of 0 is for ever; the     *)
(* gain of the moment is the effect's.                                     *)
create_direct_input_effect(c, master_gain) ==
  [guid |-> Guid(c),
   strength |-> IF c.kind = "Periodic" THEN Absolute(c.strength) ELSE c.strength,
   duration |-> IF c.length = 0 THEN "INFINITE" ELSE "finite",
   gain |-> master_gain]

(* A slip: a failed creation leaves the old effect.                        *)
Upload_Kept(e, c, outcome) ==
  LET done == IF Guid(c) = "Err" THEN "error" ELSE outcome IN
  /\ backend' = upload_effect(backend, e, done)
  /\ created' = IF done = "ok"
                  THEN [created EXCEPT ![e] = create_direct_input_effect(c, backend.master_gain)]
                  ELSE created

Upload(e, c, outcome) ==
  LET done == IF Guid(c) = "Err" THEN "error" ELSE outcome IN
  /\ backend' = upload_effect(backend, e, done)
  /\ created' = [created EXCEPT ![e] =
       IF done = "ok" THEN create_direct_input_effect(c, backend.master_gain) ELSE None]

Erase(e) ==
  /\ backend' = erase_effect(backend, e)
  /\ created' = [created EXCEPT ![e] = None]

-----------------------------------------------------------------------------
(* The bits of effects and waveforms; FF_GAIN and FF_AUTOCENTER besides.   *)
t150_ff_kinds == {"FF_PERIODIC", "FF_CONSTANT", "FF_SPRING", "FF_DAMPER", "FF_SINE"}

(* The kernel: a device of periodic effects takes rumble as a sine.        *)
Emulated(e) ==
  IF e.type_ = "FF_RUMBLE" /\ "FF_RUMBLE" \notin t150_ff_kinds
    THEN [e EXCEPT !.type_ = "FF_PERIODIC", !.waveform = "FF_SINE"] ELSE e

(* An effect may be replaced by its owner, by one of the same type and     *)
(* waveform; other replacements the kernel refuses.                        *)
Compatible(owner, id, e) ==
  slots[id] # None =>
    /\ slots[id].owner = owner
    /\ slots[id].effect.type_ = e.type_ /\ slots[id].effect.waveform = e.waveform

Supported(e) ==
  /\ e.type_ \in t150_ff_kinds
  /\ e.type_ = "FF_PERIODIC" => e.waveform \in t150_ff_kinds

Reply(c, outcome) ==
  IF Guid(c) = "Err" THEN "UnsupportedOperation" ELSE IF outcome = "ok" THEN "Ack" ELSE "Rejected"

Answered(e, result, reply) ==
  answer' = [type_ |-> e.type_, waveform |-> e.waveform, result |-> result, reply |-> reply]

(* An upload by the ioctl, through the kernel and poll_ffb to the server;  *)
(* an effect poll_ffb cannot translate ends the client.                    *)
SysUpload(owner, id, e, outcome) ==
  LET c == ffb_effect_from_sys(Emulated(e)) IN
  /\ client = "running" /\ Compatible(owner, id, Emulated(e))
  /\ IF ~ Supported(Emulated(e))
       THEN Answered(e, "EINVAL", None) /\ UNCHANGED <<slots, client, backend, created>>
     ELSE IF c.form = "Err"
       THEN Answered(e, "failed", None) /\ client' = "ended" /\ UNCHANGED <<slots, backend, created>>
     ELSE /\ Answered(e, "ok", Reply(c, outcome))
          /\ slots' = [slots EXCEPT ![id] = [owner |-> owner, effect |-> Emulated(e)]]
          /\ Upload(id, c, outcome) /\ UNCHANGED client

EffectInit ==
  /\ slots = [id \in Effects |-> None] /\ answer = None
  /\ client = "running" /\ tester = None
  /\ backend = OpenedDevice /\ created = [id \in Effects |-> None]

GameUpload(id, e, outcome) == SysUpload("game", id, e, outcome) /\ UNCHANGED tester

GameErase(id) ==
  /\ client = "running" /\ slots[id] # None /\ slots[id].owner = "game"
  /\ slots' = [slots EXCEPT ![id] = None] /\ Erase(id)
  /\ UNCHANGED <<answer, client, tester>>

GameGain(gain, outcome) ==
  /\ client = "running" /\ backend' = set_gain(backend, gain, outcome)
  /\ UNCHANGED <<slots, answer, client, tester, created>>

(* play_ffb_test_effect: an upload into a free slot, then, its play, sleep *)
(* and stop left out, the erasure.                                         *)
TestUpload(id, c, outcome) ==
  /\ tester = None /\ slots[id] = None
  /\ SysUpload("test", id, ffb_effect_to_sys(c), outcome)
  /\ tester' = IF answer'.result = "ok" THEN id ELSE None

TestErase ==
  /\ client = "running" /\ tester # None
  /\ slots' = [slots EXCEPT ![tester] = None] /\ Erase(tester)
  /\ tester' = None /\ UNCHANGED <<answer, client>>

EffectNext ==
  \/ \E id \in Effects, o \in Outcomes :
       \/ \E e \in SysEffects : GameUpload(id, e, o)
       \/ \E c \in TestSteps : TestUpload(id, c, o)
  \/ \E id \in Effects : GameErase(id)
  \/ \E gain \in Levels, o \in Outcomes : GameGain(gain, o)
  \/ TestErase

EffectSpec == EffectInit /\ [][EffectNext]_effectVars

-----------------------------------------------------------------------------
(* An effect's way to the wheel, written from what DirectInput and the     *)
(* kernel mean by their names.                                             *)
Meaning(e) ==
  LET name == IF e.type_ = "FF_PERIODIC" THEN e.waveform ELSE e.type_ IN
  [FF_CONSTANT |-> "GUID_ConstantForce", FF_RAMP |-> "GUID_RampForce",
   FF_SINE |-> "GUID_Sine", FF_SQUARE |-> "GUID_Square", FF_TRIANGLE |-> "GUID_Triangle",
   FF_SAW_UP |-> "GUID_SawtoothUp", FF_SAW_DOWN |-> "GUID_SawtoothDown",
   FF_SPRING |-> "GUID_Spring", FF_DAMPER |-> "GUID_Damper",
   FF_FRICTION |-> "GUID_Friction", FF_INERTIA |-> "GUID_Inertia"][name]

(* Whatever the wheel has in a slot is what the game or the test has there *)
(* now: never an effect that was replaced, refused, erased or mistaken for *)
(* another, and it lasts for ever exactly when it was meant to; the        *)
(* server's table has it exactly when DirectInput does.                    *)
NeverStale ==
  \A id \in Effects :
    /\ (created[id] = None) = (backend.effects[id] = "absent")
    /\ created[id] # None =>
         /\ slots[id] # None
         /\ created[id].guid = Meaning(slots[id].effect)
         /\ Absolute(created[id].strength) = Absolute(slots[id].effect.strength)
         /\ (created[id].duration = "INFINITE") = (slots[id].effect.length = 0)

(* What the kernel accepts the client can translate and the server can     *)
(* create: it does not end the client, and no game is told of a successful *)
(* upload whose kind of effect the wheel then refuses.                     *)
AcceptedArrives ==
  /\ client = "running"
  /\ answer # None => answer.reply # "UnsupportedOperation"

(* Every effect of the README's table is accepted.                         *)
ProfileOffered ==
  answer # None /\ answer.result = "EINVAL" =>
    answer.type_ # "FF_PERIODIC" \/ answer.waveform \notin {"FF_SINE", "FF_SAW_UP", "FF_SAW_DOWN"}
=============================================================================
