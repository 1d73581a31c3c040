--------------------------- MODULE PhysicalBackend ---------------------------
(***************************************************************************)
(* The force-feedback half of WindowsPhysicalBackend: its table of         *)
(* DirectInput effects and what each FfbCommand makes of it.  A device is  *)
(* [effects, master_gain, device_gain, autocenter]; an effect is absent    *)
(* from the table, stopped or playing.  Every DirectInput call may fail,   *)
(* the first of a command or a later one; SetProperty may answer           *)
(* E_NOTIMPL.  Effects play until they are stopped (replay length 0, the   *)
(* springs, dampers and constant forces of games).                         *)
(***************************************************************************)
EXTENDS Naturals

CONSTANTS Effects,   \* effect ids
          Levels,    \* gains and autocenter magnitudes, with 0 and FullGain
          FullGain,  \* u16::MAX
          Outcomes   \* of a command's DirectInput calls: ok, notimpl, error; late_error
                     \* when the first succeeds and a later one fails

ASSUME BackendAssumption ==
  /\ {0, FullGain} \subseteq Levels /\ Levels \subseteq Nat
  /\ Outcomes \subseteq {"ok", "notimpl", "error", "late_error"} /\ "ok" \in Outcomes

Kinds == [kind : {"Upload", "Erase", "Play", "Stop"}, effect_id : Effects] \cup
         [kind : {"SetGain", "SetAutocenter"}, level : Levels] \cup
         [kind : {"ResetState"}]

Devices == [effects : [Effects -> {"absent", "stopped", "playing"}],
            master_gain : Levels, device_gain : Levels, autocenter : BOOLEAN]

(* open_t150 and configure_device, whose settings the driver takes.        *)
OpenedDevice ==
  [effects |-> [e \in Effects |-> "absent"],
   master_gain |-> FullGain, device_gain |-> FullGain, autocenter |-> FALSE]

Put(d, e, state) == [d EXCEPT !.effects[e] = state]

(* The old effect is removed before the new one is created: it is stopped, *)
(* and lost when the creation fails.                                       *)
upload_effect(d, e, outcome) == Put(d, e, IF outcome = "ok" THEN "stopped" ELSE "absent")

(* Slips: erase and stop answer without touching the effect.               *)
erase_effect_Kept(d, e) == d
stop_effect_Ignored(d, e, outcome) == d

erase_effect(d, e) == Put(d, e, "absent")

play_effect(d, e, outcome) ==
  IF d.effects[e] # "absent" /\ outcome = "ok" THEN Put(d, e, "playing") ELSE d

stop_effect(d, e, outcome) ==
  IF d.effects[e] # "absent" /\ outcome = "ok" THEN Put(d, e, "stopped") ELSE d

(* master_gain is set even when the device refuses the property.           *)
set_gain(d, gain, outcome) ==
  [d EXCEPT !.master_gain = gain, !.device_gain = IF outcome = "ok" THEN gain ELSE @]

set_autocenter(d, magnitude, outcome) ==
  IF outcome = "ok" THEN [d EXCEPT !.autocenter = magnitude > 0] ELSE d

(* STOPALL, which stops the effects, then RESET; the table is kept.        *)
reset_ffb(d, outcome) ==
  IF outcome \in {"ok", "late_error"}
    THEN [d EXCEPT !.effects = [e \in Effects |->
            IF @[e] = "playing" THEN "stopped" ELSE @[e]]]
    ELSE d

(* apply_ffb: the device after a command, and the reply's kind.            *)
Applied(d, c, outcome) ==
  CASE c.kind = "Upload" -> upload_effect(d, c.effect_id, outcome)
    [] c.kind = "Erase" -> erase_effect(d, c.effect_id)
    [] c.kind = "Play" -> play_effect(d, c.effect_id, outcome)
    [] c.kind = "Stop" -> stop_effect(d, c.effect_id, outcome)
    [] c.kind = "SetGain" -> set_gain(d, c.level, outcome)
    [] c.kind = "SetAutocenter" -> set_autocenter(d, c.level, outcome)
    [] c.kind = "ResetState" -> reset_ffb(d, outcome)

Rejects(d, c, outcome) ==
  CASE c.kind = "Erase" -> FALSE
    [] c.kind = "Play" -> d.effects[c.effect_id] = "absent" \/ outcome # "ok"
    [] c.kind = "Stop" -> d.effects[c.effect_id] # "absent" /\ outcome # "ok"
    [] c.kind = "SetGain" -> outcome \notin {"ok", "notimpl"}
    [] OTHER -> outcome # "ok"
=============================================================================
