----------------------------- MODULE WheelSweep -----------------------------
(***************************************************************************)
(* The conversions of WheelMath from input to input: an input has any      *)
(* value and grows by one.                                                 *)
(***************************************************************************)
EXTENDS WheelMath

CONSTANTS First, Last   \* the inputs, from below i16::MIN to above u16::MAX

ASSUME SweepAssumption == First \in Int /\ Last \in Int /\ First <= Last

VARIABLE sample

SweepInit == sample \in First .. Last
SweepNext == sample < Last /\ sample' = sample + 1
Sweep == SweepInit /\ [][SweepNext]_sample

-----------------------------------------------------------------------------
(* From one signed force to the next: DirectInput's grows or stays, and a  *)
(* force and its opposite are equally strong, -32768 as strong as -32767.  *)
ForceStep ==
  sample \in I16 /\ sample' \in I16 =>
    /\ scale_i16_to_di(sample) \in - DI_FFNOMINALMAX .. scale_i16_to_di(sample')
    /\ scale_i16_to_di(sample') <= DI_FFNOMINALMAX
    /\ sample' = - I16_MAX => scale_i16_to_di(sample) = scale_i16_to_di(sample')
    /\ sample' # - I16_MAX - 1 =>
         /\ scale_i16_to_di(- sample') = - scale_i16_to_di(sample')
         /\ scale_i16_magnitude_to_di(- sample') = scale_i16_magnitude_to_di(sample')

(* From one gain or phase to the next.                                     *)
GainStep ==
  sample \in U16 /\ sample' \in U16 =>
    /\ scale_u16_to_di(sample) <= scale_u16_to_di(sample')
    /\ scale_u16_to_di(sample') <= DI_FFNOMINALMAX
    /\ phase_to_direct_input(sample) <= phase_to_direct_input(sample')
    /\ phase_to_direct_input(sample') <= 35999

(* A stronger request never gives a weaker force, a lower gain or an       *)
(* earlier phase, the wheel pulls to neither side more than to the other,  *)
(* and all that DirectInput is given is in its ranges.                     *)
ScalesAreMonotone == [][ForceStep /\ GainStep]_sample

(* The hat's sectors are those of a compass: the opposite direction of the *)
(* POV is the opposite of the hat.                                         *)
HatOpposes ==
  0 <= sample /\ sample < 36000 =>
    LET hat == pov_to_hat(sample)
        opposite == pov_to_hat((sample + 18000) % 36000)
    IN hat # <<0, 0>> /\ opposite = <<- hat[1], - hat[2]>>

(* From one reading to the next, except from 255 to 256, where readings of *)
(* a driver that took the range 0..255 end and those of one that kept      *)
(* 0..65535 are told apart; all reports are in the profile's range 0..255. *)
PedalStep ==
  /\ sample # U8_MAX => direct_input_u8_axis(sample) <= direct_input_u8_axis(sample')
  /\ {direct_input_u8_axis(sample), direct_input_u8_axis(sample')} \subseteq 0 .. U8_MAX

(* A pedal that is pressed further is never reported as less pressed, from *)
(* below its range to above, but where the two ranges meet.                *)
PedalIsMonotone == [][PedalStep]_sample
=============================================================================
