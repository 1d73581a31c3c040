------------------------------ MODULE WheelMath ------------------------------
(***************************************************************************)
(* The number conversions of the Windows backend: pedals and hat from      *)
(* DIJOYSTATE2, forces, gains and phases to DirectInput's units.           *)
(***************************************************************************)
EXTENDS Integers

DI_FFNOMINALMAX == 10000
I16_MAX == 32767
U16_MAX == 65535
U8_MAX == 255
I16 == - I16_MAX - 1 .. I16_MAX
U16 == 0 .. U16_MAX
NoDirection == -1   \* a centred POV, u32::MAX

ClampTo(v, lo, hi) == IF v < lo THEN lo ELSE IF v > hi THEN hi ELSE v

(* A slip: floored division.                                               *)
Quotient_Floored(a, b) == a \div b

(* Rust's integer division truncates.                                      *)
Quotient(a, b) == IF a < 0 THEN - ((- a) \div b) ELSE a \div b

(* A slip: the reading is cast to 16 bits.                                 *)
direct_input_u8_axis_Wrapped(v) ==
  IF v \in 0 .. U8_MAX THEN v ELSE ((v % (U16_MAX + 1)) * U8_MAX) \div U16_MAX

(* A pedal whose range could be set to 0..255, or the default 0..65535.    *)
direct_input_u8_axis(v) ==
  IF v \in 0 .. U8_MAX THEN v
  ELSE (ClampTo(v, 0, U16_MAX) * U8_MAX) \div U16_MAX

(* A slip: the sectors begin a degree late.                                *)
pov_to_hat_Shifted(v) ==
  LET degrees == v \div 100 IN
  CASE degrees \in 0 .. 22 \/ degrees \in 338 .. 359 -> <<0, -1>>
    [] degrees \in 24 .. 67 -> <<1, -1>>
    [] degrees \in 68 .. 112 -> <<1, 0>>
    [] degrees \in 113 .. 157 -> <<1, 1>>
    [] degrees \in 158 .. 202 -> <<0, 1>>
    [] degrees \in 203 .. 247 -> <<-1, 1>>
    [] degrees \in 248 .. 292 -> <<-1, 0>>
    [] degrees \in 293 .. 337 -> <<-1, -1>>
    [] OTHER -> <<0, 0>>

(* POV in hundredths of a degree to <<hat_x, hat_y>>.                      *)
pov_to_hat(v) ==
  LET degrees == v \div 100 IN
  CASE v = NoDirection -> <<0, 0>>
    [] degrees \in 0 .. 22 \/ degrees \in 338 .. 359 -> <<0, -1>>
    [] degrees \in 23 .. 67 -> <<1, -1>>
    [] degrees \in 68 .. 112 -> <<1, 0>>
    [] degrees \in 113 .. 157 -> <<1, 1>>
    [] degrees \in 158 .. 202 -> <<0, 1>>
    [] degrees \in 203 .. 247 -> <<-1, 1>>
    [] degrees \in 248 .. 292 -> <<-1, 0>>
    [] degrees \in 293 .. 337 -> <<-1, -1>>
    [] OTHER -> <<0, 0>>

scale_i16_to_di(v) ==
  ClampTo(Quotient(v * DI_FFNOMINALMAX, I16_MAX), - DI_FFNOMINALMAX, DI_FFNOMINALMAX)

scale_i16_magnitude_to_di(v) ==
  LET di == scale_i16_to_di(v) IN IF di < 0 THEN - di ELSE di

scale_u16_to_di(v) ==
  ClampTo((v * DI_FFNOMINALMAX) \div U16_MAX, 0, DI_FFNOMINALMAX)

(* v * 35999 \div 65535, split to stay within TLC's integers.              *)
phase_to_direct_input(v) == (v * 7199 + (v * 4) \div 5) \div 13107
=============================================================================
