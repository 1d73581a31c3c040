----------------------------- MODULE MCInputPath -----------------------------
(* The wheel's rotation, a pedal and a button; ranges of 0..2.             *)
EXTENDS InputPath

MCAxes == {"Wheel", "PedalY"}
MCButtons == {"Button0"}
MCMinimum == [a \in MCAxes |-> 0]
MCMaximum == [a \in MCAxes |-> 2]

Frame(w, p, b) ==
  [c \in MCAxes \cup MCButtons |->
     CASE c = "Wheel" -> w [] c = "PedalY" -> p [] c = "Button0" -> b]

(* At rest; turned beyond the range with the button down; the same turn    *)
(* within the range and the pedal pressed.                                 *)
MCFrames == {Frame(1, 2, 0), Frame(3, 2, 1), Frame(2, 0, 1)}

=============================================================================
