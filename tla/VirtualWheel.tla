---------------------------- MODULE VirtualWheel ----------------------------
(***************************************************************************)
(* What the input half of the bridge promises to a game: the virtual wheel *)
(* shows whole frames of the physical wheel, in the order in which they    *)
(* were read.  Frames may be skipped; a frame is never mixed with another  *)
(* and the virtual wheel never returns to an older one, not even when the  *)
(* client process, and with it the virtual device, is created anew.  The   *)
(* order is lost when the server is started again, the whole frames not.   *)
(***************************************************************************)
EXTENDS Naturals, Sequences

CONSTANTS Frames,        \* what a wheel can read
          Shown(_),      \* the frame a game sees for a frame read from the wheel
          NewDevice      \* what a virtual device shows before its first frame

VARIABLES readings,      \* every frame read from the wheel, in order
          shown,         \* index of the latest frame put on the virtual device
          device,        \* what the game sees
  orderly        \* the server that reads the wheel is the first one

vars == <<readings, shown, device, orderly>>

Init == readings = <<>> /\ shown = 0 /\ device = NewDevice /\ orderly = TRUE

Read(f) == readings' = Append(readings, f) /\ UNCHANGED <<shown, device, orderly>>

Show(k) ==
  /\ orderly => k > shown
  /\ shown' = k
  /\ device' = Shown(readings[k])
  /\ UNCHANGED <<readings, orderly>>

Recreate == device' = NewDevice /\ UNCHANGED <<readings, shown, orderly>>

StartServerAgain == orderly' = FALSE /\ UNCHANGED <<readings, shown, device>>

Next == \/ \E f \in Frames : Read(f)
        \/ \E k \in DOMAIN readings : Show(k)
        \/ Recreate
        \/ StartServerAgain

Spec == Init /\ [][Next]_vars
=============================================================================
