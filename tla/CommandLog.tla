----------------------------- MODULE CommandLog -----------------------------
(***************************************************************************)
(* What the force-feedback half of the bridge promises: the wheel executes *)
(* the games' requests in the order they were made, each at most once, and *)
(* skips no more of them than were lost, on the network or with a process. *)
(* A network that duplicates or overtakes ends the promise of the order.   *)
(***************************************************************************)
EXTENDS PhysicalBackend, Sequences

VARIABLES issued,    \* the games' requests, in order
          applied,   \* index of the last request executed
          device,    \* the wheel
          lost,      \* requests lost on their way
          orderly    \* the network has not duplicated or overtaken

vars == <<issued, applied, device, lost, orderly>>

Init == issued = <<>> /\ applied = 0 /\ device = OpenedDevice /\ lost = 0 /\ orderly = TRUE

Issue(c) ==
  /\ issued' = Append(issued, c)
  /\ UNCHANGED <<applied, device, lost, orderly>>

Lose(n) ==
  /\ lost' = lost + n
  /\ UNCHANGED <<issued, applied, device, orderly>>

Execute(k, outcome) ==
  /\ orderly' => k > applied /\ k <= applied + 1 + lost
  /\ orderly' => orderly
  /\ applied' = k
  /\ device' = Applied(device, issued[k], outcome)
  /\ UNCHANGED <<issued, lost>>

Reopen(n) ==
  /\ lost' = lost + n
  /\ device' = OpenedDevice
  /\ UNCHANGED <<issued, applied, orderly>>

Next == \/ \E c \in Kinds : Issue(c)
        \/ \E n \in 0 .. Len(issued) : Lose(n) \/ Reopen(n)
        \/ \E k \in DOMAIN issued, outcome \in Outcomes : Execute(k, outcome)

Spec == Init /\ [][Next]_vars
=============================================================================
