---------------------------- MODULE MCWheelSetup ----------------------------
EXTENDS WheelSetup

Object(guid, id, actuator) == [guid |-> guid, id |-> id, actuator |-> actuator]
Buttons(from) == <<Object("Button", from, FALSE), Object("Button", from + 1, FALSE)>>

(* As the T150 lists its objects; with the slider first, a second slider,  *)
(* no POV and the actuator elsewhere; without a slider; without actuators. *)
MCUsual == <<Object("XAxis", 1, TRUE), Object("YAxis", 2, FALSE), Object("RzAxis", 3, FALSE),
             Object("Slider", 4, FALSE), Object("POV", 5, FALSE)>> \o Buttons(11)
MCOdd == Buttons(1) \o <<Object("Slider", 14, TRUE), Object("Slider", 15, TRUE),
             Object("RzAxis", 16, FALSE), Object("YAxis", 17, FALSE), Object("XAxis", 18, FALSE)>>
MCNoSlider == SubSeq(MCUsual, 1, 3)
MCNoActuator == SubSeq(MCOdd, 5, 7) \o <<Object("Slider", 4, FALSE)>>

MCDevice(ids, named, objects) == [ids |-> ids, named |-> named, objects |-> objects]
MCPad == MCDevice(FALSE, FALSE, MCUsual)
MCAttached ==
  {<<MCPad>>, <<MCPad, MCDevice(TRUE, TRUE, MCUsual)>>,
   <<MCDevice(FALSE, TRUE, MCOdd), MCDevice(TRUE, TRUE, MCUsual)>>,
   <<MCDevice(TRUE, FALSE, MCNoSlider)>>, <<MCDevice(TRUE, FALSE, MCNoActuator)>>}
MCPositions == {200, 40000, 65535}
MCDirections == {NoDirection, 9000}
=============================================================================
