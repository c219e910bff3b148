---------------------------- MODULE MCInterface ----------------------------
(* Two fans, one of them without a range; presets of three points with the *)
(* shape of those of the code: they start in the zone of the system and    *)
(* end at full speed.                                                      *)
EXTENDS Interface

MCRange == <<1000, 3000>>
MCSensors == <<"Ta", "Tb">>
MCBalanced == [unit \in {"demand", "celsius"} |->
  IF unit = "demand" THEN << <<0, -20>>, <<40, 10>>, <<100, 100>> >>
  ELSE << <<35, -20>>, <<65, 20>>, <<115, 100>> >>]
MCKeys == {"demand", "Average CPU", "Tb"}

MCBiases == {-5, 0, 5}
MCSurfaces == {30, 35}
MCInputs == {50, 105}
MCSpeeds == {60}
MCHystereses == {4, Junk}

Fixed  == [Automatic EXCEPT !.mode = "fixed", !.rpm = 2000]
Basic  == [fans |-> [f \in {1, 2} |-> Automatic], bias |-> 0, target |-> "off", calibration |-> <<>>]
OnDisk == <<[sensor |-> "Tb", points |-> [i \in 1 .. 2 |-> [on |-> "Tb", surface |-> 30]],
             shown |-> <<30, 30>>]>>
MCSaved == [panel       |-> {[Basic EXCEPT !.fans = [f \in {1, 2} |-> Fixed]]},
            service     |-> {[Basic EXCEPT !.fans[1] = Fixed]},
            preference  |-> {[Basic EXCEPT !.bias = 5]},
            calibration |-> {[Basic EXCEPT !.calibration = OnDisk]},
            editor      |-> {Basic}]
MCMax == [panel |-> 3, service |-> 3, preference |-> 5, calibration |-> 4, editor |-> 4]
==========================================================================
