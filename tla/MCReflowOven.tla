----------------------------- MODULE MCReflowOven -----------------------------
(***************************************************************************)
(* Values of the constants of ReflowOven for TLC.                          *)
(***************************************************************************)
EXTENDS ReflowOven

(* The temperatures of the default profile and the default table of final *)
(* temperatures, with a short soak and dwell.                              *)
MCProfile == [preheat_temp |-> 150, soak_temp |-> 180, soak_time |-> 1,
              reflow_temp |-> 215, reflow_time |-> 1]

(* A profile low enough for the measurements' temperatures to lie in each  *)
(* of its stages.                                                          *)
MCLowProfile == [preheat_temp |-> 60, soak_temp |-> 120, soak_time |-> 1,
                 reflow_temp |-> 200, reflow_time |-> 1]

(* The oven cools, holds its temperature, or heats up.                     *)
MCDeltas == {-8, 0, 40}
MCRisesAndFalls == {-8, 40}

MCFinalTemps == [i \in 1..20 |->
    IF i <= 7 THEN <<77, 117, 153, 185, 213, 237, 257>>[i] ELSE 0]
=============================================================================
