----------------------------- MODULE HeaterDrive -----------------------------
(***************************************************************************)
(* What the rest of the firmware may rely on when it calls setDutyCycle:   *)
(* the solid state relay (SSR) of the heating element follows the duty     *)
(* cycle that was asked for.  Asking for 0 turns it off at once and it     *)
(* stays off; asking for Full (100 %) turns it on and it stays on; any     *)
(* ratio in between lets the timer interrupt switch it at moments the      *)
(* caller does not control; a ratio above Full leaves it as it was.        *)
(***************************************************************************)
EXTENDS Naturals

CONSTANTS Full,     \* 100: the ratio that means "always on"
          Ratios    \* the ratios setDutyCycle is called with (a uint8_t)

VARIABLES duty,     \* the ratio in force
          ssr       \* TRUE when the SSR conducts

driveVars == <<duty, ssr>>

(* The state of the SSR once setDutyCycle(ratio) has returned. *)
SsrAfter(ratio, before) ==
    IF ratio = 0 THEN FALSE
    ELSE IF ratio = Full THEN TRUE
    ELSE before

Modulated(ratio) == 0 < ratio /\ ratio < Full

DriveInit == duty = 0 /\ ssr = FALSE

DriveSet(ratio) ==
    /\ duty' = ratio
    /\ ssr' = SsrAfter(ratio, ssr)

DriveEdge ==
    /\ Modulated(duty)
    /\ ssr' \in BOOLEAN
    /\ UNCHANGED duty

DriveNext == DriveEdge \/ \E ratio \in Ratios : DriveSet(ratio)

DriveSpec == DriveInit /\ [][DriveNext]_driveVars
=============================================================================
