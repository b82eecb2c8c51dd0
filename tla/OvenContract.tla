----------------------------- MODULE OvenContract -----------------------------
(***************************************************************************)
(* What the oven promises about its two relays, whatever it is running.    *)
(* The mains relay (EMR) is closed at most once in a run and opened for    *)
(* good; it never moves while the heater drive asks for heat; between runs *)
(* both relays are off.                                                    *)
(***************************************************************************)
EXTENDS HeaterDrive

VARIABLES
    mains,     \* TRUE when the EMR feeds the element
    phase      \* "idle", "waiting", "heating" or "cut off"

contractVars == <<duty, ssr, mains, phase>>

Cold == duty = 0 /\ ~ssr /\ ~mains

ContractInit == DriveInit /\ mains = FALSE /\ phase = "idle"

Begin ==
    /\ phase = "idle" /\ phase' = "waiting"
    /\ UNCHANGED <<duty, ssr, mains>>

(* Mains are switched on before any heat is asked for. *)
CloseMains ==
    /\ phase = "waiting" /\ phase' = "heating"
    /\ duty = 0 /\ mains' = TRUE
    /\ UNCHANGED <<duty, ssr>>

(* Once mains have been on the run may ask for any heat, in vain when they *)
(* have been cut off since.                                                *)
Regulate ==
    /\ phase \in {"heating", "cut off"}
    /\ \E ratio \in Ratios : DriveSet(ratio)
    /\ UNCHANGED <<mains, phase>>

Edge ==
    /\ phase \in {"heating", "cut off"}
    /\ DriveEdge
    /\ UNCHANGED <<mains, phase>>

CutOff ==
    /\ phase = "heating" /\ phase' = "cut off"
    /\ duty = 0 /\ mains' = FALSE
    /\ UNCHANGED <<duty, ssr>>

Finish ==
    /\ phase # "idle" /\ phase' = "idle"
    /\ duty = 0 /\ mains' = FALSE
    /\ UNCHANGED <<duty, ssr>>

(* A reset of the processor releases both relays at once. *)
Reset ==
    /\ duty' = 0 /\ ssr' = FALSE /\ mains' = FALSE
    /\ phase' = "idle"

ContractNext == Begin \/ CloseMains \/ Regulate \/ Edge \/ CutOff \/ Finish \/ Reset

ContractSpec == ContractInit /\ [][ContractNext]_contractVars
=============================================================================
