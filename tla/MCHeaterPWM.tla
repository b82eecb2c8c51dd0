----------------------------- MODULE MCHeaterPWM -----------------------------
(***************************************************************************)
(* Instances of HeaterPWM for TLC.                                        *)
(***************************************************************************)
EXTENDS HeaterPWM

(* The two ends, the smallest and the largest modulated ratio, one in the  *)
(* middle, and one above 100 such as the soak stage can compute.           *)
MCRatios == {0, 1, 5, 9, 10, 12}
=============================================================================
