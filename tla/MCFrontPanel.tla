---------------------------- MODULE MCFrontPanel ----------------------------
(***************************************************************************)
(* Instances of Startup, with the display, and of Menu for TLC.  The menus *)
(* begin where the start-up ends and share with it the display, whose      *)
(* answers change nothing in them, so that one run checks the two side by  *)
(* side: either part is at work.                                           *)
(*                                                                         *)
(* The high nibble of a text is what a reset may leave in the display,     *)
(* where the first pulse of lcd_init completes it to an instruction; all   *)
(* sixteen are there.                                                      *)
(***************************************************************************)
EXTENDS Menu, Startup

MCInstructions == {<<0, 1>>, <<0, 2>>, <<8, 0>>, <<12, 0>>}

MCTexts == Nibble \X {1, 9}

VARIABLE part

everything == <<part, vars, startVars>>

InitEither ==
    /\ part \in {"startup", "menu"}
    /\ Init /\ StartInit
    /\ part = "menu" => fitted /\ calibrated

NextEither ==
    /\ UNCHANGED part
    /\ \/ part = "startup" /\ StartNext /\ UNCHANGED vars
       \/ part = "menu" /\ Next /\ UNCHANGED startVars

(* The fairness of FairStartSpec. *)
Works(Action) == part = "startup" /\ Action /\ UNCHANGED <<part, vars>>

FairSpecEither ==
    /\ InitEither /\ [][NextEither]_everything
    /\ WF_everything(Works(Program))
    /\ WF_everything(Works(Interrupt))
    /\ WF_everything(Works(DisplayReady))
=============================================================================
