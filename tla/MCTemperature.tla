--------------------------- MODULE MCTemperature ----------------------------
(***************************************************************************)
(* Instances of TempSampling and TempHistory for TLC.  The first makes the *)
(* averages and the second uses them; they share nothing else, and for a   *)
(* history every order of averages counts, so that one run checks the two  *)
(* side by side: either part is at work.                                   *)
(***************************************************************************)
EXTENDS TempSampling, TempHistory

VARIABLE part

InitEither ==
    /\ part \in {"sampling", "history"}
    /\ Init /\ HistoryInit
    /\ part = "history" => subtickCounter = 0

NextEither ==
    /\ UNCHANGED part
    /\ \/ part = "sampling" /\ Next /\ UNCHANGED historyVars
       \/ part = "history" /\ HistoryNext /\ UNCHANGED vars

SpecEither == InitEither /\ [][NextEither]_<<part, vars, historyVars>>

Good(quarters) ==
    [quarters |-> quarters, open |-> FALSE, ground |-> FALSE, supply |-> FALSE]

(* A frozen and a hot oven, one just below zero, and a sensor that is      *)
(* broken in two ways at once.                                             *)
MCFrames ==
    {Good(0), Good(480), Good(-1),
     [quarters |-> 480, open |-> FALSE, ground |-> TRUE, supply |-> TRUE]}

HotFrames == {Good(480), Good(483)}

(* One good and one broken answer, and one just below zero. *)
MixedFrames == {Good(4), Good(-1),
                [quarters |-> 480, open |-> TRUE, ground |-> FALSE, supply |-> FALSE]}
=============================================================================
