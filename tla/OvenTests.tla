------------------------------ MODULE OvenTests ------------------------------
(***************************************************************************)
(* The three shorter runs of the Settings menu: the PID test and the       *)
(* measurements of the heating rate to 60 and to 120 degrees.              *)
(***************************************************************************)
EXTENDS OvenState

(* PIDController_Update with the gains of PIDTestCommand: Kp 2, no integral *)
(* and no derivative part, set point 60 degrees, output limited to 0..10.   *)
PidOut ==
    LET proportional == 2 * (240 - ovenTemp)
    IN  IF proportional > 10 THEN 10
        ELSE IF proportional < 0 THEN 0
        ELSE proportional

PidStart == ovenStage = 0 /\ SwitchMainsOn /\ UNCHANGED count

(* After the delay of SwitchMainsOn: no heat is asked for yet. *)
PidPower ==
    /\ ovenStage' = 3
    /\ UNCHANGED isRunning
    /\ KeepHeater /\ KeepCounters /\ KeepCal

PidRegulate ==
    /\ ovenStage = 3
    /\ \/ ~tick /\ Wait
       \/ /\ tick
          /\ setDutyCycle(PidOut)
          /\ KeepRun /\ KeepCounters /\ KeepCal
          /\ UNCHANGED emr
          /\ Return

PIDTestHandler ==
    \/ StopOverTemp
    \/ ~OverTemp /\ (PidStart \/ PidRegulate)

-----------------------------------------------------------------------------
RiseStart == ovenStage = 2 /\ count' = 0 /\ SwitchMainsOn

(* After the delay of SwitchMainsOn. *)
RisePower ==
    /\ setDutyCycle(20)
    /\ NextStage
    /\ KeepCounters /\ KeepCal

(* The first mark: note the time, and for 60 degrees reduce the heat. *)
RiseFirstMark(mark, to60) ==
    /\ ovenStage = 3
    /\ IF ovenTemp >= mark
       THEN /\ IF to60 THEN setDutyCycle(5) ELSE KeepHeater
            /\ endCount' = count
            /\ NextStage
            /\ KeepCounters
            /\ UNCHANGED <<emr, endSet, deltaCount>>
            /\ Return
       ELSE Wait

(* The second mark: heat off, and the time it took. *)
RiseCutoff(mark) ==
    /\ ovenStage = 4
    /\ IF ovenTemp >= mark
       THEN /\ setDutyCycle(0)
            /\ endCount' = (count - endCount) % CountMod
            /\ NextStage
            /\ KeepCounters
            /\ UNCHANGED <<emr, endSet, deltaCount>>
            /\ Return
       ELSE Wait

(* The run ends when the temperature stops rising; the heat is off. *)
RisePeak ==
    /\ ovenStage = 5
    /\ IF ovenDelta4 <= 0
       THEN /\ EMR_OFF
            /\ EndRun
            /\ KeepHeater /\ KeepCounters /\ KeepCal
            /\ Return
       ELSE Wait

RiseHandler(first, second, to60) ==
    \/ StopOverTemp
    \/ /\ ~OverTemp
       /\ \/ CloseDoor
          \/ AwaitEnter
          \/ RiseStart
          \/ RiseFirstMark(first, to60)
          \/ RiseCutoff(second)
          \/ RisePeak

Calibrate60cHandler  == RiseHandler(200, 240, TRUE)
Calibrate120cHandler == RiseHandler(400, 480, FALSE)
=============================================================================
