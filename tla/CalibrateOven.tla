---------------------------- MODULE CalibrateOven ----------------------------
(***************************************************************************)
(* CalibrateOvenHandler: for each multiple of 5 % up to 50 % heat at full  *)
(* power until the temperature rises fast enough, then hold the ratio      *)
(* until the temperature has been flat for long enough.                    *)
(***************************************************************************)
EXTENDS OvenState

CONSTANTS
    OcalLimit,       \* 3600: half seconds after which a stage is given up
    OcalSettle,      \* 600: a flat temperature counts from here on
    OcalLate,        \* 1200: a stage found flat after this gets
    OcalExtra,       \* 600: this much more,
    OcalShort,       \* 1800: and otherwise it lasts until here
    OcalFlat,        \* 10: passes in a row that must find it flat
    DeltaMod         \* 256: deltaCount is a uint8_t

ASSUME OcalAssumption ==
    /\ {OcalLimit, OcalSettle, OcalLate, OcalExtra, OcalShort, OcalFlat} \subseteq Nat
    /\ DeltaMod \in Nat \ {0}
    /\ 0 < OcalSettle /\ OcalSettle <= OcalLate /\ OcalLate <= OcalShort
    /\ OcalShort <= OcalLate + OcalExtra /\ OcalShort <= OcalLimit
    /\ OcalLimit + OcalExtra < CountMod
    /\ 0 < OcalFlat /\ OcalFlat < DeltaMod

OcalStart == ovenStage = 2 /\ count' = 0 /\ SwitchMainsOn

(* Mutated form: the limit of an earlier run is not taken back. *)
OcalPowerKeepsLimit ==
    /\ setDutyCycle(100)
    /\ NextStage
    /\ KeepCounters /\ KeepCal

(* After the delay of SwitchMainsOn. *)
OcalPower ==
    /\ setDutyCycle(100)
    /\ endCount' = OcalLimit /\ endSet' = FALSE
    /\ NextStage
    /\ KeepCounters
    /\ UNCHANGED deltaCount

(* OCALStageDone: how long the temperature has been flat, and where the    *)
(* stage ends.                                                             *)
Flat == ovenDelta32 = 0 /\ count >= OcalSettle

NextDeltaCount == IF Flat THEN (deltaCount + 1) % DeltaMod ELSE 0

(* Mutated form: endSet does not keep the end from moving again. *)
FoundFlatAgain == Flat /\ NextDeltaCount = OcalFlat

FoundFlat == Flat /\ NextDeltaCount = OcalFlat /\ ~endSet

StageEnd ==
    IF ~FoundFlat THEN endCount
    ELSE IF count >= OcalLate THEN (count + OcalExtra) % CountMod
    ELSE OcalShort

StageDone == count = StageEnd

StageRatio == 5 * (ovenStage - 2)

HoldStage ==
    /\ ovenStage \in 3..12
    /\ ~StageDone
    /\ IF duty_cycle = 100 /\ ovenDelta4 >= 63
       THEN setDutyCycle(StageRatio)
       ELSE KeepHeater
    /\ endCount' = StageEnd
    /\ endSet' = (endSet \/ FoundFlat)
    /\ deltaCount' = NextDeltaCount
    /\ KeepRun /\ KeepCounters
    /\ UNCHANGED emr
    /\ Return

(* Mutated form: OCALIsDone leaves the stage as it is. *)
FinishStageSame ==
    /\ ovenStage \in 3..12
    /\ StageDone
    /\ IF ovenStage = 12 \/ ovenTemp > 1000
       THEN HeatOffThen("stop")
       ELSE setDutyCycle(100) /\ KeepRun /\ UNCHANGED emr /\ Return
    /\ count' = 0
    /\ endCount' = OcalLimit /\ endSet' = FALSE /\ deltaCount' = 0
    /\ UNCHANGED ovenCounter

(* The handler and OCALIsDone: on to the next ratio, or the end. *)
FinishStage ==
    /\ ovenStage \in 3..12
    /\ StageDone
    /\ IF ovenStage = 12 \/ ovenTemp > 1000
       THEN HeatOffThen("stop")
       ELSE /\ setDutyCycle(100)
            /\ NextStage
            /\ UNCHANGED emr
            /\ Return
    /\ count' = 0
    /\ endCount' = OcalLimit /\ endSet' = FALSE /\ deltaCount' = 0
    /\ UNCHANGED ovenCounter

CalibrateOvenHandler ==
    \/ StopOverTemp
    \/ /\ ~OverTemp
       /\ \/ CloseDoor
          \/ AwaitEnter
          \/ OcalStart
          \/ HoldStage
          \/ FinishStage
=============================================================================
