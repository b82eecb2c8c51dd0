------------------------------ MODULE RunProfile ------------------------------
(***************************************************************************)
(* RunProfileHandler: the reflow run.  Preheat at full power up to the     *)
(* cutoff, soak along a ramp, reflow at full power up to the cutoff, dwell *)
(* at the peak, cool down.  One action per stage.                          *)
(***************************************************************************)
EXTENDS OvenState

CONSTANTS
    profile,         \* the profile selected, read from the EEPROM
    FinalTemps,      \* the temperature each multiple of 5 % settles at
    BeepTicks        \* 20: half seconds of beeping when the door may open

ASSUME ProfileAssumption ==
    profile \in [preheat_temp : 0..255, soak_temp : 0..255, soak_time : 1..255,
                 reflow_temp : 0..255, reflow_time : 0..255]
ASSUME FinalTempsAssumption == FinalTemps \in [1..20 -> Words]
ASSUME BeepTicksAssumption == BeepTicks \in Nat

(* The smallest ratio whose final temperature reaches temp, 0 if none does. *)
getDutyCycle(temp) ==
    LET enough == {i \in 1..20 : temp <= FinalTemps[i]}
    IN  IF enough = {} THEN 0
        ELSE 5 * (CHOOSE i \in enough : \A j \in enough : i <= j)

-----------------------------------------------------------------------------
Preheat == ovenStage = 2 /\ count' = 0 /\ SwitchMainsOn

(* After the delay of SwitchMainsOn. *)
PreheatPower ==
    /\ setDutyCycle(100)
    /\ NextStage
    /\ KeepCounters /\ KeepCal

PreheatCutoff ==
    /\ ovenStage = 3
    /\ IF ovenTemp >= Uint16(4 * profile.preheat_temp - ovenDelta4)
       THEN /\ setDutyCycle(Uint8(getDutyCycle(profile.preheat_temp) - 5))
            /\ NextStage
            /\ KeepCounters /\ KeepCal
            /\ UNCHANGED emr
            /\ Return
       ELSE Wait

AwaitPreheat ==
    /\ ovenStage = 4
    /\ IF Degrees(ovenTemp) >= profile.preheat_temp
       THEN /\ ovenCounter' = 0
            /\ NextStage
            /\ KeepHeater /\ KeepCal
            /\ UNCHANGED <<emr, count>>
            /\ Return
       ELSE Wait

-----------------------------------------------------------------------------
(* The soak ramp rises from preheat_temp to soak_temp in soak_time         *)
(* seconds; position counts its half seconds.                              *)
SoakErrors(position) ==
    LET steps == 2 * profile.soak_time
        rise  == Uint16(4 * (profile.soak_temp - profile.preheat_temp))
    IN  FloatToInt16(steps * (ovenTemp - 4 * profile.preheat_temp) - rise * position,
                     steps)

(* A quarter more than the error, in the 16 bit arithmetic of the code. *)
Boost(error) == Quotient(Int16(5 * AbsOf(error)), 4)

SoakRatio(error) ==
    LET base == getDutyCycle(profile.soak_temp)
    IN  IF error > 8 THEN base ELSE Uint8(base + Boost(Int16(error - 12)))

Soak ==
    /\ ovenStage = 5
    /\ \/ ~tick /\ Wait
       \/ /\ tick
          /\ LET position == (ovenCounter + 1) % CountMod
             IN  IF Degrees(ovenTemp) >= profile.soak_temp
                 THEN /\ setDutyCycle(100)
                      /\ ovenCounter' = count
                      /\ NextStage
                 ELSE /\ \E error \in SoakErrors(position) :
                            setDutyCycle(SoakRatio(error))
                      /\ ovenCounter' = position
                      /\ KeepRun
          /\ KeepCal
          /\ UNCHANGED <<emr, count>>
          /\ Return

-----------------------------------------------------------------------------
ReflowCutoff ==
    /\ ovenStage = 6
    /\ \E lead \in FloatToUint16(4 * ovenDelta4, 5) :
          IF ovenTemp >= Uint16(4 * profile.reflow_temp - lead)
          THEN /\ setDutyCycle(0)
               /\ NextStage
               /\ KeepCounters /\ KeepCal
               /\ UNCHANGED emr
               /\ Return
          ELSE Wait

AwaitPeak ==
    /\ ovenStage = 7
    /\ IF ovenDelta4 <= 32
       THEN /\ NextStage
            /\ KeepHeater /\ KeepCounters /\ KeepCal
            /\ UNCHANGED emr
            /\ Return
       ELSE Wait

DwellRatio ==
    LET error == Int16(ovenTemp - 4 * profile.reflow_temp)
    IN  IF ovenTemp >= 4 * profile.reflow_temp THEN 25
        ELSE Uint8(getDutyCycle(profile.reflow_temp) - 1 + Boost(error))

Dwell ==
    /\ ovenStage = 8
    /\ \/ ~tick /\ Wait
       \/ /\ tick
          /\ KeepCounters /\ KeepCal
          /\ IF (count - ovenCounter) % CountMod >= 2 * profile.reflow_time
             THEN HeatOffThen("dwell")
             ELSE /\ setDutyCycle(DwellRatio)
                  /\ KeepRun
                  /\ UNCHANGED emr
                  /\ Return

(* Mutated form: the mains stay on while the oven cools. *)
OpenDoorLive ==
    /\ NextStage
    /\ ovenCounter' = 0
    /\ KeepHeater /\ KeepCal
    /\ UNCHANGED <<emr, count>>

(* After the delay that ends the dwell: the door may be opened. *)
OpenDoor ==
    /\ EMR_OFF
    /\ NextStage
    /\ ovenCounter' = 0
    /\ KeepHeater /\ KeepCal
    /\ UNCHANGED count

Cooldown ==
    /\ ovenStage = 9
    /\ \/ ~tick /\ Wait
       \/ /\ tick
          /\ IF ovenCounter < BeepTicks
             THEN ovenCounter' = (ovenCounter + 1) % CountMod /\ KeepRun
             ELSE /\ UNCHANGED ovenCounter
                  /\ IF Degrees(ovenTemp) < 100 THEN EndRun ELSE KeepRun
          /\ KeepHeater /\ KeepCal
          /\ UNCHANGED <<emr, count>>
          /\ Return

RunProfileHandler ==
    \/ CloseDoor
    \/ AwaitEnter
    \/ Preheat
    \/ PreheatCutoff
    \/ AwaitPreheat
    \/ Soak
    \/ ReflowCutoff
    \/ AwaitPeak
    \/ Dwell
    \/ Cooldown
=============================================================================
