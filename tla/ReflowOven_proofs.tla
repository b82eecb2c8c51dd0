-------------------------- MODULE ReflowOven_proofs --------------------------
(***************************************************************************)
(* Theorems about the control program for every profile, every table of    *)
(* final temperatures, every temperature the sensor can report and every   *)
(* set of commands: its types, and the interlock of the two relays.        *)
(***************************************************************************)
EXTENDS ReflowOven, WellFoundedInduction, TLAPS

-----------------------------------------------------------------------------
(* The interlock, as it is at every place of the main loop.  None of its   *)
(* parts is inductive alone: a run that ends relies on the heat having     *)
(* been taken off at the place before, and a run that begins relies on the *)
(* last one having ended cold.                                             *)

(* Asking for no heat leaves the SSR off: the interrupt does not bring it  *)
(* back.                                                                   *)
ZeroIsOff == duty_cycle = 0 => ~ssr

(* No heat is asked for while one of the 25 ms delays passes.              *)
DelaysAreCold == pc \in {"abort", "stop", "dwell", "power", "trip"} => duty_cycle = 0

(* The delays that belong to a run are passed in that run and its stage.   *)
DelaysOfRun ==
    /\ pc \in {"abort", "stop", "dwell", "power"} => isRunning
    /\ pc = "power" => emr /\ ovenStage = (IF ProcessHandler = "PIDTest" THEN 0 ELSE 2)
    /\ pc = "dwell" => ProcessHandler = "RunProfile" /\ ovenStage = 8

(* Before its third stage a run has asked for no heat and, but for the     *)
(* delay after EMR_ON, has no mains.                                       *)
EarlyStages ==
    isRunning /\ ovenStage <= 2 => duty_cycle = 0 /\ (emr => pc = "power")

(* The two handlers that end a run without a delay do so in a stage which  *)
(* is entered with the heat off and in which nothing asks for any; so is   *)
(* the stage in which a reflow run waits for the peak.                     *)
LastStages ==
    isRunning =>
      /\ ProcessHandler = "RunProfile" =>
            /\ ovenStage <= 9
            /\ ovenStage = 9 => duty_cycle = 0 /\ ~emr
            /\ ovenStage = 7 => duty_cycle = 0
      /\ ProcessHandler \in {"Calibrate60c", "Calibrate120c"} =>
            ovenStage <= 5 /\ (ovenStage = 5 => duty_cycle = 0)
      /\ ProcessHandler = "PIDTest" => ovenStage \in {0, 3}

Interlock ==
    /\ IdleIsCold
    /\ ZeroIsOff
    /\ DelaysAreCold
    /\ DelaysOfRun
    /\ EarlyStages
    /\ LastStages

Inv == TypeOK /\ Interlock

-----------------------------------------------------------------------------
(* The ratios the handlers compute fit the uint8_t they are passed in.     *)

(* A set of numbers that is not empty has a least element.                 *)
LEMMA LeastElement ==
    ASSUME NEW T, T \subseteq Nat, T # {}
    PROVE  \E x \in T : \A y \in T : x <= y
  <1>1. PICK x \in T : \A y \in T : ~ (<<y, x>> \in OpToRel(<, Nat))
    BY NatLessThanWellFounded, WFMin, Zenon
  <1>2. \A y \in T : ~ (y < x)
    BY <1>1, Zenon DEF OpToRel
  <1>3. QED
    BY <1>2

(* The table of final temperatures gives a ratio of at most 100. *)
LEMMA getDutyCycleRange ==
    ASSUME NEW temp PROVE getDutyCycle(temp) \in 0..100
  <1> DEFINE enough == {i \in 1..20 : temp <= FinalTemps[i]}
  <1>1. CASE enough = {}
    BY <1>1 DEF getDutyCycle
  <1>2. CASE enough # {}
    <2> DEFINE least == CHOOSE i \in enough : \A j \in enough : i <= j
    <2>1. enough \subseteq Nat
      OBVIOUS
    <2>2. getDutyCycle(temp) = 5 * least
      BY <1>2, Zenon DEF getDutyCycle
    <2>3. enough \subseteq 1..20
      OBVIOUS
    <2> HIDE DEF enough
    <2>4. \E i \in enough : \A j \in enough : i <= j
      BY <1>2, <2>1, LeastElement
    <2>5. least \in 1..20
      BY <2>3, <2>4, Zenon
    <2> HIDE DEF least
    <2>6. QED
      BY <2>2, <2>5
  <1>3. QED
    BY <1>1, <1>2

(* Every conversion to an AVR integer gives a value of its width.          *)
LEMMA WordsAreIntegers == Words \subseteq Int /\ SWords \subseteq Int /\ Half \in Nat
  <1>1. Word \in Nat /\ Half \in Nat
    BY SMT DEF Word, Half
  <1>2. QED
    BY <1>1 DEF Words, SWords

(* Uint8, Uint16 and Int16 give a value of their width. *)
LEMMA Conversions ==
    ASSUME NEW n \in Int
    PROVE  Uint8(n) \in 0..255 /\ Uint16(n) \in Words /\ Int16(n) \in SWords
  <1>1. Uint8(n) \in 0..255
    BY SMT DEF Uint8
  <1>2. Word \in Nat \ {0} /\ Half \in Nat /\ Word = 2 * Half
    BY SMT DEF Word, Half
  <1>3. Uint16(n) \in Words
    BY <1>2, SMT DEF Uint16, Words
  <1>4. Int16(n) \in SWords
    BY <1>2, SMT DEF Int16, SWords
  <1>5. QED
    BY <1>1, <1>3, <1>4

(* A truncating division gives an integer. *)
LEMMA QuotientRange ==
    ASSUME NEW a \in Int, NEW b \in Nat, b > 0 PROVE Quotient(a, b) \in Int
  BY SMT DEF Quotient

(* What is added to a ratio for an error is an integer. *)
LEMMA BoostRange ==
    ASSUME NEW error \in Int PROVE Boost(error) \in Int
  <1>1. 5 * AbsOf(error) \in Int
    BY DEF AbsOf
  <1>2. Int16(5 * AbsOf(error)) \in Int
    BY <1>1, Conversions, WordsAreIntegers
  <1>3. QED
    BY <1>2, QuotientRange DEF Boost

(* The distance from the soak ramp is an integer, also where the
   conversion from float is undefined. *)
LEMMA SoakErrorRange ==
    ASSUME NEW position \in Int, ovenTemp \in Int, NEW error \in SoakErrors(position)
    PROVE  error \in Int
  <1> DEFINE steps == 2 * profile.soak_time
             rise == Uint16(4 * (profile.soak_temp - profile.preheat_temp))
             a == steps * (ovenTemp - 4 * profile.preheat_temp) - rise * position
  <1>1. steps \in Nat /\ steps > 0
    BY ProfileAssumption
  <1>2. rise \in Int /\ a \in Int
    <2>1. profile.soak_temp \in Int /\ profile.preheat_temp \in Int
      BY ProfileAssumption
    <2>2. rise \in Int
      <3>1. 4 * (profile.soak_temp - profile.preheat_temp) \in Int
        BY <2>1
      <3>2. QED
        BY <3>1, Conversions, WordsAreIntegers
    <2> DEFINE above == ovenTemp - 4 * profile.preheat_temp
    <2>3. above \in Int
      BY <2>1
    <2> HIDE DEF rise, steps, above
    <2>4. steps * above \in Int /\ rise * position \in Int
      BY <1>1, <2>2, <2>3
    <2>5. QED
      BY <2>2, <2>4 DEF above
  <1>3. error \in FloatToInt16(a, steps)
    BY Zenon DEF SoakErrors
  <1> HIDE DEF a, steps
  <1> DEFINE n == Quotient(a, steps)
  <1>4. n \in Int
    BY <1>1, <1>2, QuotientRange
  <1>5. error \in {n, Int16(n), -Half, Half - 1}
    <2>1. error \in IF n \in SWords THEN {n}
                     ELSE {Int16(n), IF n < 0 THEN -Half ELSE Half - 1}
      BY <1>3, Zenon DEF FloatToInt16
    <2> HIDE DEF n
    <2>2. error \in {n} \/ error \in {Int16(n), IF n < 0 THEN -Half ELSE Half - 1}
      BY <2>1, Zenon
    <2>3. QED
      BY <2>2, Zenon
  <1> HIDE DEF n
  <1>6. Int16(n) \in Int
    BY <1>4, Conversions, WordsAreIntegers
  <1>7. -Half \in Int /\ Half - 1 \in Int
    BY WordsAreIntegers
  <1>8. QED
    BY <1>4, <1>5, <1>6, <1>7

(* The ratio the soak stage asks for is a uint8_t. *)
LEMMA SoakRatioRange ==
    ASSUME NEW error \in Int PROVE SoakRatio(error) \in 0..255
  <1>1. getDutyCycle(profile.soak_temp) \in 0..100
    BY getDutyCycleRange
  <1>2. Boost(Int16(error - 12)) \in Int
    <2>1. error - 12 \in Int
      OBVIOUS
    <2>2. Int16(error - 12) \in Int
      BY <2>1, Conversions, WordsAreIntegers
    <2>3. QED
      BY <2>2, BoostRange
  <1>3. Uint8(getDutyCycle(profile.soak_temp) + Boost(Int16(error - 12))) \in 0..255
    BY <1>1, <1>2, Conversions
  <1>4. QED
    BY <1>1, <1>3 DEF SoakRatio

(* The ratio the dwell asks for is a uint8_t. *)
LEMMA DwellRatioRange ==
    ASSUME ovenTemp \in Int PROVE DwellRatio \in 0..255
  <1> DEFINE error == Int16(ovenTemp - 4 * profile.reflow_temp)
  <1>1. error \in Int
    <2>1. ovenTemp - 4 * profile.reflow_temp \in Int
      BY ProfileAssumption
    <2>2. QED
      BY <2>1, Conversions, WordsAreIntegers
  <1>2. getDutyCycle(profile.reflow_temp) \in 0..100 /\ Boost(error) \in Int
    BY <1>1, getDutyCycleRange, BoostRange
  <1> HIDE DEF error
  <1>3. Uint8(getDutyCycle(profile.reflow_temp) - 1 + Boost(error)) \in 0..255
    BY <1>2, Conversions
  <1>4. QED
    BY <1>3 DEF DwellRatio, error

-----------------------------------------------------------------------------
(* What the actions are put together from. *)
USE DEF Return, NextStage, EndRun, EMR_ON, EMR_OFF

(* A remainder is below its modulus. *)
LEMMA ModuloRange ==
    ASSUME NEW n \in Int, NEW m \in Nat \ {0} PROVE n % m \in 0..(m - 1)
  BY SMT

(* The values the counters are set to, and their wrapping increments. *)
LEMMA CounterRange ==
    /\ 0 \in 0..(CountMod - 1) /\ OcalLimit \in 0..(CountMod - 1)
    /\ 0 \in 0..(DeltaMod - 1)
    /\ \A n \in Int : n % CountMod \in 0..(CountMod - 1)
    /\ \A n \in Int : n % DeltaMod \in 0..(DeltaMod - 1)
  <1>1. \A n \in Int : n % CountMod \in 0..(CountMod - 1)
    BY CountModAssumption, ModuloRange
  <1>2. \A n \in Int : n % DeltaMod \in 0..(DeltaMod - 1)
    BY OcalAssumption, ModuloRange
  <1>3. QED
    BY <1>1, <1>2, CountModAssumption, OcalAssumption

-----------------------------------------------------------------------------
(* Every step of a handler is of one of five kinds, as far as the relays   *)
(* are concerned.                                                          *)

(* Nothing happens, or the run goes on towards stage 2. *)
Idles ==
    /\ KeepHeater /\ UNCHANGED <<emr, isRunning>>
    /\ \/ ovenStage' = ovenStage
       \/ /\ ovenStage \in {0, 1} /\ ovenStage' = ovenStage + 1
          /\ ProcessHandler # "PIDTest"
    /\ pc' = "update"

(* EMR_ON, before any heat is asked for. *)
ClosesMains ==
    /\ ovenStage = (IF ProcessHandler = "PIDTest" THEN 0 ELSE 2)
    /\ SwitchMainsOn

(* The stage where each run has done with heating: a stage in which the    *)
(* heat is off before the run is there.                                    *)
KeepsToStages ==
    /\ ProcessHandler = "RunProfile" =>
          ovenStage' <= 8 /\ (ovenStage' = 7 => duty_cycle' = 0)
    /\ ProcessHandler \in {"Calibrate60c", "Calibrate120c"} =>
          ovenStage' <= 5 /\ (ovenStage' = 5 => duty_cycle' = 0)
    /\ ProcessHandler = "PIDTest" => ovenStage' = 3

(* setDutyCycle was called, or not. *)
Drives == KeepHeater \/ (duty_cycle' \in 0..255 /\ setDutyCycle(duty_cycle'))

Regulates ==
    /\ ovenStage \in 3..12
    /\ Drives
    /\ ovenStage' \in {ovenStage, ovenStage + 1} /\ ovenStage' <= 12
    /\ KeepsToStages
    /\ UNCHANGED <<emr, isRunning>>
    /\ pc' = "update"

(* The heat is taken off, to open the mains relay 25 ms later. *)
TakesHeatOff ==
    /\ setDutyCycle(0)
    /\ KeepRun /\ UNCHANGED emr
    /\ \/ pc' = "stop"
       \/ pc' = "dwell" /\ ProcessHandler = "RunProfile" /\ ovenStage = 8

(* The run ends in a stage where the heat is off. *)
Ends ==
    /\ duty_cycle = 0 /\ ovenStage > 2
    /\ KeepHeater /\ emr' = FALSE
    /\ EndRun
    /\ pc' = "update"

HandlerStep == Idles \/ ClosesMains \/ Regulates \/ TakesHeatOff \/ Ends

(* Leaving the heater alone is one way to drive it. *)
LEMMA KeepDrives == KeepHeater => Drives
  BY Zenon DEF Drives

(* A handler that waits in its stage idles. *)
LEMMA WaitIdles == Wait => Idles
  BY DEF Wait, Idles, KeepHeater, KeepRun

(* A reflow run heats in stages 3 to 8. *)
LEMMA RunProfileRegulates ==
    ASSUME ProcessHandler = "RunProfile",
           ovenStage \in 3..8,
           Drives,
           KeepRun \/ (ovenStage # 8 /\ NextStage),
           ovenStage' = 7 => duty_cycle' = 0,
           UNCHANGED emr,
           Return
    PROVE  HandlerStep
  <1>1. ovenStage' \in {ovenStage, ovenStage + 1} /\ ovenStage' <= 8
    BY DEF KeepRun
  <1>2. KeepsToStages
    BY <1>1 DEF KeepsToStages
  <1>3. ovenStage \in 3..12 /\ ovenStage' <= 12
    BY <1>1
  <1>4. Regulates
    BY <1>1, <1>2, <1>3, Zenon DEF Regulates, KeepRun
  <1>5. QED
    BY <1>4 DEF HandlerStep

(* Every stage of the reflow run takes a step of one of the five kinds. *)
LEMMA RunProfileSteps ==
    ASSUME Inv, isRunning, ProcessHandler = "RunProfile", RunProfileHandler
    PROVE  HandlerStep
  <1>0. /\ ovenStage \in {3, 4, 5, 6, 7} => ovenStage \in 3..8 /\ ovenStage # 8
        /\ ovenStage = 8 => ovenStage \in 3..8
        /\ ovenStage \in {3, 4, 5, 7} /\ NextStage => ovenStage' # 7
        /\ ovenStage \in {5, 8} /\ KeepRun => ovenStage' # 7
    <2>1. ovenStage \in {3, 4, 5, 7} /\ NextStage => ovenStage' # 7
      OBVIOUS
    <2>2. ovenStage \in {5, 8} /\ KeepRun => ovenStage' # 7
      BY DEF KeepRun
    <2>3. ovenStage \in {3, 4, 5, 6, 7} => ovenStage \in 3..8 /\ ovenStage # 8
      OBVIOUS
    <2>4. ovenStage = 8 => ovenStage \in 3..8
      OBVIOUS
    <2>5. QED
      BY <2>1, <2>2, <2>3, <2>4
  <1>1. CASE CloseDoor
    BY <1>1 DEF CloseDoor, HandlerStep, Idles
  <1>2. CASE AwaitEnter
    BY <1>2 DEF AwaitEnter, HandlerStep, Idles, KeepRun
  <1>3. CASE Preheat
    BY <1>3 DEF Preheat, HandlerStep, ClosesMains
  <1>4. CASE PreheatCutoff
    <2> DEFINE ratio == Uint8(getDutyCycle(profile.preheat_temp) - 5)
    <2>1. ratio \in 0..255
      <3>1. getDutyCycle(profile.preheat_temp) \in 0..100
        BY getDutyCycleRange
      <3>2. getDutyCycle(profile.preheat_temp) - 5 \in Int
        BY <3>1
      <3> QED BY <3>2, Conversions
    <2>2. setDutyCycle(ratio) => Drives
      BY <2>1, Zenon DEF Drives, setDutyCycle, Heater!DriveSet
    <2>3. Wait \/ (ovenStage = 3 /\ Drives /\ NextStage /\ UNCHANGED emr /\ Return)
      BY <1>4, <2>2, Zenon DEF PreheatCutoff
    <2>4. QED
      BY <2>3, <1>0, WaitIdles, RunProfileRegulates, Zenon DEF HandlerStep
  <1>5. CASE AwaitPreheat
    <2>1. Wait \/ (ovenStage = 4 /\ KeepHeater /\ NextStage /\ UNCHANGED emr /\ Return)
      BY <1>5, Zenon DEF AwaitPreheat
    <2>2. QED
      BY <2>1, <1>0, KeepDrives, WaitIdles, RunProfileRegulates, Zenon DEF HandlerStep
  <1>6. CASE Soak
    <2> DEFINE position == (ovenCounter + 1) % CountMod
    <2>1. position \in Int /\ ovenTemp \in Int
      BY CounterRange, WordsAreIntegers DEF Inv, TypeOK
    <2>2. ASSUME NEW error \in SoakErrors(position), setDutyCycle(SoakRatio(error))
          PROVE  Drives
      <3> HIDE DEF position
      <3>1. SoakRatio(error) \in 0..255
        BY <2>1, SoakErrorRange, SoakRatioRange
      <3>2. QED
        BY <2>2, <3>1, Zenon DEF Drives, setDutyCycle, Heater!DriveSet
    <2>3. setDutyCycle(100) => Drives
      BY SMT DEF Drives, setDutyCycle, Heater!DriveSet
    <2>4. \/ Wait
          \/ /\ ovenStage = 5 /\ UNCHANGED emr /\ Return
             /\ \/ Drives /\ NextStage
                \/ Drives /\ KeepRun
      BY <1>6, <2>2, <2>3, Zenon DEF Soak
    <2>5. QED
      BY <2>4, <1>0, WaitIdles, RunProfileRegulates, Zenon DEF HandlerStep
  <1>7. CASE ReflowCutoff
    <2>1. Wait \/ (ovenStage = 6 /\ setDutyCycle(0) /\ NextStage /\ UNCHANGED emr /\ Return)
      BY <1>7, Zenon DEF ReflowCutoff
    <2>2. setDutyCycle(0) => Drives /\ duty_cycle' = 0
      BY SMT DEF Drives, setDutyCycle, Heater!DriveSet
    <2>3. QED
      BY <2>1, <2>2, <1>0, WaitIdles, RunProfileRegulates, Zenon DEF HandlerStep
  <1>8. CASE AwaitPeak
    <2>1. Wait \/ (ovenStage = 7 /\ KeepHeater /\ NextStage /\ UNCHANGED emr /\ Return)
      BY <1>8, Zenon DEF AwaitPeak
    <2>2. QED
      BY <2>1, <1>0, KeepDrives, WaitIdles, RunProfileRegulates, Zenon DEF HandlerStep
  <1>9. CASE Dwell
    <2>1. DwellRatio \in 0..255
      BY DwellRatioRange, WordsAreIntegers DEF Inv, TypeOK
    <2>2. setDutyCycle(DwellRatio) => Drives
      BY <2>1, Zenon DEF Drives, setDutyCycle, Heater!DriveSet
    <2>3. \/ Wait
          \/ ovenStage = 8 /\ HeatOffThen("dwell")
          \/ ovenStage = 8 /\ Drives /\ KeepRun /\ UNCHANGED emr /\ Return
      BY <1>9, <2>2, Zenon DEF Dwell
    <2>4. ovenStage = 8 /\ HeatOffThen("dwell") => TakesHeatOff
      BY Zenon DEF HeatOffThen, TakesHeatOff
    <2>5. QED
      BY <2>3, <2>4, <1>0, WaitIdles, RunProfileRegulates, Zenon DEF HandlerStep
  <1>10. CASE Cooldown
    <2>1. \/ Wait
          \/ KeepHeater /\ KeepRun /\ UNCHANGED emr /\ Return
          \/ ovenStage = 9 /\ KeepHeater /\ EndRun /\ UNCHANGED emr /\ Return
      BY <1>10, Zenon DEF Cooldown
    <2>2. ovenStage = 9 => duty_cycle = 0 /\ ~emr
      BY DEF Inv, Interlock, LastStages
    <2>3. KeepHeater /\ KeepRun /\ UNCHANGED emr /\ Return => Idles
      BY Zenon DEF Idles, KeepRun
    <2>4. ovenStage = 9 => ovenStage > 2
      OBVIOUS
    <2>5. emr \in BOOLEAN
      BY DEF Inv, TypeOK
    <2>6. ovenStage = 9 /\ KeepHeater /\ EndRun /\ UNCHANGED emr /\ Return => Ends
      BY <2>2, <2>4, <2>5, Zenon DEF Ends
    <2>7. QED
      BY <2>1, <2>3, <2>6, WaitIdles, Zenon DEF HandlerStep
  <1>11. QED
    BY <1>1, <1>2, <1>3, <1>4, <1>5, <1>6, <1>7, <1>8, <1>9, <1>10 DEF RunProfileHandler

(* The waits at the start of a run that asks for the door to be closed. *)
LEMMA DoorIdles == ProcessHandler # "PIDTest" /\ (CloseDoor \/ AwaitEnter) => Idles
  <1>1. ProcessHandler # "PIDTest" /\ CloseDoor => Idles
    BY DEF CloseDoor, Idles
  <1>2. ProcessHandler # "PIDTest" /\ AwaitEnter => Idles
    BY DEF AwaitEnter, Idles, KeepRun
  <1>3. QED
    BY <1>1, <1>2

(* The over-temperature stop takes the heat off. *)
LEMMA OverTempTakesHeatOff == StopOverTemp => TakesHeatOff
  BY Zenon DEF StopOverTemp, HeatOffThen, TakesHeatOff

(* A calibration heats in stages 3 to 12. *)
LEMMA CalibrateOvenRegulates ==
    ASSUME ProcessHandler = "CalibrateOven",
           ovenStage \in 3..12,
           Drives,
           KeepRun \/ (ovenStage # 12 /\ NextStage),
           UNCHANGED emr,
           Return
    PROVE  HandlerStep
  <1>1. ovenStage' \in {ovenStage, ovenStage + 1} /\ ovenStage' <= 12
    BY DEF KeepRun
  <1>2. KeepsToStages
    BY DEF KeepsToStages
  <1>3. Regulates
    BY <1>1, <1>2, Zenon DEF Regulates, KeepRun
  <1>4. QED
    BY <1>3 DEF HandlerStep

(* Every stage of the calibration takes a step of one of the five kinds. *)
LEMMA CalibrateOvenSteps ==
    ASSUME Inv, isRunning, ProcessHandler = "CalibrateOven", CalibrateOvenHandler
    PROVE  HandlerStep
  <1>1. CASE CloseDoor \/ AwaitEnter \/ StopOverTemp
    BY <1>1, DoorIdles, OverTempTakesHeatOff DEF HandlerStep
  <1>2. CASE OcalStart
    BY <1>2 DEF OcalStart, HandlerStep, ClosesMains
  <1>3. CASE HoldStage
    <2>1. ovenStage \in 3..12 /\ StageRatio \in 0..255
      BY <1>3, SMT DEF HoldStage, StageRatio
    <2>2. setDutyCycle(StageRatio) => Drives
      BY <2>1, Zenon DEF Drives, setDutyCycle, Heater!DriveSet
    <2>3. Drives /\ KeepRun /\ UNCHANGED emr /\ Return
      BY <1>3, <2>2, KeepDrives, Zenon DEF HoldStage
    <2>4. QED
      BY <2>1, <2>3, CalibrateOvenRegulates, Zenon
  <1>4. CASE FinishStage
    <2>1. setDutyCycle(100) => Drives
      BY SMT DEF Drives, setDutyCycle, Heater!DriveSet
    <2>2. /\ ovenStage \in 3..12
          /\ \/ HeatOffThen("stop")
             \/ ovenStage # 12 /\ Drives /\ NextStage /\ UNCHANGED emr /\ Return
      <3> DEFINE hot == ovenTemp > 1000
      <3>1. /\ ovenStage \in 3..12
            /\ IF ovenStage = 12 \/ hot
               THEN HeatOffThen("stop")
               ELSE setDutyCycle(100) /\ NextStage /\ UNCHANGED emr /\ Return
        BY <1>4 DEF FinishStage
      <3> HIDE DEF hot
      <3>2. QED
        BY <3>1, <2>1, Zenon
    <2>3. HeatOffThen("stop") => TakesHeatOff
      BY Zenon DEF HeatOffThen, TakesHeatOff
    <2>4. QED
      BY <2>2, <2>3, CalibrateOvenRegulates, Zenon DEF HandlerStep
  <1>5. QED
    BY <1>1, <1>2, <1>3, <1>4, Zenon DEF CalibrateOvenHandler

(* So does the PID test, *)
LEMMA PIDTestSteps ==
    ASSUME Inv, isRunning, ProcessHandler = "PIDTest", PIDTestHandler
    PROVE  HandlerStep
  <1>1. CASE StopOverTemp
    BY <1>1, OverTempTakesHeatOff DEF HandlerStep
  <1>2. CASE PidStart
    BY <1>2 DEF PidStart, HandlerStep, ClosesMains
  <1>3. CASE PidRegulate
    <2>1. PidOut \in 0..255
      BY WordsAreIntegers, SMT DEF PidOut, Inv, TypeOK
    <2>2. setDutyCycle(PidOut) => Drives
      BY <2>1, Zenon DEF Drives, setDutyCycle, Heater!DriveSet
    <2>3. Wait \/ (ovenStage = 3 /\ Drives /\ KeepRun /\ UNCHANGED emr /\ Return)
      BY <1>3, <2>2, Zenon DEF PidRegulate
    <2>4. ASSUME ovenStage = 3, Drives, KeepRun, UNCHANGED emr, Return
          PROVE  Regulates
      <3>1. /\ ovenStage' = 3 /\ ovenStage' <= 12 /\ ovenStage \in 3..12
            /\ ovenStage' \in {ovenStage, ovenStage + 1}
        BY <2>4 DEF KeepRun
      <3>2. KeepsToStages
        BY <3>1 DEF KeepsToStages
      <3>3. QED
        BY <2>4, <3>1, <3>2, Zenon DEF Regulates, KeepRun
    <2>5. QED
      BY <2>3, <2>4, WaitIdles, Zenon DEF HandlerStep
  <1>4. QED
    BY <1>1, <1>2, <1>3, Zenon DEF PIDTestHandler

(* and so do the measurements to 60 and to 120 degrees, *)
LEMMA RiseSteps ==
    ASSUME Inv, isRunning, ProcessHandler \in {"Calibrate60c", "Calibrate120c"},
           NEW first, NEW second, NEW to60, RiseHandler(first, second, to60)
    PROVE  HandlerStep
  <1>1. CASE CloseDoor \/ AwaitEnter \/ StopOverTemp
    BY <1>1, DoorIdles, OverTempTakesHeatOff DEF HandlerStep
  <1>2. CASE RiseStart
    BY <1>2 DEF RiseStart, HandlerStep, ClosesMains
  <1>3. CASE RiseFirstMark(first, to60)
    <2>1. setDutyCycle(5) => Drives
      BY SMT DEF Drives, setDutyCycle, Heater!DriveSet
    <2>2. Wait \/ (ovenStage = 3 /\ Drives /\ NextStage /\ UNCHANGED emr /\ Return)
      BY <1>3, <2>1, KeepDrives, Zenon DEF RiseFirstMark
    <2>3. ASSUME ovenStage = 3, Drives, NextStage, UNCHANGED emr, Return
          PROVE  Regulates
      <3>1. /\ ovenStage' = 4 /\ ovenStage' <= 12 /\ ovenStage \in 3..12
            /\ ovenStage' \in {ovenStage, ovenStage + 1}
        BY <2>3
      <3>2. KeepsToStages
        BY <3>1 DEF KeepsToStages
      <3>3. QED
        BY <2>3, <3>1, <3>2, Zenon DEF Regulates
    <2>4. QED
      BY <2>2, <2>3, WaitIdles, Zenon DEF HandlerStep
  <1>4. CASE RiseCutoff(second)
    <2>1. \/ Wait
          \/ ovenStage = 4 /\ setDutyCycle(0) /\ NextStage /\ UNCHANGED emr /\ Return
      BY <1>4, Zenon DEF RiseCutoff
    <2>2. ASSUME ovenStage = 4, setDutyCycle(0), NextStage, UNCHANGED emr, Return
          PROVE  Regulates
      <3>1. /\ ovenStage' = 5 /\ ovenStage' <= 12 /\ ovenStage \in 3..12
            /\ ovenStage' \in {ovenStage, ovenStage + 1}
        BY <2>2
      <3>2. duty_cycle' = 0 /\ Drives
        BY <2>2, SMT DEF Drives, setDutyCycle, Heater!DriveSet
      <3>3. KeepsToStages
        BY <3>1, <3>2 DEF KeepsToStages
      <3>4. QED
        BY <2>2, <3>1, <3>2, <3>3, Zenon DEF Regulates
    <2>3. QED
      BY <2>1, <2>2, WaitIdles, Zenon DEF HandlerStep
  <1>5. CASE RisePeak
    <2>1. Wait \/ (ovenStage = 5 /\ EMR_OFF /\ EndRun /\ KeepHeater /\ Return)
      BY <1>5, Zenon DEF RisePeak
    <2>2. ovenStage = 5 => duty_cycle = 0 /\ ovenStage > 2
      BY DEF Inv, Interlock, LastStages
    <2>3. QED
      BY <2>1, <2>2, WaitIdles, Zenon DEF HandlerStep, Ends
  <1>6. QED
    BY <1>1, <1>2, <1>3, <1>4, <1>5, Zenon DEF RiseHandler

(* and therefore every handler. *)
LEMMA HandlerSteps == Inv /\ CallHandler => HandlerStep
  BY RunProfileSteps, CalibrateOvenSteps, PIDTestSteps, RiseSteps, Zenon
     DEF CallHandler, Calibrate60cHandler, Calibrate120cHandler

-----------------------------------------------------------------------------
(* The counters keep their width. *)
CountersOK ==
    /\ count \in 0..(CountMod - 1) /\ ovenCounter \in 0..(CountMod - 1)
    /\ endCount \in 0..(CountMod - 1) /\ endSet \in BOOLEAN
    /\ deltaCount \in 0..(DeltaMod - 1)

(* A step that leaves the counters alone keeps their width. *)
LEMMA KeepCountersOK ==
    ASSUME CountersOK PROVE KeepCounters /\ KeepCal => CountersOK'
  BY DEF CountersOK, KeepCounters, KeepCal, calVars

(* A waiting handler leaves them alone, *)
LEMMA WaitCountersOK ==
    ASSUME CountersOK PROVE Wait => CountersOK'
  BY KeepCountersOK, Zenon DEF Wait

(* and so do the stages all runs share. *)
LEMMA CommonCountersOK ==
    ASSUME CountersOK PROVE CloseDoor \/ AwaitEnter \/ StopOverTemp => CountersOK'
  BY KeepCountersOK, Zenon DEF CloseDoor, AwaitEnter, StopOverTemp

(* Starting to heat clears count or leaves it alone. *)
LEMMA StartCountersOK ==
    ASSUME CountersOK, SwitchMainsOn, count' = 0 \/ UNCHANGED count PROVE CountersOK'
  BY CounterRange DEF CountersOK, SwitchMainsOn, KeepCal, calVars

(* The reflow run keeps the width of the counters, *)
LEMMA RunProfileCounters ==
    ASSUME CountersOK, RunProfileHandler PROVE CountersOK'
  <1>1. CASE CloseDoor \/ AwaitEnter
    BY <1>1, CommonCountersOK
  <1>2. CASE Preheat
    BY <1>2, StartCountersOK DEF Preheat
  <1>3. CASE PreheatCutoff \/ ReflowCutoff \/ AwaitPeak \/ Dwell
    <2>1. Wait \/ (KeepCounters /\ KeepCal)
      BY <1>3, Zenon DEF PreheatCutoff, ReflowCutoff, AwaitPeak, Dwell
    <2>2. QED
      BY <2>1, WaitCountersOK, KeepCountersOK
  <1>4. CASE AwaitPreheat
    <2>1. Wait \/ (ovenCounter' = 0 /\ UNCHANGED count /\ KeepCal)
      BY <1>4, Zenon DEF AwaitPreheat
    <2>2. ovenCounter' = 0 /\ UNCHANGED count /\ KeepCal => CountersOK'
      BY CounterRange DEF CountersOK, KeepCal, calVars
    <2>3. QED
      BY <2>1, <2>2, WaitCountersOK
  <1>5. CASE Soak
    <2> DEFINE position == (ovenCounter + 1) % CountMod
    <2>1. position \in 0..(CountMod - 1)
      BY CounterRange DEF CountersOK
    <2>2. Wait \/ (ovenCounter' \in {count, position} /\ UNCHANGED count /\ KeepCal)
      BY <1>5, Zenon DEF Soak
    <2> HIDE DEF position
    <2>3. ovenCounter' \in {count, position} /\ UNCHANGED count /\ KeepCal => CountersOK'
      BY <2>1 DEF CountersOK, KeepCal, calVars
    <2>4. QED
      BY <2>2, <2>3, WaitCountersOK
  <1>6. CASE Cooldown
    <2> DEFINE beeps == (ovenCounter + 1) % CountMod
    <2>1. beeps \in 0..(CountMod - 1)
      BY CounterRange DEF CountersOK
    <2>2. Wait \/ (ovenCounter' \in {ovenCounter, beeps} /\ UNCHANGED count /\ KeepCal)
      BY <1>6, Zenon DEF Cooldown
    <2> HIDE DEF beeps
    <2>3. ovenCounter' \in {ovenCounter, beeps} /\ UNCHANGED count /\ KeepCal => CountersOK'
      BY <2>1 DEF CountersOK, KeepCal, calVars
    <2>4. QED
      BY <2>2, <2>3, WaitCountersOK
  <1>7. QED
    BY <1>1, <1>2, <1>3, <1>4, <1>5, <1>6, Zenon DEF RunProfileHandler

(* and so does the calibration, whose limit cannot pass CountMod, *)
LEMMA CalibrateOvenCounters ==
    ASSUME CountersOK, CalibrateOvenHandler PROVE CountersOK'
  <1>1. CASE CloseDoor \/ AwaitEnter \/ StopOverTemp
    BY <1>1, CommonCountersOK
  <1>2. CASE OcalStart
    BY <1>2, StartCountersOK DEF OcalStart
  <1>3. CASE HoldStage
    <2>1. count \in Int /\ deltaCount \in Int /\ count + OcalExtra \in Int
      BY OcalAssumption DEF CountersOK
    <2>2. OcalShort \in 0..(CountMod - 1)
      BY OcalAssumption, CountModAssumption
    <2>3. StageEnd \in 0..(CountMod - 1)
      BY <2>1, <2>2, CounterRange DEF StageEnd, CountersOK
    <2>4. NextDeltaCount \in 0..(DeltaMod - 1)
      BY <2>1, CounterRange DEF NextDeltaCount
    <2>5. (endSet \/ FoundFlat) \in BOOLEAN
      OBVIOUS
    <2>6. /\ endCount' = StageEnd /\ deltaCount' = NextDeltaCount
          /\ endSet' = (endSet \/ FoundFlat)
          /\ UNCHANGED <<count, ovenCounter>>
      BY <1>3, Zenon DEF HoldStage, KeepCounters
    <2>7. QED
      BY <2>3, <2>4, <2>5, <2>6, Zenon DEF CountersOK
  <1>4. CASE FinishStage
    <2>1. /\ count' = 0 /\ endCount' = OcalLimit /\ endSet' = FALSE /\ deltaCount' = 0
          /\ UNCHANGED ovenCounter
      BY <1>4, Zenon DEF FinishStage
    <2>2. QED
      BY <2>1, CounterRange DEF CountersOK
  <1>5. QED
    BY <1>1, <1>2, <1>3, <1>4, Zenon DEF CalibrateOvenHandler

(* the PID test, *)
LEMMA PIDTestCounters ==
    ASSUME CountersOK, PIDTestHandler PROVE CountersOK'
  <1>1. PidStart => CountersOK'
    BY StartCountersOK DEF PidStart
  <1>2. PidRegulate => Wait \/ (KeepCounters /\ KeepCal)
    BY Zenon DEF PidRegulate
  <1>3. QED
    BY <1>1, <1>2, WaitCountersOK, KeepCountersOK, CommonCountersOK, Zenon DEF PIDTestHandler

(* the measurements to 60 and to 120 degrees, *)
LEMMA RiseCounters ==
    ASSUME CountersOK, NEW first, NEW second, NEW to60, RiseHandler(first, second, to60)
    PROVE  CountersOK'
  <1>1. RiseStart => CountersOK'
    BY StartCountersOK DEF RiseStart
  <1>2. RisePeak => Wait \/ (KeepCounters /\ KeepCal)
    BY Zenon DEF RisePeak
  <1> DEFINE took == (count - endCount) % CountMod
  <1>3. took \in 0..(CountMod - 1)
    <2>1. count - endCount \in Int
      BY DEF CountersOK
    <2>2. QED
      BY <2>1, CounterRange
  <1>4. RiseFirstMark(first, to60) \/ RiseCutoff(second) =>
          \/ Wait
          \/ endCount' \in {count, took} /\ KeepCounters /\ UNCHANGED <<endSet, deltaCount>>
    BY Zenon DEF RiseFirstMark, RiseCutoff
  <1> HIDE DEF took
  <1>5. endCount' \in {count, took} /\ KeepCounters /\ UNCHANGED <<endSet, deltaCount>>
          => CountersOK'
    BY <1>3 DEF KeepCounters, CountersOK
  <1>6. QED
    BY <1>1, <1>2, <1>4, <1>5, WaitCountersOK, KeepCountersOK, CommonCountersOK, Zenon
       DEF RiseHandler

(* and therefore every handler. *)
LEMMA HandlerCounters == CountersOK /\ CallHandler => CountersOK'
  BY RunProfileCounters, CalibrateOvenCounters, PIDTestCounters, RiseCounters, Zenon
     DEF CallHandler, Calibrate60cHandler, Calibrate120cHandler

-----------------------------------------------------------------------------
(* The invariant is inductive. *)

(* The program starts cold, in the types of its variables. *)
LEMMA InvInit == Init => Inv
  <1>1. 0 \in Words /\ 0 \in SWords
    <2>1. Word \in Nat \ {0} /\ Half \in Nat \ {0}
      BY SMT DEF Word, Half
    <2>2. QED
      BY <2>1 DEF Words, SWords
  <1>2. Init => TypeOK
    <2>1. 0 \in 0..(CountMod - 1) /\ OcalLimit \in 0..(CountMod - 1) /\ 0 \in 0..(DeltaMod - 1)
      BY CounterRange
    <2>2. 0 \in 0..255 /\ 0 \in 0..12 /\ 0 \in 0..15
      OBVIOUS
    <2> SUFFICES ASSUME Init PROVE TypeOK
      OBVIOUS
    <2>3. /\ duty_cycle \in 0..255 /\ ovenStage \in 0..12
          /\ buttons \in 0..15 /\ newButton \in 0..15
          /\ ProcessHandler \in Handlers \cup {"none"}
          /\ ovenTemp \in Words /\ ovenDelta4 \in SWords /\ ovenDelta32 \in SWords
      BY <1>1, <2>2 DEF Init
    <2>4. /\ count \in 0..(CountMod - 1) /\ ovenCounter \in 0..(CountMod - 1)
          /\ endCount \in 0..(CountMod - 1) /\ deltaCount \in 0..(DeltaMod - 1)
      BY <2>1, Zenon DEF Init
    <2>5. /\ ssr \in BOOLEAN /\ emr \in BOOLEAN /\ isRunning \in BOOLEAN
          /\ endSet \in BOOLEAN /\ tick \in BOOLEAN /\ confirmed \in BOOLEAN
      BY DEF Init
    <2>6. QED
      BY <2>3, <2>4, <2>5 DEF Init, TypeOK
  <1>3. Init => Interlock
    BY DEF Init, Interlock, IdleIsCold, ZeroIsOff, DelaysAreCold, DelaysOfRun,
           EarlyStages, LastStages
  <1>4. QED
    BY <1>2, <1>3 DEF Inv

(* setDutyCycle(0) and what keeps the relays leave no heat where there was *)
(* none.                                                                   *)
LEMMA ZeroDrive == setDutyCycle(0) => duty_cycle' = 0 /\ ~ssr' /\ ssr' \in BOOLEAN
  BY SMT DEF setDutyCycle, Heater!DriveSet, Heater!SsrAfter

(* Driving the heater keeps its types and leaves the SSR off at 0. *)
LEMMA DrivesTypes ==
    ASSUME Inv, Drives
    PROVE  duty_cycle' \in 0..255 /\ ssr' \in BOOLEAN /\ ZeroIsOff'
  <1>1. CASE KeepHeater
    BY <1>1 DEF Inv, TypeOK, Interlock, ZeroIsOff, KeepHeater
  <1>2. CASE duty_cycle' \in 0..255 /\ setDutyCycle(duty_cycle')
    <2>1. ssr' = IF duty_cycle' = 0 THEN FALSE ELSE IF duty_cycle' = 100 THEN TRUE ELSE ssr
      BY <1>2, Zenon DEF setDutyCycle, Heater!DriveSet, Heater!SsrAfter
    <2>2. ssr \in BOOLEAN
      BY DEF Inv, TypeOK
    <2>3. QED
      BY <1>2, <2>1, <2>2 DEF ZeroIsOff
  <1>3. QED
    BY <1>1, <1>2 DEF Drives

(* A step of the handler, by its kind. *)
LEMMA HandlerInterlock ==
    ASSUME Inv, isRunning, pc = "handler", HandlerStep, UNCHANGED ProcessHandler
    PROVE  /\ duty_cycle' \in 0..255 /\ ssr' \in BOOLEAN /\ emr' \in BOOLEAN
           /\ isRunning' \in BOOLEAN /\ ovenStage' \in 0..12
           /\ pc' \in {"power", "dwell", "stop", "update"}
           /\ Interlock'
  <1> USE DEF Interlock, IdleIsCold, ZeroIsOff, DelaysAreCold, DelaysOfRun,
              EarlyStages, LastStages
  <1>1. CASE Idles
    BY <1>1 DEF Idles, Inv, TypeOK, KeepHeater
  <1>2. CASE ClosesMains
    BY <1>2 DEF ClosesMains, SwitchMainsOn, Inv, TypeOK, KeepHeater, KeepRun
  <1>3. CASE Regulates
    <2>1. duty_cycle' \in 0..255 /\ ssr' \in BOOLEAN /\ ZeroIsOff'
      BY <1>3, DrivesTypes DEF Regulates
    <2>2. QED
      BY <1>3, <2>1 DEF Regulates, KeepsToStages, Inv, TypeOK
  <1>4. CASE TakesHeatOff
    <2>1. /\ duty_cycle' = 0 /\ ~ssr' /\ ssr' \in BOOLEAN
          /\ emr' = emr /\ isRunning' = isRunning /\ ovenStage' = ovenStage
          /\ \/ pc' = "stop"
             \/ pc' = "dwell" /\ ProcessHandler = "RunProfile" /\ ovenStage = 8
      BY <1>4, ZeroDrive DEF TakesHeatOff, KeepRun
    <2>2. QED
      BY <2>1 DEF Inv, TypeOK
  <1>5. CASE Ends
    <2>1. /\ duty_cycle' = 0 /\ ssr' = ssr /\ emr' = FALSE
          /\ isRunning' = FALSE /\ ovenStage' = 0 /\ pc' = "update"
      BY <1>5, Zenon DEF Ends, KeepHeater
    <2>2. duty_cycle = 0 /\ ~ssr /\ ssr \in BOOLEAN
      BY <1>5 DEF Inv, TypeOK, Ends
    <2>3. duty_cycle' = 0 /\ ~ssr' /\ ssr' \in BOOLEAN /\ emr' = FALSE
      BY <2>1, <2>2
    <2>4. /\ duty_cycle' \in 0..255 /\ emr' \in BOOLEAN /\ isRunning' \in BOOLEAN
          /\ ovenStage' \in 0..12
      <3>1. 0 \in 0..255 /\ 0 \in 0..12
        OBVIOUS
      <3>2. QED
        BY <2>1, <3>1, Zenon
    <2>5. Interlock'
      BY <2>1, <2>3, Zenon
    <2>6. QED
      BY <2>1, <2>3, <2>4, <2>5
  <1>6. QED
    BY <1>1, <1>2, <1>3, <1>4, <1>5 DEF HandlerStep

(* The types, of a step that leaves the handler's variables to the lemmas. *)
LEMMA TypesFromParts ==
    ASSUME Inv, CountersOK',
           duty_cycle' \in 0..255 /\ ssr' \in BOOLEAN /\ emr' \in BOOLEAN,
           isRunning' \in BOOLEAN /\ ovenStage' \in 0..12,
           pc' \in {"buttons", "abort", "handler", "power", "dwell", "stop",
                    "update", "trip", "usb", "boot"},
           InHandler
    PROVE  TypeOK'
  <1>1. UNCHANGED <<ProcessHandler, ovenTemp, ovenDelta4, ovenDelta32, tick, buttons,
                    newButton, confirmed>>
    BY DEF InHandler, sensorVars, inputVars
  <1>2. QED
    BY <1>1 DEF Inv, TypeOK, CountersOK

(* A call of the handler keeps the invariant. *)
LEMMA CallHandlerInv == Inv /\ CallHandler => Inv'
  <1> SUFFICES ASSUME Inv, CallHandler PROVE Inv'
    OBVIOUS
  <1>1. HandlerStep
    BY HandlerSteps
  <1>2. CountersOK'
    <2>1. CountersOK
      BY DEF CountersOK, Inv, TypeOK
    <2>2. QED
      BY <2>1, HandlerCounters
  <1>3. InHandler /\ isRunning /\ pc = "handler"
    BY Zenon DEF CallHandler
  <1>4. UNCHANGED ProcessHandler
    BY <1>3 DEF InHandler
  <1>5. /\ duty_cycle' \in 0..255 /\ ssr' \in BOOLEAN /\ emr' \in BOOLEAN
        /\ isRunning' \in BOOLEAN /\ ovenStage' \in 0..12
        /\ pc' \in {"power", "dwell", "stop", "update"}
        /\ Interlock'
    BY <1>1, <1>3, <1>4, HandlerInterlock
  <1>6. TypeOK'
    BY <1>2, <1>3, <1>5, TypesFromParts
  <1>7. QED
    BY <1>5, <1>6 DEF Inv

(* What follows a delay: PowerUp heats for the first time, EndDwell and    *)
(* StopRun open the mains relay.                                           *)
LEMMA PowerUpEffect ==
    ASSUME Inv, PowerUp
    PROVE  /\ Drives /\ UNCHANGED isRunning /\ ovenStage' = 3
           /\ \/ KeepCounters /\ KeepCal
              \/ KeepCounters /\ endCount' = OcalLimit /\ endSet' = FALSE /\ UNCHANGED deltaCount
  <1>0. ovenStage = (IF ProcessHandler = "PIDTest" THEN 0 ELSE 2)
    BY DEF PowerUp, Inv, Interlock, DelaysOfRun
  <1>1. ASSUME NEW ratio \in 0..255, setDutyCycle(ratio) PROVE Drives
    BY <1>1, Zenon DEF Drives, setDutyCycle, Heater!DriveSet
  <1>2. 100 \in 0..255 /\ 20 \in 0..255
    OBVIOUS
  <1>3. setDutyCycle(100) \/ setDutyCycle(20) \/ KeepHeater => Drives
    BY <1>1, <1>2, KeepDrives
  <1>4. CASE ProcessHandler = "PIDTest" /\ PidPower
    BY <1>4, <1>3 DEF PidPower
  <1>5. CASE ProcessHandler # "PIDTest" /\ (PreheatPower \/ OcalPower \/ RisePower)
    <2>1. /\ setDutyCycle(100) \/ setDutyCycle(20)
          /\ NextStage
          /\ \/ KeepCounters /\ KeepCal
             \/ KeepCounters /\ endCount' = OcalLimit /\ endSet' = FALSE /\ UNCHANGED deltaCount
      BY <1>5, Zenon DEF PreheatPower, OcalPower, RisePower
    <2>2. ovenStage' = 3
      BY <2>1, <1>5, <1>0
    <2>3. QED
      BY <2>1, <2>2, <1>3, Zenon
  <1>6. QED
    BY <1>4, <1>5 DEF PowerUp

(* The relay after the power-up delay keeps the invariant of the oven.       *)
LEMMA PowerUpInv == Inv /\ PowerUp => Inv'
  <1> SUFFICES ASSUME Inv, PowerUp PROVE Inv'
    OBVIOUS
  <1>1. /\ pc = "power" /\ isRunning /\ emr /\ duty_cycle = 0
        /\ ovenStage = (IF ProcessHandler = "PIDTest" THEN 0 ELSE 2)
    BY DEF PowerUp, Inv, Interlock, DelaysOfRun, DelaysAreCold
  <1>2. InHandler /\ UNCHANGED <<emr, ProcessHandler>> /\ pc' = "update"
    BY DEF PowerUp, InHandler
  <1>3. /\ Drives /\ UNCHANGED isRunning /\ ovenStage' = 3
        /\ \/ KeepCounters /\ KeepCal
           \/ KeepCounters /\ endCount' = OcalLimit /\ endSet' = FALSE /\ UNCHANGED deltaCount
    BY PowerUpEffect
  <1>4. duty_cycle' \in 0..255 /\ ssr' \in BOOLEAN /\ ZeroIsOff'
    BY <1>3, DrivesTypes
  <1>5. CountersOK'
    <2>1. CountersOK
      BY DEF Inv, TypeOK, CountersOK
    <2>2. KeepCounters /\ endCount' = OcalLimit /\ endSet' = FALSE /\ UNCHANGED deltaCount
            => CountersOK'
      BY <2>1, CounterRange DEF CountersOK, KeepCounters
    <2>3. QED
      BY <1>3, <2>1, <2>2, KeepCountersOK
  <1>6. emr' \in BOOLEAN /\ isRunning' \in BOOLEAN /\ ovenStage' \in 0..12
    BY <1>2, <1>3 DEF Inv, TypeOK
  <1>7. TypeOK'
    BY <1>2, <1>4, <1>5, <1>6, TypesFromParts
  <1>8. Interlock'
    BY <1>1, <1>2, <1>3, <1>4
       DEF Interlock, IdleIsCold, DelaysAreCold, DelaysOfRun, EarlyStages, LastStages
  <1>9. QED
    BY <1>7, <1>8 DEF Inv

(* Opening the mains after the dwell leaves the heat off for stage 9. *)
LEMMA EndDwellInv == Inv /\ EndDwell => Inv'
  <1> SUFFICES ASSUME Inv, EndDwell PROVE Inv'
    OBVIOUS
  <1>1. /\ pc = "dwell" /\ isRunning /\ duty_cycle = 0 /\ ~ssr
        /\ ProcessHandler = "RunProfile" /\ ovenStage = 8
    BY DEF EndDwell, Inv, Interlock, DelaysOfRun, DelaysAreCold, ZeroIsOff
  <1>2. /\ emr' = FALSE /\ ovenStage' = 9 /\ isRunning' = isRunning
        /\ ovenCounter' = 0 /\ KeepHeater /\ KeepCal /\ UNCHANGED count
        /\ pc' = "update" /\ InHandler
    BY <1>1 DEF EndDwell, OpenDoor
  <1>3. CountersOK'
    BY <1>2, CounterRange DEF Inv, TypeOK, CountersOK, KeepCal, calVars
  <1>4. /\ duty_cycle' \in 0..255 /\ ssr' \in BOOLEAN /\ emr' \in BOOLEAN
        /\ isRunning' \in BOOLEAN /\ ovenStage' \in 0..12
    <2>1. duty_cycle' = duty_cycle /\ ssr' = ssr
      BY <1>2 DEF KeepHeater
    <2>2. duty_cycle \in 0..255 /\ ssr \in BOOLEAN /\ isRunning \in BOOLEAN /\ 9 \in 0..12
      BY DEF Inv, TypeOK
    <2>3. QED
      BY <1>2, <2>1, <2>2, Zenon
  <1>5. TypeOK'
    BY <1>2, <1>3, <1>4, TypesFromParts
  <1>6. duty_cycle' = 0 /\ ~ssr' /\ ProcessHandler' = ProcessHandler
    BY <1>1, <1>2 DEF KeepHeater, InHandler
  <1>7. Interlock'
    BY <1>1, <1>2, <1>6 DEF Interlock, IdleIsCold, ZeroIsOff, DelaysAreCold, DelaysOfRun,
                            EarlyStages, LastStages
  <1>8. QED
    BY <1>5, <1>7 DEF Inv

(* A run that is over leaves the oven cold when the heat was off.          *)
LEMMA EndsCold ==
    ASSUME Inv, duty_cycle = 0, KeepHeater, emr' = FALSE, EndRun,
           pc' \in {"handler", "update"}
    PROVE  /\ duty_cycle' \in 0..255 /\ ssr' \in BOOLEAN /\ emr' \in BOOLEAN
           /\ isRunning' \in BOOLEAN /\ ovenStage' \in 0..12
           /\ Interlock'
  <1>1. duty_cycle' = 0 /\ ssr' = FALSE /\ isRunning' = FALSE
    <2>1. ssr = FALSE
      BY DEF Inv, TypeOK, Interlock, ZeroIsOff
    <2>2. QED
      BY <2>1 DEF KeepHeater
  <1>2. 0 \in 0..255 /\ 0 \in 0..12
    OBVIOUS
  <1>3. pc' \notin {"abort", "stop", "dwell", "power", "trip"}
    OBVIOUS
  <1>4. Interlock'
    BY <1>1, <1>3, Zenon DEF Interlock, IdleIsCold, ZeroIsOff, DelaysAreCold, DelaysOfRun,
                             EarlyStages, LastStages
  <1>5. QED
    BY <1>1, <1>2, <1>4, Zenon

(* A run stopped by its handler ends cold. *)
LEMMA StopRunInv == Inv /\ StopRun => Inv'
  <1> SUFFICES ASSUME Inv, StopRun PROVE Inv'
    OBVIOUS
  <1>1. /\ pc = "stop" /\ KeepHeater /\ emr' = FALSE /\ EndRun /\ pc' = "update"
        /\ InHandler
        /\ \/ KeepCounters /\ KeepCal
           \/ KeepCounters /\ endCount' = OcalLimit /\ endSet' = FALSE /\ UNCHANGED deltaCount
    BY Zenon DEF StopRun
  <1>2. duty_cycle = 0
    BY <1>1 DEF Inv, Interlock, DelaysAreCold
  <1>3. /\ duty_cycle' \in 0..255 /\ ssr' \in BOOLEAN /\ emr' \in BOOLEAN
        /\ isRunning' \in BOOLEAN /\ ovenStage' \in 0..12
        /\ Interlock'
    BY <1>1, <1>2, EndsCold
  <1>4. CountersOK'
    <2>1. CountersOK
      BY DEF Inv, TypeOK, CountersOK
    <2>2. KeepCounters /\ endCount' = OcalLimit /\ endSet' = FALSE /\ UNCHANGED deltaCount
            => CountersOK'
      BY <2>1, CounterRange DEF CountersOK, KeepCounters
    <2>3. QED
      BY <1>1, <2>1, <2>2, KeepCountersOK
  <1>5. TypeOK'
    BY <1>1, <1>3, <1>4, TypesFromParts
  <1>6. QED
    BY <1>3, <1>5 DEF Inv

(* Without a run the handler's place in the loop changes nothing. *)
LEMMA NoRunInv == Inv /\ NoRun => Inv'
  <1> SUFFICES ASSUME Inv, NoRun PROVE Inv'
    OBVIOUS
  <1>1. KeepHeater /\ KeepRun /\ UNCHANGED emr /\ pc' = "update" /\ ~isRunning /\ InHandler
    BY DEF NoRun, Wait
  <1>2. CountersOK'
    <2>1. CountersOK
      BY DEF Inv, TypeOK, CountersOK
    <2>2. QED
      BY <2>1, WaitCountersOK DEF NoRun
  <1>3. /\ duty_cycle' \in 0..255 /\ ssr' \in BOOLEAN /\ emr' \in BOOLEAN
        /\ isRunning' \in BOOLEAN /\ ovenStage' \in 0..12
    BY <1>1 DEF Inv, TypeOK, KeepHeater, KeepRun
  <1>4. TypeOK'
    BY <1>1, <1>2, <1>3, TypesFromParts
  <1>5. Interlock'
    BY <1>1 DEF Inv, Interlock, IdleIsCold, ZeroIsOff, DelaysAreCold, DelaysOfRun,
                EarlyStages, LastStages, KeepHeater, KeepRun
  <1>6. QED
    BY <1>4, <1>5 DEF Inv

-----------------------------------------------------------------------------
(* The head of the loop. *)
LEMMA PressTypes ==
    ASSUME Inv, NEW held \in ButtonStates, Press(held),
           Drives,
           isRunning' \in BOOLEAN, ovenStage' \in 0..12, pc' \in {"abort", "handler"},
           ProcessHandler' \in Handlers \cup {"none"}, count' \in {0, count}
    PROVE  TypeOK'
  <1>1. /\ UNCHANGED <<emr, ovenTemp, ovenDelta4, ovenDelta32, ovenCounter, tick>>
        /\ UNCHANGED <<endCount, endSet, deltaCount>>
        /\ buttons' = held /\ newButton' \in {0, held} /\ confirmed' \in BOOLEAN
    BY Zenon DEF Press, ReadButtons, KeepCal, calVars, sensorVars
  <1>2. buttons' \in 0..15 /\ newButton' \in 0..15
    BY <1>1, ButtonStatesAssumption
  <1>3. count' \in 0..(CountMod - 1)
    BY CounterRange DEF Inv, TypeOK
  <1>4. duty_cycle' \in 0..255 /\ ssr' \in BOOLEAN
    BY DrivesTypes
  <1>5. /\ emr' \in BOOLEAN /\ endSet' \in BOOLEAN /\ tick' \in BOOLEAN
        /\ ovenTemp' \in Words /\ ovenDelta4' \in SWords /\ ovenDelta32' \in SWords
        /\ ovenCounter' \in 0..(CountMod - 1) /\ endCount' \in 0..(CountMod - 1)
        /\ deltaCount' \in 0..(DeltaMod - 1)
    BY <1>1, Zenon DEF Inv, TypeOK
  <1>6. QED
    BY <1>1, <1>2, <1>3, <1>4, <1>5 DEF TypeOK

(* MENU during a run takes the heat off for the delay that follows. *)
LEMMA PressAbortInv == Inv /\ PressAbort => Inv'
  <1> SUFFICES ASSUME Inv, PressAbort PROVE Inv'
    OBVIOUS
  <1>1. PICK held \in ButtonStates :
          /\ Press(held) /\ AbortPressed(held)
          /\ setDutyCycle(0) /\ pc' = "abort"
          /\ UNCHANGED <<isRunning, ProcessHandler, ovenStage, count>>
    BY Zenon DEF PressAbort
  <1>2. isRunning /\ UNCHANGED emr
    BY <1>1, Zenon DEF AbortPressed, Press
  <1>3. duty_cycle' = 0 /\ ~ssr' /\ ssr' \in BOOLEAN
    BY <1>1, ZeroDrive
  <1>4. TypeOK'
    <2>1. Drives
      BY <1>1, <1>3, SMT DEF Drives
    <2>2. /\ isRunning' \in BOOLEAN /\ ovenStage' \in 0..12
          /\ ProcessHandler' \in Handlers \cup {"none"} /\ count' \in {0, count}
      BY <1>1, Zenon DEF Inv, TypeOK
    <2>3. pc' \in {"abort", "handler"}
      BY <1>1
    <2>4. QED
      BY <1>1, <2>1, <2>2, <2>3, PressTypes, Zenon
  <1>5. UNCHANGED <<isRunning, ProcessHandler, ovenStage>>
    BY <1>1
  <1>6. pc = "buttons" /\ pc' = "abort"
    BY <1>1, Zenon DEF Press
  <1>7. Interlock'
    BY <1>2, <1>3, <1>5, <1>6
       DEF Inv, Interlock, IdleIsCold, ZeroIsOff, DelaysAreCold, DelaysOfRun,
           EarlyStages, LastStages
  <1>8. QED
    BY <1>4, <1>7 DEF Inv

(* A run starts in stage 0 on the cold oven the last one left. *)
LEMMA PressCommandInv == Inv /\ PressCommand => Inv'
  <1> SUFFICES ASSUME Inv, PressCommand PROVE Inv'
    OBVIOUS
  <1>1. PICK held \in ButtonStates, command \in Commands :
          /\ Press(held) /\ ~isRunning
          /\ ProcessHandler' = command /\ isRunning' = TRUE /\ ovenStage' = 0 /\ count' = 0
          /\ KeepHeater /\ pc' = "handler"
    BY Zenon DEF PressCommand, StartRun
  <1>2. UNCHANGED emr
    BY <1>1, Zenon DEF Press
  <1>3. duty_cycle = 0 /\ ssr = FALSE /\ emr = FALSE
    BY <1>1 DEF Inv, TypeOK, Interlock, IdleIsCold
  <1>4. duty_cycle' = 0 /\ ssr' = FALSE /\ emr' = FALSE
    BY <1>1, <1>2, <1>3 DEF KeepHeater
  <1>5. TypeOK'
    <2>1. Drives
      BY <1>1, KeepDrives
    <2>2. /\ isRunning' \in BOOLEAN /\ ovenStage' \in 0..12
          /\ ProcessHandler' \in Handlers \cup {"none"} /\ count' \in {0, count}
          /\ pc' \in {"abort", "handler"}
      <3>1. command \in Handlers /\ 0 \in 0..12
        BY CommandsAssumption
      <3>2. QED
        BY <1>1, <3>1, Zenon
    <2>3. QED
      BY <1>1, <2>1, <2>2, PressTypes, Zenon
  <1>6. isRunning' = TRUE /\ ovenStage' = 0 /\ pc' = "handler"
    BY <1>1
  <1>7. Interlock'
    BY <1>4, <1>6
       DEF Interlock, IdleIsCold, ZeroIsOff, DelaysAreCold, DelaysOfRun,
           EarlyStages, LastStages
  <1>8. QED
    BY <1>5, <1>7 DEF Inv

(* Any other buttons leave the relays and the run alone. *)
LEMMA PressOtherInv == Inv /\ PressOther => Inv'
  <1> SUFFICES ASSUME Inv, PressOther PROVE Inv'
    OBVIOUS
  <1>1. PICK held \in ButtonStates :
          /\ Press(held) /\ KeepHeater /\ pc' = "handler"
          /\ UNCHANGED <<isRunning, ProcessHandler, ovenStage, count>>
    BY Zenon DEF PressOther
  <1>2. pc = "buttons" /\ UNCHANGED emr
    BY <1>1, Zenon DEF Press
  <1>3. TypeOK'
    <2>1. Drives
      BY <1>1, KeepDrives
    <2>2. /\ isRunning' \in BOOLEAN /\ ovenStage' \in 0..12
          /\ ProcessHandler' \in Handlers \cup {"none"} /\ count' \in {0, count}
          /\ pc' \in {"abort", "handler"}
      BY <1>1, Zenon DEF Inv, TypeOK
    <2>3. QED
      BY <1>1, <2>1, <2>2, PressTypes, Zenon
  <1>4. pc' = "handler" /\ UNCHANGED <<duty_cycle, ssr, isRunning, ProcessHandler, ovenStage>>
    BY <1>1 DEF KeepHeater
  <1>5. Interlock'
    BY <1>2, <1>4
       DEF Inv, Interlock, IdleIsCold, ZeroIsOff, DelaysAreCold, DelaysOfRun,
           EarlyStages, LastStages
  <1>6. QED
    BY <1>3, <1>5 DEF Inv

(* An aborted run ends cold. *)
LEMMA FinishAbortInv == Inv /\ FinishAbort => Inv'
  <1> SUFFICES ASSUME Inv, FinishAbort PROVE Inv'
    OBVIOUS
  <1>1. /\ pc = "abort" /\ emr' = FALSE /\ EndRun /\ pc' = "handler"
        /\ KeepHeater /\ KeepCounters /\ KeepCal
        /\ InHandler
    BY Zenon DEF FinishAbort, InHandler
  <1>2. duty_cycle = 0
    BY <1>1 DEF Inv, Interlock, DelaysAreCold
  <1>3. /\ duty_cycle' \in 0..255 /\ ssr' \in BOOLEAN /\ emr' \in BOOLEAN
        /\ isRunning' \in BOOLEAN /\ ovenStage' \in 0..12
        /\ Interlock'
    BY <1>1, <1>2, EndsCold
  <1>4. CountersOK'
    <2>1. CountersOK
      BY DEF Inv, TypeOK, CountersOK
    <2>2. QED
      BY <1>1, <2>1, KeepCountersOK
  <1>5. TypeOK'
    BY <1>1, <1>3, <1>4, TypesFromParts
  <1>6. QED
    BY <1>3, <1>5 DEF Inv

-----------------------------------------------------------------------------
(* The timer interrupt and the rest of the loop. *)
LEMMA HeaterEdgeInv == Inv /\ HeaterEdge => Inv'
  <1> SUFFICES ASSUME Inv, HeaterEdge PROVE Inv'
    OBVIOUS
  <1>1. 0 < duty_cycle /\ ssr' \in BOOLEAN /\ UNCHANGED duty_cycle
    BY Zenon DEF HeaterEdge, Heater!DriveEdge, Heater!Modulated
  <1>2. UNCHANGED <<emr, isRunning, ProcessHandler, ovenStage, ovenTemp, ovenDelta4,
                    ovenDelta32, count, ovenCounter, endCount, endSet, deltaCount, tick,
                    buttons, newButton, pc, confirmed>>
    BY Zenon DEF HeaterEdge, sensorVars, calVars, inputVars
  <1>3. TypeOK'
    BY <1>1, <1>2, Zenon DEF Inv, TypeOK
  <1>4. duty_cycle' # 0
    BY <1>1 DEF Inv, TypeOK
  <1>5. Interlock'
    BY <1>1, <1>2, <1>4, Zenon
       DEF Inv, Interlock, IdleIsCold, ZeroIsOff, DelaysAreCold, DelaysOfRun,
           EarlyStages, LastStages
  <1>6. QED
    BY <1>3, <1>5 DEF Inv

(* A stuttering step changes nothing. *)
LEMMA StutterInv == Inv /\ UNCHANGED vars => Inv'
  <1> SUFFICES ASSUME Inv, UNCHANGED vars PROVE Inv'
    OBVIOUS
  <1>1. UNCHANGED <<duty_cycle, ssr, emr, isRunning, ProcessHandler, ovenStage, ovenTemp,
                    ovenDelta4, ovenDelta32, count, ovenCounter, endCount, endSet,
                    deltaCount, tick, buttons, newButton, pc, confirmed>>
    BY DEF vars, sensorVars, calVars, inputVars
  <1>2. TypeOK'
    BY <1>1, Zenon DEF Inv, TypeOK
  <1>3. Interlock'
    BY <1>1, Zenon DEF Inv, Interlock, IdleIsCold, ZeroIsOff, DelaysAreCold, DelaysOfRun,
                       EarlyStages, LastStages
  <1>4. QED
    BY <1>2, <1>3 DEF Inv

(* Only tick, or only pc changes. *)
LEMMA TickEdgeInv == Inv /\ TickEdge => Inv'
  <1> SUFFICES ASSUME Inv, TickEdge PROVE Inv'
    OBVIOUS
  <1>1. /\ tick' = TRUE
        /\ UNCHANGED <<duty_cycle, ssr, emr, isRunning, ProcessHandler, ovenStage, ovenTemp,
                       ovenDelta4, ovenDelta32, count, ovenCounter, endCount, endSet,
                       deltaCount, buttons, newButton, pc, confirmed>>
    BY Zenon DEF TickEdge, sensorVars, calVars, inputVars
  <1>2. TypeOK'
    BY <1>1, Zenon DEF Inv, TypeOK
  <1>3. Interlock'
    BY <1>1, Zenon DEF Inv, Interlock, IdleIsCold, ZeroIsOff, DelaysAreCold, DelaysOfRun,
                       EarlyStages, LastStages
  <1>4. QED
    BY <1>2, <1>3 DEF Inv

(* A pass of the main loop outside tick and buttons keeps the invariant.    *)
LEMMA LoopStepInv == Inv /\ (NoTick \/ NoBoot \/ Bootloader) => Inv'
  <1> SUFFICES ASSUME Inv, NoTick \/ NoBoot \/ Bootloader PROVE Inv'
    OBVIOUS
  <1>1. /\ pc \in {"update", "usb"} /\ pc' \in {"usb", "buttons", "boot"}
        /\ UNCHANGED <<duty_cycle, ssr, emr, isRunning, ProcessHandler, ovenStage, ovenTemp,
                       ovenDelta4, ovenDelta32, count, ovenCounter, endCount, endSet,
                       deltaCount, tick, buttons, newButton, confirmed>>
    BY Zenon DEF NoTick, NoBoot, Bootloader, sensorVars, calVars, inputVars
  <1>2. /\ pc # "power"
        /\ pc' \notin {"abort", "stop", "dwell", "power", "trip"}
        /\ pc' \in {"buttons", "abort", "handler", "power", "dwell", "stop",
                    "update", "trip", "usb", "boot"}
    BY <1>1
  <1>3. TypeOK'
    BY <1>1, <1>2, Zenon DEF Inv, TypeOK
  <1>4. Interlock'
    BY <1>1, <1>2, Zenon
       DEF Inv, Interlock, IdleIsCold, ZeroIsOff, DelaysAreCold, DelaysOfRun,
           EarlyStages, LastStages
  <1>5. QED
    BY <1>3, <1>4 DEF Inv

(* A sample of the sensor changes neither the run nor the mains relay. *)
LEMMA SampleTypes ==
    ASSUME Inv, Sample, Drives, pc' \in {"usb", "trip"},
           tick' \in BOOLEAN, count' \in 0..(CountMod - 1)
    PROVE  TypeOK'
  <1>1. duty_cycle' \in 0..255 /\ ssr' \in BOOLEAN
    BY DrivesTypes
  <1>2. /\ ovenTemp' \in Words /\ ovenDelta4' \in SWords /\ ovenDelta32' \in SWords
    <2>1. ovenTemp' \in Temps /\ ovenDelta4' \in Deltas /\ ovenDelta32' \in Deltas32
      BY Zenon DEF Sample
    <2>2. QED
      BY <2>1, TempsAssumption, DeltasAssumption, Deltas32Assumption, Zenon
  <1>3. UNCHANGED <<emr, isRunning, ProcessHandler, ovenStage, ovenCounter, endCount,
                    endSet, deltaCount, buttons, newButton, confirmed>>
    BY Zenon DEF Sample, calVars, inputVars
  <1>4. pc' \in {"buttons", "abort", "handler", "power", "dwell", "stop",
                 "update", "trip", "usb", "boot"}
    OBVIOUS
  <1>5. QED
    BY <1>1, <1>2, <1>3, <1>4, Zenon DEF Inv, TypeOK

(* count wraps. *)
LEMMA NextCount == Inv => (count + 1) % CountMod \in 0..(CountMod - 1)
  <1>1. Inv => count + 1 \in Int
    BY DEF Inv, TypeOK
  <1>2. QED
    BY <1>1, CounterRange

(* A good sample leaves the relays and the run alone. *)
LEMMA UpdateTempInv == Inv /\ UpdateTemp => Inv'
  <1> SUFFICES ASSUME Inv, UpdateTemp PROVE Inv'
    OBVIOUS
  <1>1. /\ Sample /\ KeepHeater /\ pc' = "usb" /\ tick' = FALSE
        /\ count' = (count + 1) % CountMod
    BY Zenon DEF UpdateTemp, EndUpdate
  <1>2. TypeOK'
    <2>1. Drives /\ tick' \in BOOLEAN /\ pc' \in {"usb", "trip"}
      BY <1>1, KeepDrives
    <2>2. QED
      BY <1>1, <2>1, NextCount, SampleTypes, Zenon
  <1>3. /\ pc = "update" /\ UNCHANGED <<duty_cycle, ssr, emr, isRunning, ProcessHandler,
                                       ovenStage>>
    BY <1>1, Zenon DEF Sample, KeepHeater
  <1>4. Interlock'
    BY <1>1, <1>3
       DEF Inv, Interlock, IdleIsCold, ZeroIsOff, DelaysAreCold, DelaysOfRun,
           EarlyStages, LastStages
  <1>5. QED
    BY <1>2, <1>4 DEF Inv

(* A fault takes the heat off for the delay that follows. *)
LEMMA SensorFaultInv == Inv /\ SensorFault => Inv'
  <1> SUFFICES ASSUME Inv, SensorFault PROVE Inv'
    OBVIOUS
  <1>1. Sample /\ setDutyCycle(0) /\ pc' = "trip" /\ UNCHANGED <<count, tick>>
    BY Zenon DEF SensorFault
  <1>2. duty_cycle' = 0 /\ ~ssr' /\ ssr' \in BOOLEAN
    BY <1>1, ZeroDrive
  <1>3. TypeOK'
    <2>1. Drives
      BY <1>1, <1>2, SMT DEF Drives
    <2>2. tick' \in BOOLEAN /\ pc' \in {"usb", "trip"} /\ count' \in 0..(CountMod - 1)
      BY <1>1, Zenon DEF Inv, TypeOK
    <2>3. QED
      BY <1>1, <2>1, <2>2, SampleTypes, Zenon
  <1>4. pc = "update" /\ UNCHANGED <<emr, isRunning, ProcessHandler, ovenStage>>
    BY <1>1, Zenon DEF Sample
  <1>5. Interlock'
    BY <1>1, <1>2, <1>4
       DEF Inv, Interlock, IdleIsCold, ZeroIsOff, DelaysAreCold, DelaysOfRun,
           EarlyStages, LastStages
  <1>6. QED
    BY <1>3, <1>5 DEF Inv

(* After that delay the mains are cut, and the run goes on. *)
LEMMA FinishTripInv == Inv /\ FinishTrip => Inv'
  <1> SUFFICES ASSUME Inv, FinishTrip PROVE Inv'
    OBVIOUS
  <1>1. /\ pc = "trip" /\ emr' = FALSE /\ pc' = "usb" /\ tick' = FALSE
        /\ count' = (count + 1) % CountMod
        /\ UNCHANGED <<duty_cycle, ssr, isRunning, ProcessHandler, ovenStage, ovenTemp,
                       ovenDelta4, ovenDelta32, ovenCounter, endCount, endSet, deltaCount,
                       buttons, newButton, confirmed>>
    BY Zenon DEF FinishTrip, EndUpdate, KeepHeater, KeepCal, sensorVars, calVars, inputVars
  <1>2. TypeOK'
    <2>1. count' \in 0..(CountMod - 1)
      BY <1>1, NextCount, Zenon
    <2>2. QED
      BY <1>1, <2>1, Zenon DEF Inv, TypeOK
  <1>3. Interlock'
    BY <1>1 DEF Inv, Interlock, IdleIsCold, ZeroIsOff, DelaysAreCold, DelaysOfRun,
                EarlyStages, LastStages
  <1>4. QED
    BY <1>2, <1>3 DEF Inv

(* The state after a reset is one in which the program may start. *)
LEMMA ResetInv == Inv /\ WatchdogReset => Inv'
  <1>1. WatchdogReset => Init'
    BY Zenon DEF WatchdogReset, Init
  <1>2. Init' => Inv'
    BY InvInit, PTL
  <1>3. QED
    BY <1>1, <1>2

(* Every step of the program keeps the invariant. *)
LEMMA InvNext == Inv /\ [Next]_vars => Inv'
  BY HeaterEdgeInv, TickEdgeInv, PressAbortInv, PressCommandInv, PressOtherInv,
     FinishAbortInv, NoRunInv, CallHandlerInv, PowerUpInv, EndDwellInv, StopRunInv,
     LoopStepInv, UpdateTempInv, SensorFaultInv, FinishTripInv, ResetInv, StutterInv,
     Zenon DEF Next, MainLoop

(* Every variable of the control program keeps its type and its width:     *)
(* the invariant of the relays at every place of the main loop bounds the  *)
(* stages, and the conversions of the handlers bound the ratios.           *)
THEOREM TypeCorrect == Spec => []TypeOK
  <1>1. Inv => TypeOK
    BY DEF Inv
  <1>2. QED
    BY <1>1, InvInit, InvNext, PTL DEF Spec

(* Between runs the oven is cold, whatever ended the last one. *)
THEOREM ColdWhenIdle == Spec => []IdleIsCold
  <1>1. Inv => IdleIsCold
    BY DEF Inv, Interlock
  <1>2. QED
    BY <1>1, InvInit, InvNext, PTL DEF Spec

(* The heat is off in every stage and every delay where it is meant to be. *)
THEOREM HeatOffWhereMeant == Spec => []HeatOffStages
  <1>1. Inv => HeatOffStages
    <2> SUFFICES ASSUME Inv, HeatOff PROVE duty_cycle = 0
      BY DEF HeatOffStages, Inv, Interlock, ZeroIsOff
    <2>1. CASE ~isRunning
      BY <2>1 DEF Inv, Interlock, IdleIsCold
    <2>2. CASE isRunning
      BY <2>2 DEF HeatOff, Inv, Interlock, DelaysAreCold, EarlyStages, LastStages
    <2>3. QED
      BY <2>1, <2>2
  <1>2. QED
    BY <1>1, InvInit, InvNext, PTL DEF Spec

-----------------------------------------------------------------------------
(* The mains relay never switches under load: every action that moves it   *)
(* comes after a delay in which the heat was off, or in a stage in which   *)
(* it is off.                                                              *)
LEMMA HandlerMovesMainsCold ==
    ASSUME Inv, isRunning, pc = "handler", HandlerStep, emr' # emr
    PROVE  duty_cycle = 0 /\ KeepHeater
  <1>1. CASE ClosesMains
    BY <1>1 DEF ClosesMains, SwitchMainsOn, Inv, Interlock, EarlyStages
  <1>2. CASE Ends
    BY <1>2 DEF Ends
  <1>3. QED
    BY <1>1, <1>2 DEF HandlerStep, Idles, Regulates, TakesHeatOff

(* No other action moves the mains relay but after a delay. *)
LEMMA MainsMoveCold ==
    ASSUME Inv, [Next]_vars, emr' # emr, pc # "boot"
    PROVE  duty_cycle = 0 /\ KeepHeater
  <1>1. CASE CallHandler
    <2>1. HandlerStep /\ isRunning /\ pc = "handler"
      BY <1>1, HandlerSteps DEF CallHandler
    <2>2. QED
      BY <2>1, HandlerMovesMainsCold
  <1>2. CASE FinishAbort \/ EndDwell \/ StopRun \/ FinishTrip
    <2>1. pc \in {"abort", "dwell", "stop", "trip"} /\ KeepHeater
      BY <1>2, Zenon DEF FinishAbort, EndDwell, OpenDoor, StopRun, FinishTrip
    <2>2. QED
      BY <2>1 DEF Inv, Interlock, DelaysAreCold
  <1>3. CASE HeaterEdge \/ TickEdge \/ PressAbort \/ PressCommand \/ PressOther \/ NoRun
             \/ PowerUp \/ NoTick \/ UpdateTemp \/ SensorFault \/ NoBoot \/ Bootloader
    <2>1. emr' = emr
      BY <1>3, Zenon
         DEF HeaterEdge, TickEdge, PressAbort, PressCommand, PressOther, Press, NoRun, Wait,
             PowerUp, NoTick, UpdateTemp, Sample, SensorFault, NoBoot, Bootloader
    <2>2. QED
      BY <2>1
  <1>4. CASE UNCHANGED vars
    BY <1>4 DEF vars
  <1>5. CASE WatchdogReset
    BY <1>5 DEF WatchdogReset
  <1>6. QED
    BY <1>1, <1>2, <1>3, <1>4, <1>5, Zenon DEF Next, MainLoop

(* The mains relay never moves while the heater conducts or is asked to. *)
THEOREM MainsNeverUnderLoad == Spec => NoSwitchUnderLoad
  <1>1. Inv /\ [Next]_vars
          => [emr' # emr /\ pc # "boot" => duty_cycle = 0 /\ ~ssr /\ ~ssr']_vars
    <2> SUFFICES ASSUME Inv, [Next]_vars, emr' # emr, pc # "boot"
                 PROVE  duty_cycle = 0 /\ ~ssr /\ ~ssr'
      BY Zenon
    <2>1. duty_cycle = 0 /\ KeepHeater
      BY MainsMoveCold
    <2>2. ~ssr
      BY <2>1 DEF Inv, Interlock, ZeroIsOff
    <2>3. ssr' = ssr
      BY <2>1 DEF KeepHeater
    <2>4. QED
      BY <2>1, <2>2, <2>3, Zenon
  <1>2. QED
    BY <1>1, InvInit, InvNext, PTL DEF Spec, NoSwitchUnderLoad

-----------------------------------------------------------------------------
(* The program implements OvenContract: every step of the program is a step *)
(* of the contract or leaves the relays and the phase as they are.         *)
ContractStep == Contract!ContractNext \/ UNCHANGED <<duty_cycle, ssr, emr, Phase>>

(* A drive of the elements that leaves the phase alone is a contract step.  *)
LEMMA SamePhase ==
    ASSUME Inv, Inv', Drives, UNCHANGED <<emr, Phase>> PROVE ContractStep
  <1>1. CASE KeepHeater
    BY <1>1, Zenon DEF ContractStep, KeepHeater
  <1>2. CASE duty_cycle' \in 0..255 /\ setDutyCycle(duty_cycle')
    <2>1. CASE Phase \in {"heating", "cut off"}
      <3>1. Contract!DriveSet(duty_cycle')
        BY <1>2, Zenon DEF setDutyCycle, Heater!DriveSet, Heater!SsrAfter,
                           Contract!DriveSet, Contract!SsrAfter
      <3>2. Contract!Regulate
        BY <1>2, <2>1, <3>1, Zenon DEF Contract!Regulate, Contract!DriveSet
      <3>3. QED
        BY <3>2, Zenon DEF ContractStep, Contract!ContractNext
    <2>2. CASE Phase \notin {"heating", "cut off"}
      <3>1. /\ ~isRunning \/ (~emr /\ ovenStage <= 2)
            /\ ~isRunning' \/ (~emr' /\ ovenStage' <= 2)
        BY <2>2 DEF Phase
      <3>2. duty_cycle = 0 /\ ssr = FALSE
        BY <3>1 DEF Inv, TypeOK, Interlock, IdleIsCold, EarlyStages, ZeroIsOff
      <3>3. duty_cycle' = 0 /\ ssr' = FALSE
        BY <3>1 DEF Inv, TypeOK, Interlock, IdleIsCold, EarlyStages, ZeroIsOff
      <3>4. QED
        BY <3>2, <3>3, Zenon DEF ContractStep
    <2>3. QED
      BY <2>1, <2>2
  <1>3. QED
    BY <1>1, <1>2 DEF Drives

(* The run ends with both relays off, or mains are cut in the middle of it. *)
LEMMA FinishesRun ==
    ASSUME isRunning, duty_cycle = 0, KeepHeater, emr' = FALSE, EndRun
    PROVE  ContractStep
  <1>1. Phase # "idle" /\ Phase' = "idle"
    <2>1. isRunning' = FALSE
      OBVIOUS
    <2>2. QED
      BY <2>1 DEF Phase
  <1>2. UNCHANGED <<duty_cycle, ssr>>
    BY DEF KeepHeater
  <1>3. Contract!Finish
    BY <1>1, <1>2, Zenon DEF Contract!Finish
  <1>4. QED
    BY <1>3, Zenon DEF ContractStep, Contract!ContractNext

(* Opening the mains in the middle of a run is a step of the contract. *)
LEMMA CutsMains ==
    ASSUME Inv, duty_cycle = 0, KeepHeater, emr' = FALSE, UNCHANGED isRunning,
           ovenStage' \in Int,
           isRunning /\ emr => ovenStage' > 2,
           ovenStage' = ovenStage \/ (ovenStage > 2 /\ ovenStage' > 2)
    PROVE  ContractStep
  <1>1. UNCHANGED <<duty_cycle, ssr>>
    BY DEF KeepHeater
  <1>2. CASE isRunning /\ emr
    <2>1. Phase = "heating" /\ Phase' = "cut off"
      <3>1. ~emr' /\ isRunning' /\ ~(ovenStage' <= 2)
        BY <1>2
      <3>2. QED
        BY <1>2, <3>1, Zenon DEF Phase
    <2>2. Contract!CutOff
      BY <1>1, <2>1, Zenon DEF Contract!CutOff
    <2>3. QED
      BY <2>2, Zenon DEF ContractStep, Contract!ContractNext
  <1>3. CASE ~emr \/ ~isRunning
    <2>1. emr = FALSE
      BY <1>3 DEF Inv, TypeOK, Interlock, IdleIsCold
    <2>2. (ovenStage' <= 2) <=> (ovenStage <= 2)
      BY DEF Inv, TypeOK
    <2>3. Phase' = Phase
      BY <2>1, <2>2, Zenon DEF Phase
    <2>4. QED
      BY <1>1, <2>1, <2>3, Zenon DEF ContractStep
  <1>4. QED
    BY <1>2, <1>3

(* A step of a handler is a step of the contract, by its kind. *)
LEMMA HandlerContract ==
    ASSUME Inv, Inv', isRunning, pc = "handler", HandlerStep
    PROVE  ContractStep
  <1>1. CASE Idles
    <2>1. UNCHANGED <<emr, isRunning>> /\ Drives
      BY <1>1, KeepDrives DEF Idles
    <2>2. (ovenStage' <= 2) <=> (ovenStage <= 2)
      BY <1>1 DEF Idles, Inv, TypeOK
    <2>3. Phase' = Phase
      BY <2>1, <2>2, Zenon DEF Phase
    <2>4. QED
      BY <2>1, <2>3, SamePhase
  <1>2. CASE ClosesMains
    <2>1. emr = FALSE /\ duty_cycle = 0 /\ ovenStage <= 2
      BY <1>2 DEF ClosesMains, Inv, TypeOK, Interlock, EarlyStages
    <2>2. emr' = TRUE /\ UNCHANGED <<duty_cycle, ssr, isRunning>>
      BY <1>2, Zenon DEF ClosesMains, SwitchMainsOn, KeepHeater, KeepRun
    <2>3. Phase = "waiting" /\ Phase' = "heating"
      BY <2>1, <2>2, Zenon DEF Phase
    <2>4. Contract!CloseMains
      BY <2>1, <2>2, <2>3, Zenon DEF Contract!CloseMains
    <2>5. QED
      BY <2>4, Zenon DEF ContractStep, Contract!ContractNext
  <1>3. CASE Regulates
    <2>1. UNCHANGED <<emr, isRunning>> /\ Drives
      BY <1>3, Zenon DEF Regulates
    <2>2. ~(ovenStage <= 2) /\ ~(ovenStage' <= 2)
      BY <1>3 DEF Regulates
    <2>3. Phase' = Phase
      BY <2>1, <2>2, Zenon DEF Phase
    <2>4. QED
      BY <2>1, <2>3, SamePhase
  <1>4. CASE TakesHeatOff
    <2>1. UNCHANGED <<emr, isRunning, ovenStage>> /\ setDutyCycle(0)
      BY <1>4, Zenon DEF TakesHeatOff, KeepRun
    <2>2. Drives
      BY <2>1, ZeroDrive, SMT DEF Drives
    <2>3. Phase' = Phase
      BY <2>1, Zenon DEF Phase
    <2>4. QED
      BY <2>1, <2>2, <2>3, SamePhase
  <1>5. CASE Ends
    BY <1>5, FinishesRun, Zenon DEF Ends
  <1>6. QED
    BY <1>1, <1>2, <1>3, <1>4, <1>5 DEF HandlerStep

(* So is every step of the program. *)
LEMMA NextContract ==
    ASSUME Inv, Inv', [Next]_vars PROVE ContractStep
  <1>1. CASE CallHandler
    BY <1>1, HandlerSteps, HandlerContract, Zenon DEF CallHandler
  <1>2. CASE TickEdge \/ PressOther \/ NoRun \/ NoTick \/ UpdateTemp \/ NoBoot \/ Bootloader
    <2>1. UNCHANGED <<duty_cycle, ssr, emr, isRunning, ovenStage>>
      BY <1>2, Zenon DEF TickEdge, PressOther, Press, NoRun, Wait, NoTick, UpdateTemp, Sample,
                         NoBoot, Bootloader, KeepHeater, KeepRun
    <2>2. QED
      BY <2>1, Zenon DEF ContractStep, Phase
  <1>3. CASE UNCHANGED vars
    <2>1. UNCHANGED <<duty_cycle, ssr, emr, isRunning, ovenStage>>
      BY <1>3 DEF vars
    <2>2. QED
      BY <2>1, Zenon DEF ContractStep, Phase
  <1>4. CASE HeaterEdge
    <2>1. /\ 0 < duty_cycle /\ Contract!DriveEdge
          /\ UNCHANGED <<emr, isRunning, ovenStage>>
      BY <1>4, Zenon DEF HeaterEdge, Heater!DriveEdge, Heater!Modulated,
                         Contract!DriveEdge, Contract!Modulated
    <2>2. isRunning /\ ~(ovenStage <= 2)
      BY <2>1 DEF Inv, TypeOK, Interlock, IdleIsCold, EarlyStages
    <2>3. Phase \in {"heating", "cut off"} /\ Phase' = Phase
      BY <2>1, <2>2, Zenon DEF Phase
    <2>4. Contract!Edge
      BY <2>1, <2>3, Zenon DEF Contract!Edge
    <2>5. QED
      BY <2>4, Zenon DEF ContractStep, Contract!ContractNext
  <1>5. CASE PressAbort \/ SensorFault
    <2>1. setDutyCycle(0) /\ UNCHANGED <<emr, isRunning, ovenStage>>
      BY <1>5, Zenon DEF PressAbort, SensorFault, Press, Sample
    <2>2. Drives
      BY <2>1, ZeroDrive, SMT DEF Drives
    <2>3. Phase' = Phase
      BY <2>1, Zenon DEF Phase
    <2>4. QED
      BY <2>1, <2>2, <2>3, SamePhase
  <1>6. CASE PressCommand
    <2>1. /\ ~isRunning /\ isRunning' = TRUE /\ ovenStage' = 0
          /\ UNCHANGED <<duty_cycle, ssr, emr>>
      BY <1>6, Zenon DEF PressCommand, Press, StartRun, KeepHeater
    <2>2. emr = FALSE
      BY <2>1 DEF Inv, TypeOK, Interlock, IdleIsCold
    <2>3. ovenStage' <= 2
      BY <2>1
    <2>4. Phase = "idle" /\ Phase' = "waiting"
      BY <2>1, <2>2, <2>3, Zenon DEF Phase
    <2>5. Contract!Begin
      BY <2>1, <2>4, Zenon DEF Contract!Begin
    <2>6. QED
      BY <2>5, Zenon DEF ContractStep, Contract!ContractNext
  <1>7. CASE FinishAbort \/ StopRun
    <2>1. pc \in {"abort", "stop"} /\ KeepHeater /\ emr' = FALSE /\ EndRun
      BY <1>7, Zenon DEF FinishAbort, StopRun
    <2>2. isRunning /\ duty_cycle = 0
      BY <2>1 DEF Inv, Interlock, DelaysOfRun, DelaysAreCold
    <2>3. QED
      BY <2>1, <2>2, FinishesRun
  <1>8. CASE EndDwell \/ FinishTrip
    <2>1. /\ pc \in {"dwell", "trip"} /\ KeepHeater /\ emr' = FALSE /\ UNCHANGED isRunning
          /\ \/ pc = "dwell" /\ ovenStage' = ovenStage + 1
             \/ pc = "trip" /\ ovenStage' = ovenStage
      BY <1>8, Zenon DEF EndDwell, OpenDoor, FinishTrip
    <2>2. /\ duty_cycle = 0
          /\ isRunning /\ emr => ovenStage' > 2
          /\ ovenStage' = ovenStage \/ (ovenStage > 2 /\ ovenStage' > 2)
          /\ ovenStage' \in Int
      BY <2>1 DEF Inv, TypeOK, Interlock, DelaysOfRun, DelaysAreCold, EarlyStages
    <2>3. QED
      BY <2>1, <2>2, CutsMains
  <1>9. CASE PowerUp
    <2>1. isRunning /\ emr = TRUE /\ emr' = TRUE
      BY <1>9 DEF PowerUp, Inv, TypeOK, Interlock, DelaysOfRun
    <2>2. Drives /\ UNCHANGED isRunning
      BY <1>9, PowerUpEffect
    <2>3. Phase' = Phase
      BY <2>1, <2>2, Zenon DEF Phase
    <2>4. QED
      BY <2>1, <2>2, <2>3, SamePhase
  <1>10. CASE WatchdogReset
    <2>1. duty_cycle' = 0 /\ ssr' = FALSE /\ emr' = FALSE /\ isRunning' = FALSE
      BY <1>10, Zenon DEF WatchdogReset
    <2>2. Phase' = "idle"
      BY <2>1, Zenon DEF Phase
    <2>3. Contract!Reset
      BY <2>1, <2>2, Zenon DEF Contract!Reset
    <2>4. QED
      BY <2>3, Zenon DEF ContractStep, Contract!ContractNext
  <1>11. QED
    BY <1>1, <1>2, <1>3, <1>4, <1>5, <1>6, <1>7, <1>8, <1>9, <1>10, Zenon DEF Next, MainLoop

(* The main loop with all its handlers keeps the promises of OvenContract. *)
THEOREM ImplementsOvenContract == Spec => ImplementsContract
  <1>1. Init => Contract!ContractInit
    <2>1. Init => Phase = "idle"
      BY Zenon DEF Init, Phase
    <2>2. QED
      BY <2>1, Zenon DEF Init, Contract!ContractInit, Contract!DriveInit
  <1>2. Inv /\ Inv' /\ [Next]_vars => [Contract!ContractNext]_(Contract!contractVars)
    BY NextContract, Zenon DEF ContractStep, Contract!contractVars
  <1>3. QED
    BY <1>1, <1>2, InvInit, InvNext, PTL DEF Spec, ImplementsContract, Contract!ContractSpec
=============================================================================
