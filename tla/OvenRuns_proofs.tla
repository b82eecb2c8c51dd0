--------------------------- MODULE OvenRuns_proofs ---------------------------
(***************************************************************************)
(* What the runs of the oven owe their operator, for every profile, every  *)
(* reading of the sensor and every length of the calibration's stages: no  *)
(* heat without a confirmation, no run above 270 C, no mains on a faulty   *)
(* sensor, and stages that meet their end and last long enough.            *)
(***************************************************************************)
EXTENDS ReflowOven_proofs

-----------------------------------------------------------------------------
(* What the handlers do to the rest of a run's state. *)
USE DEF Return, NextStage, EndRun, EMR_ON, EMR_OFF

(* Every handler but that of the reflow run looks at the temperature       *)
(* before it does anything else.                                           *)
LEMMA HandlersCheckTemp ==
    ASSUME CallHandler, ProcessHandler # "RunProfile"
    PROVE  ~OverTemp \/ (pc' = "stop" /\ UNCHANGED emr)
  <1>1. StopOverTemp => pc' = "stop" /\ UNCHANGED emr
    BY Zenon DEF StopOverTemp, HeatOffThen
  <1>2. StopOverTemp \/ ~OverTemp
    BY Zenon DEF CallHandler, CalibrateOvenHandler, PIDTestHandler, Calibrate60cHandler,
                 Calibrate120cHandler, RiseHandler
  <1>3. QED
    BY <1>1, <1>2

(* The reflow run clears count when it switches the mains on. *)
LEMMA RunProfileCount ==
    ASSUME RunProfileHandler
    PROVE  count' = 0 \/ UNCHANGED <<count, emr>>
  <1>1. Wait => UNCHANGED <<count, emr>>
    BY Zenon DEF Wait, KeepCounters
  <1>2. CloseDoor \/ AwaitEnter \/ AwaitPreheat \/ Soak \/ Cooldown \/ PreheatCutoff
          \/ ReflowCutoff \/ AwaitPeak \/ Dwell => UNCHANGED <<count, emr>>
    BY <1>1, Zenon DEF CloseDoor, AwaitEnter, AwaitPreheat, Soak, Cooldown, PreheatCutoff,
                       ReflowCutoff, AwaitPeak, Dwell, KeepCounters, HeatOffThen
  <1>3. Preheat => count' = 0
    BY DEF Preheat
  <1>4. QED
    BY <1>2, <1>3, Zenon DEF RunProfileHandler

(* A run waits in stage 1 until ENTER is the button just pressed. *)
LEMMA EnterLeavesStageOne ==
    ASSUME CallHandler, ProcessHandler # "PIDTest", ovenStage = 1, ovenStage' = 2
    PROVE  newButton # 0 /\ buttons = ENTER
  <1>1. AwaitEnter => newButton # 0 /\ buttons = ENTER
    BY DEF AwaitEnter, KeepRun
  <1>2. ~StopOverTemp
    BY DEF StopOverTemp, HeatOffThen, KeepRun
  <1>3. ~CloseDoor
    BY DEF CloseDoor
  <1>4. CASE RunProfileHandler
    <2>1. /\ Preheat => ovenStage = 2
          /\ PreheatCutoff => ovenStage = 3
          /\ AwaitPreheat => ovenStage = 4
          /\ Soak => ovenStage = 5
          /\ ReflowCutoff => ovenStage = 6
          /\ AwaitPeak => ovenStage = 7
          /\ Dwell => ovenStage = 8
          /\ Cooldown => ovenStage = 9
      BY Zenon DEF Preheat, PreheatCutoff, AwaitPreheat, Soak, ReflowCutoff, AwaitPeak,
                   Dwell, Cooldown
    <2>2. QED
      BY <1>1, <1>3, <1>4, <2>1 DEF RunProfileHandler
  <1>5. CASE CalibrateOvenHandler
    <2>1. /\ OcalStart => ovenStage = 2
          /\ HoldStage \/ FinishStage => ovenStage \in 3..12
      BY Zenon DEF OcalStart, HoldStage, FinishStage
    <2>2. QED
      BY <1>1, <1>2, <1>3, <1>5, <2>1 DEF CalibrateOvenHandler
  <1>6. CASE Calibrate60cHandler \/ Calibrate120cHandler
    <2>1. \/ AwaitEnter \/ CloseDoor \/ StopOverTemp
          \/ ovenStage = 2 \/ ovenStage = 3 \/ ovenStage = 4 \/ ovenStage = 5
      BY <1>6, Zenon DEF Calibrate60cHandler, Calibrate120cHandler, RiseHandler,
                         RiseStart, RiseFirstMark, RiseCutoff, RisePeak
    <2>2. ~(ovenStage = 2 \/ ovenStage = 3 \/ ovenStage = 4 \/ ovenStage = 5)
      OBVIOUS
    <2>3. QED
      BY <1>1, <1>2, <1>3, <2>1, <2>2, Zenon
  <1>7. QED
    BY <1>4, <1>5, <1>6, Zenon DEF CallHandler

-----------------------------------------------------------------------------
(* The steps that leave what a run is doing as it was. *)

(* The interrupt, and the loop on its way from one handler to the next. *)
LoopSteps ==
    \/ HeaterEdge \/ TickEdge \/ UNCHANGED vars
    \/ NoTick \/ NoBoot \/ Bootloader

Same == UNCHANGED <<emr, isRunning, ProcessHandler, ovenStage, sensorVars, count,
                    ovenCounter, calVars, inputVars, confirmed>>

(* They change nothing but the relays' drive and tick; of the loop's places *)
(* they leave only update and usb, and reach none where a handler is.       *)
LEMMA LoopKeeps ==
    ASSUME LoopSteps
    PROVE  Same /\ (pc' = pc \/ (pc \in {"update", "usb"} /\ pc' \in {"usb", "buttons", "boot"}))
  BY Zenon DEF LoopSteps, HeaterEdge, TickEdge, vars, NoTick, NoBoot, Bootloader, Same

(* The steps that end a run or find it ended. *)
EndSteps == FinishAbort \/ StopRun \/ NoRun \/ WatchdogReset

(* No run is in progress after them. *)
LEMMA EndStepsIdle ==
    ASSUME EndSteps PROVE ~isRunning' /\ pc' # "power" /\ (emr' = FALSE \/ NoRun)
  <1>1. CASE FinishAbort \/ StopRun \/ WatchdogReset
    <2>1. isRunning' = FALSE /\ emr' = FALSE /\ pc' \in {"handler", "update", "buttons"}
      BY <1>1, Zenon DEF FinishAbort, StopRun, WatchdogReset
    <2>2. QED
      BY <2>1
  <1>2. CASE NoRun
    BY <1>2 DEF NoRun, Wait, KeepRun
  <1>3. QED
    BY <1>1, <1>2 DEF EndSteps

-----------------------------------------------------------------------------
(* No run but the reflow profile goes on above 270 C. *)
LEMMA OverTempNext == Inv /\ OverTempStops /\ [Next]_vars => OverTempStops'
  <1> SUFFICES ASSUME Inv, OverTempStops, [Next]_vars,
                      pc' \in {"update", "power"}, isRunning', ProcessHandler' # "RunProfile"
               PROVE  ovenTemp' <= 1080
    BY DEF OverTempStops
  <1>0. ovenTemp \in Int
    BY WordsAreIntegers DEF Inv, TypeOK
  <1>1. CASE CallHandler
    <2>1. ovenTemp' = ovenTemp /\ ProcessHandler' = ProcessHandler
      BY <1>1 DEF CallHandler, InHandler, sensorVars
    <2>2. ~OverTemp
      BY <1>1, <2>1, HandlersCheckTemp
    <2>3. QED
      BY <1>0, <2>1, <2>2 DEF OverTemp
  <1>2. CASE PowerUp
    <2>1. pc = "power" /\ isRunning
      BY <1>2 DEF PowerUp, Inv, Interlock, DelaysOfRun
    <2>2. ovenTemp' = ovenTemp /\ ProcessHandler' = ProcessHandler
      BY <1>2 DEF PowerUp, InHandler, sensorVars
    <2>3. QED
      BY <2>1, <2>2 DEF OverTempStops
  <1>3. CASE EndDwell
    BY <1>3 DEF EndDwell, InHandler, Inv, Interlock, DelaysOfRun
  <1>4. CASE EndSteps
    BY <1>4, EndStepsIdle
  <1>5. CASE LoopSteps
    <2>1. Same /\ pc' = pc
      BY <1>5, LoopKeeps
    <2>2. QED
      BY <2>1 DEF Same, sensorVars, OverTempStops
  <1>6. CASE PressAbort \/ PressCommand \/ PressOther \/ UpdateTemp \/ SensorFault \/ FinishTrip
    <2>1. pc' \in {"abort", "handler", "usb", "trip"}
      BY <1>6, Zenon DEF PressAbort, PressCommand, PressOther, UpdateTemp, SensorFault,
                         FinishTrip, EndUpdate
    <2>2. QED
      BY <2>1
  <1>7. QED
    BY <1>1, <1>2, <1>3, <1>4, <1>5, <1>6, Zenon DEF Next, MainLoop, EndSteps, LoopSteps

(* A reading above 270 C stops every run but the reflow profile before the *)
(* loop goes on from its handler.                                          *)
THEOREM HotRunsStop == Spec => []OverTempStops
  <1>1. Init => OverTempStops
    BY DEF Init, OverTempStops
  <1>2. QED
    BY <1>1, InvInit, InvNext, OverTempNext, PTL DEF Spec

-----------------------------------------------------------------------------
(* Without a confirmation a run does not get to its third stage.  The      *)
(* press that the handler is about to see may be the confirmation.         *)
Confirmed ==
    /\ isRunning /\ ProcessHandler # "PIDTest" /\ ovenStage >= 2 => confirmed
    /\ pc = "handler" /\ isRunning /\ ovenStage = 1 /\ newButton # 0 /\ buttons = ENTER
         => confirmed

(* A handler goes on only when it was confirmed. *)
LEMMA HandlerConfirms ==
    ASSUME Inv, Confirmed, CallHandler, isRunning', ProcessHandler # "PIDTest",
           ovenStage' >= 2
    PROVE  confirmed
  <1>0. isRunning /\ pc = "handler" /\ ovenStage \in 0..12
    BY DEF CallHandler, Inv, TypeOK
  <1>1. ovenStage >= 2 => confirmed
    BY <1>0 DEF Confirmed
  <1>2. CASE Idles
    <2>1. ovenStage >= 2 \/ (ovenStage = 1 /\ ovenStage' = 2)
      BY <1>0, <1>2 DEF Idles
    <2>2. QED
      BY <1>0, <1>1, <2>1, EnterLeavesStageOne DEF Confirmed
  <1>3. CASE ClosesMains \/ TakesHeatOff
    <2>1. ovenStage' = ovenStage
      BY <1>3 DEF ClosesMains, SwitchMainsOn, TakesHeatOff, KeepRun
    <2>2. QED
      BY <1>1, <2>1
  <1>4. CASE Regulates
    BY <1>1, <1>4 DEF Regulates
  <1>5. CASE Ends
    BY <1>5 DEF Ends
  <1>6. QED
    BY <1>2, <1>3, <1>4, <1>5, HandlerSteps DEF HandlerStep

(* A press during a run counts as its confirmation, and none is forgotten. *)
LEMMA PressConfirms ==
    ASSUME Inv, Confirmed, NEW held \in ButtonStates, Press(held),
           UNCHANGED <<isRunning, ProcessHandler, ovenStage>>
    PROVE  Confirmed'
  <1>1. /\ buttons' = held /\ newButton' = ReadButtons(held)
        /\ confirmed' = (isRunning /\ (confirmed \/ (held = ENTER /\ held # buttons)))
    BY DEF Press
  <1>2. newButton' # 0 => held # buttons
    BY <1>1 DEF ReadButtons
  <1>3. ENTER' = ENTER
    BY DEF ENTER
  <1>4. QED
    BY <1>1, <1>2, <1>3, Zenon DEF Confirmed

(* Every step keeps it. *)
LEMMA ConfirmedNext == Inv /\ Confirmed /\ [Next]_vars => Confirmed'
  <1> SUFFICES ASSUME Inv, Confirmed, [Next]_vars PROVE Confirmed'
    OBVIOUS
  <1>1. CASE CallHandler
    <2>1. pc' # "handler"
      BY <1>1, HandlerSteps DEF HandlerStep, Idles, ClosesMains, SwitchMainsOn, Regulates,
                                TakesHeatOff, Ends
    <2>2. UNCHANGED <<ProcessHandler, confirmed>>
      BY <1>1 DEF CallHandler, InHandler
    <2>3. isRunning' /\ ProcessHandler # "PIDTest" /\ ovenStage' >= 2 => confirmed
      BY <1>1, HandlerConfirms
    <2>4. QED
      BY <2>1, <2>2, <2>3, Zenon DEF Confirmed
  <1>2. CASE PowerUp
    <2>1. isRunning /\ ovenStage = (IF ProcessHandler = "PIDTest" THEN 0 ELSE 2)
      BY <1>2 DEF PowerUp, Inv, Interlock, DelaysOfRun
    <2>2. pc' = "update" /\ UNCHANGED <<ProcessHandler, confirmed>>
      BY <1>2 DEF PowerUp, InHandler
    <2>3. QED
      BY <2>1, <2>2 DEF Confirmed
  <1>3. CASE EndDwell
    <2>1. isRunning /\ ovenStage = 8 /\ ProcessHandler = "RunProfile"
      BY <1>3 DEF EndDwell, Inv, Interlock, DelaysOfRun
    <2>2. pc' = "update" /\ UNCHANGED <<ProcessHandler, confirmed>>
      BY <1>3 DEF EndDwell, InHandler
    <2>3. QED
      BY <2>1, <2>2 DEF Confirmed
  <1>4. CASE EndSteps
    BY <1>4, EndStepsIdle DEF Confirmed
  <1>5. CASE LoopSteps
    BY <1>5, LoopKeeps DEF Same, inputVars, Confirmed, ENTER
  <1>6. CASE PressCommand
    BY <1>6 DEF PressCommand, StartRun, Confirmed
  <1>7. CASE PressAbort \/ PressOther
    <2>1. PICK held \in ButtonStates :
             Press(held) /\ UNCHANGED <<isRunning, ProcessHandler, ovenStage>>
      BY <1>7, Zenon DEF PressAbort, PressOther
    <2>2. QED
      BY <2>1, PressConfirms
  <1>8. CASE UpdateTemp \/ SensorFault \/ FinishTrip
    <2>1. /\ UNCHANGED <<isRunning, ProcessHandler, ovenStage, confirmed>>
          /\ pc' \in {"usb", "trip"}
      BY <1>8, Zenon DEF UpdateTemp, SensorFault, FinishTrip, EndUpdate, Sample
    <2>2. QED
      BY <2>1 DEF Confirmed
  <1>9. QED
    BY <1>1, <1>2, <1>3, <1>4, <1>5, <1>6, <1>7, <1>8, Zenon
       DEF Next, MainLoop, EndSteps, LoopSteps

(* The mains of a run that asks for the door to be closed are on only      *)
(* after ENTER was pressed a second time.                                  *)
THEOREM HeatIsConfirmed == Spec => []HeatNeedsConfirm
  <1>1. Init => Confirmed
    BY DEF Init, Confirmed
  <1>2. Inv /\ Confirmed => HeatNeedsConfirm
    <2> SUFFICES ASSUME Inv, Confirmed, emr, ProcessHandler # "PIDTest" PROVE confirmed
      BY DEF HeatNeedsConfirm
    <2>1. isRunning
      BY DEF Inv, Interlock, IdleIsCold
    <2>2. ovenStage >= 2
      BY <2>1 DEF Inv, TypeOK, Interlock, EarlyStages, DelaysOfRun
    <2>3. QED
      BY <2>1, <2>2 DEF Confirmed
  <1>3. QED
    BY <1>1, <1>2, InvInit, InvNext, ConfirmedNext, PTL DEF Spec

-----------------------------------------------------------------------------
(* A faulty sensor has the mains off before the loop goes on. *)
LEMMA FaultNext == Inv /\ FaultCutsMains /\ [Next]_vars => FaultCutsMains'
  <1> SUFFICES ASSUME Inv, FaultCutsMains, [Next]_vars, emr', Fault(ovenTemp')
               PROVE  pc' = "trip" \/ (ProcessHandler' = "RunProfile" /\ count' = 0)
    BY DEF FaultCutsMains, Fault, Word
  <1>1. CASE CallHandler
    <2>1. /\ UNCHANGED <<ProcessHandler, ovenTemp>> /\ pc = "handler"
      BY <1>1 DEF CallHandler, InHandler, sensorVars
    <2>2. emr => ProcessHandler = "RunProfile" /\ count = 0
      BY <2>1 DEF FaultCutsMains
    <2>3. OverTemp
      <3>1. ovenTemp \in Int /\ ovenTemp >= Word - 3
        BY <2>1, WordsAreIntegers DEF Inv, TypeOK, Fault
      <3>2. QED
        BY <3>1, SMT DEF Word, OverTemp
    <2>4. CASE ProcessHandler = "RunProfile"
      <3>1. RunProfileHandler
        BY <1>1, <2>4 DEF CallHandler
      <3>2. QED
        BY <2>1, <2>2, <2>4, <3>1, RunProfileCount
    <2>5. CASE ProcessHandler # "RunProfile"
      BY <1>1, <2>2, <2>3, <2>5, HandlersCheckTemp
    <2>6. QED
      BY <2>4, <2>5
  <1>2. CASE PowerUp
    <2>1. pc = "power" /\ UNCHANGED <<ProcessHandler, ovenTemp, emr>>
      BY <1>2 DEF PowerUp, InHandler, sensorVars
    <2>2. UNCHANGED count
      BY <1>2, PowerUpEffect DEF KeepCounters
    <2>3. QED
      BY <2>1, <2>2 DEF FaultCutsMains
  <1>3. CASE EndDwell \/ FinishTrip
    BY <1>3, Zenon DEF EndDwell, OpenDoor, FinishTrip
  <1>4. CASE EndSteps
    <2>1. NoRun
      BY <1>4, EndStepsIdle
    <2>2. UNCHANGED emr /\ ~isRunning
      BY <2>1 DEF NoRun, Wait
    <2>3. QED
      BY <2>2 DEF Inv, Interlock, IdleIsCold
  <1>5. CASE LoopSteps
    BY <1>5, LoopKeeps DEF Same, sensorVars, FaultCutsMains
  <1>6. CASE PressCommand
    BY <1>6 DEF PressCommand, Press, Inv, Interlock, IdleIsCold
  <1>7. CASE PressAbort \/ PressOther
    <2>1. pc = "buttons" /\ UNCHANGED <<emr, ovenTemp, ProcessHandler, count>>
      BY <1>7, Zenon DEF PressAbort, PressOther, Press, sensorVars
    <2>2. QED
      BY <2>1 DEF FaultCutsMains
  <1>8. CASE UpdateTemp \/ SensorFault
    BY <1>8, Zenon DEF UpdateTemp, SensorFault
  <1>9. QED
    BY <1>1, <1>2, <1>3, <1>4, <1>5, <1>6, <1>7, <1>8, Zenon
       DEF Next, MainLoop, EndSteps, LoopSteps

(* While the thermocouple is faulty the mains are off, but for the delay   *)
(* that takes them off and the first sample of a reflow run.               *)
THEOREM FaultsCutMains == Spec => []FaultCutsMains
  <1>1. Init => FaultCutsMains
    BY DEF Init, FaultCutsMains
  <1>2. QED
    BY <1>1, InvInit, InvNext, FaultNext, PTL DEF Spec

-----------------------------------------------------------------------------
(* The stages of a calibration. *)
InStages == isRunning /\ ProcessHandler = "CalibrateOven" /\ ovenStage \in 3..12

(* The count has not met the end when UpdateTemp counts on, and the end    *)
(* moves at most once in a stage: from the limit it begins with.           *)
StageEnds ==
    /\ pc = "power" /\ ProcessHandler = "CalibrateOven" => count = 0
    /\ InStages =>
         /\ count <= endCount
         /\ pc \in {"update", "trip"} => count < endCount
         /\ OcalShort <= endCount /\ endCount <= OcalLimit + OcalExtra
         /\ ~endSet => endCount = OcalLimit

(* The counters are integers. *)
LEMMA OcalNumbers ==
    ASSUME Inv
    PROVE  /\ count \in Nat /\ endCount \in Nat /\ CountMod \in Nat
           /\ OcalLimit \in Nat /\ OcalSettle \in Nat /\ OcalLate \in Nat
           /\ OcalExtra \in Nat /\ OcalShort \in Nat
           /\ 0 < OcalShort /\ OcalLate <= OcalShort /\ OcalShort <= OcalLate + OcalExtra
           /\ OcalShort <= OcalLimit /\ OcalLimit + OcalExtra < CountMod
  <1>1. CountMod \in Nat
    BY CountModAssumption
  <1>2. count \in Nat /\ endCount \in Nat
    BY <1>1 DEF Inv, TypeOK
  <1>3. QED
    BY <1>1, <1>2, OcalAssumption

(* Where OCALStageDone puts the end: not before the count, and not before  *)
(* the stage has lasted OcalShort half seconds.                            *)
LEMMA StageEndBounds ==
    ASSUME Inv, StageEnds, InStages
    PROVE  /\ StageEnd \in Nat
           /\ count <= StageEnd
           /\ OcalShort <= StageEnd /\ StageEnd <= OcalLimit + OcalExtra
           /\ ~(endSet \/ FoundFlat) => StageEnd = OcalLimit
  <1>0. /\ count <= endCount
        /\ OcalShort <= endCount /\ endCount <= OcalLimit + OcalExtra
        /\ ~endSet => endCount = OcalLimit
    BY DEF StageEnds
  <1>1. CASE ~FoundFlat
    <2>1. StageEnd = endCount
      BY <1>1 DEF StageEnd
    <2>2. QED
      BY <1>0, <1>1, <2>1, OcalNumbers
  <1>2. CASE FoundFlat /\ count >= OcalLate
    <2>1. endCount = OcalLimit
      BY <1>0, <1>2 DEF FoundFlat
    <2>2. count + OcalExtra \in 0..(CountMod - 1)
      BY <1>0, <2>1, OcalNumbers
    <2>3. (count + OcalExtra) % CountMod = count + OcalExtra
      BY <2>2, CountModAssumption, SMT
    <2>4. StageEnd = count + OcalExtra
      BY <1>2, <2>3 DEF StageEnd
    <2>5. QED
      BY <1>0, <1>2, <2>1, <2>4, OcalNumbers
  <1>3. CASE FoundFlat /\ ~(count >= OcalLate)
    <2>1. StageEnd = OcalShort
      BY <1>3 DEF StageEnd
    <2>2. QED
      BY <1>3, <2>1, OcalNumbers
  <1>4. QED
    BY <1>1, <1>2, <1>3

(* The handler of the calibration keeps the end ahead of the count. *)
LEMMA HandlerStageEnds ==
    ASSUME Inv, StageEnds, isRunning, ProcessHandler = "CalibrateOven", pc = "handler",
           CalibrateOvenHandler, InHandler
    PROVE  StageEnds'
  <1>0. ProcessHandler' = ProcessHandler
    BY DEF InHandler
  <1>1. CASE CloseDoor \/ AwaitEnter
    <2>1. /\ ovenStage \in {0, 1} /\ ovenStage' \in {ovenStage, ovenStage + 1}
          /\ pc' = "update"
      BY <1>1, Zenon DEF CloseDoor, AwaitEnter, KeepRun
    <2>2. ovenStage' \in {0, 1, 2}
      BY <2>1
    <2>3. QED
      BY <2>1, <2>2 DEF StageEnds, InStages
  <1>2. CASE StopOverTemp
    <2>1. /\ UNCHANGED <<isRunning, ovenStage, count, endCount, endSet>>
          /\ pc' = "stop"
      BY <1>2 DEF StopOverTemp, HeatOffThen, KeepRun, KeepCounters, KeepCal, calVars
    <2>2. QED
      BY <1>0, <2>1 DEF StageEnds, InStages
  <1>3. CASE OcalStart
    <2>1. ovenStage' = 2 /\ count' = 0
      BY <1>3 DEF OcalStart, SwitchMainsOn, KeepRun
    <2>2. QED
      BY <2>1 DEF StageEnds, InStages
  <1>4. CASE HoldStage
    <2>1. InStages
      BY <1>4, Zenon DEF HoldStage, InStages
    <2>2. /\ endCount' = StageEnd /\ endSet' = (endSet \/ FoundFlat) /\ count' = count
          /\ pc' = "update"
          /\ count # StageEnd
      BY <1>4, Zenon DEF HoldStage, StageDone, KeepCounters
    <2>3. count < StageEnd
      BY <2>1, <2>2, StageEndBounds, OcalNumbers
    <2> HIDE DEF StageEnds
    <2>4. /\ count' <= endCount' /\ count' < endCount'
          /\ OcalShort <= endCount' /\ endCount' <= OcalLimit + OcalExtra
      BY <2>1, <2>2, <2>3, StageEndBounds, OcalNumbers
    <2>5. ~endSet' => endCount' = OcalLimit
      BY <2>1, <2>2, StageEndBounds, Zenon
    <2>6. QED
      BY <2>2, <2>4, <2>5 DEF StageEnds
  <1>5. CASE FinishStage
    <2>1. count' = 0 /\ endCount' = OcalLimit /\ pc' # "power"
      BY <1>5, Zenon DEF FinishStage, HeatOffThen
    <2>2. /\ 0 < OcalLimit /\ OcalShort <= OcalLimit /\ OcalLimit <= OcalLimit + OcalExtra
          /\ 0 <= OcalLimit
      BY OcalNumbers
    <2>3. QED
      BY <2>1, <2>2 DEF StageEnds
  <1>6. QED
    BY <1>1, <1>2, <1>3, <1>4, <1>5, Zenon DEF CalibrateOvenHandler

(* UpdateTemp counts on, at most to the end. *)
LEMMA CountsToEnd ==
    ASSUME Inv, StageEnds, pc \in {"update", "trip"}, EndUpdate,
           UNCHANGED <<isRunning, ProcessHandler, ovenStage, endCount, endSet>>
    PROVE  StageEnds'
  <1>1. count' = (count + 1) % CountMod /\ pc' = "usb"
    BY DEF EndUpdate
  <1>2. ASSUME InStages PROVE count' <= endCount
    <2>1. count < endCount /\ endCount <= OcalLimit + OcalExtra
      BY <1>2 DEF StageEnds
    <2>2. count + 1 \in 0..(CountMod - 1)
      BY <2>1, OcalNumbers
    <2>3. (count + 1) % CountMod = count + 1
      BY <2>2, CountModAssumption, SMT
    <2>4. QED
      BY <1>1, <2>1, <2>3, OcalNumbers
  <1>3. QED
    BY <1>1, <1>2 DEF StageEnds, InStages

(* Every step keeps the end ahead of the count. *)
LEMMA StageEndsNext == Inv /\ StageEnds /\ [Next]_vars => StageEnds'
  <1> SUFFICES ASSUME Inv, StageEnds, [Next]_vars PROVE StageEnds'
    OBVIOUS
  <1>1. CASE CallHandler
    <2>1. isRunning /\ pc = "handler" /\ InHandler /\ ProcessHandler' = ProcessHandler
      BY <1>1 DEF CallHandler, InHandler
    <2>2. CASE ProcessHandler = "CalibrateOven"
      BY <1>1, <2>1, <2>2, HandlerStageEnds DEF CallHandler
    <2>3. CASE ProcessHandler # "CalibrateOven"
      BY <2>1, <2>3 DEF StageEnds, InStages
    <2>4. QED
      BY <2>2, <2>3
  <1>2. CASE PowerUp
    <2>1. pc = "power" /\ pc' = "update" /\ ProcessHandler' = ProcessHandler
      BY <1>2 DEF PowerUp, InHandler
    <2>2. CASE ProcessHandler = "CalibrateOven"
      <3>1. count = 0
        BY <2>1, <2>2 DEF StageEnds
      <3>2. OcalPower
        BY <1>2, <2>2 DEF PowerUp
      <3>3. count' = 0 /\ endCount' = OcalLimit
        BY <3>1, <3>2 DEF OcalPower, KeepCounters
      <3>4. /\ 0 < OcalLimit /\ OcalShort <= OcalLimit /\ OcalLimit <= OcalLimit + OcalExtra
            /\ 0 <= OcalLimit
        BY OcalNumbers
      <3>5. QED
        BY <2>1, <3>3, <3>4 DEF StageEnds
    <2>3. CASE ProcessHandler # "CalibrateOven"
      BY <2>1, <2>3 DEF StageEnds, InStages
    <2>4. QED
      BY <2>2, <2>3
  <1>3. CASE EndDwell
    <2>1. ProcessHandler' = "RunProfile"
      BY <1>3 DEF EndDwell, InHandler, Inv, Interlock, DelaysOfRun
    <2>2. QED
      BY <2>1 DEF StageEnds, InStages
  <1>4. CASE EndSteps
    BY <1>4, EndStepsIdle DEF StageEnds, InStages
  <1>5. CASE LoopSteps
    <2>1. /\ UNCHANGED <<isRunning, ProcessHandler, ovenStage, count, endCount, endSet>>
          /\ pc' = pc \/ pc' \in {"usb", "buttons", "boot"}
      BY <1>5, LoopKeeps DEF Same, calVars
    <2>2. QED
      BY <2>1 DEF StageEnds, InStages
  <1>6. CASE PressCommand
    <2>1. ovenStage' = 0 /\ pc' = "handler"
      BY <1>6 DEF PressCommand, StartRun
    <2>2. QED
      BY <2>1 DEF StageEnds, InStages
  <1>7. CASE PressAbort \/ PressOther
    <2>1. /\ UNCHANGED <<isRunning, ProcessHandler, ovenStage, count, endCount, endSet>>
          /\ pc' \in {"abort", "handler"}
      BY <1>7, Zenon DEF PressAbort, PressOther, Press, KeepCal, calVars
    <2>2. QED
      BY <2>1 DEF StageEnds, InStages
  <1>8. CASE SensorFault
    <2>1. /\ UNCHANGED <<isRunning, ProcessHandler, ovenStage, count, endCount, endSet>>
          /\ pc = "update" /\ pc' = "trip"
      BY <1>8 DEF SensorFault, Sample, calVars
    <2>2. QED
      BY <2>1 DEF StageEnds, InStages
  <1>9. CASE UpdateTemp \/ FinishTrip
    <2>1. /\ UNCHANGED <<isRunning, ProcessHandler, ovenStage, endCount, endSet>>
          /\ pc \in {"update", "trip"} /\ EndUpdate
      BY <1>9 DEF UpdateTemp, Sample, FinishTrip, KeepCal, calVars
    <2>2. QED
      BY <2>1, CountsToEnd
  <1>10. QED
    BY <1>1, <1>2, <1>3, <1>4, <1>5, <1>6, <1>7, <1>8, <1>9, Zenon
       DEF Next, MainLoop, EndSteps, LoopSteps

(* The stages have no count yet. *)
LEMMA StageEndsInit == Init => StageEnds
  BY DEF Init, StageEnds, InStages

(* The end of a calibration stage is never behind the count that has to    *)
(* meet it exactly.                                                        *)
THEOREM StagesMeetTheirEnd == Spec => []CountMeetsEnd
  <1>1. StageEnds => CountMeetsEnd
    BY DEF StageEnds, InStages, CountMeetsEnd
  <1>2. QED
    BY <1>1, StageEndsInit, InvInit, InvNext, StageEndsNext, PTL DEF Spec

(* Only the end of a stage leads to the next one. *)
LEMMA NextStageAtEnd ==
    ASSUME Inv, InStages, [Next]_vars, ovenStage' = ovenStage + 1
    PROVE  count = StageEnd
  <1>1. CASE CallHandler
    <2>1. CalibrateOvenHandler
      BY <1>1 DEF CallHandler, InStages
    <2>2. /\ CloseDoor \/ AwaitEnter \/ OcalStart => ovenStage \in {0, 1, 2}
          /\ StopOverTemp \/ HoldStage => ovenStage' = ovenStage
      BY Zenon DEF CloseDoor, AwaitEnter, OcalStart, StopOverTemp, HeatOffThen, HoldStage,
                   KeepRun
    <2>3. ovenStage \notin {0, 1, 2} /\ ovenStage' # ovenStage
      BY DEF InStages
    <2>4. FinishStage
      BY <2>1, <2>2, <2>3, Zenon DEF CalibrateOvenHandler
    <2>5. QED
      BY <2>4, Zenon DEF FinishStage, StageDone
  <1>2. CASE PowerUp \/ EndDwell
    BY <1>2 DEF PowerUp, EndDwell, Inv, Interlock, DelaysOfRun, InStages
  <1>3. CASE EndSteps
    <2>1. ovenStage' \in {0, ovenStage}
      BY <1>3, Zenon DEF EndSteps, FinishAbort, StopRun, NoRun, Wait, KeepRun, WatchdogReset
    <2>2. QED
      BY <2>1 DEF InStages
  <1>4. CASE LoopSteps
    BY <1>4, LoopKeeps DEF Same, InStages
  <1>5. CASE PressCommand
    BY <1>5 DEF PressCommand, InStages
  <1>6. CASE PressAbort \/ PressOther \/ UpdateTemp \/ SensorFault \/ FinishTrip
    <2>1. ovenStage' = ovenStage
      BY <1>6, Zenon DEF PressAbort, PressOther, UpdateTemp, SensorFault, Sample, FinishTrip
    <2>2. QED
      BY <2>1 DEF InStages
  <1>7. QED
    BY <1>1, <1>2, <1>3, <1>4, <1>5, <1>6, Zenon DEF Next, MainLoop, EndSteps, LoopSteps

(* A calibration stage is left for the next one only when it has lasted    *)
(* OcalShort half seconds.                                                 *)
THEOREM StagesLastLong == Spec => StageLastsLong
  <1>1. Inv /\ StageEnds /\ [Next]_vars
          => [ isRunning /\ ProcessHandler = "CalibrateOven" /\ ovenStage \in 3..12
               /\ ovenStage' = ovenStage + 1 => count >= OcalShort ]_vars
    <2> SUFFICES ASSUME Inv, StageEnds, [Next]_vars, InStages, ovenStage' = ovenStage + 1
                 PROVE  count >= OcalShort
      BY Zenon DEF InStages
    <2>1. count = StageEnd
      BY NextStageAtEnd
    <2>2. OcalShort <= StageEnd /\ StageEnd \in Nat /\ OcalShort \in Nat
      BY StageEndBounds, OcalNumbers
    <2>3. QED
      BY <2>1, <2>2
  <1>2. QED
    BY <1>1, StageEndsInit, InvInit, InvNext, StageEndsNext, PTL DEF Spec, StageLastsLong
=============================================================================
