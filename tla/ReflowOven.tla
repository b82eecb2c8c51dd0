------------------------------ MODULE ReflowOven ------------------------------
(***************************************************************************)
(* The control program of the oven: the main loop with the handlers of the *)
(* five runs, the buttons, the temperature update, the host's packets, and *)
(* the timer interrupt, which can come between any two of its steps.  One  *)
(* pass of the loop takes pc through "buttons", "handler", "update" and    *)
(* "usb".  Every delay of 25 ms between a change of the heater drive and   *)
(* one of the mains relay is a place of its own.                           *)
(***************************************************************************)
EXTENDS RunProfile, CalibrateOven, OvenTests

CONSTANTS
    Commands,        \* the runs the menu can start
    ButtonStates,    \* what the front panel port can read, 0..15
    HostBoots        \* TRUE if the host may send **BOOT

Handlers == {"RunProfile", "CalibrateOven", "PIDTest", "Calibrate60c", "Calibrate120c"}

ASSUME CommandsAssumption     == Commands \subseteq Handlers
ASSUME ButtonStatesAssumption == ButtonStates \subseteq 0..15
ASSUME HostBootsAssumption    == HostBoots \in BOOLEAN

(* The state at the head of the main loop after power-up; the variables   *)
(* that are initialized to zero are.                                      *)
Init ==
    /\ duty_cycle = 0 /\ ssr = FALSE /\ emr = FALSE
    /\ isRunning = FALSE /\ ProcessHandler = "none" /\ ovenStage = 0
    /\ ovenTemp = 0 /\ ovenDelta4 = 0 /\ ovenDelta32 = 0
    /\ count = 0 /\ ovenCounter = 0
    /\ endCount = OcalLimit /\ endSet = FALSE /\ deltaCount = 0
    /\ tick = FALSE
    /\ buttons = 0 /\ newButton = 0
    /\ pc = "buttons"
    /\ confirmed = FALSE

-----------------------------------------------------------------------------
(* The timer interrupt: an edge of the PWM (see HeaterPWM) and the tick.   *)

HeaterEdge ==
    /\ pc # "boot"
    /\ Heater!DriveEdge
    /\ UNCHANGED <<emr, isRunning, ProcessHandler, ovenStage, sensorVars, count,
                   ovenCounter, calVars, tick, inputVars, pc, confirmed>>

TickEdge ==
    /\ pc # "boot"
    /\ ~tick
    /\ tick' = TRUE
    /\ UNCHANGED <<duty_cycle, ssr, emr, isRunning, ProcessHandler, ovenStage,
                   sensorVars, count, ovenCounter, calVars, inputVars, pc, confirmed>>

-----------------------------------------------------------------------------
(* The head of the loop. *)

(* Mutated form: the level of the buttons instead of a change of it. *)
ButtonLevel(held) == held

(* ReadButtons: 0 when nothing changed. *)
ReadButtons(held) == IF held = buttons THEN 0 ELSE held

(* XxxCommand, called by the menu for the item that was entered. *)
StartRun(command) ==
    /\ ProcessHandler' = command
    /\ isRunning' = TRUE
    /\ ovenStage' = 0
    /\ count' = 0

Press(held) ==
    /\ pc = "buttons"
    /\ buttons' = held
    /\ newButton' = ReadButtons(held)
    /\ confirmed' = (isRunning /\ (confirmed \/ (held = ENTER /\ held # buttons)))
    /\ KeepCal
    /\ UNCHANGED <<emr, sensorVars, ovenCounter, tick>>

AbortPressed(held) == ReadButtons(held) = MENU /\ isRunning

(* MENU during a run: heat off, 25 ms, then "abort". *)
PressAbort ==
    \E held \in ButtonStates :
        /\ Press(held)
        /\ AbortPressed(held)
        /\ setDutyCycle(0)
        /\ pc' = "abort"
        /\ UNCHANGED <<isRunning, ProcessHandler, ovenStage, count>>

(* ENTER in the menu, on an item that is a command. *)
PressCommand ==
    \E held \in ButtonStates, command \in Commands :
        /\ Press(held)
        /\ ReadButtons(held) = ENTER /\ ~isRunning
        /\ StartRun(command)
        /\ KeepHeater
        /\ pc' = "handler"

(* Anything else: nothing new, a move in the menu, a button of a run. *)
PressOther ==
    \E held \in ButtonStates :
        /\ Press(held)
        /\ ~AbortPressed(held)
        /\ KeepHeater
        /\ pc' = "handler"
        /\ UNCHANGED <<isRunning, ProcessHandler, ovenStage, count>>

FinishAbort ==
    /\ pc = "abort"
    /\ EMR_OFF
    /\ EndRun
    /\ pc' = "handler"
    /\ KeepHeater /\ KeepCounters /\ KeepCal
    /\ UNCHANGED <<ProcessHandler, sensorVars, tick, inputVars, confirmed>>

-----------------------------------------------------------------------------
(* The handler of the run, and what it does after a delay. *)

InHandler == UNCHANGED <<ProcessHandler, sensorVars, tick, inputVars, confirmed>>

NoRun ==
    /\ pc = "handler" /\ ~isRunning
    /\ Wait
    /\ InHandler

CallHandler ==
    /\ pc = "handler" /\ isRunning
    /\ \/ ProcessHandler = "RunProfile"    /\ RunProfileHandler
       \/ ProcessHandler = "CalibrateOven" /\ CalibrateOvenHandler
       \/ ProcessHandler = "PIDTest"       /\ PIDTestHandler
       \/ ProcessHandler = "Calibrate60c"  /\ Calibrate60cHandler
       \/ ProcessHandler = "Calibrate120c" /\ Calibrate120cHandler
    /\ InHandler

PowerUp ==
    /\ pc = "power"
    /\ \/ ProcessHandler = "RunProfile"    /\ PreheatPower
       \/ ProcessHandler = "CalibrateOven" /\ OcalPower
       \/ ProcessHandler = "PIDTest"       /\ PidPower
       \/ ProcessHandler \in {"Calibrate60c", "Calibrate120c"} /\ RisePower
    /\ UNCHANGED emr
    /\ Return
    /\ InHandler

EndDwell ==
    /\ pc = "dwell"
    /\ OpenDoor
    /\ Return
    /\ InHandler

(* The end of a run that was stopped by its handler. *)
StopRun ==
    /\ pc = "stop"
    /\ EMR_OFF
    /\ EndRun
    /\ IF ProcessHandler = "CalibrateOven"
       THEN endCount' = OcalLimit /\ endSet' = FALSE /\ UNCHANGED deltaCount
       ELSE KeepCal
    /\ KeepHeater /\ KeepCounters
    /\ Return
    /\ InHandler

-----------------------------------------------------------------------------
(* UpdateTemp, once per tick; a faulty thermocouple trips the oven. *)

NoTick ==
    /\ pc = "update" /\ ~tick
    /\ pc' = "usb"
    /\ UNCHANGED <<duty_cycle, ssr, emr, isRunning, ProcessHandler, ovenStage,
                   sensorVars, count, ovenCounter, calVars, tick, inputVars, confirmed>>

Sample ==
    /\ pc = "update" /\ tick
    /\ ovenTemp' \in Temps /\ ovenDelta4' \in Deltas /\ ovenDelta32' \in Deltas32
    /\ UNCHANGED <<emr, isRunning, ProcessHandler, ovenStage, ovenCounter, calVars,
                   inputVars, confirmed>>

EndUpdate ==
    /\ count' = (count + 1) % CountMod
    /\ tick' = FALSE
    /\ pc' = "usb"

UpdateTemp ==
    /\ Sample
    /\ ~Fault(ovenTemp')
    /\ KeepHeater
    /\ EndUpdate

(* Mutated form: the mains relay is switched before the heat is taken off. *)
SensorFaultUnderLoad ==
    /\ Sample
    /\ Fault(ovenTemp')
    /\ KeepHeater
    /\ pc' = "trip"
    /\ UNCHANGED <<count, tick>>

SensorFault ==
    /\ Sample
    /\ Fault(ovenTemp')
    /\ setDutyCycle(0)
    /\ pc' = "trip"
    /\ UNCHANGED <<count, tick>>

(* Mutated forms: the mains stay on; the run starts over. *)
FinishTripLive ==
    /\ pc = "trip"
    /\ EndUpdate
    /\ KeepHeater /\ KeepCal
    /\ UNCHANGED <<emr, isRunning, ProcessHandler, ovenStage, sensorVars,
                   ovenCounter, inputVars, confirmed>>

FinishTripRestart ==
    /\ pc = "trip"
    /\ EMR_OFF
    /\ ovenStage' = 0
    /\ EndUpdate
    /\ KeepHeater /\ KeepCal
    /\ UNCHANGED <<isRunning, ProcessHandler, sensorVars, ovenCounter,
                   inputVars, confirmed>>

FinishTrip ==
    /\ pc = "trip"
    /\ EMR_OFF
    /\ EndUpdate
    /\ KeepHeater /\ KeepCal
    /\ UNCHANGED <<isRunning, ProcessHandler, ovenStage, sensorVars, ovenCounter,
                   inputVars, confirmed>>

-----------------------------------------------------------------------------
(* The host's packets: only **BOOT changes the state of the oven.  It     *)
(* stops the timer and leaves both relays as they are until the watchdog  *)
(* resets the processor, which releases the pins.                         *)

NoBoot ==
    /\ pc = "usb"
    /\ pc' = "buttons"
    /\ UNCHANGED <<duty_cycle, ssr, emr, isRunning, ProcessHandler, ovenStage,
                   sensorVars, count, ovenCounter, calVars, tick, inputVars, confirmed>>

Bootloader ==
    /\ pc = "usb" /\ HostBoots
    /\ pc' = "boot"
    /\ UNCHANGED <<duty_cycle, ssr, emr, isRunning, ProcessHandler, ovenStage,
                   sensorVars, count, ovenCounter, calVars, tick, inputVars, confirmed>>

WatchdogReset ==
    /\ pc = "boot"
    /\ duty_cycle' = 0 /\ ssr' = FALSE /\ emr' = FALSE
    /\ isRunning' = FALSE /\ ProcessHandler' = "none" /\ ovenStage' = 0
    /\ ovenTemp' = 0 /\ ovenDelta4' = 0 /\ ovenDelta32' = 0
    /\ count' = 0 /\ ovenCounter' = 0
    /\ endCount' = OcalLimit /\ endSet' = FALSE /\ deltaCount' = 0
    /\ tick' = FALSE
    /\ buttons' = 0 /\ newButton' = 0
    /\ pc' = "buttons"
    /\ confirmed' = FALSE

-----------------------------------------------------------------------------
MainLoop ==
    \/ PressAbort \/ PressCommand \/ PressOther \/ FinishAbort
    \/ NoRun \/ CallHandler \/ PowerUp \/ EndDwell \/ StopRun
    \/ NoTick \/ UpdateTemp \/ SensorFault \/ FinishTrip
    \/ NoBoot \/ Bootloader

Next == HeaterEdge \/ TickEdge \/ MainLoop \/ WatchdogReset

Spec == Init /\ [][Next]_vars

(* The main loop never stops for good and the timer keeps firing. *)
FairSpec == Spec /\ WF_vars(MainLoop) /\ WF_vars(TickEdge)

-----------------------------------------------------------------------------
(* Every variable keeps its type; the integers keep their width. *)
TypeOK ==
    /\ duty_cycle \in 0..255 /\ ssr \in BOOLEAN /\ emr \in BOOLEAN
    /\ isRunning \in BOOLEAN
    /\ ProcessHandler \in Handlers \cup {"none"}
    /\ ovenStage \in 0..12
    /\ ovenTemp \in Words
    /\ ovenDelta4 \in SWords /\ ovenDelta32 \in SWords
    /\ count \in 0..(CountMod - 1) /\ ovenCounter \in 0..(CountMod - 1)
    /\ endCount \in 0..(CountMod - 1) /\ endSet \in BOOLEAN
    /\ deltaCount \in 0..(DeltaMod - 1)
    /\ tick \in BOOLEAN
    /\ buttons \in 0..15 /\ newButton \in 0..15
    /\ pc \in {"buttons", "abort", "handler", "power", "dwell", "stop",
               "update", "trip", "usb", "boot"}
    /\ confirmed \in BOOLEAN

(* Between runs the oven is cold: neither relay is on and no heat is asked  *)
(* for, however the last run ended (by its handler, by the MENU button, by  *)
(* an over-temperature stop or after a sensor fault).                       *)
IdleIsCold == ~isRunning => duty_cycle = 0 /\ ~ssr /\ ~emr

(* "Wait for SSR to power down": the mains relay never switches under load. *)
(* Over the 25 ms delays neither the timer interrupt nor another part of    *)
(* the loop may bring the SSR back.  (A processor reset releases both.)     *)
NoSwitchUnderLoad ==
    [][emr' # emr /\ pc # "boot" => duty_cycle = 0 /\ ~ssr /\ ~ssr']_vars

(* The mains come on only after ENTER was pressed while the run was already *)
(* active ("Close door"): the press that started the run from the menu does *)
(* not count.  The PID test starts without asking.                          *)
HeatNeedsConfirm == emr /\ ProcessHandler # "PIDTest" => confirmed

(* A reading above 270 C stops every run but the reflow profile in the pass *)
(* of the loop that finds it: past the handler such a run is gone.          *)
OverTempStops ==
    pc \in {"update", "power"} /\ isRunning /\ ProcessHandler # "RunProfile" => ovenTemp <= 1080

(* Heating on a faulty thermocouple lasts only until the first sample of    *)
(* the run: a fault that comes later has the mains off before the loop goes *)
(* on, in every stage.  (A reflow run does start on a fault.)               *)
FaultCutsMains ==
    emr /\ Fault(ovenTemp) => \/ pc = "trip"
                              \/ ProcessHandler = "RunProfile" /\ count = 0

(* Where the heat is meant to be off it is off: waiting for the door, past  *)
(* the reflow cutoff, while the oven cools, after the cutoff of the 60 and  *)
(* 120 degree measurements, and during all the delays.                      *)
HeatOff ==
    \/ isRunning /\ ovenStage <= 2
    \/ ProcessHandler = "RunProfile" /\ ovenStage \in {7, 9}
    \/ ProcessHandler \in {"Calibrate60c", "Calibrate120c"} /\ ovenStage = 5
    \/ pc \in {"abort", "stop", "dwell", "power", "trip"}

HeatOffStages == HeatOff => duty_cycle = 0 /\ ~ssr

(* The end of a calibration stage is never behind the count that must meet  *)
(* it exactly ("count == endCount"), nor further away than one extension:   *)
(* no earlier run, abort or sequence of flat readings can leave a limit     *)
(* that the count has already passed.                                       *)
CountMeetsEnd ==
    isRunning /\ ProcessHandler = "CalibrateOven" /\ ovenStage \in 3..12 =>
        /\ count <= endCount
        /\ endCount <= OcalLimit + OcalExtra

(* A calibration stage is left for the next one only when it had lasted     *)
(* OcalShort half seconds, whatever runs and aborts came before.            *)
StageLastsLong ==
    [][ isRunning /\ ProcessHandler = "CalibrateOven" /\ ovenStage \in 3..12
        /\ ovenStage' = ovenStage + 1 => count >= OcalShort ]_vars

-----------------------------------------------------------------------------
(* What the source says of itself and the program does not do. *)

(* "Cleanup and jump into the bootloader" (ReflowOven.c:506): nothing heats *)
(* while the processor waits for the watchdog and the bootloader takes over.*)
BootloaderIsCold == pc = "boot" => ~emr /\ ~ssr

(* "rate to high, reduce duty cycle" (ReflowOven.c:637): the soak stage     *)
(* never asks for less when the oven is behind the ramp than it would ask   *)
(* for when the oven is ahead of it.                                        *)
BehindRamp ==
    \A error \in SoakErrors((ovenCounter + 1) % CountMod) : error <= 8

SoakKeepsUp ==
    [][ pc = "handler" /\ isRunning /\ ProcessHandler = "RunProfile" /\ ovenStage = 5
        /\ tick /\ pc' = "update" /\ ovenStage' = 5 /\ BehindRamp
          => duty_cycle' >= getDutyCycle(profile.soak_temp) ]_vars

-----------------------------------------------------------------------------
(* The relays keep the promises of OvenContract. *)
Phase ==
    IF ~isRunning THEN "idle"
    ELSE IF emr THEN "heating"
    ELSE IF ovenStage <= 2 THEN "waiting"
    ELSE "cut off"

Contract == INSTANCE OvenContract
    WITH Full <- 100, Ratios <- 0..255, duty <- duty_cycle, mains <- emr, phase <- Phase

ImplementsContract == Contract!ContractSpec

(* A calibration that has begun to heat comes to its end, however often     *)
(* the temperature is found flat again.                                     *)
CalibrationEnds ==
    (isRunning /\ ProcessHandler = "CalibrateOven" /\ ovenStage >= 3) ~> ~isRunning
=============================================================================
