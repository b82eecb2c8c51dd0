------------------------------ MODULE OvenState ------------------------------
(***************************************************************************)
(* The state the control program shares between its main loop and the      *)
(* handlers of its runs (the globals of ReflowOven.c and the two relay     *)
(* pins), the routines every handler calls, and the arithmetic of the      *)
(* AVR's 8 and 16 bit integers.                                            *)
(*                                                                         *)
(* Temperatures are in quarters of a degree, as ovenTemp is.               *)
(***************************************************************************)
EXTENDS Integers

CONSTANTS
    Temps,           \* values UpdateTemp can give ovenTemp (uint16_t)
    Deltas,          \* values it can give ovenDelta4
    Deltas32,        \* values it can give ovenDelta32
    CountMod         \* 65536: count, ovenCounter and endCount are uint16_t

(* The 16 bit words of the AVR, unsigned and signed. *)
Word   == 256 * 256
Half   == 128 * 256
Words  == 0..(Word - 1)
SWords == (-Half)..(Half - 1)

ASSUME TempsAssumption    == Temps \subseteq Words
ASSUME DeltasAssumption   == Deltas \subseteq SWords
ASSUME Deltas32Assumption == Deltas32 \subseteq SWords
ASSUME CountModAssumption == CountMod \in Nat \ {0}

VARIABLES
    duty_cycle, ssr,       \* the heater drive
    emr,                   \* TRUE when the EMR feeds mains to the element
    isRunning,             \* a run is in progress
    ProcessHandler,        \* the handler of the present or the last run
    ovenStage,             \* how far the handler has got
    ovenTemp, ovenDelta4, ovenDelta32,     \* set by UpdateTemp
    count,                 \* half seconds since a handler last cleared it
    ovenCounter,           \* ramp position, dwell start, or beeps
    endCount, endSet, deltaCount,          \* end of a calibration stage
    tick,                  \* the interrupt raised tick since it was cleared
    buttons, newButton,    \* the buttons held, and those just pressed
    pc,                    \* where the main loop is
    confirmed              \* history: ENTER was pressed during this run

sensorVars == <<ovenTemp, ovenDelta4, ovenDelta32>>
calVars    == <<endCount, endSet, deltaCount>>
inputVars  == <<buttons, newButton>>
vars == <<duty_cycle, ssr, emr, isRunning, ProcessHandler, ovenStage, sensorVars,
          count, ovenCounter, calVars, tick, inputVars, pc, confirmed>>

(* The bits of the front panel, as ReadButtons shifts them down. *)
ENTER == 1
MENU  == 2

(* spi_read reports a faulty thermocouple with the three largest values. *)
Fault(temp) == temp >= Word - 3
Degrees(temp) == temp \div 4

-----------------------------------------------------------------------------
(* setDutyCycle and the edges of the PWM, as HeaterPWM implements them. *)
Heater == INSTANCE HeaterDrive WITH Full <- 100, Ratios <- 0..255, duty <- duty_cycle

setDutyCycle(ratio) == Heater!DriveSet(ratio)
KeepHeater == UNCHANGED <<duty_cycle, ssr>>

EMR_ON  == emr' = TRUE
EMR_OFF == emr' = FALSE

-----------------------------------------------------------------------------
(* What a step of a handler can leave as it is. *)
KeepCal      == UNCHANGED calVars
KeepCounters == UNCHANGED <<count, ovenCounter>>
KeepRun      == UNCHANGED <<isRunning, ovenStage>>

NextStage == ovenStage' = ovenStage + 1 /\ UNCHANGED isRunning

(* The handler returns: the main loop goes on to UpdateTemp. *)
Return == pc' = "update"

(* Nothing to do in this stage yet. *)
Wait ==
    /\ KeepHeater /\ KeepRun /\ KeepCounters /\ KeepCal
    /\ UNCHANGED emr
    /\ Return

(* Stages 0 and 1 of every run that asks for the door to be closed. *)
CloseDoor ==
    /\ ovenStage = 0
    /\ NextStage
    /\ KeepHeater /\ KeepCounters /\ KeepCal
    /\ UNCHANGED emr
    /\ Return

AwaitEnter ==
    /\ ovenStage = 1
    /\ IF newButton # 0 /\ buttons = ENTER THEN NextStage ELSE KeepRun
    /\ KeepHeater /\ KeepCounters /\ KeepCal
    /\ UNCHANGED emr
    /\ Return

(* EMR_ON, then 25 ms before the caller asks for heat (pc = "power"). *)
SwitchMainsOn ==
    /\ EMR_ON
    /\ KeepHeater /\ KeepRun /\ KeepCal
    /\ UNCHANGED ovenCounter
    /\ pc' = "power"

(* Mutated form: the heat is left as it is. *)
KeepHeatThen(next) ==
    /\ KeepHeater /\ KeepRun
    /\ UNCHANGED emr
    /\ pc' = next

(* setDutyCycle(0), then 25 ms before EMR_OFF (pc = next). *)
HeatOffThen(next) ==
    /\ setDutyCycle(0)
    /\ KeepRun
    /\ UNCHANGED emr
    /\ pc' = next

(* Mutated form: the limit is taken for one of 300 C. *)
OverTempLate == ovenTemp > 1200

(* What every calibration and test does when the oven is above 270 C. *)
OverTemp == ovenTemp > 1080

StopOverTemp ==
    /\ OverTemp
    /\ HeatOffThen("stop")
    /\ KeepCounters /\ KeepCal

(* A handler is over: the display shows "Idle" again. *)
EndRun == isRunning' = FALSE /\ ovenStage' = 0

-----------------------------------------------------------------------------
(* AVR arithmetic. *)
Uint16(n) == n % Word
Unbounded(n) == n                 \* mutated form of Uint8
Uint8(n)  == n % 256
Int16(n)  == ((n + Half) % Word) - Half
AbsOf(n)  == IF n < 0 THEN -n ELSE n
Quotient(a, b) == IF a < 0 THEN -((-a) \div b) ELSE a \div b      \* b > 0

(* A float converted to int16_t or uint16_t truncates; out of range the    *)
(* result is undefined, and is the low half of a long or the nearest bound.*)
FloatToInt16(a, b) ==
    LET n == Quotient(a, b)
    IN  IF n \in SWords THEN {n}
        ELSE {Int16(n), IF n < 0 THEN -Half ELSE Half - 1}

FloatToUint16(a, b) ==
    LET n == Quotient(a, b)
    IN  IF n \in Words THEN {n} ELSE {Uint16(n), IF n < 0 THEN 0 ELSE Word - 1}
=============================================================================
