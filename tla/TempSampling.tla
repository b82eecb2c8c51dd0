---------------------------- MODULE TempSampling ----------------------------
(***************************************************************************)
(* How a temperature comes about: the timer interrupt asks for a reading   *)
(* of the thermocouple ten times a second and for an average twice a       *)
(* second; the main loop polls both requests once in a pass.  It keeps up  *)
(* to four readings of a half second and divides their sum by four.        *)
(*                                                                         *)
(* A pass takes as long as it takes (delays of the handlers, the display,  *)
(* the stream to the host), so the interrupt comes at any place of it.     *)
(* Temperatures are in quarters of a degree.                               *)
(***************************************************************************)
EXTENDS Integers

CONSTANTS
    Frames,    \* what the MAX31855 can answer
    PassMax    \* the most timer interrupts between two polls of readtick

(* A frame: the temperature in 14 bits, and the fault bits of its last     *)
(* byte: open thermocouple, short to ground, short to the supply.          *)
HalfRange == 32 * 256
Frame == [quarters : (-HalfRange)..(HalfRange - 1), open : BOOLEAN,
          ground : BOOLEAN, supply : BOOLEAN]

ASSUME FramesAssumption  == Frames \subseteq Frame
ASSUME PassMaxAssumption == PassMax \in Nat \ {0}

VARIABLES
    subtickCounter,    \* 0..99: the time, in interrupts
    readtick,          \* the interrupt asks for a reading
    tick,              \* half seconds the interrupt counted (uint8_t)
    readings,          \* readings since the last average
    ovenTempAccum,     \* their sum (uint32_t)
    ovenTemp,          \* the last average (uint16_t)
    pc,                \* where the main loop is
    age,               \* interrupts since readtick was last found or made false
    (* history variables: no code reads them *)
    polled,            \* readtick was polled since the main loop began
    low, high,         \* the smallest and largest value read since that average
    suspect,           \* one of them was a fault or below zero
    settled,           \* an average was made since the main loop began
    overrun            \* a half second went by without an average

vars == <<subtickCounter, readtick, tick, readings, ovenTempAccum, ovenTemp,
          pc, age, polled, low, high, suspect, settled, overrun>>

seenVars == <<low, high, suspect>>

ReadEvery == 10      \* interrupts between two requests for a reading
TickEvery == 50      \* and between two requests for an average
Enough    == 4       \* readings kept of a half second

(* A value no reading exceeds, for an empty window. *)
Word == 256 * 256

(* The main loop is entered at any time of the period, long after readtick *)
(* was raised for the first time, with tick just cleared.                  *)
Init ==
    /\ subtickCounter \in 0..99
    /\ readtick = TRUE
    /\ tick = 0
    /\ readings = 0 /\ ovenTempAccum = 0 /\ ovenTemp = 0
    /\ pc = "poll"
    /\ age = 0 /\ polled = FALSE
    /\ low = Word /\ high = 0 /\ suspect = FALSE
    /\ settled = FALSE /\ overrun = FALSE

-----------------------------------------------------------------------------
(* ISR (TIMER1_COMPA_vect), apart from the PWM.                            *)

NextSubtick == (subtickCounter + 1) % 100

(* Mutated form: the interrupt asks for a reading half as often. *)
ReadtickDueRarely(subtick) == subtick % (2 * ReadEvery) = 0

ReadtickDue(subtick) == subtick % ReadEvery = 0
TickDue(subtick) == subtick \in {0, TickEvery}

TimerInterrupt ==
    /\ age < PassMax
    /\ subtickCounter' = NextSubtick
    /\ readtick' = (readtick \/ ReadtickDue(NextSubtick))
    /\ tick' = IF TickDue(NextSubtick) THEN (tick + 1) % 256 ELSE tick
    /\ overrun' = (overrun \/ (TickDue(NextSubtick) /\ tick # 0))
    /\ age' = age + 1
    /\ UNCHANGED <<polled, readings, ovenTempAccum, ovenTemp, pc, seenVars, settled>>

-----------------------------------------------------------------------------
(* spi_read: the fault bits first, then the 14 bits of the temperature,    *)
(* which a shift of a signed 16 bit value leaves sign-extended.            *)

(* Mutated form: a fault is answered with zero. *)
ReadsFaultAsZero(frame) ==
    IF frame.open \/ frame.ground \/ frame.supply THEN 0 ELSE frame.quarters % Word

spi_read(frame) ==
    IF frame.open THEN Word - 1
    ELSE IF frame.ground THEN Word - 2
    ELSE IF frame.supply THEN Word - 3
    ELSE frame.quarters % Word

Suspect(frame) ==
    frame.open \/ frame.ground \/ frame.supply \/ frame.quarters < 0

-----------------------------------------------------------------------------
(* The main loop. *)

Accumulate(value) == ovenTempAccum + value

(* Mutated form: no limit on the readings of a half second. *)
WantsAnyReading == TRUE

WantsReading == readings < Enough

(* A request finds its reading taken, or four already kept. *)
TakeReading ==
    /\ pc = "poll" /\ readtick
    /\ WantsReading
    /\ \E frame \in Frames :
          LET value == spi_read(frame)
          IN  /\ ovenTempAccum' = Accumulate(value)
              /\ low' = IF value < low THEN value ELSE low
              /\ high' = IF value > high THEN value ELSE high
              /\ suspect' = (suspect \/ Suspect(frame))
    /\ readings' = readings + 1
    /\ pc' = "polled"
    /\ UNCHANGED <<subtickCounter, readtick, tick, ovenTemp, age, polled,
                   settled, overrun>>

DropReading ==
    /\ pc = "poll" /\ readtick
    /\ ~WantsReading
    /\ pc' = "polled"
    /\ UNCHANGED <<subtickCounter, readtick, tick, readings, ovenTempAccum, ovenTemp,
                   age, polled, seenVars, settled, overrun>>

(* readtick = 0, which a request raised since the test does not survive.   *)
ClearReadtick ==
    /\ pc = "polled"
    /\ readtick' = FALSE
    /\ age' = 0 /\ polled' = TRUE
    /\ pc' = "handler"
    /\ UNCHANGED <<subtickCounter, tick, readings, ovenTempAccum, ovenTemp,
                   seenVars, settled, overrun>>

NoReading ==
    /\ pc = "poll" /\ ~readtick
    /\ age' = 0 /\ polled' = TRUE
    /\ pc' = "handler"
    /\ UNCHANGED <<subtickCounter, readtick, tick, readings, ovenTempAccum, ovenTemp,
                   seenVars, settled, overrun>>

(* The run's handler comes between; it uses none of this state but tick,   *)
(* which it only reads.  UpdateTemp: the average, and a new sum; the       *)
(* display and the telemetry follow in "updated".                          *)
UpdateTemp ==
    /\ pc = "handler" /\ tick # 0
    /\ ovenTemp' = (ovenTempAccum \div 4) % Word
    /\ ovenTempAccum' = 0
    /\ pc' = "updated"
    /\ UNCHANGED <<subtickCounter, readtick, tick, readings, age, polled, seenVars,
                   settled, overrun>>

CloseWindow ==
    /\ low' = Word /\ high' = 0 /\ suspect' = FALSE
    /\ settled' = TRUE

(* Mutated form: tick is left as it is. *)
ClearReadingsOnly ==
    /\ pc = "updated"
    /\ readings' = 0
    /\ CloseWindow
    /\ pc' = "rest"
    /\ UNCHANGED <<subtickCounter, readtick, tick, ovenTempAccum, ovenTemp, age,
                   polled, overrun>>

(* tick = 0 and readings = 0, whatever tick counted in the meantime.       *)
ClearTick ==
    /\ pc = "updated"
    /\ tick' = 0
    /\ readings' = 0
    /\ CloseWindow
    /\ pc' = "rest"
    /\ UNCHANGED <<subtickCounter, readtick, ovenTempAccum, ovenTemp, age,
                   polled, overrun>>

NoTick ==
    /\ pc = "handler" /\ tick = 0
    /\ pc' = "rest"
    /\ UNCHANGED <<subtickCounter, readtick, tick, readings, ovenTempAccum, ovenTemp,
                   age, polled, seenVars, settled, overrun>>

(* The host's packets, the delay of 10 ms and the buttons of the next pass.*)
NextPass ==
    /\ pc = "rest" /\ age > 0
    /\ pc' = "poll"
    /\ UNCHANGED <<subtickCounter, readtick, tick, readings, ovenTempAccum, ovenTemp,
                   age, polled, seenVars, settled, overrun>>

MainLoop ==
    \/ TakeReading \/ DropReading \/ ClearReadtick \/ NoReading
    \/ UpdateTemp \/ ClearTick \/ NoTick \/ NextPass

Next == TimerInterrupt \/ MainLoop

Spec == Init /\ [][Next]_vars

-----------------------------------------------------------------------------
(* Every variable keeps its type; the sum of a half second has 18 bits. *)
TypeOK ==
    /\ subtickCounter \in 0..99
    /\ readtick \in BOOLEAN
    /\ tick \in 0..255
    /\ readings \in 0..Enough
    /\ ovenTempAccum \in 0..(4 * (Word - 1))
    /\ ovenTemp \in 0..(Word - 1)
    /\ pc \in {"poll", "polled", "handler", "updated", "rest"}
    /\ age \in 0..PassMax /\ polled \in BOOLEAN
    /\ low \in 0..Word /\ high \in 0..(Word - 1)
    /\ suspect \in BOOLEAN /\ settled \in BOOLEAN /\ overrun \in BOOLEAN

(* Where an average has just been made and its window is still known. *)
Averaged == pc = "updated"

(* The dangerous direction: a window with a faulty reading, or one below    *)
(* zero, in it never gives a temperature an oven could have, so the over-   *)
(* temperature stop or the sensor trip sees it.  Whatever the others were,  *)
(* however few there were, and however late the pass.                       *)
FaultNeverCool == Averaged /\ suspect => ovenTemp > 1080

(* As long as every pass polls within 100 ms, each average after the first  *)
(* lies between the smallest and the largest reading of its half second:    *)
(* four readings are there to be divided by four, no request having been    *)
(* lost between the test and the clearing of readtick, or between tick and  *)
(* readings.                                                                *)
AverageInRange == Averaged /\ settled => low <= ovenTemp /\ ovenTemp <= high

(* On the same condition every half second is counted: tick is back at zero *)
(* before the interrupt raises it again, and is never cleared unseen.       *)
NoHalfSecondLost == tick <= 1 /\ ~overrun

-----------------------------------------------------------------------------
(* What the source says of itself and the program does not do.             *)

(* "if (ovenTemp >= 480) //120c" (ReflowOven.c:1549): once every reading of *)
(* a half second has been 120 C or more, the 120 degree cutoff is reached.  *)
CutoffSeesTheHeat ==
    Averaged /\ settled /\ readings > 0 /\ low >= 480 => ovenTemp >= 480
=============================================================================
