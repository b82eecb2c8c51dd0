------------------------------ MODULE HeaterPWM ------------------------------
(***************************************************************************)
(* The software PWM of the heating element: the timer interrupt            *)
(* TIMER1_COMPA (every 10 ms) and setDutyCycle, which the main program     *)
(* runs and the interrupt can cut in two between the assignment of         *)
(* duty_cycle and the write of the SSR pin.  The interrupt also raises     *)
(* readtick and tick, which the main loop consumes.                        *)
(***************************************************************************)
EXTENDS Naturals

CONSTANTS Period,      \* 100 timer interrupts make one PWM period
          Half,        \* 50: tick also advances in the middle of the period
          ReadEvery,   \* 10: readtick is raised every tenth interrupt
          Ratios,      \* the ratios the main program asks for
          TickMod      \* 256: tick is a uint8_t

ASSUME PeriodAssumption    == Period \in Nat \ {0}
ASSUME HalfAssumption      == Half \in 0..(Period - 1)
ASSUME ReadEveryAssumption == ReadEvery \in Nat \ {0}
ASSUME RatiosAssumption    == Ratios \subseteq 0..255 /\ 0 \in Ratios
ASSUME TickModAssumption   == TickMod \in Nat \ {0}

VARIABLES
    duty_cycle,        \* volatile uint8_t, written by the main program only
    ssr,               \* pin PB4: TRUE when the heating element is driven
    subtickCounter,    \* position in the PWM period
    readtick,          \* "read the thermocouple": raised here, cleared in main
    tick,              \* half seconds since main last cleared it
    pc,                \* "main": outside setDutyCycle, "pin": duty_cycle written
    (* history variables: no code reads them *)
    asked,             \* the ratio in force before the unfinished setDutyCycle
    steady             \* duty_cycle has not changed since subtickCounter was 0

pwmVars == <<duty_cycle, ssr, subtickCounter, readtick, tick, pc, asked, steady>>

Init ==
    /\ duty_cycle = 0
    /\ ssr = FALSE
    /\ subtickCounter = 0
    /\ readtick = FALSE
    /\ tick = 0
    /\ pc = "main"
    /\ asked = 0
    /\ steady = TRUE

Modulated == 0 < duty_cycle /\ duty_cycle < Period

-----------------------------------------------------------------------------
(* ISR (TIMER1_COMPA_vect).  PORTB bits change with single instructions,   *)
(* so an SSR write of the interrupt and one of the main program never mix. *)

(* Mutated forms: the "on" comparison first and without the duty_cycle      *)
(* guard; no "on" comparison; off one late.                                 *)
OnFirst(subtick) ==
    IF subtick = 0 THEN TRUE ELSE IF subtick = duty_cycle THEN FALSE ELSE ssr
NeverOn(subtick) == IF Modulated /\ subtick = duty_cycle THEN FALSE ELSE ssr
OffLate(subtick) ==
    IF ~Modulated THEN ssr
    ELSE IF subtick = duty_cycle + 1 THEN FALSE ELSE subtick = 0 \/ ssr

NextSubtick == (subtickCounter + 1) % Period

PwmEdge(subtick) ==
    IF ~Modulated THEN ssr
    ELSE IF subtick = duty_cycle THEN FALSE
    ELSE IF subtick = 0 THEN TRUE
    ELSE ssr

TimerInterrupt ==
    LET subtick == NextSubtick
    IN  /\ subtickCounter' = subtick
        /\ readtick' = (readtick \/ subtick % ReadEvery = 0)
        /\ tick' = IF subtick \in {0, Half} THEN (tick + 1) % TickMod ELSE tick
        /\ ssr' = PwmEdge(subtick)
        /\ steady' = (steady \/ subtick = 0)
        /\ UNCHANGED <<duty_cycle, pc, asked>>

-----------------------------------------------------------------------------
(* setDutyCycle: first the assignment, then the pin. *)

WriteDuty(ratio) ==
    /\ pc = "main"
    /\ duty_cycle' = ratio
    /\ asked' = duty_cycle
    /\ steady' = (steady /\ ratio = duty_cycle)
    /\ pc' = "pin"
    /\ UNCHANGED <<ssr, subtickCounter, readtick, tick>>

(* Mutated form: turning off is left to the interrupt. *)
OnPinOnly(ratio, before) == IF ratio = Period THEN TRUE ELSE before

PinAfter(ratio, before) ==
    IF ratio = 0 THEN FALSE
    ELSE IF ratio = Period THEN TRUE
    ELSE before

WritePin ==
    /\ pc = "pin"
    /\ ssr' = PinAfter(duty_cycle, ssr)
    /\ pc' = "main"
    /\ UNCHANGED <<duty_cycle, subtickCounter, readtick, tick, asked, steady>>

(* The main loop consumes what the interrupt raised. *)
ConsumeReadtick ==
    /\ pc = "main" /\ readtick
    /\ readtick' = FALSE
    /\ UNCHANGED <<duty_cycle, ssr, subtickCounter, tick, pc, asked, steady>>

ConsumeTick ==
    /\ pc = "main" /\ tick # 0
    /\ tick' = 0
    /\ UNCHANGED <<duty_cycle, ssr, subtickCounter, readtick, pc, asked, steady>>

Next ==
    \/ TimerInterrupt
    \/ \E ratio \in Ratios : WriteDuty(ratio)
    \/ WritePin
    \/ ConsumeReadtick
    \/ ConsumeTick

(* The timer keeps firing and a started setDutyCycle returns. *)
Spec == Init /\ [][Next]_pwmVars
FairSpec == Spec /\ WF_pwmVars(TimerInterrupt) /\ WF_pwmVars(WritePin)

-----------------------------------------------------------------------------
(* Every variable keeps its type; duty_cycle and tick stay within a byte. *)
TypeOK ==
    /\ duty_cycle \in Ratios
    /\ ssr \in BOOLEAN
    /\ subtickCounter \in 0..(Period - 1)
    /\ readtick \in BOOLEAN
    /\ tick \in 0..(TickMod - 1)
    /\ pc \in {"main", "pin"}
    /\ asked \in Ratios
    /\ steady \in BOOLEAN

(* The waveform: in a period whose ratio was not touched since it began,    *)
(* the element is driven during exactly the first duty_cycle interrupts of  *)
(* it, whatever the main program did before and wherever setDutyCycle was   *)
(* interrupted.  Two switching points of the interrupt, the order of its    *)
(* two comparisons and the pin write of setDutyCycle all bear on it.        *)
Waveform ==
    steady /\ Modulated => (ssr <=> subtickCounter < duty_cycle)

(* Once setDutyCycle(0) has returned the element is off, and once           *)
(* setDutyCycle(100) has returned it is on, until the next call: no         *)
(* interrupt that fired inside the call leaves the pin in another state.    *)
PinSettled ==
    pc = "main" => /\ duty_cycle = 0      => ~ssr
                   /\ duty_cycle = Period => ssr

(* The PWM implements the drive the control program relies on.  While a     *)
(* call that asks for 0 or 100 is between its two writes the old ratio is   *)
(* still the one in force.                                                  *)
RatioInForce ==
    IF pc = "pin" /\ duty_cycle \in {0, Period} THEN asked ELSE duty_cycle

Drive == INSTANCE HeaterDrive WITH Full <- Period, duty <- RatioInForce

ImplementsDrive == Drive!DriveSpec

(* A ratio strictly between off and on that is left alone keeps the        *)
(* element switching for ever: the interrupt gets stuck neither on nor off. *)
KeepsSwitching ==
    \A ratio \in Ratios \cap 1..(Period - 1) :
        <>[](duty_cycle = ratio) => []<>ssr /\ []<>(~ssr)
=============================================================================
