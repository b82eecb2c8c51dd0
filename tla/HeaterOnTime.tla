---------------------------- MODULE HeaterOnTime ----------------------------
(***************************************************************************)
(* HeaterPWM with two history variables that measure the heat delivered    *)
(* after a call of setDutyCycle: how many of the timer intervals since it  *)
(* returned (at most one period of them) the element was driven.           *)
(***************************************************************************)
EXTENDS HeaterPWM

VARIABLES sinceSet,    \* intervals since setDutyCycle returned, up to Period
          onSince      \* how many of them the element was driven

onTimeVars == <<pwmVars, sinceSet, onSince>>

InitOnTime == Init /\ sinceSet = 0 /\ onSince = 0

Measure ==
    IF sinceSet < Period
    THEN /\ sinceSet' = sinceSet + 1
         /\ onSince' = IF ssr' THEN onSince + 1 ELSE onSince
    ELSE UNCHANGED <<sinceSet, onSince>>

NextOnTime ==
    \/ TimerInterrupt /\ Measure
    \/ WritePin /\ sinceSet' = 0 /\ onSince' = 0
    \/ /\ ConsumeReadtick \/ ConsumeTick \/ \E ratio \in Ratios : WriteDuty(ratio)
       /\ UNCHANGED <<sinceSet, onSince>>

SpecOnTime == InitOnTime /\ [][NextOnTime]_onTimeVars

(* "Turn on the SSR at 5%" (ReflowOven.c:1141): in the period that follows  *)
(* the call the element is driven for no more than the ratio asked for.     *)
RatioDelivered ==
    pc = "main" /\ Modulated /\ sinceSet = Period => onSince <= duty_cycle
=============================================================================
