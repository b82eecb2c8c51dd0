-------------------------- MODULE HeaterPWM_proofs --------------------------
(***************************************************************************)
(* Theorems about the software PWM for every period, every set of ratios   *)
(* and every width of tick.                                                *)
(***************************************************************************)
EXTENDS HeaterPWM, TLAPS

(* The next position in the period is 0, or one more than the present one. *)
LEMMA NextSubtickCases ==
    ASSUME subtickCounter \in 0..(Period - 1)
    PROVE  /\ NextSubtick \in 0..(Period - 1)
           /\ NextSubtick = 0 \/ NextSubtick = subtickCounter + 1
  <1>1. CASE subtickCounter + 1 = Period
    BY <1>1, PeriodAssumption, SMT DEF NextSubtick
  <1>2. CASE subtickCounter + 1 < Period
    BY <1>2, PeriodAssumption, SMT DEF NextSubtick
  <1>3. QED
    BY <1>1, <1>2, PeriodAssumption

(* Type correctness of the interrupt and of setDutyCycle. *)
THEOREM TypeCorrect == Spec => []TypeOK
  <1>1. Init => TypeOK
    <2>1. 0 \in Ratios /\ 0 \in 0..(Period - 1) /\ 0 \in 0..(TickMod - 1)
      BY PeriodAssumption, RatiosAssumption, TickModAssumption
    <2>2. QED
      BY <2>1, Zenon DEF Init, TypeOK
  <1>2. TypeOK /\ [Next]_pwmVars => TypeOK'
    <2> SUFFICES ASSUME TypeOK, [Next]_pwmVars PROVE TypeOK'
      OBVIOUS
    <2>1. CASE TimerInterrupt
      <3>1. NextSubtick \in 0..(Period - 1)
        BY NextSubtickCases DEF TypeOK
      <3>2. tick' \in 0..(TickMod - 1)
        BY <2>1, TickModAssumption, SMT DEF TimerInterrupt, TypeOK
      <3>3. readtick' \in BOOLEAN /\ ssr' \in BOOLEAN /\ steady' \in BOOLEAN
        BY <2>1 DEF TimerInterrupt, PwmEdge, TypeOK
      <3>4. QED
        BY <2>1, <3>1, <3>2, <3>3 DEF TimerInterrupt, TypeOK
    <2>2. CASE \E ratio \in Ratios : WriteDuty(ratio)
      BY <2>2 DEF WriteDuty, TypeOK
    <2>3. CASE WritePin
      BY <2>3 DEF WritePin, PinAfter, TypeOK
    <2>4. CASE ConsumeReadtick
      BY <2>4 DEF ConsumeReadtick, TypeOK
    <2>5. CASE ConsumeTick
      BY <2>5, TickModAssumption, SMT DEF ConsumeTick, TypeOK
    <2>6. CASE UNCHANGED pwmVars
      BY <2>6 DEF pwmVars, TypeOK
    <2>7. QED
      BY <2>1, <2>2, <2>3, <2>4, <2>5, <2>6 DEF Next
  <1>3. QED
    BY <1>1, <1>2, PTL DEF Spec

-----------------------------------------------------------------------------
(* The waveform of a period whose ratio was left alone.  It is inductive   *)
(* together with the types alone: "steady" becomes TRUE only at position   *)
(* 0, where the interrupt has just set the pin for the ratio in force, and *)
(* a call that leaves the ratio modulated writes no pin.                   *)
THEOREM WaveformCorrect == Spec => []Waveform
  <1>1. Init => Waveform
    BY SMT DEF Init, Waveform, Modulated
  <1>2. TypeOK /\ Waveform /\ [Next]_pwmVars => Waveform'
    <2> SUFFICES ASSUME TypeOK, Waveform, [Next]_pwmVars, steady', Modulated'
                 PROVE  ssr' <=> subtickCounter' < duty_cycle'
      BY DEF Waveform
    <2>0. duty_cycle \in Nat /\ duty_cycle' \in Nat
      <3>1. \A ratio \in Ratios : ratio \in Nat
        BY RatiosAssumption
      <3>2. duty_cycle \in Ratios /\ duty_cycle' \in Ratios
        BY DEF TypeOK, Next, TimerInterrupt, WriteDuty, WritePin,
               ConsumeReadtick, ConsumeTick, pwmVars
      <3>3. QED
        BY <3>1, <3>2
    <2>1. CASE TimerInterrupt
      <3>1. /\ NextSubtick \in 0..(Period - 1)
            /\ NextSubtick = 0 \/ NextSubtick = subtickCounter + 1
        BY NextSubtickCases DEF TypeOK
      <3>2. /\ subtickCounter' = NextSubtick
            /\ duty_cycle' = duty_cycle
            /\ ssr' = PwmEdge(NextSubtick)
            /\ Modulated
            /\ NextSubtick = 0 \/ steady
        BY <2>1 DEF TimerInterrupt, Modulated
      <3>3. CASE NextSubtick = 0
        BY <3>2, <3>3, <2>0, SMT DEF PwmEdge, Modulated
      <3>4. CASE NextSubtick # 0
        <4>1. steady /\ NextSubtick = subtickCounter + 1
          BY <3>1, <3>2, <3>4
        <4>2. ssr <=> subtickCounter < duty_cycle
          BY <4>1, <3>2 DEF Waveform
        <4>3. ssr' <=> (NextSubtick # duty_cycle /\ ssr)
          BY <3>2, <3>4 DEF PwmEdge, TypeOK
        <4>4. subtickCounter \in Nat
          BY DEF TypeOK
        <4>5. (NextSubtick # duty_cycle /\ subtickCounter < duty_cycle)
                <=> NextSubtick < duty_cycle
          BY <4>1, <4>4, <2>0, SMT
        <4>6. QED
          BY <4>2, <4>3, <4>5, <3>2
      <3>5. QED
        BY <3>3, <3>4
    <2>2. CASE \E ratio \in Ratios : WriteDuty(ratio)
      <3>1. steady /\ duty_cycle' = duty_cycle /\ ssr' = ssr
            /\ subtickCounter' = subtickCounter
        BY <2>2, Zenon DEF WriteDuty
      <3>2. QED
        BY <3>1, Zenon DEF Waveform, Modulated
    <2>3. CASE WritePin
      <3>1. duty_cycle' = duty_cycle /\ steady
            /\ subtickCounter' = subtickCounter
            /\ ssr' = PinAfter(duty_cycle, ssr)
        BY <2>3, Zenon DEF WritePin
      <3>2. Modulated /\ duty_cycle # 0 /\ duty_cycle # Period
        BY <3>1, <2>0, PeriodAssumption DEF Modulated
      <3>3. ssr' = ssr
        BY <3>1, <3>2, Zenon DEF PinAfter
      <3>4. ssr <=> subtickCounter < duty_cycle
        BY <3>1, <3>2 DEF Waveform
      <3>5. QED
        BY <3>1, <3>3, <3>4
    <2>4. CASE ConsumeReadtick \/ ConsumeTick \/ UNCHANGED pwmVars
      <3>1. UNCHANGED <<duty_cycle, ssr, subtickCounter, steady>>
        BY <2>4 DEF ConsumeReadtick, ConsumeTick, pwmVars
      <3>2. QED
        BY <3>1, Zenon DEF Waveform, Modulated
    <2>5. QED
      BY <2>1, <2>2, <2>3, <2>4 DEF Next
  <1>3. QED
    BY <1>1, <1>2, TypeCorrect, PTL DEF Spec
-----------------------------------------------------------------------------
(* A call that has returned left the pin where it was asked to be, and no  *)
(* interrupt moves it: the two fixed ratios are outside Modulated.         *)
THEOREM PinSettles == Spec => []PinSettled
  <1>1. Init => PinSettled
    BY PeriodAssumption DEF Init, PinSettled
  <1>2. PinSettled /\ [Next]_pwmVars => PinSettled'
    <2> SUFFICES ASSUME PinSettled, [Next]_pwmVars PROVE PinSettled'
      OBVIOUS
    <2>1. CASE TimerInterrupt
      <3>1. duty_cycle \in {0, Period} => ~Modulated
        BY PeriodAssumption DEF Modulated
      <3>2. ~Modulated => ssr' = ssr
        BY <2>1 DEF TimerInterrupt, PwmEdge
      <3>3. duty_cycle' = duty_cycle /\ pc' = pc
        BY <2>1 DEF TimerInterrupt
      <3>4. QED
        BY <3>1, <3>2, <3>3 DEF PinSettled
    <2>2. CASE \E ratio \in Ratios : WriteDuty(ratio)
      BY <2>2 DEF WriteDuty, PinSettled
    <2>3. CASE WritePin
      BY <2>3, PeriodAssumption DEF WritePin, PinAfter, PinSettled
    <2>4. CASE ConsumeReadtick \/ ConsumeTick \/ UNCHANGED pwmVars
      BY <2>4 DEF ConsumeReadtick, ConsumeTick, pwmVars, PinSettled
    <2>5. QED
      BY <2>1, <2>2, <2>3, <2>4 DEF Next
  <1>3. QED
    BY <1>1, <1>2, PTL DEF Spec

-----------------------------------------------------------------------------
(* The PWM implements HeaterDrive.  An interrupt is an edge of the drive   *)
(* or a stutter; a call takes effect at its pin write when it asks for 0   *)
(* or Period, and at its assignment otherwise.                             *)
THEOREM ImplementsHeaterDrive == Spec => ImplementsDrive
  <1>1. Init => Drive!DriveInit
    BY DEF Init, Drive!DriveInit, RatioInForce
  <1>2. TypeOK /\ [Next]_pwmVars => [Drive!DriveNext]_(Drive!driveVars)
    <2> SUFFICES ASSUME TypeOK, [Next]_pwmVars
                 PROVE  \/ Drive!DriveEdge
                        \/ \E ratio \in Ratios : Drive!DriveSet(ratio)
                        \/ RatioInForce' = RatioInForce /\ ssr' = ssr
      BY DEF Drive!DriveNext, Drive!driveVars
    <2>1. CASE TimerInterrupt
      <3>1. RatioInForce' = RatioInForce
        BY <2>1 DEF TimerInterrupt, RatioInForce
      <3>2. CASE Modulated
        <4>1. RatioInForce = duty_cycle
          BY <3>2, PeriodAssumption DEF Modulated, RatioInForce
        <4>2. ssr' \in BOOLEAN
          BY <2>1 DEF TimerInterrupt, PwmEdge, TypeOK
        <4>3. QED
          BY <3>1, <3>2, <4>1, <4>2 DEF Modulated, Drive!DriveEdge, Drive!Modulated
      <3>3. CASE ~Modulated
        BY <2>1, <3>1, <3>3 DEF TimerInterrupt, PwmEdge
      <3>4. QED
        BY <3>2, <3>3
    <2>2. CASE \E ratio \in Ratios : WriteDuty(ratio)
      <3>1. PICK ratio \in Ratios : WriteDuty(ratio)
        BY <2>2
      <3>2. CASE ratio \in {0, Period}
        BY <3>1, <3>2 DEF WriteDuty, RatioInForce
      <3>3. CASE ratio \notin {0, Period}
        BY <3>1, <3>3 DEF WriteDuty, RatioInForce, Drive!DriveSet, Drive!SsrAfter
      <3>4. QED
        BY <3>2, <3>3
    <2>3. CASE WritePin
      <3>1. CASE duty_cycle \in {0, Period}
        BY <2>3, <3>1
           DEF WritePin, PinAfter, RatioInForce, TypeOK, Drive!DriveSet, Drive!SsrAfter
      <3>2. CASE duty_cycle \notin {0, Period}
        BY <2>3, <3>2 DEF WritePin, PinAfter, RatioInForce
      <3>3. QED
        BY <3>1, <3>2
    <2>4. CASE ConsumeReadtick \/ ConsumeTick \/ UNCHANGED pwmVars
      BY <2>4 DEF ConsumeReadtick, ConsumeTick, pwmVars, RatioInForce
    <2>5. QED
      BY <2>1, <2>2, <2>3, <2>4 DEF Next
  <1>3. QED
    BY <1>1, <1>2, TypeCorrect, PTL DEF Spec, ImplementsDrive, Drive!DriveSpec
=============================================================================
