---------------------------- MODULE Startup_proofs ----------------------------
(***************************************************************************)
(* Proofs about the display driver and the start-up, for every set of      *)
(* instructions and texts the program sends.  The first half is about the  *)
(* display alone, whose steps are those of LcdNext; the second half adds   *)
(* the places of main and the counting of half seconds.                    *)
(***************************************************************************)
EXTENDS Startup, TLAPS

(* What happens to the display and its driver in a step of the program. *)
LcdNext == Driver \/ Show \/ BecomeReady \/ LcdReset

-----------------------------------------------------------------------------
(* The sequence of lcd_init has sixteen steps; these are they.             *)
LEMMA InitSteps ==
    /\ Len(lcd_init) = 16
    /\ \A s \in {1, 3, 5, 7, 9, 11} : lcd_init[s].do = "delay"
    /\ lcd_init[1].us = 16000 /\ lcd_init[3].us = 4992
    /\ \A s \in {5, 7, 9, 11} : lcd_init[s].us = 64
    /\ \A s \in {2, 4, 6, 8} : lcd_init[s].do = "pulse"
    /\ lcd_init[2].nibble = 3 /\ lcd_init[4].nibble = 3
    /\ lcd_init[6].nibble = 3 /\ lcd_init[8].nibble = 2
    /\ \A s \in {10, 13, 14, 15, 16} : lcd_init[s].do = "command"
    /\ lcd_init[10].byte = <<2, 8>> /\ lcd_init[13].byte = <<0, 8>>
    /\ lcd_init[14].byte = <<0, 1>> /\ lcd_init[15].byte = <<0, 6>>
    /\ lcd_init[16].byte = <<0, 12>>
    /\ lcd_init[12].do = "test"
BY DEF lcd_init, Pulse, Delay, Instruct, Test

-----------------------------------------------------------------------------
(* The invariant of driver and display.                                    *)

(* Calls are made where lcd_init makes one, or after it; they send what     *)
(* they should.                                                            *)
CallsInPlace ==
    /\ call # "next" => step \in {0, 10, 13, 14, 15, 16}
    /\ ~InitDone => ~rs
    /\ ~InitDone /\ call # "next" => byte = lcd_init[step].byte
    /\ InitDone /\ call # "next" /\ ~rs => byte \in Instructions

(* How long a display that is there can be busy: what the pulse before a   *)
(* delay started takes at most as long as the delay.                       *)
ReadyInTime ==
    /\ step \in {2, 4, 6, 8, 12} => busy = 0
    /\ step = 3 => busy # 10000
    /\ step \in {5, 7, 9, 11} => busy \in {0, 37}
    /\ call \in {"high", "low"} => busy = 0

(* What the three pulses make of the width and the half byte that a reset  *)
(* left: the second or the third of them is the 8 bit command.             *)
Resynchronised ==
    /\ step \in {3, 4} => (width = 8 /\ half = None) \/ (width = 4 /\ half \in {None, 3})
    /\ step \in {5, 6} => (width = 8 /\ half = None) \/ (width = 4 /\ half = 3)
    /\ step \in {7, 8} => width = 8 /\ half = None
    /\ step = 9 \/ Switched =>
        /\ width = 4
        /\ half # None <=> call = "low"
        /\ call = "low" => half = byte[1]

SetUp ==
    /\ step = 0 \/ step >= 11 => lines = 2
    /\ step = 0 => on

(* What is known of the display where the test is made, and of its outcome. *)
Tested ==
    /\ step \in {11, 12} => pulledUp
    /\ step # 0 => lcdPresent
    /\ step >= 13 => fitted
    /\ step = 0 => (lcdPresent <=> fitted)

LcdInv ==
    /\ LcdTypeOK /\ CallsInPlace /\ Tested
    /\ fitted => ReadyInTime /\ Resynchronised /\ SetUp

(* The steps of lcd_init by kind. *)
LEMMA StepKinds ==
    ASSUME LcdTypeOK, ~InitDone
    PROVE  /\ step \in 1..16
           /\ Current.do = "pulse" <=> step \in {2, 4, 6, 8}
           /\ Current.do = "delay" <=> step \in {1, 3, 5, 7, 9, 11}
           /\ Current.do = "test" <=> step = 12
           /\ Current.do = "command" <=> step \in {10, 13, 14, 15, 16}
           /\ NextStep = IF step = 16 THEN 0 ELSE step + 1
<1>1. step \in 1..16
  BY InitSteps DEF LcdTypeOK, InitDone
<1> QED BY <1>1, InitSteps DEF Current, NextStep

(* Power-up satisfies the invariant. *)
LEMMA LcdInitInv == ASSUME LcdInit PROVE LcdInv
<1>0. /\ step = 1 /\ call = "next" /\ byte = <<0, 0>>
      /\ rs = FALSE /\ pulledUp = FALSE /\ lcdPresent = TRUE
      /\ width = 8 /\ half = None /\ busy = 10000 /\ lines = 1
      /\ fitted \in BOOLEAN /\ on = FALSE
  BY DEF LcdInit
<1>1. /\ step = 1 /\ call = "next" /\ byte = <<0, 0>> /\ ~rs /\ ~pulledUp /\ lcdPresent
      /\ width = 8 /\ half = None /\ busy = 10000 /\ lines = 1
      /\ rs \in BOOLEAN /\ pulledUp \in BOOLEAN /\ lcdPresent \in BOOLEAN
      /\ fitted \in BOOLEAN /\ on \in BOOLEAN
  <2>1. rs = FALSE /\ pulledUp = FALSE /\ lcdPresent = TRUE /\ fitted \in BOOLEAN /\ on = FALSE
    BY <1>0
  <2>2. /\ ~rs /\ ~pulledUp /\ lcdPresent
        /\ rs \in BOOLEAN /\ pulledUp \in BOOLEAN /\ lcdPresent \in BOOLEAN
        /\ fitted \in BOOLEAN /\ on \in BOOLEAN
    BY <2>1, Zenon
  <2> QED BY <1>0, <2>2
<1>2. LcdTypeOK
  BY <1>1, InitSteps DEF LcdTypeOK, Nibble, Times
<1>3. CallsInPlace
  BY <1>1 DEF CallsInPlace, InitDone
<1>4. Tested
  BY <1>1 DEF Tested
<1>5. ReadyInTime /\ Resynchronised /\ SetUp
  BY <1>1 DEF ReadyInTime, Resynchronised, SetUp, Switched, InitDone
<1> QED BY <1>2, <1>3, <1>4, <1>5 DEF LcdInv

(* A reset of the processor starts anywhere. *)
LEMMA ResetInv == ASSUME LcdInv, LcdReset PROVE LcdInv'
<1>0. /\ step' = 1 /\ call' = "next" /\ byte' = <<0, 0>>
      /\ rs' = FALSE /\ pulledUp' = FALSE /\ lcdPresent' = TRUE
      /\ fitted' = fitted
  BY DEF LcdReset
<1>1. /\ step' = 1 /\ call' = "next" /\ byte' = <<0, 0>> /\ ~rs' /\ ~pulledUp' /\ lcdPresent'
      /\ rs' \in BOOLEAN /\ pulledUp' \in BOOLEAN /\ lcdPresent' \in BOOLEAN
      /\ fitted' = fitted
  BY <1>0, Zenon
<1>2. /\ width' \in {4, 8} /\ half' \in {None} \cup Nibble /\ busy' \in Times
      /\ lines' \in {1, 2} /\ on' \in BOOLEAN /\ fitted' \in BOOLEAN
  <2>1. /\ width' = width \/ width' = 8
        /\ half' = half \/ half' = None
        /\ busy' = busy \/ busy' = 10000
        /\ lines' = lines \/ lines' = 1
        /\ on' = on \/ on' = FALSE
    BY DEF LcdReset, displayVars
  <2>2. on' \in BOOLEAN /\ fitted' \in BOOLEAN
    <3>1. on \in BOOLEAN /\ fitted \in BOOLEAN
      BY DEF LcdInv, LcdTypeOK
    <3>2. on' = on \/ on' = FALSE
      BY <2>1
    <3> QED BY <1>1, <3>1, <3>2, Zenon
  <2> QED BY <2>1, <2>2 DEF LcdInv, LcdTypeOK, Times
<1>3. LcdTypeOK'
  BY <1>1, <1>2, InitSteps DEF LcdTypeOK, Nibble
<1>4. CallsInPlace' /\ Tested'
  BY <1>1 DEF CallsInPlace, Tested, InitDone
<1>5. ReadyInTime' /\ Resynchronised' /\ SetUp'
  BY <1>1 DEF ReadyInTime, Resynchronised, SetUp, Switched, InitDone
<1> QED BY <1>3, <1>4, <1>5 DEF LcdInv

LEMMA ReadyInv == ASSUME LcdInv, BecomeReady PROVE LcdInv'
BY DEF BecomeReady, driverVars, LcdInv, LcdTypeOK, CallsInPlace, Tested, ReadyInTime,
    Resynchronised, SetUp, Switched, InitDone, Times

(* A delay makes the display ready, since none follows an instruction that *)
(* takes longer.                                                           *)
LEMMA DelayInv == ASSUME LcdInv, DoDelay PROVE LcdInv'
<1>1. /\ ~InitDone /\ step \in {1, 3, 5, 7, 9, 11} /\ step' = step + 1
      /\ call = "next" /\ UNCHANGED <<call, byte, rs, pulledUp, lcdPresent>>
      /\ UNCHANGED <<fitted, width, half, lines, on>>
  BY StepKinds DEF DoDelay, LcdInv
<1>2. fitted => busy' = 0
  <2>1. Current.us = IF step = 1 THEN 16000 ELSE IF step = 3 THEN 4992 ELSE 64
    BY <1>1, InitSteps DEF Current
  <2>2. fitted => busy <= Current.us
    BY <1>1, <2>1 DEF LcdInv, LcdTypeOK, Times, ReadyInTime
  <2> QED BY <2>1, <2>2 DEF DoDelay
<1>3. busy' \in Times
  BY DEF DoDelay, LcdInv, LcdTypeOK, Times
<1> QED BY <1>1, <1>2, <1>3, InitSteps DEF LcdInv, LcdTypeOK, CallsInPlace, Tested, ReadyInTime,
    Resynchronised, SetUp, Switched, InitDone

-----------------------------------------------------------------------------
(* The pulses of lcd_init.  In each case Take is what a display of the     *)
(* width and half byte at hand makes of the nibble.                        *)

(* What a pulse leaves alone, and the types of what it does not.           *)
LEMMA TakeTypes ==
    ASSUME LcdTypeOK, NEW n \in Nibble, Take(n)
    PROVE  /\ fitted' = fitted
           /\ width' \in {4, 8} /\ half' \in {None} \cup Nibble /\ busy' \in Times
           /\ lines' \in {1, 2} /\ on' \in BOOLEAN
<1>1. CASE ~fitted
  BY <1>1 DEF Take, displayVars, LcdTypeOK
<1>2. CASE fitted
  <2>1. CASE UNCHANGED <<width, lines, on, busy>> /\ half' = n
    BY <1>2, <2>1 DEF Take, LcdTypeOK
  <2>2. CASE busy' = 37 /\ UNCHANGED <<width, lines, on>> /\ half' = None
    BY <1>2, <2>2 DEF Take, LcdTypeOK, Times
  <2>3. ASSUME NEW h \in Nibble, NEW l \in Nibble, Execute(h, l), half' = None
        PROVE  /\ fitted' = fitted
               /\ width' \in {4, 8} /\ half' \in {None} \cup Nibble /\ busy' \in Times
               /\ lines' \in {1, 2} /\ on' \in BOOLEAN
    <3>1. fitted' = fitted
      BY <1>2 DEF Take
    <3>2. width' \in {4, 8} /\ lines' \in {1, 2}
      BY <2>3 DEF Execute, LcdTypeOK
    <3>3. busy' \in Times
      BY <2>3 DEF Execute, Times
    <3>4. on' \in BOOLEAN
      <4>1. (l >= 12) \in BOOLEAN
        OBVIOUS
      <4> QED BY <2>3, <4>1, Zenon DEF Execute, LcdTypeOK
    <3> QED BY <2>3, <3>1, <3>2, <3>3, <3>4
  <2>4. 0 \in Nibble /\ (half # None => half \in Nibble)
    BY DEF Nibble, LcdTypeOK
  <2> QED BY <1>2, <2>1, <2>2, <2>3, <2>4 DEF Take, LcdTypeOK
<1> QED BY <1>1, <1>2

LEMMA PulseInv == ASSUME LcdInv, DoPulse PROVE LcdInv'
<1>1. /\ ~InitDone /\ step \in {2, 4, 6, 8} /\ step' = step + 1
      /\ call = "next" /\ ~rs /\ UNCHANGED <<call, byte, rs, pulledUp, lcdPresent>>
  BY StepKinds DEF DoPulse, LcdInv, CallsInPlace
<1>2. /\ Current.nibble = (IF step = 8 THEN 2 ELSE 3) /\ Current.nibble \in Nibble
      /\ Take(Current.nibble)
  BY <1>1, InitSteps DEF Current, Nibble, DoPulse
<1>3. LcdTypeOK' /\ fitted' = fitted
  BY <1>1, <1>2, TakeTypes, InitSteps DEF LcdInv, LcdTypeOK
<1>4. CallsInPlace' /\ Tested'
  BY <1>1, <1>3 DEF LcdInv, CallsInPlace, Tested, InitDone
<1>5. ASSUME fitted PROVE ReadyInTime' /\ Resynchronised' /\ SetUp'
  <2>1. busy = 0 /\ half \in {None} \cup Nibble /\ width \in {4, 8}
    BY <1>1, <1>5 DEF LcdInv, LcdTypeOK, ReadyInTime
  <2>2. CASE step = 2
    <3>1. step' = 3 /\ busy' \in {0, 37, 1520}
      BY <1>1, <1>2, <1>5, <2>1, <2>2 DEF Take, Execute, None, Nibble
    <3>2. (width' = 8 /\ half' = None) \/ (width' = 4 /\ half' \in {None, 3})
      BY <1>1, <1>2, <1>5, <2>1, <2>2 DEF Take, Execute, None, Nibble
    <3> QED BY <1>1, <3>1, <3>2 DEF ReadyInTime, Resynchronised, SetUp, Switched, InitDone
  <2>3. CASE step = 4
    <3>1. step' = 5 /\ busy' \in {0, 37}
      BY <1>1, <1>2, <1>5, <2>1, <2>3 DEF Take, Execute, None, Nibble, LcdInv, Resynchronised
    <3>2. (width' = 8 /\ half' = None) \/ (width' = 4 /\ half' = 3)
      BY <1>1, <1>2, <1>5, <2>1, <2>3 DEF Take, Execute, None, Nibble, LcdInv, Resynchronised
    <3> QED BY <1>1, <3>1, <3>2 DEF ReadyInTime, Resynchronised, SetUp, Switched, InitDone
  <2>4. CASE step = 6
    <3>1. step' = 7 /\ busy' \in {0, 37} /\ width' = 8 /\ half' = None
      BY <1>1, <1>2, <1>5, <2>1, <2>4 DEF Take, Execute, None, Nibble, LcdInv, Resynchronised
    <3> QED BY <1>1, <3>1 DEF ReadyInTime, Resynchronised, SetUp, Switched, InitDone
  <2>5. CASE step = 8
    <3>1. step' = 9 /\ busy' \in {0, 37} /\ width' = 4 /\ half' = None
      BY <1>1, <1>2, <1>5, <2>1, <2>5 DEF Take, Execute, None, Nibble, LcdInv, Resynchronised
    <3>2. half' # None <=> call' = "low"
      BY <1>1, <3>1
    <3> QED BY <1>1, <3>1, <3>2 DEF ReadyInTime, Resynchronised, SetUp, Switched, InitDone
  <2> QED BY <1>1, <2>2, <2>3, <2>4, <2>5
<1> QED BY <1>3, <1>4, <1>5 DEF LcdInv

(* With a display the flag is read between two bytes, so it is the truth;   *)
(* without one the pull-ups are on, and the answer is "busy".              *)
LEMMA TestInv == ASSUME LcdInv, DoTest PROVE LcdInv'
<1>1. /\ ~InitDone /\ step = 12 /\ call = "next" /\ ~rs /\ pulledUp
      /\ UNCHANGED <<call, byte, rs, pulledUp, fitted, width, half, busy, lines, on>>
  BY StepKinds DEF DoTest, LcdInv, CallsInPlace, Tested, displayVars
<1>2. PICK flag \in BusyFlag : lcdPresent' = ~flag /\ step' = IF flag THEN 0 ELSE 13
  BY <1>1, StepKinds DEF DoTest, LcdInv
<1>3. flag <=> ~fitted
  <2>1. CASE fitted
    <3>1. width = 4 /\ half = None /\ busy = 0
      BY <1>1, <2>1 DEF LcdInv, Resynchronised, ReadyInTime, Switched
    <3>2. flag = (busy # 0)
      BY <2>1, <3>1, Zenon DEF BusyFlag
    <3> QED BY <2>1, <3>1, <3>2
  <2>2. CASE ~fitted
    BY <1>1, <2>2 DEF BusyFlag
  <2> QED BY <2>1, <2>2
<1>4. /\ step' = (IF fitted THEN 13 ELSE 0)
      /\ lcdPresent' \in BOOLEAN /\ (lcdPresent' <=> fitted)
  BY <1>2, <1>3
<1>5. LcdTypeOK'
  BY <1>1, <1>4, InitSteps DEF LcdInv, LcdTypeOK
<1>6. CallsInPlace' /\ Tested'
  BY <1>1, <1>4 DEF LcdInv, CallsInPlace, Tested, InitDone
<1>7. ASSUME fitted PROVE ReadyInTime' /\ Resynchronised' /\ SetUp'
  BY <1>1, <1>4, <1>7 DEF LcdInv, ReadyInTime, Resynchronised, SetUp, Switched, InitDone
<1> QED BY <1>1, <1>5, <1>6, <1>7 DEF LcdInv

-----------------------------------------------------------------------------
(* Commands and data.                                                      *)

(* A step of lcd_init that sends, and the text or instruction that follows *)
(* it, begin a call.                                                       *)
LEMMA SendInv ==
    ASSUME LcdInv, NEW what, NEW data \in BOOLEAN, Send(what, data),
           what \in Nibble \X Nibble,
           step \in {0, 10, 13, 14, 15, 16},
           ~InitDone => ~data /\ what = lcd_init[step].byte,
           InitDone /\ ~data => what \in Instructions
    PROVE  LcdInv'
<1>1. /\ call = "next" /\ call' = "wait" /\ byte' = what /\ rs' = data
      /\ UNCHANGED <<step, pulledUp, lcdPresent, fitted, width, half, busy, lines, on>>
  BY DEF Send, displayVars
<1>2. LcdTypeOK'
  BY <1>1 DEF LcdInv, LcdTypeOK
<1>3. CallsInPlace'
  BY <1>1 DEF CallsInPlace, InitDone
<1>4. Tested'
  BY <1>1 DEF LcdInv, Tested
<1>5. ASSUME fitted PROVE ReadyInTime' /\ Resynchronised' /\ SetUp'
  BY <1>1, <1>5 DEF LcdInv, ReadyInTime, Resynchronised, SetUp, Switched, InitDone
<1> QED BY <1>1, <1>2, <1>3, <1>4, <1>5 DEF LcdInv

LEMMA CommandInv == ASSUME LcdInv, DoCommand PROVE LcdInv'
<1>1. ~InitDone /\ step \in {10, 13, 14, 15, 16} /\ Send(Current.byte, FALSE)
  BY StepKinds DEF DoCommand, LcdInv
<1>2. Current.byte = lcd_init[step].byte /\ Current.byte \in Nibble \X Nibble
  <2>1. Current.byte = lcd_init[step].byte
    BY DEF Current
  <2>2. lcd_init[step].byte \in {<<2, 8>>, <<0, 8>>, <<0, 1>>, <<0, 6>>, <<0, 12>>}
    <3>1. CASE step = 10
      BY <3>1, InitSteps
    <3>2. CASE step = 13
      BY <3>2, InitSteps
    <3>3. CASE step = 14
      BY <3>3, InitSteps
    <3>4. CASE step = 15
      BY <3>4, InitSteps
    <3>5. CASE step = 16
      BY <3>5, InitSteps
    <3> QED BY <1>1, <3>1, <3>2, <3>3, <3>4, <3>5
  <2>3. {<<2, 8>>, <<0, 8>>, <<0, 1>>, <<0, 6>>, <<0, 12>>} \subseteq Nibble \X Nibble
    BY DEF Nibble
  <2> QED BY <2>1, <2>2, <2>3
<1> QED BY <1>1, <1>2, SendInv

LEMMA ShowInv == ASSUME LcdInv, Show PROVE LcdInv'
<1>1. InitDone /\ step = 0
  BY DEF Show, InitDone
<1>2. Instructions \subseteq Nibble \X Nibble /\ Texts \subseteq Nibble \X Nibble
  BY InstructionsAssumption, TextsAssumption DEF Nibble
<1>3. ASSUME NEW what \in Instructions, Send(what, FALSE) PROVE LcdInv'
  BY <1>1, <1>2, <1>3, SendInv
<1>4. ASSUME NEW what \in Texts, Send(what, TRUE) PROVE LcdInv'
  BY <1>1, <1>2, <1>4, SendInv
<1> QED BY <1>1, <1>3, <1>4 DEF Show

(* The wait ends when the flag says so, which is the truth.                *)
LEMMA WaitInv == ASSUME LcdInv, lcd_waitbusy PROVE LcdInv'
<1>1. /\ call = "wait" /\ call' \in {"wait", "high"}
      /\ step \in {0, 10, 13, 14, 15, 16}
      /\ UNCHANGED <<step, byte, rs, pulledUp, lcdPresent>>
      /\ UNCHANGED <<fitted, width, half, busy, lines, on>>
  BY DEF lcd_waitbusy, displayVars, LcdInv, CallsInPlace
<1>2. ASSUME fitted PROVE width = 4 /\ half = None /\ (call' = "high" => busy = 0)
  <2>1. width = 4 /\ half = None
    BY <1>1, <1>2 DEF LcdInv, Resynchronised, Switched, InitDone
  <2>2. BusyFlag = {busy # 0}
    BY <1>2, <2>1 DEF BusyFlag
  <2> QED BY <2>1, <2>2 DEF lcd_waitbusy
<1>3. LcdTypeOK' /\ CallsInPlace' /\ Tested'
  BY <1>1 DEF LcdInv, LcdTypeOK, CallsInPlace, Tested, InitDone
<1>4. ASSUME fitted PROVE ReadyInTime' /\ Resynchronised' /\ SetUp'
  BY <1>1, <1>2, <1>4 DEF LcdInv, ReadyInTime, Resynchronised, SetUp, Switched, InitDone
<1> QED BY <1>1, <1>3, <1>4 DEF LcdInv

LEMMA HighInv == ASSUME LcdInv, WriteHigh PROVE LcdInv'
<1>1. /\ call = "high" /\ call' = "low" /\ step \in {0, 10, 13, 14, 15, 16}
      /\ UNCHANGED <<step, byte, rs, pulledUp, lcdPresent>>
      /\ byte[1] \in Nibble /\ Take(byte[1])
  BY DEF WriteHigh, LcdInv, LcdTypeOK, CallsInPlace
<1>2. LcdTypeOK' /\ fitted' = fitted
  BY <1>1, TakeTypes DEF LcdInv, LcdTypeOK
<1>3. CallsInPlace' /\ Tested'
  BY <1>1, <1>2 DEF LcdInv, CallsInPlace, Tested, InitDone
<1>4. ASSUME fitted PROVE ReadyInTime' /\ Resynchronised' /\ SetUp'
  <2>1. width = 4 /\ half = None /\ busy = 0
    BY <1>1, <1>4 DEF LcdInv, Resynchronised, ReadyInTime, Switched, InitDone
  <2>2. half' = byte[1] /\ UNCHANGED <<width, busy, lines, on>>
    BY <1>1, <1>4, <2>1 DEF Take, None
  <2>3. half' # None
    BY <1>1, <2>2 DEF None, Nibble
  <2> QED BY <1>1, <1>4, <2>1, <2>2, <2>3
        DEF LcdInv, ReadyInTime, Resynchronised, SetUp, Switched, InitDone
<1> QED BY <1>2, <1>3, <1>4 DEF LcdInv

(* The low nibble completes the byte.  Only "function set" in lcd_init     *)
(* writes the number of lines, and nothing later changes the width; only   *)
(* its last command switches the display on, and nothing later off.        *)
LEMMA LowInv == ASSUME LcdInv, WriteLow PROVE LcdInv'
<1>1. /\ call = "low" /\ call' = "next" /\ step \in {0, 10, 13, 14, 15, 16}
      /\ UNCHANGED <<byte, rs, lcdPresent>> /\ pulledUp'
      /\ pulledUp' \in BOOLEAN
      /\ byte[2] \in Nibble /\ Take(byte[2])
  BY DEF WriteLow, LcdInv, LcdTypeOK, CallsInPlace
<1>2. step' = IF step \in {0, 16} THEN 0 ELSE step + 1
  BY <1>1, StepKinds DEF WriteLow, LcdInv, InitDone
<1>3. LcdTypeOK' /\ fitted' = fitted
  BY <1>1, <1>2, TakeTypes, InitSteps DEF LcdInv, LcdTypeOK
<1>4. CallsInPlace' /\ Tested'
  BY <1>1, <1>2, <1>3 DEF LcdInv, CallsInPlace, Tested, InitDone
<1>5. ASSUME fitted PROVE ReadyInTime' /\ Resynchronised' /\ SetUp'
  <2>1. width = 4 /\ half = byte[1] /\ half # None
    BY <1>1, <1>5 DEF LcdInv, Resynchronised, Switched, InitDone
  <2>2. half' = None
    BY <1>1, <1>5, <2>1 DEF Take
  <2>3. CASE rs
    <3>1. step = 0 /\ step' = 0 /\ UNCHANGED <<width, lines, on>>
      BY <1>1, <1>2, <1>5, <2>1, <2>3 DEF Take, LcdInv, CallsInPlace, InitDone
    <3> QED BY <1>1, <1>5, <2>1, <2>2, <3>1
          DEF LcdInv, ReadyInTime, Resynchronised, SetUp, Switched, InitDone
  <2>4. CASE ~rs
    <3>1. Execute(byte[1], byte[2])
      BY <1>1, <1>5, <2>1, <2>4 DEF Take
    <3>2. CASE step = 0
      <4>1. byte \in ({0} \X {1, 2}) \cup (4..15) \X Nibble
        BY <1>1, <2>4, <3>2, InstructionsAssumption DEF LcdInv, CallsInPlace, InitDone
      <4>2. UNCHANGED <<width, lines, on>>
        BY <3>1, <4>1 DEF Execute
      <4> QED BY <1>1, <1>2, <1>5, <2>1, <2>2, <3>2, <4>2
            DEF LcdInv, ReadyInTime, Resynchronised, SetUp, Switched, InitDone
    <3>3. CASE step = 10
      <4>1. byte = <<2, 8>>
        BY <1>1, <3>3, InitSteps DEF LcdInv, CallsInPlace, InitDone
      <4>2. width' = 4 /\ lines' = 2 /\ busy' = 37 /\ step' = 11
        BY <1>2, <3>1, <3>3, <4>1 DEF Execute
      <4>3. half' # None <=> call' = "low"
        BY <1>1, <2>2
      <4> QED BY <1>1, <4>2, <4>3
            DEF ReadyInTime, Resynchronised, SetUp, Switched, InitDone
    <3>4. CASE step \in {13, 14, 15}
      <4>1. byte[1] = 0
        BY <1>1, <3>4, InitSteps DEF LcdInv, CallsInPlace, InitDone
      <4>2. UNCHANGED <<width, lines>> /\ step' \in {14, 15, 16}
        BY <1>2, <3>1, <3>4, <4>1 DEF Execute
      <4> QED BY <1>1, <1>5, <2>1, <2>2, <3>4, <4>2
            DEF LcdInv, ReadyInTime, Resynchronised, SetUp, Switched, InitDone
    <3>5. CASE step = 16
      <4>1. byte = <<0, 12>>
        BY <1>1, <3>5, InitSteps DEF LcdInv, CallsInPlace, InitDone
      <4>2. UNCHANGED <<width, lines>> /\ on' /\ step' = 0
        <5>1. UNCHANGED <<width, lines>> /\ step' = 0
          BY <1>2, <3>1, <3>5, <4>1 DEF Execute
        <5>2. byte[1] = 0 /\ byte[2] = 12 /\ 12 \in 8..15
          BY <4>1
        <5>3. on' = (12 >= 12)
          BY <3>1, <5>2, Zenon DEF Execute
        <5>4. 12 >= 12
          OBVIOUS
        <5>5. on'
          BY <5>3, <5>4, Zenon
        <5> QED BY <5>1, <5>5
      <4> QED BY <1>1, <1>5, <2>1, <2>2, <3>5, <4>2
            DEF LcdInv, ReadyInTime, Resynchronised, SetUp, Switched, InitDone
    <3> QED BY <1>1, <3>2, <3>3, <3>4, <3>5
  <2>5. rs \in BOOLEAN
    BY DEF LcdInv, LcdTypeOK
  <2> QED BY <2>3, <2>4, <2>5
<1> QED BY <1>3, <1>4, <1>5 DEF LcdInv

(* Every step of driver, display and reset keeps the invariant. *)
LEMMA LcdStep == ASSUME LcdInv, [LcdNext]_lcdVars PROVE LcdInv'
<1>1. CASE UNCHANGED lcdVars
  BY <1>1 DEF lcdVars, driverVars, displayVars, LcdInv, LcdTypeOK, CallsInPlace, Tested,
      ReadyInTime, Resynchronised, SetUp, Switched, InitDone
<1> QED BY <1>1, PulseInv, DelayInv, TestInv, CommandInv, WaitInv, HighInv, LowInv, ShowInv,
        ReadyInv, ResetInv DEF LcdNext, Driver

-----------------------------------------------------------------------------
(* The whole program.                                                      *)

(* main uses the display as LcdNext says, and starts calls of the driver   *)
(* only between two others.                                                *)
LEMMA StartUsesLcd == ASSUME StartNext PROVE [LcdNext]_lcdVars
<1>1. ShowIfPresent \/ ShowAnyway \/ NoDisplay => [LcdNext]_lcdVars
  BY DEF ShowIfPresent, ShowAnyway, NoDisplay, LcdNext
<1>2. Watchdog \/ PowerFails \/ UseDriver \/ DisplayReady => LcdNext
  BY DEF Watchdog, PowerFails, Restart, UseDriver, DisplayReady, LcdNext
<1>3. CASE Program
  BY <1>1, <1>2, <1>3 DEF Program, get_mcusr, SetupHardware, Title, TestSix, Load, Store,
      TestThirteen, Leave, Host, ShowIdle, EnterMainLoop, InMainLoop, Bootloader, Steps, Mark
<1>4. CASE Interrupt \/ Reprogrammed
  BY <1>4 DEF Interrupt, Reprogrammed
<1> QED BY <1>2, <1>3, <1>4 DEF StartNext

(* The invariant holds of the program. *)
THEOREM DriverCorrect == StartSpec => []LcdInv
<1>1. StartInit => LcdInv
  BY LcdInitInv DEF StartInit
<1>2. LcdInv /\ [StartNext]_startVars => LcdInv'
  <2>1. ASSUME LcdInv, UNCHANGED startVars PROVE LcdInv'
    BY <2>1, LcdStep DEF startVars
  <2> QED BY <2>1, LcdStep, StartUsesLcd
<1> QED BY <1>1, <1>2, PTL DEF StartSpec

(* No nibble is written to a display that is still busy: the delays of     *)
(* lcd_init are long enough for every instruction its pulses can make of   *)
(* the half byte a reset left, and lcd_waitbusy sees to the rest.          *)
THEOREM NeverWritesEarly == StartSpec => []WritesWhenReady
<1>1. LcdInv => WritesWhenReady
  BY StepKinds DEF LcdInv, ReadyInTime, WritesWhenReady, Writing
<1> QED BY <1>1, DriverCorrect, PTL

(* From the 4 bit command of lcd_init on, driver and display agree on the  *)
(* nibble that comes next.                                                 *)
THEOREM AgreeOnNibbles == StartSpec => []InStep
<1>1. LcdInv => InStep
  BY DEF LcdInv, Resynchronised, InStep
<1> QED BY <1>1, DriverCorrect, PTL

(* lcd_init finds the display if and only if it is fitted, and leaves it   *)
(* on and with two lines.                                                  *)
THEOREM FindsTheDisplay == StartSpec => []PresenceFound
<1>1. LcdInv => PresenceFound
  BY DEF LcdInv, Tested, SetUp, PresenceFound, InitDone
<1> QED BY <1>1, DriverCorrect, PTL

-----------------------------------------------------------------------------
(* The splash loop, if it comes round at least twice in a tick.            *)

(* The tick++ of the loop comes in the first pass after the interrupt that *)
(* made it 6, and the loop ends in the first pass after the one that made  *)
(* it 13.                                                                  *)
Counting ==
    /\ calibrated \in BOOLEAN
    /\ edges \in 0..13 /\ tick \in Byte /\ passes \in 0..PassesPerTick
    /\ pc \in {"start", "setup", "title", "bootloader"} => edges = 0 /\ tick = 0 /\ passes = 0
    /\ pc \in InLoop =>
        /\ tick = edges \/ (calibrated /\ edges \in 6..12 /\ tick = edges + 1)
        /\ tick = edges => ~calibrated \/ edges <= 6
        /\ calibrated /\ tick = 6 => passes = 0 \/ (passes = 1 /\ pc \in {"load", "store"})
        /\ tick = 13 => passes = 0 \/ (passes = 1 /\ pc = "thirteen")
    /\ pc \in {"load", "store"} => calibrated /\ tick = 6 /\ passes = 1
    /\ pc = "store" => loaded = 6
    /\ pc \in {"leave", "idle"} => edges = IF calibrated THEN 12 ELSE 13

(* The splash lasts 13 half seconds, 12 on an oven that is calibrated,     *)
(* and no value of tick that it waits for is missed.                       *)
THEOREM SplashIsShort == ASSUME PassesPerTick >= 2 PROVE StartSpec => []SplashLasts
<1> USE PassesAssumption
<1>1. StartInit => Counting
  BY DEF StartInit, Counting, InLoop, Byte
<1>2. ASSUME Counting, StartNext PROVE Counting'
  <2>1. CASE Interrupt
    <3>1. /\ passes >= 2 /\ passes' = 0 /\ UNCHANGED <<pc, loaded, calibrated>>
          /\ tick' = (tick + 1) % 256
          /\ edges' = IF pc \in InLoop /\ edges < 20 THEN edges + 1 ELSE edges
          /\ pc \in InLoop \cup {"leave"}
      BY <2>1, <1>2 DEF Interrupt, Counting, EdgesMax
    <3>2. CASE pc \in InLoop
      <4>1. pc \notin {"load", "store", "title"} /\ tick # 13 /\ ~(calibrated /\ tick = 6)
        BY <1>2, <3>1, <3>2 DEF Counting
      <4>2. edges <= 12 /\ tick <= 13 /\ edges' = edges + 1 /\ tick' = tick + 1
        BY <1>2, <3>1, <3>2, <4>1 DEF Counting, Byte
      <4>3. CASE calibrated
        <5>1. \/ edges \in 0..5 /\ tick = edges
              \/ edges \in 6..11 /\ tick = edges + 1
          BY <1>2, <3>2, <4>1, <4>2, <4>3 DEF Counting, Byte
        <5>2. /\ edges' \in 0..13 /\ tick' \in Byte /\ passes' \in 0..PassesPerTick
              /\ \/ edges' \in 1..6 /\ tick' = edges'
                 \/ edges' \in 7..12 /\ tick' = edges' + 1
          BY <1>2, <3>1, <4>2, <5>1 DEF Counting, Byte
        <5>3. /\ pc' \in {"six", "thirteen", "host"} /\ pc' = pc /\ passes' = 0
              /\ calibrated' /\ calibrated' \in BOOLEAN
          BY <1>2, <3>1, <3>2, <4>1, <4>3 DEF Counting, InLoop
        <5>4. /\ tick' = edges' \/ (calibrated' /\ edges' \in 6..12 /\ tick' = edges' + 1)
              /\ tick' = edges' => ~calibrated' \/ edges' <= 6
          BY <5>2, <5>3
        <5> QED BY <5>2, <5>3, <5>4 DEF Counting
      <4>4. CASE ~calibrated
        BY <1>2, <3>1, <3>2, <4>1, <4>2, <4>4 DEF Counting, InLoop, Byte
      <4> QED BY <4>3, <4>4
    <3>3. CASE pc = "leave"
      BY <1>2, <3>1, <3>3 DEF Counting, InLoop, Byte
    <3> QED BY <3>1, <3>2, <3>3
  <2>2. CASE \/ get_mcusr \/ SetupHardware \/ Title \/ Load \/ Leave
             \/ ShowIdle \/ EnterMainLoop \/ InMainLoop
    BY <1>2, <2>2 DEF get_mcusr, SetupHardware, Title, Load, Leave, ShowIdle, EnterMainLoop,
        InMainLoop, Counting, InLoop, Byte, hardware, history
  <2>3. CASE TestSix
    BY <1>2, <2>3 DEF TestSix, Counting, InLoop, Byte, hardware, history
  <2>4. CASE Store
    BY <1>2, <2>4 DEF Store, Counting, InLoop, Byte, hardware, history
  <2>5. CASE TestThirteen
    BY <1>2, <2>5 DEF TestThirteen, Counting, InLoop, Byte, hardware, history
  <2>6. CASE Host \/ Bootloader
    BY <1>2, <2>6 DEF Host, Bootloader, Steps, Mark, Counting, InLoop, Byte, hardware, history
  <2>7. CASE Watchdog \/ PowerFails
    <3>1. /\ pc' \in {"start", "bootloader"}
          /\ tick' = 0 /\ loaded' = 0 /\ edges' = 0 /\ passes' = 0 /\ UNCHANGED calibrated
      BY <2>7 DEF Watchdog, PowerFails, Restart
    <3> QED BY <1>2, <3>1 DEF Counting, InLoop, Byte
  <2>8. CASE UseDriver \/ DisplayReady
    BY <1>2, <2>8 DEF UseDriver, DisplayReady, Counting, hardware, history
  <2>9. CASE Reprogrammed
    BY <1>2, <2>9 DEF Reprogrammed, Counting, InLoop, hardware, history
  <2> QED BY <1>2, <2>1, <2>2, <2>3, <2>4, <2>5, <2>6, <2>7, <2>8, <2>9 DEF StartNext, Program
<1>3. ASSUME Counting, UNCHANGED startVars PROVE Counting'
  BY <1>3 DEF Counting, startVars, hardware, history
<1>4. Counting => SplashLasts
  BY DEF Counting, SplashLasts
<1> QED BY <1>1, <1>2, <1>3, <1>4, PTL DEF StartSpec

-----------------------------------------------------------------------------
(* Types.                                                                  *)

Counters ==
    /\ tick \in Byte /\ loaded \in Byte /\ edges \in 0..EdgesMax /\ passes \in 0..PassesPerTick

Marks ==
    /\ calibrated \in BOOLEAN /\ validApp \in BOOLEAN /\ WDRF \in BOOLEAN
    /\ timer \in BOOLEAN /\ attached \in BOOLEAN
    /\ pc \in InLoop \cup InBootloader
              \cup {"start", "setup", "leave", "idle", "entering", "main", "bootloader"}

LEMMA CountersStep == ASSUME Counters, [StartNext]_startVars PROVE Counters'
<1>0. /\ tick \in 0..255 /\ loaded \in 0..255 /\ edges \in 0..20 /\ passes \in 0..PassesPerTick
      /\ PassesPerTick \in Nat
  BY PassesAssumption DEF Counters, Byte, EdgesMax
<1>1. CASE Interrupt
  <2>1. /\ tick' = (tick + 1) % 256 /\ loaded' = loaded /\ passes' = 0
        /\ edges' = edges \/ (edges < 20 /\ edges' = edges + 1)
    BY <1>1 DEF Interrupt, EdgesMax
  <2>2. tick' \in 0..255
    BY <1>0, <2>1
  <2>3. edges' \in 0..20 /\ passes' \in 0..PassesPerTick
    BY <1>0, <2>1
  <2> QED BY <1>0, <2>1, <2>2, <2>3 DEF Counters, Byte, EdgesMax
<1>2. CASE Store
  <2>1. tick' = (loaded + 1) % 256 /\ loaded' = 0 /\ UNCHANGED <<edges, passes>>
    BY <1>2 DEF Store, history
  <2>2. tick' \in 0..255 /\ loaded' \in 0..255
    BY <1>0, <2>1
  <2> QED BY <1>0, <2>1, <2>2 DEF Counters, Byte, EdgesMax
<1>3. CASE TestSix
  <2>1. /\ UNCHANGED <<tick, loaded, edges>>
        /\ passes' = IF passes < PassesPerTick THEN passes + 1 ELSE passes
    BY <1>3 DEF TestSix
  <2>2. passes' \in 0..PassesPerTick
    BY <1>0, <2>1
  <2> QED BY <1>0, <2>1, <2>2 DEF Counters, Byte, EdgesMax
<1>4. CASE \/ get_mcusr \/ SetupHardware \/ Title \/ Load \/ TestThirteen \/ Leave \/ Host
           \/ ShowIdle \/ EnterMainLoop \/ InMainLoop \/ Bootloader \/ Watchdog \/ UseDriver
           \/ DisplayReady \/ PowerFails \/ Reprogrammed \/ UNCHANGED startVars
  <2>1. /\ tick' \in {0, tick} /\ loaded' \in {0, tick, loaded}
        /\ edges' \in {0, edges} /\ passes' \in {0, passes}
    BY <1>4 DEF get_mcusr, SetupHardware, Title, Load, TestThirteen, Leave, Host,
        ShowIdle, EnterMainLoop, InMainLoop, Bootloader, Watchdog, UseDriver, DisplayReady,
        PowerFails, Restart, Reprogrammed, startVars, history
  <2> QED BY <1>0, <2>1 DEF Counters, Byte, EdgesMax
<1> QED BY <1>1, <1>2, <1>3, <1>4 DEF StartNext, Program

LEMMA MarksStep == ASSUME Marks, [StartNext]_startVars PROVE Marks'
<1>1. pc' \in InLoop \cup InBootloader
              \cup {"start", "setup", "leave", "idle", "entering", "main", "bootloader"}
  BY DEF Marks, StartNext, Program, Interrupt, get_mcusr, SetupHardware, Title, TestSix, Load,
     Store, TestThirteen, Leave, Host, ShowIdle, EnterMainLoop, InMainLoop, Bootloader, Steps, Mark,
     Watchdog, UseDriver, DisplayReady, PowerFails, Restart, Reprogrammed, startVars, InLoop,
     InBootloader
<1>2. /\ calibrated' = calibrated
      /\ validApp' = validApp \/ validApp' = TRUE \/ validApp' = FALSE
      /\ WDRF' = WDRF \/ WDRF' = TRUE \/ WDRF' = FALSE
      /\ timer' = timer \/ timer' = TRUE \/ timer' = FALSE
      /\ attached' = attached \/ attached' = TRUE \/ attached' = FALSE
  BY DEF StartNext, Program, Interrupt, get_mcusr, SetupHardware, Title, TestSix, Load,
     Store, TestThirteen, Leave, Host, ShowIdle, EnterMainLoop, InMainLoop, Bootloader, Steps, Mark,
     Watchdog, UseDriver, DisplayReady, PowerFails, Restart, Reprogrammed, startVars, hardware
<1> QED BY <1>1, <1>2, Zenon DEF Marks

(* Types: in particular the driver never goes past the end of lcd_init, and *)
(* tick stays a byte.                                                       *)
THEOREM StartTypeCorrect == StartSpec => []StartTypeOK
<1>1. ASSUME StartInit PROVE Counters /\ Marks
  <2>1. Counters
    BY <1>1, PassesAssumption DEF StartInit, Counters, Byte, EdgesMax
  <2>2. Marks
    BY <1>1, Zenon DEF StartInit, Marks
  <2> QED BY <2>1, <2>2
<1>2. (Counters /\ Marks) /\ [StartNext]_startVars => (Counters /\ Marks)'
  BY CountersStep, MarksStep
<1>3. LcdInv /\ Counters /\ Marks => StartTypeOK
  <2> SUFFICES ASSUME LcdInv, Counters, Marks PROVE StartTypeOK
    OBVIOUS
  <2>1. {calibrated, validApp, WDRF, timer, attached} \subseteq BOOLEAN
    BY Zenon DEF Marks
  <2> QED BY <2>1 DEF LcdInv, Counters, Marks, StartTypeOK
<1> QED BY <1>1, <1>2, <1>3, DriverCorrect, PTL DEF StartSpec
=============================================================================
