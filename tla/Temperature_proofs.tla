------------------------- MODULE Temperature_proofs -------------------------
(***************************************************************************)
(* Theorems about the sampling of the temperature, for every set of frames *)
(* the sensor can answer, and about the history of the averages, for every *)
(* length of it.                                                           *)
(***************************************************************************)
EXTENDS TempSampling, TempHistory, TLAPS, SequenceTheorems, WellFoundedInduction

(* The inductive invariant behind the theorems.  The sum and *)
(* its window belong together, and so do an average and its window.        *)
Window ==
    /\ pc # "updated" =>
        /\ readings * low <= ovenTempAccum /\ ovenTempAccum <= readings * high
        /\ suspect => ovenTempAccum >= Word - HalfRange
    /\ pc = "updated" =>
        /\ ovenTempAccum = 0
        /\ suspect => ovenTemp > 1080
        /\ readings = 4 => low <= ovenTemp /\ ovenTemp <= high

(* Readings kept and still asked for, and the place in the half second.    *)
Due == IF readtick /\ pc # "polled" THEN readings + 1 ELSE readings
Place == subtickCounter % TickEvery

(* If every pass polls within 100 ms: a request waits less than 100 ms, so *)
(* none is lost; an average waits less than 200 ms; and between averages   *)
(* the readings follow the clock.                                          *)
OnTime ==
    /\ pc \notin {"poll", "polled"} \/ settled => polled
    /\ pc = "polled" => readtick
    /\ pc = "updated" => tick # 0
    /\ polled /\ readtick => subtickCounter % ReadEvery < age
    /\ ~overrun /\ tick <= 1
    /\ tick # 0 /\ pc \in {"rest", "poll", "polled"} => Place < age
    /\ tick # 0 /\ pc \in {"handler", "updated"} =>
          /\ Place < ReadEvery + age
          /\ Place >= ReadEvery => readtick
    /\ settled /\ tick # 0 => readings = 4
    /\ settled /\ tick = 0 => Due \in {Place \div ReadEvery, Place \div ReadEvery + 1}

Inv == TypeOK /\ Window

-----------------------------------------------------------------------------
(* All the proofs need to know of the widths. *)
LEMMA WordSize == Word \in Nat /\ HalfRange \in Nat /\ HalfRange > 3 /\ Word - HalfRange > 4400
  BY SMT DEF Word, HalfRange

(* Temperatures below zero become large, the others stay as they are. *)
LEMMA SignExtension ==
    ASSUME NEW n \in Nat \ {0}, NEW q \in Int, -n <= q, q < n
    PROVE  q % n = IF q < 0 THEN q + n ELSE q
  BY SMT

(* Every frame is read as a 16 bit value, a suspect one as a large value. *)
LEMMA ReadingValue ==
    ASSUME NEW frame \in Frames
    PROVE  /\ spi_read(frame) \in 0..(Word - 1)
           /\ Suspect(frame) => spi_read(frame) >= Word - HalfRange
  <1>1. frame.quarters \in Int /\ -HalfRange <= frame.quarters /\ frame.quarters < HalfRange
    <2>1. frame \in Frame
      BY FramesAssumption
    <2>2. frame.quarters \in (-HalfRange)..(HalfRange - 1)
      BY <2>1 DEF Frame
    <2>3. QED
      BY <2>2, WordSize
  <1>2. frame.quarters % Word =
            IF frame.quarters < 0 THEN frame.quarters + Word ELSE frame.quarters
    <2>1. Word \in Nat \ {0} /\ -Word <= frame.quarters /\ frame.quarters < Word
      BY <1>1, WordSize
    <2>2. QED
      BY <1>1, <2>1, SignExtension
  <1>3. CASE frame.open \/ frame.ground \/ frame.supply
    <2>1. spi_read(frame) \in {Word - 1, Word - 2, Word - 3}
      BY <1>3, Zenon DEF spi_read
    <2>2. QED
      BY <2>1, WordSize
  <1>4. CASE ~(frame.open \/ frame.ground \/ frame.supply)
    <2>1. spi_read(frame) = frame.quarters % Word /\ (Suspect(frame) => frame.quarters < 0)
      BY <1>4, Zenon DEF spi_read, Suspect
    <2>2. QED
      BY <1>1, <1>2, <2>1, WordSize
  <1>5. QED
    BY <1>3, <1>4

(* A quarter of a sum of four words is a word. *)
LEMMA Quarter ==
    ASSUME NEW n \in Nat, n <= 4 * (Word - 1)
    PROVE  /\ (n \div 4) % Word = n \div 4
           /\ n \div 4 \in 0..(Word - 1)
           /\ 4 * (n \div 4) <= n /\ n < 4 * (n \div 4) + 4
  <1>1. n \div 4 \in Nat /\ 4 * (n \div 4) <= n /\ n < 4 * (n \div 4) + 4
    BY SMT
  <1>2. n \div 4 <= Word - 1
    BY <1>1, WordSize
  <1>3. Word \in Nat \ {0} /\ -Word <= n \div 4 /\ n \div 4 < Word /\ n \div 4 \in Int
    BY <1>1, <1>2, WordSize
  <1>4. (n \div 4) % Word = n \div 4
    <2> DEFINE q == n \div 4
    <2>1. Word \in Nat \ {0} /\ -Word <= q /\ q < Word /\ q \in Int /\ ~(q < 0)
      BY <1>1, <1>3
    <2> HIDE DEF q
    <2>2. q % Word = q
      BY <2>1, SignExtension
    <2>3. QED
      BY <2>2 DEF q
  <1>5. QED
    BY <1>1, <1>2, <1>4, WordSize

(* The interrupt keeps the types: it only counts. *)
LEMMA InterruptTypes ==
    ASSUME TypeOK, TimerInterrupt
    PROVE  TypeOK'
  <1>1. subtickCounter' \in 0..99
    BY SMT DEF TimerInterrupt, NextSubtick, TypeOK
  <1>2. tick' \in 0..255
    BY SMT DEF TimerInterrupt, TypeOK
  <1>3. age' \in 0..PassMax
    BY PassMaxAssumption, SMT DEF TimerInterrupt, TypeOK
  <1>4. readtick' \in BOOLEAN /\ overrun' \in BOOLEAN
    BY DEF TimerInterrupt, TypeOK
  <1>5. QED
    BY <1>1, <1>2, <1>3, <1>4 DEF TimerInterrupt, TypeOK, seenVars

(* One more value in a window. *)
LEMMA WindowGrows ==
    ASSUME NEW n \in 0..3, NEW W \in Nat,
           NEW sum \in Nat, NEW v \in Nat,
           NEW lo \in Int, NEW hi \in Int, NEW lo2 \in Int, NEW hi2 \in Nat,
           n * lo <= sum, sum <= n * hi,
           lo2 <= lo, lo2 <= v, hi2 >= hi, hi2 >= v, hi2 <= W - 1
    PROVE  /\ (n + 1) * lo2 <= sum + v
           /\ sum + v <= (n + 1) * hi2
           /\ sum + v \in 0..(4 * (W - 1))
  <1>1. n \in {0, 1, 2, 3}
    OBVIOUS
  <1>2. CASE n = 0
    BY <1>2, SMT
  <1>3. CASE n = 1
    BY <1>3, SMT
  <1>4. CASE n = 2
    BY <1>4, SMT
  <1>5. CASE n = 3
    BY <1>5, SMT
  <1>6. QED
    BY <1>1, <1>2, <1>3, <1>4, <1>5

(* A reading widens the window by its value, and the sum with it. *)
LEMMA TakeReadingKeeps ==
    ASSUME Inv, TakeReading
    PROVE  Inv'
  <1>1. PICK frame \in Frames :
            /\ ovenTempAccum' = ovenTempAccum + spi_read(frame)
            /\ low' = IF spi_read(frame) < low THEN spi_read(frame) ELSE low
            /\ high' = IF spi_read(frame) > high THEN spi_read(frame) ELSE high
            /\ suspect' = (suspect \/ Suspect(frame))
    BY DEF TakeReading, Accumulate
  <1> DEFINE value == spi_read(frame)
  <1>2. value \in 0..(Word - 1) /\ (Suspect(frame) => value >= Word - HalfRange)
    BY ReadingValue
  <1> HIDE DEF value
  <1>3. readings \in 0..3 /\ readings' = readings + 1 /\ pc = "poll" /\ pc' = "polled"
    BY DEF Inv, TypeOK, TakeReading, WantsReading, Enough
  <1>4. low' \in 0..(Word - 1) /\ high' \in 0..(Word - 1)
        /\ low' <= low /\ low' <= value /\ high' >= high /\ high' >= value
    BY <1>1, <1>2, WordSize, SMT DEF Inv, TypeOK, value
  <1>5. ovenTempAccum \in Nat /\ ovenTempAccum' = ovenTempAccum + value
    BY <1>1, WordSize DEF Inv, TypeOK, value
  <1>6. /\ readings' * low' <= ovenTempAccum'
        /\ ovenTempAccum' <= readings' * high'
        /\ ovenTempAccum' \in 0..(4 * (Word - 1))
    <2>1. low \in Int /\ high \in Int
      BY WordSize DEF Inv, TypeOK
    <2>2. readings * low <= ovenTempAccum /\ ovenTempAccum <= readings * high
      BY <1>3 DEF Inv, Window
    <2>3. value \in Nat /\ low' \in Int /\ high' \in Nat /\ high' <= Word - 1
      BY <1>2, <1>4, WordSize
    <2>4. Word \in Nat
      BY WordSize
    <2>5. /\ (readings + 1) * low' <= ovenTempAccum + value
          /\ ovenTempAccum + value <= (readings + 1) * high'
          /\ ovenTempAccum + value \in 0..(4 * (Word - 1))
      BY <1>3, <1>4, <1>5, <2>1, <2>2, <2>3, <2>4, WindowGrows, Zenon
    <2>6. QED
      BY <1>3, <1>5, <2>5
  <1>7. suspect' => ovenTempAccum' >= Word - HalfRange
    <2>1. suspect => ovenTempAccum >= Word - HalfRange
      BY <1>3, Zenon DEF Inv, Window
    <2>2. suspect' => suspect \/ Suspect(frame)
      BY <1>1
    <2>3. suspect \/ Suspect(frame) => ovenTempAccum' >= Word - HalfRange
      BY <1>2, <1>5, <2>1, WordSize
    <2>4. QED
      BY <2>2, <2>3
  <1>8. Window'
    <2>1. pc' # "updated"
      BY <1>3
    <2>2. QED
      BY <2>1, <1>6, <1>7 DEF Window
  <1>9. TypeOK'
    <2>1. readings' \in 0..Enough /\ suspect' \in BOOLEAN /\ pc' \in {"poll", "polled", "handler", "updated", "rest"}
      BY <1>1, <1>3 DEF Inv, TypeOK, Enough
    <2>2. low' \in 0..Word
      BY <1>4, WordSize
    <2>3. QED
      BY <1>4, <1>6, <2>1, <2>2 DEF Inv, TypeOK, TakeReading
  <1>10. QED
    BY <1>8, <1>9 DEF Inv

(* UpdateTemp turns the window's sum into its average. *)
LEMMA UpdateTempKeeps ==
    ASSUME Inv, UpdateTemp
    PROVE  Inv'
  <1>1. ovenTempAccum \in Nat /\ ovenTempAccum <= 4 * (Word - 1)
    BY WordSize DEF Inv, TypeOK
  <1>2. /\ ovenTemp' = ovenTempAccum \div 4
        /\ ovenTemp' \in 0..(Word - 1)
        /\ 4 * ovenTemp' <= ovenTempAccum /\ ovenTempAccum < 4 * ovenTemp' + 4
    BY <1>1, Quarter DEF UpdateTemp
  <1>3. suspect => ovenTemp' > 1080
    <2>1. suspect => ovenTempAccum > 4400
      BY <1>1, WordSize DEF Inv, Window, UpdateTemp
    <2>2. QED
      BY <1>1, <1>2, <2>1, WordSize
  <1>4. readings = 4 => low <= ovenTemp' /\ ovenTemp' <= high
    <2>1. readings = 4 => 4 * low <= ovenTempAccum /\ ovenTempAccum <= 4 * high
      BY DEF Inv, Window, UpdateTemp
    <2>2. low \in Int /\ high \in Int
      BY WordSize DEF Inv, TypeOK
    <2>3. QED
      BY <1>1, <1>2, <2>1, <2>2, WordSize, SMT
  <1>5. 0 \in 0..(4 * (Word - 1))
    BY WordSize
  <1>6. QED
    BY <1>2, <1>3, <1>4, <1>5 DEF Inv, Window, TypeOK, UpdateTemp, seenVars

(* The steps that leave the window and its sum as they are. *)
LEMMA OthersKeep ==
    ASSUME Inv,
           \/ DropReading \/ ClearReadtick \/ NoReading \/ NoTick \/ NextPass
    PROVE  Inv'
  <1>1. 0 \in 0..PassMax
    BY PassMaxAssumption
  <1>2. TypeOK'
    <2>1. CASE DropReading
      BY <2>1 DEF Inv, TypeOK, DropReading, seenVars
    <2>2. CASE ClearReadtick
      BY <1>1, <2>2 DEF Inv, TypeOK, ClearReadtick, seenVars
    <2>3. CASE NoReading
      BY <1>1, <2>3 DEF Inv, TypeOK, NoReading, seenVars
    <2>4. CASE NoTick
      BY <2>4 DEF Inv, TypeOK, NoTick, seenVars
    <2>5. CASE NextPass
      BY <2>5 DEF Inv, TypeOK, NextPass, seenVars
    <2>6. QED
      BY <2>1, <2>2, <2>3, <2>4, <2>5
  <1>3. Window'
    BY DEF Inv, Window, DropReading, ClearReadtick, NoReading, NoTick, NextPass, seenVars
  <1>4. QED
    BY <1>2, <1>3 DEF Inv

(* The end of UpdateTemp opens an empty window. *)
LEMMA ClearTickKeeps ==
    ASSUME Inv, ClearTick
    PROVE  Inv'
  <1>1. /\ Word \in 0..Word /\ 0 \in 0..(Word - 1)
        /\ 0 \in 0..Enough /\ 0 \in 0..255
    BY WordSize DEF Enough
  <1>2. TypeOK'
    BY <1>1 DEF Inv, TypeOK, ClearTick, CloseWindow
  <1>3. Window'
    BY WordSize, SMT DEF Inv, Window, ClearTick, CloseWindow
  <1>4. QED
    BY <1>2, <1>3 DEF Inv

LEMMA InvHolds == Spec => []Inv
  <1>1. Init => Inv
    <2> SUFFICES ASSUME Init PROVE Inv
      OBVIOUS
    <2>1. /\ 0 \in 0..(4 * (Word - 1)) /\ 0 \in 0..(Word - 1)
          /\ Word \in 0..Word /\ 0 \in 0..PassMax /\ 0 \in 0..Enough /\ 0 \in 0..255
      BY WordSize, PassMaxAssumption DEF Enough
    <2>2. TypeOK
      BY <2>1, Zenon DEF Init, TypeOK
    <2>3. Window
      BY WordSize, SMT DEF Init, Window
    <2>4. QED
      BY <2>2, <2>3 DEF Inv
  <1>2. Inv /\ [Next]_vars => Inv'
    <2> SUFFICES ASSUME Inv, [Next]_vars PROVE Inv'
      OBVIOUS
    <2>1. CASE TimerInterrupt
      <3>1. TypeOK'
        BY <2>1, InterruptTypes DEF Inv
      <3>2. Window'
        BY <2>1 DEF TimerInterrupt, Inv, Window, seenVars
      <3>3. QED
        BY <3>1, <3>2 DEF Inv
    <2>2. CASE MainLoop
      BY <2>2, TakeReadingKeeps, UpdateTempKeeps, ClearTickKeeps, OthersKeep DEF MainLoop
    <2>3. CASE UNCHANGED vars
      BY <2>3 DEF vars, seenVars, Inv, TypeOK, Window
    <2>4. QED
      BY <2>1, <2>2, <2>3 DEF Next
  <1>3. QED
    BY <1>1, <1>2, PTL DEF Spec

(* The types: the sum of four readings fits its type, an average its own. *)
THEOREM TypeCorrect == Spec => []TypeOK
  <1>1. Inv => TypeOK
    BY DEF Inv
  <1>2. QED
    BY <1>1, InvHolds, PTL

(* A faulty or negative reading never hides in an average that an oven     *)
(* could have, however the passes of the loop and the interrupts fall.     *)
THEOREM FaultsShow == Spec => []FaultNeverCool
  <1>1. Inv => FaultNeverCool
    BY DEF Inv, Window, FaultNeverCool, Averaged
  <1>2. QED
    BY <1>1, InvHolds, PTL

-----------------------------------------------------------------------------
(* Where the interrupt moves the clock to, and what it raises there. *)
LEMMA Clock ==
    ASSUME subtickCounter \in 0..99
    PROVE  /\ subtickCounter % ReadEvery \in 0..9 /\ Place \in 0..49
           /\ Place \div ReadEvery \in 0..4
           /\ Place < ReadEvery => Place \div ReadEvery = 0
           /\ Place >= ReadEvery /\ Place < 2 * ReadEvery => Place \div ReadEvery = 1
           /\ LET s == (subtickCounter + 1) % 100
                  p == s % TickEvery
              IN  /\ IF subtickCounter % ReadEvery = 9
                     THEN s % ReadEvery = 0 /\ p \div ReadEvery \in {0, Place \div ReadEvery + 1}
                     ELSE /\ s % ReadEvery = (subtickCounter % ReadEvery) + 1
                          /\ p \div ReadEvery = Place \div ReadEvery
                  /\ IF Place = 49
                     THEN s \in {0, 50} /\ p = 0
                     ELSE s \notin {0, 50} /\ p = Place + 1
                  /\ Place = 49 => subtickCounter % ReadEvery = 9 /\ Place \div ReadEvery = 4
                  /\ p = 10 => s % ReadEvery = 0
                  /\ subtickCounter % ReadEvery = 9 /\ Place # 49
                        => p \div ReadEvery = Place \div ReadEvery + 1
  BY SMT DEF Place, ReadEvery, TickEvery

(* The interrupt: a request that is raised finds the previous one polled,  *)
(* and a half second that ends finds four readings.                        *)
LEMMA InterruptOnTime ==
    ASSUME PassMax < ReadEvery, TypeOK, OnTime, TimerInterrupt
    PROVE  OnTime'
  <1> DEFINE now == (subtickCounter + 1) % 100
             unit == subtickCounter % ReadEvery
  <1>1. /\ subtickCounter' = now
        /\ readtick' = (readtick \/ now % ReadEvery = 0)
        /\ tick' = IF now \in {0, 50} THEN (tick + 1) % 256 ELSE tick
        /\ overrun' = (overrun \/ (now \in {0, 50} /\ tick # 0))
        /\ Place' = now % TickEvery
    BY DEF TimerInterrupt, NextSubtick, ReadtickDue, TickDue, TickEvery, Place
  <1>2. /\ age \in Nat /\ age < 9 /\ age' = age + 1
        /\ readings \in 0..4
        /\ readings' = readings /\ pc' = pc /\ polled' = polled /\ settled' = settled
    BY PassMaxAssumption DEF TimerInterrupt, TypeOK, Enough, ReadEvery
  <1>3. /\ unit \in 0..9 /\ Place \in 0..49 /\ Place \div ReadEvery \in 0..4
        /\ Place < 10 => Place \div ReadEvery = 0
        /\ IF unit = 9 THEN now % ReadEvery = 0 ELSE now % ReadEvery = unit + 1
        /\ unit # 9 => Place' \div ReadEvery = Place \div ReadEvery /\ Place # 49
        /\ Place = 49 => now \in {0, 50} /\ Place' = 0 /\ Place \div ReadEvery = 4
        /\ Place # 49 => now \notin {0, 50} /\ Place' = Place + 1
        /\ Place' = 10 => now % ReadEvery = 0
        /\ unit = 9 /\ Place # 49 => Place' \div ReadEvery = Place \div ReadEvery + 1
    BY <1>1, Clock, SMT DEF TypeOK, ReadEvery
  <1> HIDE DEF now, unit
  <1>4. /\ pc \notin {"poll", "polled"} \/ settled => polled
        /\ pc = "polled" => readtick
        /\ pc = "updated" => tick # 0
        /\ polled /\ readtick => unit < age
        /\ ~overrun
        /\ tick # 0 /\ pc \in {"rest", "poll", "polled"} => Place < age
        /\ tick # 0 /\ pc \in {"handler", "updated"} =>
              Place < ReadEvery + age /\ (Place >= ReadEvery => readtick)
        /\ settled /\ tick # 0 => readings = 4
        /\ settled /\ tick = 0 => Due \in {Place \div ReadEvery, Place \div ReadEvery + 1}
    BY DEF OnTime, unit
  <1>5. tick \in {0, 1} /\ pc \in {"poll", "polled", "handler", "updated", "rest"}
    BY DEF OnTime, TypeOK
  <1>6. tick # 0 => Place < 19
    BY <1>2, <1>3, <1>4, <1>5 DEF ReadEvery
  <1>7. tick # 0 => tick' = tick /\ Place' = Place + 1
    BY <1>1, <1>3, <1>6
  <1>8. tick = 0 => tick' = IF Place = 49 THEN 1 ELSE 0
    BY <1>1, <1>3
  <1>9. ~overrun' /\ tick' \in {0, 1}
    <2>1. tick = 0 \/ now \notin {0, 50}
      BY <1>3, <1>6
    <2>2. ~overrun'
      BY <2>1, <1>1, <1>4, Zenon
    <2>3. tick' \in {0, 1}
      BY <1>5, <1>7, <1>8
    <2>4. QED
      BY <2>2, <2>3
  <1>10. polled /\ readtick => unit # 9
    BY <1>2, <1>4
  <1>11. polled' /\ readtick' => subtickCounter' % ReadEvery < age'
    <2>1. CASE unit = 9
      BY <2>1, <1>1, <1>2, <1>3
    <2>2. CASE unit # 9 /\ polled /\ readtick
      BY <2>2, <1>1, <1>2, <1>3, <1>4
    <2>3. CASE unit # 9 /\ polled /\ ~readtick
      <3>1. now % ReadEvery # 0
        BY <2>3, <1>3
      <3>2. QED
        BY <2>3, <3>1, <1>1, Zenon
    <2>4. QED
      BY <2>1, <2>2, <2>3, <1>2
  <1>12. tick' # 0 /\ pc' \in {"rest", "poll", "polled"} => Place' < age'
    BY <1>2, <1>3, <1>4, <1>5, <1>7, <1>8
  <1>13. tick' # 0 /\ pc' \in {"handler", "updated"} =>
             Place' < ReadEvery + age' /\ (Place' >= ReadEvery => readtick')
    <2>1. CASE tick # 0
      <3>1. Place' < ReadEvery + age'
        BY <2>1, <1>2, <1>3, <1>4, <1>5, <1>6, <1>7 DEF ReadEvery
      <3>2. Place >= ReadEvery /\ pc \in {"handler", "updated"} => readtick
        BY <2>1, <1>4
      <3>3. Place' >= ReadEvery => Place >= ReadEvery \/ now % ReadEvery = 0
        BY <2>1, <1>3, <1>7 DEF ReadEvery
      <3>4. Place' >= ReadEvery /\ pc \in {"handler", "updated"} => readtick'
        BY <3>2, <3>3, <1>1, Zenon
      <3>5. QED
        BY <3>1, <3>4, <1>2
    <2>2. CASE tick = 0
      BY <2>2, <1>2, <1>3, <1>8 DEF ReadEvery
    <2>3. QED
      BY <2>1, <2>2
  <1>14. settled' /\ tick' # 0 => readings' = 4
    <2>1. CASE tick # 0
      BY <2>1, <1>2, <1>4
    <2>2. CASE tick = 0 /\ Place = 49 /\ settled
      <3>1. unit = 9
        BY <2>2, <1>3
      <3>2. ~readtick /\ Due = readings
        BY <2>2, <3>1, <1>4, <1>10 DEF Due
      <3>3. QED
        BY <2>2, <3>2, <1>2, <1>3, <1>4
    <2>3. QED
      BY <2>1, <2>2, <1>2, <1>8
  <1>15. settled' /\ tick' = 0 =>
             Due' \in {Place' \div ReadEvery, Place' \div ReadEvery + 1}
    <2> SUFFICES ASSUME settled, tick = 0, Place # 49, polled
                 PROVE  Due' \in {Place' \div ReadEvery, Place' \div ReadEvery + 1}
      BY <1>2, <1>4, <1>7, <1>8
    <2>1. CASE unit = 9
      <3>1. ~readtick /\ pc # "polled" /\ readtick' /\ Due = readings /\ Due' = readings + 1
        BY <2>1, <1>1, <1>2, <1>3, <1>4, <1>10 DEF Due
      <3>2. QED
        BY <2>1, <3>1, <1>2, <1>3, <1>4
    <2>2. CASE unit # 9
      <3>1. readtick' = readtick
        <4>1. now % ReadEvery # 0 /\ readtick \in BOOLEAN
          BY <2>2, <1>3 DEF TypeOK
        <4>2. QED
          BY <4>1, <1>1, Zenon
      <3>2. Due' = Due
        BY <3>1, <1>2 DEF Due
      <3>3. QED
        BY <2>2, <3>2, <1>3, <1>4
    <2>3. QED
      BY <2>1, <2>2
  <1>16. /\ pc' \notin {"poll", "polled"} \/ settled' => polled'
         /\ pc' = "polled" => readtick'
         /\ pc' = "updated" => tick' # 0
    BY <1>1, <1>2, <1>4, <1>7
  <1>17. QED
    BY <1>9, <1>11, <1>12, <1>13, <1>14, <1>15, <1>16 DEF OnTime

(* A step of the main loop: it uses up a request or an average, or moves on.*)
LEMMA LoopOnTime ==
    ASSUME PassMax < ReadEvery, TypeOK, OnTime, MainLoop
    PROVE  OnTime'
  <1>1. subtickCounter' = subtickCounter /\ Place' = Place /\ overrun' = overrun
    BY DEF MainLoop, TakeReading, DropReading, ClearReadtick, NoReading, UpdateTemp,
           ClearTick, CloseWindow, NoTick, NextPass, Place
  <1>2. /\ age \in 0..9 /\ readings \in 0..4
        /\ subtickCounter % ReadEvery \in 0..9 /\ Place \in 0..49
        /\ Place \div ReadEvery \in 0..4
        /\ Place < 10 => Place \div ReadEvery = 0
        /\ Place >= 10 /\ Place < 20 => Place \div ReadEvery = 1
    BY PassMaxAssumption, Clock, SMT DEF TypeOK, Enough, ReadEvery
  <1>3. CASE TakeReading
    <2>1. Due' = Due
      BY <1>3 DEF TakeReading, Due
    <2>2. settled => tick = 0
      BY <1>3, <1>2 DEF TakeReading, WantsReading, Enough, OnTime
    <2>3. QED
      BY <1>1, <1>2, <1>3, <2>1, <2>2 DEF TakeReading, OnTime
  <1>4. CASE DropReading
    <2>1. readings = 4 /\ Due = 5 /\ Due' = 4
      BY <1>2, <1>4 DEF DropReading, WantsReading, Enough, Due
    <2>2. QED
      BY <1>1, <1>2, <1>4, <2>1 DEF DropReading, OnTime
  <1>5. CASE ClearReadtick
    <2>1. Due' = Due
      BY <1>5 DEF ClearReadtick, Due
    <2>2. QED
      BY <1>1, <1>2, <1>5, <2>1 DEF ClearReadtick, OnTime, ReadEvery
  <1>6. CASE NoReading
    <2>1. Due' = Due
      BY <1>6 DEF NoReading, Due
    <2>2. QED
      BY <1>1, <1>2, <1>6, <2>1 DEF NoReading, OnTime, ReadEvery
  <1>7. CASE UpdateTemp
    <2>1. Due' = Due
      BY <1>7 DEF UpdateTemp, Due
    <2>2. QED
      BY <1>1, <1>2, <1>7, <2>1 DEF UpdateTemp, OnTime, ReadEvery, seenVars
  <1>8. CASE ClearTick
    <2>1. Due' = IF readtick THEN 1 ELSE 0
      BY <1>8 DEF ClearTick, Due
    <2>2. Due' \in {Place \div ReadEvery, Place \div ReadEvery + 1}
      BY <1>2, <1>8, <2>1 DEF ClearTick, OnTime, ReadEvery
    <2>3. QED
      BY <1>1, <1>2, <1>8, <2>2 DEF ClearTick, CloseWindow, OnTime
  <1>9. CASE NoTick
    <2>1. Due' = Due
      BY <1>9 DEF NoTick, Due
    <2>2. QED
      BY <1>1, <1>2, <1>9, <2>1 DEF NoTick, OnTime
  <1>10. CASE NextPass
    <2>1. Due' = Due
      BY <1>10 DEF NextPass, Due
    <2>2. QED
      BY <1>1, <1>2, <1>10, <2>1 DEF NextPass, OnTime
  <1>11. QED
    BY <1>3, <1>4, <1>5, <1>6, <1>7, <1>8, <1>9, <1>10 DEF MainLoop

LEMMA OnTimeHolds ==
    ASSUME PassMax < ReadEvery
    PROVE  Spec => [](Inv /\ OnTime)
  <1>1. Init => OnTime
    BY SMT DEF Init, OnTime
  <1>2. Inv /\ OnTime /\ [Next]_vars => OnTime'
    <2> SUFFICES ASSUME Inv, OnTime, [Next]_vars PROVE OnTime'
      OBVIOUS
    <2>1. TypeOK
      BY DEF Inv
    <2>2. CASE UNCHANGED vars
      BY <2>2 DEF vars, OnTime, Due, Place
    <2>3. QED
      BY <2>1, <2>2, InterruptOnTime, LoopOnTime DEF Next
  <1>3. QED
    BY <1>1, <1>2, InvHolds, PTL DEF Spec

(* As long as a pass polls within 100 ms: every average but the first lies *)
(* between the smallest and the largest reading of its half second.        *)
THEOREM AveragesAreInRange ==
    ASSUME PassMax < ReadEvery
    PROVE  Spec => []AverageInRange
  <1>1. Inv /\ OnTime => AverageInRange
    BY DEF Inv, Window, OnTime, AverageInRange, Averaged
  <1>2. QED
    BY <1>1, OnTimeHolds, PTL

(* And no half second goes by uncounted. *)
THEOREM HalfSecondsCount ==
    ASSUME PassMax < ReadEvery
    PROVE  Spec => []NoHalfSecondLost
  <1>1. OnTime => NoHalfSecondLost
    BY DEF OnTime, NoHalfSecondLost
  <1>2. QED
    BY <1>1, OnTimeHolds, PTL

-----------------------------------------------------------------------------
(* The history.  Its sums are recursive functions.                         *)

(* Induction over the natural numbers, stated for sets: what holds of n is   *)
(* the set of all n it holds of.                                            *)
LEMMA NatSetInduction ==
    ASSUME NEW S \in SUBSET Nat, 0 \in S, \A n \in S : n + 1 \in S
    PROVE  S = Nat
<1> DEFINE Less == OpToRel(<, Nat)
           Left == Nat \ S
<1>1. IsWellFoundedOn(Less, Nat)
  BY NatLessThanWellFounded, Zenon
<1>2. \A m, n \in Nat : m < n => <<m, n>> \in Less
  BY DEF OpToRel
<1>3. SUFFICES ASSUME Left # {} PROVE FALSE
  OBVIOUS
<1>4. Left \subseteq Nat
  OBVIOUS
<1> HIDE DEF Less
<1>5. PICK least \in Left : \A n \in Left : ~ (<<n, least>> \in Less)
  <2> HIDE DEF Left
  <2> QED BY <1>1, <1>3, <1>4, WFMin
<1>6. least # 0 /\ least - 1 \in Nat /\ least - 1 < least
  BY <1>5
<1>7. least - 1 \in S
  BY <1>2, <1>5, <1>6
<1> QED BY <1>5, <1>6, <1>7

-----------------------------------------------------------------------------
(* Sums. *)

LEMMA Lags ==
    /\ Sum \in Nat /\ Sum >= 1
    /\ Lag4 \in Nat /\ Lag16 \in Nat /\ Lag32 \in Nat
    /\ Sum <= Lag4 /\ Lag4 < Lag16 /\ Lag16 < Lag32
    /\ TempLen \in Nat /\ TempLen = Lag32 + Sum /\ RateLen \in Nat /\ RateLen = Lag4 + Sum
BY LagAssumption DEF TempLen, RateLen

(* The running sums of an array from one of its places on.                  *)
AreSums(s, array, first, last) ==
    s = [n \in 0..last |-> IF n = 0 THEN 0 ELSE s[n - 1] + array[first + n - 1]]

(* They exist as far as one likes: the recursive definition defines them.   *)
LEMMA SumsExist ==
    ASSUME NEW array, NEW first \in Int, NEW last \in Nat
    PROVE  \E s : AreSums(s, array, first, last)
<1> DEFINE S == {n \in Nat : \E s : AreSums(s, array, first, n)}
<1>1. 0 \in S
  <2>1. AreSums([n \in 0..0 |-> 0], array, first, 0)
    BY DEF AreSums
  <2> QED BY <2>1
<1>2. ASSUME NEW k \in S PROVE k + 1 \in S
  <2>1. PICK s : AreSums(s, array, first, k)
    BY <1>2
  <2> DEFINE t == [n \in 0..k + 1 |-> IF n = k + 1 THEN s[k] + array[first + k] ELSE s[n]]
  <2>2. ASSUME NEW n \in 0..k + 1
        PROVE  t[n] = IF n = 0 THEN 0 ELSE t[n - 1] + array[first + n - 1]
    <3>1. CASE n = k + 1
      <4>1. t[n] = s[k] + array[first + k] /\ t[n - 1] = s[k] /\ first + n - 1 = first + k /\ n # 0
        BY <1>2, <3>1
      <4> QED BY <4>1
    <3>2. CASE n # k + 1
      <4>1. n \in 0..k /\ (n # 0 => n - 1 \in 0..k /\ n - 1 # k + 1)
        BY <1>2, <3>2
      <4>2. s[n] = IF n = 0 THEN 0 ELSE s[n - 1] + array[first + n - 1]
        BY <2>1, <4>1, Zenon DEF AreSums
      <4>3. t[n] = s[n] /\ (n # 0 => t[n - 1] = s[n - 1])
        BY <1>2, <3>2, <4>1
      <4> QED BY <4>2, <4>3
    <3> QED BY <3>1, <3>2
  <2>3. t = [n \in 0..k + 1 |-> IF n = 0 THEN 0 ELSE t[n - 1] + array[first + n - 1]]
    <3>1. t = [n \in 0..k + 1 |-> t[n]]
      OBVIOUS
    <3> HIDE DEF t
    <3> QED BY <2>2, <3>1, Zenon
  <2> HIDE DEF t
  <2>4. AreSums(t, array, first, k + 1)
    BY <2>3 DEF AreSums
  <2> QED BY <1>2, <2>4
<1>3. S \in SUBSET Nat
  OBVIOUS
<1> HIDE DEF S
<1>4. S = Nat
  BY <1>1, <1>2, <1>3, NatSetInduction
<1> QED BY <1>4 DEF S

LEMMA SumIsLast ==
    ASSUME NEW array, NEW first \in Int
    PROVE  \E s : AreSums(s, array, first, Sum) /\ SumFrom(array, first) = s[Sum]
<1> DEFINE s == CHOOSE s : AreSums(s, array, first, Sum)
<1>1. AreSums(s, array, first, Sum)
  BY SumsExist, Lags
<1>2. SumFrom(array, first) = s[Sum]
  BY DEF SumFrom, AreSums
<1> QED BY <1>1, <1>2

(* Sums of integers are integers, and sums of bounded entries are bounded.  *)
LEMMA SumIsInteger ==
    ASSUME NEW array, NEW first \in Int, \A n \in 0..Sum - 1 : array[first + n] \in Int
    PROVE  SumFrom(array, first) \in Int
<1>1. PICK s : AreSums(s, array, first, Sum) /\ SumFrom(array, first) = s[Sum]
  BY SumIsLast
<1> DEFINE S == {n \in Nat : n <= Sum => s[n] \in Int}
<1>2. \A n \in 0..Sum : s[n] = IF n = 0 THEN 0 ELSE s[n - 1] + array[first + n - 1]
  BY <1>1, Zenon DEF AreSums
<1>3. 0 \in S
  BY <1>2, Lags
<1>4. ASSUME NEW n \in S PROVE n + 1 \in S
  <2>1. CASE n + 1 <= Sum
    <3>1. n \in 0..Sum - 1 /\ n + 1 \in 0..Sum /\ n + 1 # 0 /\ (n + 1) - 1 = n
      BY <1>4, <2>1, Lags
    <3>2. s[n + 1] = s[n] + array[first + n]
      <4>1. first + (n + 1) - 1 = first + n
        BY <3>1
      <4> QED BY <1>2, <3>1, <4>1
    <3>3. s[n] \in Int /\ array[first + n] \in Int
      BY <1>4, <3>1, Lags
    <3> QED BY <3>1, <3>2, <3>3
  <2>2. CASE ~(n + 1 <= Sum)
    BY <1>4, <2>2
  <2> QED BY <2>1, <2>2
<1>5. S \in SUBSET Nat
  OBVIOUS
<1> HIDE DEF S
<1>6. S = Nat
  BY <1>3, <1>4, <1>5, NatSetInduction
<1> QED BY <1>1, <1>6, Lags DEF S

(* Smaller entries have the smaller sum.                                    *)
LEMMA SumIsMonotone ==
    ASSUME NEW array, NEW a \in Int, NEW b \in Int,
           \A n \in 0..Sum - 1 : /\ array[a + n] \in Int /\ array[b + n] \in Int
                                 /\ array[a + n] <= array[b + n]
    PROVE  SumFrom(array, a) <= SumFrom(array, b)
<1>1. PICK s : AreSums(s, array, a, Sum) /\ SumFrom(array, a) = s[Sum]
  BY SumIsLast
<1>2. PICK t : AreSums(t, array, b, Sum) /\ SumFrom(array, b) = t[Sum]
  BY SumIsLast
<1> DEFINE S == {n \in Nat : n <= Sum => s[n] \in Int /\ t[n] \in Int /\ s[n] <= t[n]}
<1>3. \A n \in 0..Sum : s[n] = IF n = 0 THEN 0 ELSE s[n - 1] + array[a + n - 1]
  BY <1>1, Zenon DEF AreSums
<1>4. \A n \in 0..Sum : t[n] = IF n = 0 THEN 0 ELSE t[n - 1] + array[b + n - 1]
  BY <1>2, Zenon DEF AreSums
<1>5. 0 \in S
  BY <1>3, <1>4, Lags
<1>6. ASSUME NEW n \in S PROVE n + 1 \in S
  <2>1. CASE n + 1 <= Sum
    <3>1. n \in 0..Sum - 1 /\ n + 1 \in 0..Sum /\ n + 1 # 0 /\ (n + 1) - 1 = n
      BY <1>6, <2>1, Lags
    <3>2. a + (n + 1) - 1 = a + n /\ b + (n + 1) - 1 = b + n
      BY <3>1
    <3>3. s[n + 1] = s[n] + array[a + n] /\ t[n + 1] = t[n] + array[b + n]
      BY <1>3, <1>4, <3>1, <3>2
    <3>4. s[n] \in Int /\ t[n] \in Int /\ s[n] <= t[n]
      BY <1>6, <3>1, Lags
    <3>5. array[a + n] \in Int /\ array[b + n] \in Int /\ array[a + n] <= array[b + n]
      BY <3>1
    <3> HIDE DEF S
    <3>6. s[n + 1] \in Int /\ t[n + 1] \in Int /\ s[n + 1] <= t[n + 1]
      BY <3>3, <3>4, <3>5
    <3> QED BY <3>1, <3>6 DEF S
  <2>2. CASE ~(n + 1 <= Sum)
    BY <1>6, <2>2
  <2> QED BY <2>1, <2>2
<1>7. S \in SUBSET Nat
  OBVIOUS
<1> HIDE DEF S
<1>8. S = Nat
  BY <1>5, <1>6, <1>7, NatSetInduction
<1> QED BY <1>1, <1>2, <1>8, Lags DEF S

LEMMA SumIsBounded ==
    ASSUME NEW array, NEW first \in Int, NEW M \in Nat,
           \A n \in 0..Sum - 1 : array[first + n] \in 0..M
    PROVE  SumFrom(array, first) \in 0..(Sum * M)
<1>1. PICK s : AreSums(s, array, first, Sum) /\ SumFrom(array, first) = s[Sum]
  BY SumIsLast
<1> DEFINE S == {n \in Nat : n <= Sum => s[n] \in 0..(n * M)}
<1>2. \A n \in 0..Sum : s[n] = IF n = 0 THEN 0 ELSE s[n - 1] + array[first + n - 1]
  BY <1>1, Zenon DEF AreSums
<1>3. 0 \in S
  <2>1. s[0] = 0 /\ 0 * M = 0
    BY <1>2, Lags
  <2> QED BY <2>1
<1>4. ASSUME NEW n \in S PROVE n + 1 \in S
  <2>1. CASE n + 1 <= Sum
    <3>1. n \in 0..Sum - 1 /\ n + 1 \in 0..Sum /\ n + 1 # 0 /\ (n + 1) - 1 = n
      BY <1>4, <2>1, Lags
    <3>2. s[n + 1] = s[n] + array[first + n]
      <4>1. first + (n + 1) - 1 = first + n
        BY <3>1
      <4> QED BY <1>2, <3>1, <4>1
    <3>3. s[n] \in 0..(n * M) /\ array[first + n] \in 0..M
      BY <1>4, <3>1, Lags
    <3>4. (n + 1) * M = n * M + M /\ n * M \in Nat /\ n \in Nat
      BY <1>4
    <3> HIDE DEF S
    <3>5. s[n + 1] \in 0..((n + 1) * M)
      BY <3>2, <3>3, <3>4
    <3> QED BY <3>1, <3>4, <3>5 DEF S
  <2>2. CASE ~(n + 1 <= Sum)
    BY <1>4, <2>2
  <2> QED BY <2>1, <2>2
<1>5. S \in SUBSET Nat
  OBVIOUS
<1> HIDE DEF S
<1>6. S = Nat
  BY <1>3, <1>4, <1>5, NatSetInduction
<1> QED BY <1>1, <1>6, Lags DEF S

(* A change of the sums is a change of one of the pairs that make them.     *)
LEMMA ChangeHasWitness ==
    ASSUME NEW array, NEW lag \in Nat, \A n \in 0..lag + Sum - 1 : array[n] \in Int
    PROVE  /\ Change(array, lag) \in Int
           /\ Change(array, lag) > 0 => \E n \in 0..Sum - 1 : array[n] > array[lag + n]
           /\ Change(array, lag) < 0 => \E n \in 0..Sum - 1 : array[n] < array[lag + n]
<1>1. \A n \in 0..Sum - 1 : /\ 0 + n = n
                            /\ array[0 + n] \in Int /\ array[lag + n] \in Int
  BY Lags
<1>2. SumFrom(array, 0) \in Int /\ SumFrom(array, lag) \in Int
  BY <1>1, SumIsInteger
<1>3. Change(array, lag) = SumFrom(array, 0) - SumFrom(array, lag)
  BY DEF Change
<1>4. ASSUME Change(array, lag) > 0
      PROVE  \E n \in 0..Sum - 1 : array[n] > array[lag + n]
  <2>1. SUFFICES ASSUME \A n \in 0..Sum - 1 : ~(array[n] > array[lag + n]) PROVE FALSE
    OBVIOUS
  <2>2. \A n \in 0..Sum - 1 : array[0 + n] <= array[lag + n]
    BY <1>1, <2>1
  <2>3. SumFrom(array, 0) <= SumFrom(array, lag)
    BY <1>1, <2>2, SumIsMonotone
  <2> QED BY <1>2, <1>3, <1>4, <2>3
<1>5. ASSUME Change(array, lag) < 0
      PROVE  \E n \in 0..Sum - 1 : array[n] < array[lag + n]
  <2>1. SUFFICES ASSUME \A n \in 0..Sum - 1 : ~(array[n] < array[lag + n]) PROVE FALSE
    OBVIOUS
  <2>2. \A n \in 0..Sum - 1 : array[lag + n] <= array[0 + n]
    BY <1>1, <2>1
  <2>3. SumFrom(array, lag) <= SumFrom(array, 0)
    BY <1>1, <2>2, SumIsMonotone
  <2> QED BY <1>2, <1>3, <1>5, <2>3
<1> QED BY <1>2, <1>3, <1>4, <1>5

-----------------------------------------------------------------------------
(* An array and the newest values pushed into it.                          *)

(* Since it was filled the last time it took k values; before them, if it   *)
(* is remembered, came one that looks like the mark of an empty array.      *)
Holds(array, seq, length, mark, k) ==
    /\ k \in 1..Len(seq)
    /\ \A i \in 0..(length - 1) : array[i] = seq[IF i < k THEN i + 1 ELSE k]
    /\ k < Len(seq) => seq[k + 1] = mark

Recalls(array, seq, length, mark, T) ==
    /\ seq \in Seq(T) /\ Len(seq) <= length
    /\ array = [i \in 0..(length - 1) |-> array[i]]
    /\ seq = <<>> => array[0] = mark
    /\ seq # <<>> => \E k \in Nat : Holds(array, seq, length, mark, k)

(* What the newest values are. *)
LEMMA NewestIs ==
    ASSUME NEW T, NEW seq \in Seq(T), NEW value \in T, NEW length \in Nat, length >= 1,
           Len(seq) <= length
    PROVE  /\ Newest(seq, value, length) \in Seq(T)
           /\ Newest(seq, value, length) # <<>>
           /\ Len(Newest(seq, value, length)) = IF Len(seq) < length THEN Len(seq) + 1 ELSE length
           /\ Newest(seq, value, length)[1] = value
           /\ \A i \in 1..Len(Newest(seq, value, length)) - 1 :
                 Newest(seq, value, length)[i + 1] = seq[i]
<1> DEFINE kept == IF Len(seq) < length THEN Len(seq) ELSE length - 1
           old == SubSeq(seq, 1, kept)
           new == <<value>> \o old
<1>1. kept \in Nat /\ kept <= Len(seq)
  OBVIOUS
<1>2. /\ old \in Seq(T) /\ Len(old) = kept
      /\ \A i \in 1..kept : old[i] = seq[i]
  <2> HIDE DEF kept
  <2>1. \A i \in 1..kept : seq[i] \in T
    BY <1>1
  <2> QED BY <1>1, <2>1, SubSeqProperties
<1> HIDE DEF old, kept
<1>3. <<value>> \in Seq(T) /\ Len(<<value>>) = 1 /\ <<value>>[1] = value
  OBVIOUS
<1>4. /\ new \in Seq(T) /\ Len(new) = 1 + kept
      /\ \A i \in 1..1 + kept : new[i] = IF i <= 1 THEN <<value>>[i] ELSE old[i - 1]
  BY <1>2, <1>3, ConcatProperties
<1> HIDE DEF new
<1>5. new[1] = value /\ new # <<>>
  BY <1>1, <1>3, <1>4
<1>6. \A i \in 1..Len(new) - 1 : new[i + 1] = seq[i]
  BY <1>1, <1>2, <1>4
<1>7. Newest(seq, value, length) = new
  BY DEF Newest, new, old, kept
<1>8. Len(new) = IF Len(seq) < length THEN Len(seq) + 1 ELSE length
  BY <1>4 DEF kept
<1> QED BY <1>4, <1>5, <1>6, <1>7, <1>8

(* An array recalls what is pushed into it. *)
LEMMA PushIsRecalled ==
    ASSUME NEW T, NEW length \in Nat, length >= 1, NEW array, NEW seq, NEW mark,
           Recalls(array, seq, length, mark, T), NEW value \in T
    PROVE  /\ Recalls(Pushed(array, value, mark), Newest(seq, value, length), length, mark, T)
           /\ Newest(seq, value, length) # <<>>
<1> DEFINE new == Newest(seq, value, length)
           pushed == Pushed(array, value, mark)
<1>1. /\ seq \in Seq(T) /\ Len(seq) <= length /\ Len(seq) \in Nat
      /\ array = [i \in 0..(length - 1) |-> array[i]]
  BY DEF Recalls
<1>2. /\ new \in Seq(T) /\ new # <<>>
      /\ Len(new) = IF Len(seq) < length THEN Len(seq) + 1 ELSE length
      /\ new[1] = value
      /\ \A i \in 1..Len(new) - 1 : new[i + 1] = seq[i]
  <2>1. Len(seq) <= length /\ length >= 1 /\ value \in T /\ length \in Nat /\ seq \in Seq(T)
    BY <1>1
  <2> QED BY <2>1, NewestIs
<1>0. SUFFICES Recalls(pushed, new, length, mark, T)
  BY <1>2
<1> HIDE DEF new
<1>9. Len(new) <= length
  BY <1>1, <1>2
<1>3. DOMAIN array = 0..(length - 1)
  BY <1>1, Zenon
<1>4. CASE array[0] = mark
  <2>1. pushed = [i \in 0..(length - 1) |-> value]
    BY <1>3, <1>4 DEF Pushed, Filled
  <2>2. 1 < Len(new) => new[2] = mark
    <3>1. SUFFICES ASSUME 1 < Len(new) PROVE new[2] = mark
      OBVIOUS
    <3>2. new[2] = seq[1] /\ seq # <<>>
      <4>1. 1 \in 1..Len(new) - 1 /\ 1 + 1 = 2
        BY <1>1, <1>2, <3>1
      <4>2. seq # <<>>
        BY <1>1, <1>2, <3>1
      <4> QED BY <1>2, <4>1, <4>2
    <3>3. PICK k \in Nat : Holds(array, seq, length, mark, k)
      BY <3>2 DEF Recalls
    <3>4. array[0] = seq[1]
      BY <3>3 DEF Holds
    <3> QED BY <1>4, <3>2, <3>4
  <2>3. Holds(pushed, new, length, mark, 1)
    <3>1. \A i \in 0..(length - 1) : (IF i < 1 THEN i + 1 ELSE 1) = 1
      OBVIOUS
    <3>2. 1 \in 1..Len(new)
      BY <1>1, <1>2
    <3> HIDE DEF pushed
    <3> QED BY <1>2, <2>1, <2>2, <3>1, <3>2 DEF Holds
  <2>4. pushed = [i \in 0..(length - 1) |-> pushed[i]]
    BY <2>1
  <2> HIDE DEF pushed
  <2>5. \E k \in Nat : Holds(pushed, new, length, mark, k)
    BY <2>3
  <2> QED BY <1>2, <1>9, <2>4, <2>5, Zenon DEF Recalls
<1>5. CASE array[0] # mark
  <2>1. pushed = [i \in 0..(length - 1) |-> IF i = 0 THEN value ELSE array[i - 1]]
    BY <1>3, <1>5 DEF Pushed, Shifted
  <2>2. seq # <<>>
    BY <1>5 DEF Recalls
  <2>3. PICK k \in Nat : Holds(array, seq, length, mark, k)
    BY <2>2 DEF Recalls
  <2> DEFINE more == IF k < length THEN k + 1 ELSE length
  <2>4. more \in 1..Len(new) /\ more \in Nat /\ k \in 1..Len(seq)
    BY <1>1, <1>2, <2>3 DEF Holds
  <2>5. ASSUME NEW i \in 0..(length - 1)
        PROVE  pushed[i] = new[IF i < more THEN i + 1 ELSE more]
    <3>1. CASE i = 0
      BY <1>2, <2>1, <2>4, <3>1
    <3>2. CASE i # 0
      <4> DEFINE j == IF i - 1 < k THEN i ELSE k
      <4>1. array[i - 1] = seq[j]
        BY <2>3, <3>2 DEF Holds
      <4>2. j \in 1..Len(new) - 1 /\ j + 1 = IF i < more THEN i + 1 ELSE more
        BY <1>1, <1>2, <2>4, <3>2
      <4>3. pushed[i] = array[i - 1]
        BY <2>1, <3>2
      <4> HIDE DEF j, more, pushed
      <4>4. new[j + 1] = seq[j]
        BY <1>2, <4>2
      <4> QED BY <4>1, <4>2, <4>3, <4>4
    <3> QED BY <3>1, <3>2
  <2>6. more < Len(new) => new[more + 1] = mark
    <3>1. SUFFICES ASSUME more < Len(new) PROVE new[more + 1] = mark
      OBVIOUS
    <3>2. more = k + 1 /\ k < Len(seq) /\ more \in 1..Len(new) - 1
      BY <1>1, <1>2, <2>4, <3>1
    <3>3. seq[k + 1] = mark
      BY <2>3, <3>2 DEF Holds
    <3> HIDE DEF more
    <3>4. new[more + 1] = seq[more]
      BY <1>2, <3>2
    <3> QED BY <3>2, <3>3, <3>4
  <2>7. pushed = [i \in 0..(length - 1) |-> pushed[i]]
    BY <2>1
  <2> HIDE DEF pushed, more
  <2>8. Holds(pushed, new, length, mark, more)
    BY <2>4, <2>5, <2>6 DEF Holds
  <2>9. \E n \in Nat : Holds(pushed, new, length, mark, n)
    BY <2>4, <2>8
  <2> QED BY <1>2, <1>9, <2>7, <2>9, Zenon DEF Recalls
<1> QED BY <1>4, <1>5

(* What is reported from an array that recalls its values is true of them.  *)
LEMMA ReportIsTrue ==
    ASSUME NEW T \in SUBSET Int, NEW length \in Nat, NEW array, NEW seq, NEW mark,
           Recalls(array, seq, length, mark, T), seq # <<>>,
           NEW lag \in Nat, Sum <= lag, lag + Sum <= length
    PROVE  /\ Change(array, lag) \in Int
           /\ IsReal(seq, Change(array, lag), lag)
           /\ Unmarked(seq, mark) => array = AsRemembered(seq, length)
<1>1. PICK k \in Nat : Holds(array, seq, length, mark, k)
  BY DEF Recalls
<1>2. /\ seq \in Seq(T) /\ Len(seq) \in Nat /\ DOMAIN seq = 1..Len(seq)
      /\ array = [i \in 0..(length - 1) |-> array[i]]
      /\ k \in 1..Len(seq)
      /\ \A i \in 1..Len(seq) : seq[i] \in Int
  BY <1>1 DEF Recalls, Holds
<1> DEFINE At(i) == IF i < k THEN i + 1 ELSE k
<1>3. \A i \in 0..(length - 1) : At(i) \in 1..Len(seq) /\ array[i] = seq[At(i)]
  BY <1>1, <1>2 DEF Holds
<1>4. \A i \in 0..lag + Sum - 1 : array[i] \in Int
  <2>1. \A i \in 0..lag + Sum - 1 : i \in 0..(length - 1)
    BY Lags
  <2> HIDE DEF At
  <2> QED BY <1>2, <1>3, <2>1
<1>5. /\ Change(array, lag) \in Int
      /\ Change(array, lag) > 0 => \E n \in 0..Sum - 1 : array[n] > array[lag + n]
      /\ Change(array, lag) < 0 => \E n \in 0..Sum - 1 : array[n] < array[lag + n]
  BY <1>4, ChangeHasWitness
<1>6. ASSUME NEW n \in 0..Sum - 1, array[n] # array[lag + n]
      PROVE  /\ At(n) \in DOMAIN seq /\ At(lag + n) \in DOMAIN seq
             /\ At(n) < At(lag + n) /\ At(lag + n) <= lag + Sum
             /\ array[n] = seq[At(n)] /\ array[lag + n] = seq[At(lag + n)]
  <2>1. n \in 0..(length - 1) /\ lag + n \in 0..(length - 1)
    BY Lags
  <2>2. At(n) # At(lag + n)
    BY <1>3, <1>6, <2>1
  <2>3. At(n) < At(lag + n) /\ At(lag + n) <= lag + Sum
    <3>1. n \in Int /\ n >= 0 /\ n <= Sum - 1 /\ k \in Nat /\ k >= 1
      BY <1>2, Lags
    <3> QED BY <2>2, <3>1, Lags
  <2> QED BY <1>2, <1>3, <2>1, <2>3
<1> HIDE DEF At
<1>7. IsReal(seq, Change(array, lag), lag)
  <2>1. ASSUME Change(array, lag) > 0 PROVE Rose(seq, lag + Sum)
    <3>1. PICK n \in 0..Sum - 1 : array[n] > array[lag + n]
      BY <1>5, <2>1
    <3>2. array[n] # array[lag + n]
      BY <1>4, <3>1, Lags
    <3> QED BY <1>6, <3>1, <3>2 DEF Rose
  <2>2. ASSUME Change(array, lag) < 0 PROVE Fell(seq, lag + Sum)
    <3>1. PICK n \in 0..Sum - 1 : array[n] < array[lag + n]
      BY <1>5, <2>2
    <3>2. array[n] # array[lag + n]
      BY <1>4, <3>1, Lags
    <3> QED BY <1>6, <3>1, <3>2 DEF Fell
  <2> QED BY <2>1, <2>2 DEF IsReal
<1>8. ASSUME Unmarked(seq, mark) PROVE array = AsRemembered(seq, length)
  <2>1. k = Len(seq)
    <3>1. k < Len(seq) => seq[k + 1] = mark /\ k + 1 \in DOMAIN seq
      BY <1>1, <1>2 DEF Holds
    <3> QED BY <1>2, <1>8, <3>1 DEF Unmarked
  <2>2. \A i \in 0..(length - 1) : array[i] = IF i < Len(seq) THEN seq[i + 1] ELSE seq[Len(seq)]
    BY <1>3, <2>1 DEF At
  <2> QED BY <1>2, <2>2 DEF AsRemembered
<1> QED BY <1>5, <1>7, <1>8

-----------------------------------------------------------------------------
(* The invariant: the arrays recall what was pushed into them, and the      *)
(* reports are what the arrays give.                                        *)
Recorded ==
    /\ Recalls(ovenTempArray, past, TempLen, 0, Averages)
    /\ Recalls(ovenDelta4Array, reported, RateLen, EmptyMark, Int)
    /\ past = <<>> <=> reported = <<>>
    /\ past = <<>> =>
        /\ ovenDelta4 = 0 /\ ovenDelta16 = 0 /\ ovenDelta32 = 0 /\ ovenRateOfChange = 0
        /\ \A i \in 0..(TempLen - 1) : ovenTempArray[i] = 0
        /\ \A i \in 0..(RateLen - 1) : ovenDelta4Array[i] \in Int
    /\ past # <<>> =>
        /\ ovenDelta4  = Change(ovenTempArray, Lag4)
        /\ ovenDelta16 = Change(ovenTempArray, Lag16)
        /\ ovenDelta32 = Change(ovenTempArray, Lag32)
        /\ ovenRateOfChange = Change(ovenDelta4Array, Lag4)

LEMMA RecordedAtFirst == ASSUME HistoryInit PROVE Recorded
<1>1. /\ past = <<>> /\ reported = <<>>
      /\ past \in Seq(Averages) /\ reported \in Seq(Int) /\ Len(past) = 0 /\ Len(reported) = 0
  BY DEF HistoryInit
<1>2. /\ ovenTempArray = [i \in 0..(TempLen - 1) |-> 0]
      /\ ovenDelta4Array = [i \in 0..(RateLen - 1) |-> IF i = 0 THEN EmptyMark ELSE 0]
  BY DEF HistoryInit
<1>3. /\ ovenTempArray = [i \in 0..(TempLen - 1) |-> ovenTempArray[i]]
      /\ ovenDelta4Array = [i \in 0..(RateLen - 1) |-> ovenDelta4Array[i]]
  BY <1>2
<1>4. ovenTempArray[0] = 0 /\ ovenDelta4Array[0] = EmptyMark
  BY <1>2, Lags
<1>5. /\ \A i \in 0..(TempLen - 1) : ovenTempArray[i] = 0
      /\ \A i \in 0..(RateLen - 1) : ovenDelta4Array[i] \in Int
  BY <1>2 DEF EmptyMark
<1>6. /\ Recalls(ovenTempArray, past, TempLen, 0, Averages)
      /\ Recalls(ovenDelta4Array, reported, RateLen, EmptyMark, Int)
  BY <1>1, <1>3, <1>4, Lags DEF Recalls
<1> QED BY <1>1, <1>5, <1>6 DEF Recorded, HistoryInit

LEMMA RecordedStep == ASSUME Recorded, [HistoryNext]_historyVars PROVE Recorded'
<1>1. CASE UNCHANGED historyVars
  BY <1>1 DEF historyVars, Recorded, Recalls, Holds, Change, SumFrom
<1>2. CASE HistoryNext
  <2>1. PICK average \in Averages : Record(average)
    BY <1>2 DEF HistoryNext
  <2>2. /\ ovenTempArray' = Pushed(ovenTempArray, average, 0)
        /\ past' = Newest(past, average, TempLen)
        /\ ovenDelta4' = Change(ovenTempArray', Lag4)
        /\ ovenDelta16' = Change(ovenTempArray', Lag16)
        /\ ovenDelta32' = Change(ovenTempArray', Lag32)
        /\ ovenDelta4Array' = Pushed(ovenDelta4Array, ovenDelta4', EmptyMark)
        /\ reported' = Newest(reported, ovenDelta4', RateLen)
        /\ ovenRateOfChange' = Change(ovenDelta4Array', Lag4)
    BY <2>1 DEF Record
  <2>3. TempLen >= 1 /\ RateLen >= 1 /\ Averages \in SUBSET Int
    BY Lags, AveragesAssumption
  <2>4. Recalls(ovenTempArray', past', TempLen, 0, Averages) /\ past' # <<>>
    BY <2>2, <2>3, Lags, PushIsRecalled DEF Recorded
  <2>5. ovenDelta4' \in Int
    <3>1. Sum <= Lag4 /\ Lag4 + Sum <= TempLen
      BY Lags
    <3> QED BY <2>2, <2>3, <2>4, <3>1, Lags, ReportIsTrue
  <2>6. Recalls(ovenDelta4Array', reported', RateLen, EmptyMark, Int) /\ reported' # <<>>
    BY <2>2, <2>3, <2>5, Lags, PushIsRecalled DEF Recorded
  <2> QED BY <2>2, <2>4, <2>6 DEF Recorded
<1> QED BY <1>1, <1>2

(* The arrays and the reports are always what the averages made of them.    *)
THEOREM HistoryRecorded == HistorySpec => []Recorded
<1> QED BY RecordedAtFirst, RecordedStep, PTL DEF HistorySpec

LEMMA RecordedIsTrue == ASSUME Recorded PROVE HistoryIsTrue
<1>1. Averages \in SUBSET Int /\ Int \in SUBSET Int
  BY AveragesAssumption
<1>2. CASE past = <<>>
  <2>1. /\ ovenTempArray = [i \in 0..(TempLen - 1) |-> ovenTempArray[i]]
        /\ ovenDelta4Array = [i \in 0..(RateLen - 1) |-> ovenDelta4Array[i]]
    BY DEF Recorded, Recalls
  <2>2. HistoryTypeOK
    BY <1>2, <2>1 DEF Recorded, HistoryTypeOK
  <2>3. reported = <<>>
    BY <1>2 DEF Recorded
  <2>4. ChangeIsReal
    BY <1>2 DEF Recorded, ChangeIsReal, IsReal
  <2>5. ChangeIsExact
    BY <1>2, <2>3 DEF ChangeIsExact, Unmarked
  <2> QED BY <2>2, <2>4, <2>5 DEF HistoryIsTrue
<1>3. CASE past # <<>>
  <2>1. /\ Recalls(ovenTempArray, past, TempLen, 0, Averages)
        /\ Recalls(ovenDelta4Array, reported, RateLen, EmptyMark, Int)
        /\ reported # <<>>
        /\ ovenDelta4  = Change(ovenTempArray, Lag4)
        /\ ovenDelta16 = Change(ovenTempArray, Lag16)
        /\ ovenDelta32 = Change(ovenTempArray, Lag32)
        /\ ovenRateOfChange = Change(ovenDelta4Array, Lag4)
    BY <1>3 DEF Recorded
  <2>2. /\ Sum <= Lag4 /\ Lag4 + Sum <= TempLen /\ Lag4 + Sum <= RateLen
        /\ Sum <= Lag16 /\ Lag16 + Sum <= TempLen
        /\ Sum <= Lag32 /\ Lag32 + Sum <= TempLen
    BY Lags
  <2>3. IsReal(past, ovenDelta4, Lag4) /\ (Unmarked(past, 0) => ovenTempArray = AsRemembered(past, TempLen))
    BY <1>1, <1>3, <2>1, <2>2, Lags, ReportIsTrue
  <2>4. IsReal(past, ovenDelta16, Lag16)
    BY <1>1, <1>3, <2>1, <2>2, Lags, ReportIsTrue
  <2>5. IsReal(past, ovenDelta32, Lag32)
    BY <1>1, <1>3, <2>1, <2>2, Lags, ReportIsTrue
  <2>6. /\ IsReal(reported, ovenRateOfChange, Lag4)
        /\ Unmarked(reported, EmptyMark) => ovenDelta4Array = AsRemembered(reported, RateLen)
    BY <1>1, <2>1, <2>2, Lags, ReportIsTrue
  <2>7. HistoryTypeOK
    <3>1. PICK k \in Nat : Holds(ovenTempArray, past, TempLen, 0, k)
      BY <1>3, <2>1 DEF Recalls
    <3>2. past \in Seq(Averages) /\ DOMAIN past = 1..Len(past) /\ k \in 1..Len(past)
      BY <2>1, <3>1 DEF Recalls, Holds
    <3>3. ASSUME NEW i \in 0..(TempLen - 1)
          PROVE  \E j \in DOMAIN past : ovenTempArray[i] = past[j]
      <4> DEFINE j == IF i < k THEN i + 1 ELSE k
      <4>1. j \in DOMAIN past /\ ovenTempArray[i] = past[j]
        BY <3>1, <3>2 DEF Holds
      <4> QED BY <4>1
    <3>4. ovenTempArray = [i \in 0..(TempLen - 1) |-> ovenTempArray[i]]
      BY <2>1 DEF Recalls
    <3>5. \A i \in 0..(TempLen - 1) : ovenTempArray[i] \in Averages
      BY <3>2, <3>3
    <3>6. ovenTempArray \in [0..(TempLen - 1) -> Averages \cup {0}]
      BY <3>4, <3>5
    <3>7. ovenDelta4Array \in [0..(RateLen - 1) -> Int]
      <4>1. PICK n \in Nat : Holds(ovenDelta4Array, reported, RateLen, EmptyMark, n)
        BY <2>1 DEF Recalls
      <4>2. reported \in Seq(Int) /\ n \in 1..Len(reported)
        BY <2>1, <4>1 DEF Recalls, Holds
      <4>3. \A i \in 0..(RateLen - 1) : ovenDelta4Array[i] \in Int
        BY <4>1, <4>2 DEF Holds
      <4>4. ovenDelta4Array = [i \in 0..(RateLen - 1) |-> ovenDelta4Array[i]]
        BY <2>1 DEF Recalls
      <4> QED BY <4>3, <4>4
    <3>8. DOMAIN ovenTempArray = 0..(TempLen - 1)
      BY <3>4, Zenon
    <3> QED BY <3>3, <3>6, <3>7, <3>8 DEF HistoryTypeOK
  <2>8. ChangeIsReal
    BY <2>3, <2>4, <2>5, <2>6 DEF ChangeIsReal
  <2>9. ChangeIsExact
    BY <2>1, <2>3, <2>6, Zenon DEF ChangeIsExact
  <2> QED BY <2>7, <2>8, <2>9 DEF HistoryIsTrue
<1> QED BY <1>2, <1>3

(* The history and what is reported from it are true of the averages that   *)
(* were made, for every number of entries that are summed and every lag.    *)
THEOREM HistoryStaysTrue == HistorySpec => []HistoryIsTrue
<1> QED BY HistoryRecorded, RecordedIsTrue, PTL

(* No change of the temperature leaves the 16 bits it is computed in while  *)
(* no window has a fault or a reading below zero: four averages of up to    *)
(* 8191 are at most 32764.                                                  *)
THEOREM ChangesFit ==
    ASSUME NEW M \in Nat, Averages \subseteq 0..M
    PROVE  HistorySpec => []({ovenDelta4, ovenDelta16, ovenDelta32} \subseteq -(Sum * M)..(Sum * M))
<1>1. ASSUME Recorded PROVE {ovenDelta4, ovenDelta16, ovenDelta32} \subseteq -(Sum * M)..(Sum * M)
  <2>1. Sum * M \in Nat
    BY Lags
  <2>2. CASE past = <<>>
    BY <1>1, <2>1, <2>2 DEF Recorded
  <2>3. CASE past # <<>>
    <3>1. HistoryTypeOK
      BY <1>1, RecordedIsTrue DEF HistoryIsTrue
    <3>2. past \in Seq(Averages)
      BY <1>1 DEF Recorded, Recalls
    <3>3. \A i \in 0..(TempLen - 1) : ovenTempArray[i] \in 0..M
      <4>1. \A j \in DOMAIN past : past[j] \in 0..M
        <5>1. \A j \in DOMAIN past : past[j] \in Averages
          BY <3>2
        <5> QED BY <5>1
      <4>2. DOMAIN ovenTempArray = 0..(TempLen - 1)
        BY <3>1, Zenon DEF HistoryTypeOK
      <4> QED BY <2>3, <3>1, <4>1, <4>2 DEF HistoryTypeOK
    <3>4. ASSUME NEW lag \in {0, Lag4, Lag16, Lag32}
          PROVE  SumFrom(ovenTempArray, lag) \in 0..(Sum * M)
      <4>1. lag \in Int /\ \A n \in 0..Sum - 1 : lag + n \in 0..(TempLen - 1)
        BY Lags
      <4>2. \A n \in 0..Sum - 1 : ovenTempArray[lag + n] \in 0..M
        BY <3>3, <4>1
      <4> QED BY <4>1, <4>2, SumIsBounded
    <3>5. ASSUME NEW lag \in {Lag4, Lag16, Lag32}
          PROVE  Change(ovenTempArray, lag) \in -(Sum * M)..(Sum * M)
      <4>1. /\ SumFrom(ovenTempArray, 0) \in 0..(Sum * M)
            /\ SumFrom(ovenTempArray, lag) \in 0..(Sum * M)
        BY <3>4
      <4> QED BY <2>1, <4>1 DEF Change
    <3> QED BY <1>1, <2>3, <3>5 DEF Recorded
  <2> QED BY <2>2, <2>3
<1> QED BY <1>1, HistoryRecorded, PTL
=============================================================================
