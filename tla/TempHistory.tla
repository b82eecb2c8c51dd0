----------------------------- MODULE TempHistory -----------------------------
(***************************************************************************)
(* What UpdateTemp makes of the averages: it shifts each into a history    *)
(* and reports by how much the temperature changed over 4, 16 and 32 half  *)
(* seconds, and by how much the first of these changed.  An empty history  *)
(* is told by its newest entry: 0 for the temperatures, -1 (0xFFFF) for    *)
(* the changes.  The first entry fills it.                                 *)
(***************************************************************************)
EXTENDS Integers, Sequences

CONSTANTS
    Averages,                   \* values ovenTemp takes
    Sum,                        \* 4: entries added up at either end
    Lag4, Lag16, Lag32          \* 8, 32, 64: how far back the other end is

ASSUME AveragesAssumption == Averages \subseteq Nat
ASSUME LagAssumption ==
    /\ Sum \in Nat \ {0}
    /\ Lag4 \in Nat /\ Lag16 \in Nat /\ Lag32 \in Nat
    /\ Sum <= Lag4 /\ Lag4 < Lag16 /\ Lag16 < Lag32

VARIABLES
    ovenTempArray,      \* 0 is the newest entry
    ovenDelta4Array,
    ovenDelta4, ovenDelta16, ovenDelta32, ovenRateOfChange,
    past, reported      \* history variables: the newest averages, and the newest
                        \* values of ovenDelta4, made so far

historyVars == <<ovenTempArray, ovenDelta4Array, ovenDelta4, ovenDelta16,
                 ovenDelta32, ovenRateOfChange, past, reported>>

TempLen == Lag32 + Sum      \* 68 entries
RateLen == Lag4 + Sum       \* 12 entries
EmptyMark == -1

HistoryInit ==
    /\ ovenTempArray = [i \in 0..(TempLen - 1) |-> 0]
    /\ ovenDelta4Array = [i \in 0..(RateLen - 1) |-> IF i = 0 THEN EmptyMark ELSE 0]
    /\ ovenDelta4 = 0 /\ ovenDelta16 = 0 /\ ovenDelta32 = 0 /\ ovenRateOfChange = 0
    /\ past = <<>> /\ reported = <<>>

-----------------------------------------------------------------------------
(* Mutated form: the history is filled only as far as the newest sum. *)
FilledNewest(array, value) ==
    [i \in DOMAIN array |-> IF i < Sum THEN value ELSE array[i]]

Filled(array, value) == [i \in DOMAIN array |-> value]
Shifted(array, value) ==
    [i \in DOMAIN array |-> IF i = 0 THEN value ELSE array[i - 1]]

Pushed(array, value, mark) ==
    IF array[0] = mark THEN Filled(array, value) ELSE Shifted(array, value)

(* The sum of Sum entries from one on, as a fold over a recursive function.*)
SumFrom(array, first) ==
    LET s[n \in 0..Sum] == IF n = 0 THEN 0 ELSE s[n - 1] + array[first + n - 1]
    IN  s[Sum]

(* The 16 bit wrap is left out: Averages are temperatures of an oven, and  *)
(* four of them stay far below it.  Windows with a fault are excluded.     *)
Change(array, lag) == SumFrom(array, 0) - SumFrom(array, lag)

(* What was made last comes first, as far back as the array goes.          *)
Newest(seq, value, length) ==
    <<value>> \o SubSeq(seq, 1, IF Len(seq) < length THEN Len(seq) ELSE length - 1)

Record(average) ==
    LET temps  == Pushed(ovenTempArray, average, 0)
        delta4 == Change(temps, Lag4)
        deltas == Pushed(ovenDelta4Array, delta4, EmptyMark)
    IN  /\ ovenTempArray' = temps
        /\ ovenDelta4' = delta4
        /\ ovenDelta16' = Change(temps, Lag16)
        /\ ovenDelta32' = Change(temps, Lag32)
        /\ ovenDelta4Array' = deltas
        /\ ovenRateOfChange' = Change(deltas, Lag4)
        /\ past' = Newest(past, average, TempLen)
        /\ reported' = Newest(reported, delta4, RateLen)

HistoryNext == \E average \in Averages : Record(average)

HistorySpec == HistoryInit /\ [][HistoryNext]_historyVars

-----------------------------------------------------------------------------
(* The arrays keep their lengths, and hold averages that were made. *)
HistoryTypeOK ==
    /\ ovenTempArray \in [0..(TempLen - 1) -> Averages \cup {0}]
    /\ ovenDelta4Array \in [0..(RateLen - 1) -> Int]
    /\ past # <<>> => \A i \in DOMAIN ovenTempArray : \E j \in DOMAIN past : ovenTempArray[i] = past[j]

(* A change that is reported was there: if ovenDelta4, 16 or 32 is positive *)
(* the oven did become warmer, and if it is negative cooler, at some point  *)
(* of the history it covers.  In particular neither the empty history, nor  *)
(* an average of 0 that is taken for the mark of one, invents a rise that   *)
(* would end a preheat early or a fall that would keep a calibration going. *)
(* Likewise the rate of change and the changes it is made from, of which    *)
(* one of -1 is taken for such a mark.                                      *)
Rose(seq, length) ==
    \E i, j \in DOMAIN seq : i < j /\ j <= length /\ seq[i] > seq[j]
Fell(seq, length) ==
    \E i, j \in DOMAIN seq : i < j /\ j <= length /\ seq[i] < seq[j]
IsReal(seq, change, lag) ==
    /\ change > 0 => Rose(seq, lag + Sum)
    /\ change < 0 => Fell(seq, lag + Sum)

ChangeIsReal ==
    /\ IsReal(past, ovenDelta4, Lag4) /\ IsReal(past, ovenDelta16, Lag16)
    /\ IsReal(past, ovenDelta32, Lag32)
    /\ IsReal(reported, ovenRateOfChange, Lag4)

(* While no value that looks like a mark is remembered the reports are      *)
(* exact: the change between the last values and those lag half seconds     *)
(* earlier, the time before the first counting as if it had already been    *)
(* like that.                                                               *)
AsRemembered(seq, length) ==
    [i \in 0..(length - 1) |-> IF i < Len(seq) THEN seq[i + 1] ELSE seq[Len(seq)]]
Unmarked(seq, mark) == seq # <<>> /\ \A i \in DOMAIN seq : seq[i] # mark

ChangeIsExact ==
    /\ Unmarked(past, 0) =>
        /\ ovenDelta4  = Change(AsRemembered(past, TempLen), Lag4)
        /\ ovenDelta16 = Change(AsRemembered(past, TempLen), Lag16)
        /\ ovenDelta32 = Change(AsRemembered(past, TempLen), Lag32)
    /\ Unmarked(reported, EmptyMark) =>
        ovenRateOfChange = Change(AsRemembered(reported, RateLen), Lag4)

(* What UpdateTemp remembers and what it reports from it, together. *)
HistoryIsTrue == HistoryTypeOK /\ ChangeIsReal /\ ChangeIsExact
=============================================================================
