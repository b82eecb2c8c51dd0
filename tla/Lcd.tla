--------------------------------- MODULE Lcd ---------------------------------
(***************************************************************************)
(* The driver of the display (lcd.c) and the display itself, an HD44780    *)
(* on four data lines, which may not be fitted.  A byte is two nibbles, so *)
(* the two sides must agree on which nibble comes next, also after a reset *)
(* of the processor that leaves the display powered in the middle of one.  *)
(* No interrupt routine touches the lines; a reset comes at any time.      *)
(***************************************************************************)
EXTENDS Integers, Sequences

CONSTANTS
    Instructions,    \* bytes the program sends after lcd_init, as <<high, low>>
    Texts            \* characters it shows, likewise

Nibble == 0..15
ASSUME InstructionsAssumption ==
    Instructions \subseteq ({0} \X {1, 2}) \cup (4..15) \X Nibble
ASSUME TextsAssumption == Texts \subseteq Nibble \X Nibble

VARIABLES
    (* the driver *)
    step,         \* position in lcd_init, or 0 when it has returned
    call,         \* "next", or where lcd_command and lcd_data are
    byte, rs,     \* what they send, and the register select line
    pulledUp,     \* the data lines have their pull-ups on
    lcdPresent,   \* what lcd_init returned
    (* the display *)
    fitted,
    width,        \* it takes 8 or 4 bits at a time
    half,         \* the high nibble it has taken, or none
    busy,         \* the time it is still busy for
    lines, on     \* as the last function set and display control left it

driverVars  == <<step, call, byte, rs, pulledUp, lcdPresent>>
displayVars == <<fitted, width, half, busy, lines, on>>
lcdVars == <<driverVars, displayVars>>

None == -1

(* Microseconds, from the data sheet: at rest, an ordinary instruction,    *)
(* clear or home, and the display's own start-up.                          *)
Times == {0, 37, 1520, 10000}

(* Power-up.  The port is reset, so the pull-ups are off. *)
LcdInit ==
    /\ step = 1 /\ call = "next" /\ byte = <<0, 0>> /\ rs = FALSE
    /\ pulledUp = FALSE /\ lcdPresent = TRUE
    /\ fitted \in BOOLEAN
    /\ width = 8 /\ half = None /\ busy = 10000
    /\ lines = 1 /\ on = FALSE

-----------------------------------------------------------------------------
(* The display.                                                            *)

(* An instruction: clear and home take long; a function set chooses the    *)
(* width and the lines; others only concern what is shown.                 *)
Execute(high, low) ==
    /\ busy' = IF high = 0 /\ low \in {1, 2, 3} THEN 1520 ELSE 37
    /\ IF high \in {2, 3}
       THEN width' = (IF high = 3 THEN 8 ELSE 4) /\ lines' = (IF low >= 8 THEN 2 ELSE 1)
       ELSE UNCHANGED <<width, lines>>
    /\ on' = IF high = 0 /\ low \in 8..15 THEN low >= 12 ELSE on

(* A pulse of the enable line with a nibble on the data lines. *)
Take(nibble) ==
    IF ~fitted THEN UNCHANGED displayVars
    ELSE /\ IF width = 8
            THEN Execute(nibble, 0) /\ half' = None
            ELSE IF half = None
            THEN half' = nibble /\ UNCHANGED <<width, lines, on, busy>>
            ELSE /\ half' = None
                 /\ IF rs THEN busy' = 37 /\ UNCHANGED <<width, lines, on>>
                          ELSE Execute(half, nibble)
         /\ UNCHANGED fitted

(* It becomes ready in its own time. *)
BecomeReady ==
    /\ fitted /\ busy # 0
    /\ busy' = 0
    /\ UNCHANGED <<driverVars, fitted, width, half, lines, on>>

(* lcd_read(0): the answers the busy flag can give, two nibbles at once.   *)
(* Without a display the line is what the pull-up makes it, or floats.     *)
BusyFlag ==
    IF ~fitted THEN (IF pulledUp THEN {TRUE} ELSE BOOLEAN)
    ELSE IF width = 4 /\ half = None THEN {busy # 0}
    ELSE BOOLEAN

-----------------------------------------------------------------------------
(* lcd_init, as the sequence of what it does: pulses, delays in            *)
(* microseconds, commands, and the test for the display.                   *)

Pulse(nibble) == [do |-> "pulse", nibble |-> nibble, us |-> 0, byte |-> <<0, 0>>]
Delay(us) == [do |-> "delay", nibble |-> 0, us |-> us, byte |-> <<0, 0>>]
Instruct(high, low) == [do |-> "command", nibble |-> 0, us |-> 0, byte |-> <<high, low>>]
Test == [do |-> "test", nibble |-> 0, us |-> 0, byte |-> <<0, 0>>]

(* Mutated forms: without the second repetition of the 8 bit command; with *)
(* the first two delays exchanged; without the delay before the test.      *)
RepeatedOnce ==
    << Delay(16000), Pulse(3), Delay(4992), Pulse(3), Delay(64), Pulse(2), Delay(64),
       Instruct(2, 8), Delay(64), Test,
       Instruct(0, 8), Instruct(0, 1), Instruct(0, 6), Instruct(0, 12) >>
DelaysExchanged ==
    << Delay(4992), Pulse(3), Delay(16000), Pulse(3), Delay(64), Pulse(3), Delay(64),
       Pulse(2), Delay(64), Instruct(2, 8), Delay(64), Test,
       Instruct(0, 8), Instruct(0, 1), Instruct(0, 6), Instruct(0, 12) >>
TestedAtOnce ==
    << Delay(16000), Pulse(3), Delay(4992), Pulse(3), Delay(64), Pulse(3), Delay(64),
       Pulse(2), Delay(64), Instruct(2, 8), Test,
       Instruct(0, 8), Instruct(0, 1), Instruct(0, 6), Instruct(0, 12) >>

lcd_init ==
    << Delay(16000), Pulse(3), Delay(4992), Pulse(3), Delay(64), Pulse(3), Delay(64),
       Pulse(2), Delay(64), Instruct(2, 8), Delay(64), Test,
       Instruct(0, 8), Instruct(0, 1), Instruct(0, 6), Instruct(0, 12) >>

InitDone == step = 0
Current == lcd_init[step]
NextStep == IF step = Len(lcd_init) THEN 0 ELSE step + 1

DoPulse ==
    /\ ~InitDone /\ call = "next" /\ Current.do = "pulse"
    /\ Take(Current.nibble)
    /\ step' = NextStep
    /\ UNCHANGED <<call, byte, rs, pulledUp, lcdPresent>>

DoDelay ==
    /\ ~InitDone /\ call = "next" /\ Current.do = "delay"
    /\ busy' = IF Current.us >= busy THEN 0 ELSE busy
    /\ step' = NextStep
    /\ UNCHANGED <<call, byte, rs, pulledUp, lcdPresent, fitted, width, half, lines, on>>

(* "if busy flag is set then the lcd is not present" *)
DoTest ==
    /\ ~InitDone /\ call = "next" /\ Current.do = "test"
    /\ \E flag \in BusyFlag :
          /\ lcdPresent' = ~flag
          /\ step' = IF flag THEN 0 ELSE NextStep
    /\ UNCHANGED <<call, byte, rs, pulledUp, displayVars>>

-----------------------------------------------------------------------------
(* lcd_command and lcd_data: wait until the display is not busy, then the  *)
(* high and the low nibble.                                                *)

Send(what, data) ==
    /\ call = "next"
    /\ call' = "wait"
    /\ byte' = what
    /\ rs' = data
    /\ UNCHANGED <<step, pulledUp, lcdPresent, displayVars>>

DoCommand ==
    /\ ~InitDone /\ Current.do = "command"
    /\ Send(Current.byte, FALSE)

(* What the program sends once lcd_init is through: the present step of it *)
(* shows a text, of which any one character or instruction stands here.    *)
Show ==
    /\ InitDone
    /\ \/ \E what \in Instructions : Send(what, FALSE)
       \/ \E what \in Texts : Send(what, TRUE)

lcd_waitbusy ==
    /\ call = "wait"
    /\ \E flag \in BusyFlag : call' = IF flag THEN "wait" ELSE "high"
    /\ UNCHANGED <<step, byte, rs, pulledUp, lcdPresent, displayVars>>

WriteHigh ==
    /\ call = "high"
    /\ Take(byte[1])
    /\ call' = "low"
    /\ UNCHANGED <<step, byte, rs, pulledUp, lcdPresent>>

(* "all data pins high (inactive)", which turns the pull-ups on for reads. *)
WriteLow ==
    /\ call = "low"
    /\ Take(byte[2])
    /\ pulledUp' = TRUE
    /\ call' = "next"
    /\ step' = IF InitDone THEN 0 ELSE NextStep
    /\ UNCHANGED <<byte, rs, lcdPresent>>

(* A reset of the processor: the display keeps its state and its half byte, *)
(* or has lost its power as well.                                           *)
LcdReset ==
    /\ step' = 1 /\ call' = "next" /\ byte' = <<0, 0>> /\ rs' = FALSE
    /\ pulledUp' = FALSE /\ lcdPresent' = TRUE
    /\ UNCHANGED fitted
    /\ \/ UNCHANGED displayVars
       \/ width' = 8 /\ half' = None /\ busy' = 10000 /\ lines' = 1 /\ on' = FALSE

(* The driver at work: in lcd_init or in a call. *)
Driver ==
    \/ DoPulse \/ DoDelay \/ DoTest \/ DoCommand
    \/ lcd_waitbusy \/ WriteHigh \/ WriteLow

LcdIdle == InitDone /\ call = "next"

-----------------------------------------------------------------------------
(* Every variable keeps its type. *)
LcdTypeOK ==
    /\ step \in 0..Len(lcd_init)
    /\ call \in {"next", "wait", "high", "low"}
    /\ byte \in Nibble \X Nibble /\ rs \in BOOLEAN
    /\ pulledUp \in BOOLEAN /\ lcdPresent \in BOOLEAN /\ fitted \in BOOLEAN
    /\ width \in {4, 8} /\ half \in {None} \cup Nibble
    /\ busy \in Times /\ lines \in {1, 2} /\ on \in BOOLEAN

(* Nothing is written to a display that is still busy: in lcd_init, where   *)
(* the flag cannot be read, because the delays are long enough for whatever *)
(* the pulses made of a half byte that a reset left; later because of the   *)
(* flag.                                                                    *)
Writing ==
    \/ call \in {"high", "low"}
    \/ ~InitDone /\ call = "next" /\ Current.do = "pulse"
WritesWhenReady == fitted /\ Writing => busy = 0

(* Once lcd_init has switched it over, driver and display agree on the      *)
(* width and on which nibble comes next, in whatever state a reset had left *)
(* the display; so no text is ever shown with its nibbles swapped.          *)
Switched == InitDone \/ step > 9
InStep ==
    fitted /\ Switched =>
        /\ width = 4
        /\ half # None <=> call = "low"

(* lcd_init finds the display exactly if it is there, although what it      *)
(* reads without one depends on the pull-ups; and when it has returned the  *)
(* display shows two lines.                                                 *)
PresenceFound ==
    InitDone => /\ lcdPresent <=> fitted
                /\ fitted => lines = 2 /\ on
=============================================================================
