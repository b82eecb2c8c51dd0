------------------------------- MODULE Startup -------------------------------
(***************************************************************************)
(* From reset to the main loop (get_mcusr, main, SetupHardware, ShowIdle), *)
(* with the display of module Lcd: the splash loop waits for tick to be 6  *)
(* and 13 exactly while the timer interrupt increments it, and itself      *)
(* increments it in between.  What it shows depends on lcdPresent, what    *)
(* SetIdleMode and Bootloader show does not.  The program goes on when the *)
(* call of the driver has returned; the interrupt does not wait for that.  *)
(* A host may ask for the bootloader as soon as the loop runs; power may   *)
(* fail, and the processor be reset, at any step.                          *)
(***************************************************************************)
EXTENDS Lcd

CONSTANT
    PassesPerTick    \* passes the loop makes at least in a tick

ASSUME PassesAssumption == PassesPerTick \in Nat

VARIABLES
    pc,              \* where the program is
    tick,            \* the counter of half seconds, eight bits
    loaded,          \* what "tick++" has loaded and not yet stored
    calibrated,      \* OvenCalibrated, in the EEPROM
    validApp,        \* ValidApp still has the value the application gives it
    WDRF,            \* the last reset was the watchdog's (a bit of MCUSR)
    timer,           \* the timer interrupt is enabled
    attached,        \* USB is attached
    edges,           \* half seconds spent in the loop (history, up to EdgesMax)
    passes           \* passes since the last one (history)

hardware == <<timer, attached, validApp, WDRF>>
history == <<edges, passes>>
startVars == <<lcdVars, pc, tick, loaded, calibrated, hardware, history>>

Byte == 0..255

EdgesMax == 20

InLoop == {"title", "six", "load", "store", "thirteen", "host"}
InBootloader == {"clear", "stop", "detach", "mark", "wait"}

StartInit ==
    /\ LcdInit
    /\ pc = "start" /\ tick = 0 /\ loaded = 0
    /\ calibrated \in BOOLEAN /\ validApp = TRUE /\ WDRF = FALSE
    /\ timer = FALSE /\ attached = FALSE /\ edges = 0 /\ passes = 0

(* A step of main that shows something if there is a display to show it,   *)
(* one that shows it in any case, and one that does not use the display.   *)
ShowIfPresent == LcdIdle /\ IF lcdPresent THEN Show ELSE UNCHANGED lcdVars
ShowAnyway == LcdIdle /\ Show
NoDisplay == LcdIdle /\ UNCHANGED lcdVars

-----------------------------------------------------------------------------

(* The timer interrupt, twice a second as far as tick is concerned.  Once  *)
(* the loop is left tick is module TempSampling's.                         *)
Interrupt ==
    /\ timer /\ pc \in InLoop \cup {"leave"}
    /\ passes >= PassesPerTick
    /\ tick' = (tick + 1) % 256
    /\ edges' = IF pc \in InLoop /\ edges < EdgesMax THEN edges + 1 ELSE edges
    /\ passes' = 0
    /\ UNCHANGED <<lcdVars, pc, loaded, calibrated, hardware>>

(* Before main: the cause of the reset is forgotten, the watchdog is off.   *)
get_mcusr ==
    /\ pc = "start"
    /\ WDRF' = FALSE
    /\ pc' = "setup"
    /\ UNCHANGED <<lcdVars, tick, loaded, calibrated, timer, attached, validApp, history>>

(* SetupHardware runs lcd_init and ends by starting the timer. *)
SetupHardware ==
    /\ pc = "setup"
    /\ NoDisplay
    /\ timer' = TRUE /\ attached' = TRUE
    /\ pc' = "title"
    /\ UNCHANGED <<tick, loaded, calibrated, validApp, WDRF, history>>

Title ==
    /\ pc = "title"
    /\ ShowIfPresent
    /\ pc' = "six"
    /\ UNCHANGED <<tick, loaded, calibrated, hardware, history>>

-----------------------------------------------------------------------------
(* The loop.  The two tests read tick separately.                          *)

TestSix ==
    /\ pc = "six"
    /\ IF tick = 6 THEN ShowIfPresent ELSE NoDisplay
    /\ pc' = IF tick # 6 THEN "thirteen" ELSE IF calibrated THEN "load" ELSE "host"
    /\ passes' = IF passes < PassesPerTick THEN passes + 1 ELSE passes
    /\ UNCHANGED <<tick, loaded, calibrated, hardware, edges>>

(* "tick++", in two halves. *)
Load ==
    /\ pc = "load"
    /\ NoDisplay
    /\ loaded' = tick
    /\ pc' = "store"
    /\ UNCHANGED <<tick, calibrated, hardware, history>>

(* Mutated form: it starts the count again. *)
StoresZero ==
    /\ pc = "store"
    /\ tick' = 0 /\ loaded' = 0
    /\ pc' = "host"
    /\ UNCHANGED <<lcdVars, calibrated, hardware, history>>

(* What the interrupt did since the first half is lost. *)
Store ==
    /\ pc = "store"
    /\ tick' = (loaded + 1) % 256 /\ loaded' = 0
    /\ pc' = "host"
    /\ UNCHANGED <<lcdVars, calibrated, hardware, history>>

(* Mutated form: it leaves the loop after 13 instead of at 13. *)
TestAfterThirteen ==
    /\ pc = "thirteen"
    /\ IF tick > 13 THEN ShowIfPresent ELSE NoDisplay
    /\ pc' = IF tick > 13 THEN "leave" ELSE "host"
    /\ UNCHANGED <<tick, loaded, calibrated, hardware, history>>

TestThirteen ==
    /\ pc = "thirteen"
    /\ IF tick = 13 THEN ShowIfPresent ELSE NoDisplay
    /\ pc' = IF tick = 13 THEN "leave" ELSE "host"
    /\ UNCHANGED <<tick, loaded, calibrated, hardware, history>>

Leave ==
    /\ pc = "leave"
    /\ NoDisplay
    /\ tick' = 0
    /\ pc' = "idle"
    /\ UNCHANGED <<loaded, calibrated, hardware, history>>

(* GetPacket, ProcessPacket and the USB tasks: **BOOT, or anything else.   *)
Host ==
    /\ pc = "host"
    /\ NoDisplay
    /\ pc' \in {"six", "clear"}
    /\ UNCHANGED <<tick, loaded, calibrated, hardware, history>>

(* The display is cleared whether it is there or not. *)
ShowIdle ==
    /\ pc = "idle"
    /\ ShowAnyway
    /\ pc' = "entering"
    /\ UNCHANGED <<tick, loaded, calibrated, hardware, history>>

EnterMainLoop ==
    /\ pc = "entering"
    /\ NoDisplay
    /\ pc' = "main"
    /\ passes' = 0 /\ edges' = 0 /\ tick' = 0
    /\ UNCHANGED <<loaded, calibrated, hardware>>

(* Menus, temperatures and texts of the runs; **BOOT. *)
InMainLoop ==
    /\ pc = "main"
    /\ \/ ShowAnyway /\ UNCHANGED pc
       \/ NoDisplay /\ pc' = "clear"
    /\ UNCHANGED <<tick, loaded, calibrated, hardware, history>>

-----------------------------------------------------------------------------
(* Bootloader: the display, the timer, USB, the mark, the watchdog.        *)

(* Mutated form: the mark is not written. *)
Unmarked ==
    /\ pc = "mark" /\ NoDisplay
    /\ pc' = "wait"
    /\ UNCHANGED hardware

Mark ==
    /\ pc = "mark" /\ NoDisplay
    /\ pc' = "wait"
    /\ validApp' = FALSE
    /\ UNCHANGED <<timer, attached, WDRF>>

Steps ==
    \/ pc = "clear" /\ ShowAnyway /\ pc' = "stop" /\ UNCHANGED hardware
    \/ /\ pc = "stop" /\ NoDisplay /\ pc' = "detach"
       /\ timer' = FALSE /\ UNCHANGED <<attached, validApp, WDRF>>
    \/ /\ pc = "detach" /\ NoDisplay /\ pc' = "mark"
       /\ attached' = FALSE /\ UNCHANGED <<timer, validApp, WDRF>>
    \/ Mark

Bootloader ==
    /\ Steps
    /\ UNCHANGED <<tick, loaded, calibrated, history>>

(* A reset of the processor, which leaves one of these values in WDRF.     *)
(* What starts then is the bootloader if the mark is there.                *)
Restart(causes) ==
    /\ pc' = IF validApp THEN "start" ELSE "bootloader"
    /\ WDRF' \in causes
    /\ tick' = 0 /\ loaded' = 0 /\ edges' = 0 /\ passes' = 0
    /\ timer' = FALSE /\ attached' = FALSE
    /\ LcdReset
    /\ UNCHANGED <<calibrated, validApp>>

(* The watchdog at the end of Bootloader; the power, which clears MCUSR, or *)
(* the reset line, which does not, at any time.                            *)
Watchdog == pc = "wait" /\ Restart({TRUE})
PowerFails == pc # "bootloader" /\ Restart({FALSE, WDRF})

(* Outside this program: the bootloader has written the application anew.  *)
Reprogrammed ==
    /\ pc = "bootloader"
    /\ pc' = "start" /\ validApp' = TRUE
    /\ UNCHANGED <<lcdVars, tick, loaded, calibrated, timer, attached, WDRF, history>>

(* The driver at work, in lcd_init or in a call of the program. *)
UseDriver ==
    /\ pc \notin {"start", "bootloader"}
    /\ Driver
    /\ UNCHANGED <<pc, tick, loaded, calibrated, hardware, history>>

DisplayReady ==
    /\ BecomeReady
    /\ UNCHANGED <<pc, tick, loaded, calibrated, hardware, history>>

Program ==
    \/ get_mcusr \/ SetupHardware \/ Title \/ TestSix \/ Load \/ Store \/ TestThirteen \/ Leave
    \/ Host \/ ShowIdle \/ EnterMainLoop \/ InMainLoop \/ Bootloader \/ Watchdog
    \/ UseDriver

StartNext == Program \/ Interrupt \/ DisplayReady \/ PowerFails \/ Reprogrammed
StartSpec == StartInit /\ [][StartNext]_startVars

(* The processor and its timer run on, and a fitted display becomes ready. *)
FairStartSpec ==
    StartSpec /\ WF_startVars(Program) /\ WF_startVars(Interrupt) /\ WF_startVars(DisplayReady)

-----------------------------------------------------------------------------
(* Every variable keeps its type. *)
StartTypeOK ==
    /\ LcdTypeOK
    /\ pc \in InLoop \cup InBootloader
              \cup {"start", "setup", "leave", "idle", "entering", "main", "bootloader"}
    /\ tick \in Byte /\ loaded \in Byte
    /\ {calibrated, validApp, WDRF, timer, attached} \subseteq BOOLEAN
    /\ edges \in 0..EdgesMax /\ passes \in 0..PassesPerTick

(* The splash takes six and a half seconds, or six if the loop's own tick++ *)
(* comes on top: neither test misses its value, so tick never has to come   *)
(* round from 255 first, and the interrupt never comes in the middle of     *)
(* tick++, whose increment would then be lost: the loop sees the 6 in the   *)
(* first pass after it, as long as a pass is shorter than half a second.    *)
SplashLasts ==
    /\ pc \in InLoop => edges <= 13
    /\ pc \in {"leave", "idle"} => edges = IF calibrated THEN 12 ELSE 13

(* What the start-up is for: with a display the program reaches its main    *)
(* loop, unless the host asks for the bootloader or the power fails first.  *)
MainLoopReached == pc = "six" /\ fitted ~> pc \in {"main", "clear", "start"}

(* **BOOT gets the host the bootloader, from the start-up and from the main *)
(* loop, unless the power fails, or somebody pulls the reset line, before   *)
(* the mark is written: the application never starts again because of the  *)
(* watchdog that Bootloader arms.                                          *)
BootObeyed == pc = "clear" /\ fitted ~> pc = "bootloader" \/ (pc = "start" /\ ~WDRF)
=============================================================================
