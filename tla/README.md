# Reflow Oven USB: TLA+ models, model checking and proofs

This directory holds a formal model of the firmware of the reflow oven
controller (an ATmega32U2 that drives the heating elements of a bench oven
through a solid state relay, the SSR, and a mains relay, the EMR). References
such as `ReflowOven.c:452` are to `src/Reflow Oven USB/`; LUFA's files are named
without their directory.

## 1. The system

Everything is global state of one program: a main loop, one timer interrupt
every 10 ms, and the interrupt routine and callbacks of the USB library.

| Part | State | Operations | Made correct by |
|---|---|---|---|
| Heater PWM | `duty_cycle`, `subtickCounter`, pin PB4, `tick`, `readtick` | timer interrupt, `setDutyCycle` | the ratio asked for is the ratio delivered; 0 is off at once and for good |
| Runs: reflow, oven calibration, PID test, 60 C and 120 C measurements | `isRunning`, `ProcessHandler`, `ovenStage`, `count`, `ovenCounter`, `endCount`, `endSet`, `deltaCount`, pin PB5 | one handler each, called once per pass of the main loop | mains on only after the operator confirmed, off at the end, never switched under load; stages end |
| Temperature | `ovenTempAccum`, `readings`, `ovenTemp`, 68 past averages, changes | `spi_read` (10 per second at most), `UpdateTemp` (2 per second) | a fault is never taken for a temperature and cuts the mains; the changes reported have happened |
| Buttons and menu | `buttons`, `newButton`, `CurrentMenuTable`, `CurrentMenuItemIdx`, `MenuLevels`, `CurrentMenuLevel`, the event handler pointer | `ReadButtons`, the event handlers, the commands | the item displayed is the item that is entered; MENU leads back where one came from |
| LCD driver | the display's width, half byte and busy flag | `lcd_*` | driver and display agree on the nibble that comes next, also after a reset |
| Start-up | `tick`, `ValidApp`, `MCUSR` | `get_mcusr`, `SetupHardware`, the first loop of `main`, `Bootloader` | the main loop is reached; a boot request is obeyed |
| USB device | `USB_DeviceState`, the configuration, the selected endpoint, the control endpoint | `USB_USBTask`, the requests, `USB_GEN_vect`, `CDC_Device_USBTask` | requests are answered, handlers end, no endpoint is used that is not there |
| Host link | `inBuf`, the stream of the CDC class | `GetPacket`, `ProcessPacket`, telemetry | what is obeyed was sent; reports arrive in order |

How they interact: the menu starts a run by setting `ProcessHandler` and
`isRunning`; the main loop then calls the handler in every pass until the
handler, or the MENU button, ends the run through `SetIdleMode`. Handlers read
what `UpdateTemp` left and the interrupt's `tick`, and write `duty_cycle`,
which the interrupt reads. `UpdateTemp` itself turns the heater off when the
thermocouple is faulty, without telling the handler. It also writes the
telemetry, which can hold up a pass while the host does not fetch it, and the
pass in turn is late for the readings of the thermocouple.

What is hard here: the interrupts between any two instructions of the main program;
some twenty places (stages of the handlers, the over-temperature stops, the abort,
the fault trip) that switch the mains relay before or after a 25 ms delay in which
the SSR has to stay off; counters that three runs share and that aborted runs leave
behind; tests for equality of counters; arithmetic in 8 and 16 bits and conversions
from `float`; runs that end in eleven places; hardware that keeps its state over a
reset of the processor; waits whose end is up to somebody else. `PROJECT.json` lists
each hazard with its line.

## 2. The modules

    HeaterDrive  <--implements--  HeaterPWM  <--EXTENDS-- HeaterOnTime, MCHeaterPWM
        ^                              ^---- HeaterPWM_proofs
        | INSTANCE (setDutyCycle, PWM edges)
    OvenState <- RunProfile, CalibrateOven, OvenTests <- ReflowOven <- MCReflowOven
                                                             ^---- ReflowOven_proofs
        OvenContract  <--implements--  ReflowOven                     ^---- OvenRuns_proofs

    MenuTables <- MenuTree  <--implements--  Menu  <-----  MCFrontPanel
                                              ^---- Menu_proofs  |
                       Lcd <--EXTENDS-- Startup  <---------------'
                                           ^---- Startup_proofs

    TempSampling, TempHistory <- MCTemperature        HostLink, UsbDevice <- MCUsb
         ^---- Temperature_proofs                         ^         ^---- UsbDevice_proofs
                                                          '---- HostLink_proofs

The three MC modules on the right check two parts in one run: a variable `part`,
chosen at the start and kept, says which of the two takes steps. The parts have
no variable in common, and what the one would do to the other is already a free
choice in it, so their product would show no behaviour that the two sums do not.

**HeaterDrive** is what the control program may assume of `setDutyCycle`: three
outcomes for the SSR, and edges only while the ratio is strictly between 0 and
100.

**HeaterPWM** is the timer interrupt, as one action, and `setDutyCycle`, as
two: `WriteDuty` (the assignment) and `WritePin` (the SSR). `pc` says which half
is done. `asked` and `steady` are history variables; no action's guard reads
them. Pin writes are single `sbi`/`cbi` instructions, so they are atomic.

**OvenState** declares the variables of the control program and translates what
all handlers share: the first two stages, `EMR_ON` and the delay after it,
`setDutyCycle(0)` and the delay after it, the over-temperature stop, and the
integer conversions. `RunProfile`, `CalibrateOven` and `OvenTests` have one action
per stage of their handlers. A conversion from `float` that is out of range is a
choice between the wrapped and the saturated value.

**ReflowOven** is the main loop and `Next`. `pc` is the place in the loop:

    buttons -> handler -> update -> usb -> buttons
       |          |          |        `-> boot -> reset
     abort   power/dwell/   trip
             stop

Each of `abort`, `power`, `dwell`, `stop` and `trip` is one 25 ms delay between
a change of the heater drive and one of the mains relay; `HeaterEdge` and
`TickEdge` (the interrupt) may come at any of them. Otherwise one pass through
`ReadButtons`, the handler or `UpdateTemp` is one step: within it only the
interrupt runs, and it shares only `duty_cycle`, the SSR pin and `tick` with the
main program, each of which a handler reads or writes as its model does.
`UpdateTemp` picks any temperature of `Temps` and any rates, so nothing is
assumed of the oven's physics. `tick` is a Boolean: the program only asks
whether it is zero (256 unread half seconds are not modelled). `confirmed` is a
history variable: ENTER was pressed since the run started. What the menu does is
reduced in ReflowOven to "an ENTER press while no run is in progress may start
any of `Commands`"; **Menu** models the rest.

**OvenContract** is the promise about the two relays for every run: the mains
are closed at most once in a run, from the waiting phase; both relays are off
between runs; the mains move only while no heat is asked for. The refinement
maps the phase from `isRunning`, `emr` and `ovenStage`.

**Menu** has an action for each outcome of a button event. The array
`MenuLevels` has `LevelCap` entries instead of three, and `EnterSubMenu` is
disabled when they are used up: the write past the array that the code would do
is outside the model, and the run `menu_levels` shows it is reached.
**MenuTree** is the walk the user should see, without a stack.

**TempSampling** is how `ovenTemp` comes about. The interrupt raises `readtick`
ten times and `tick` two times a second; the main loop polls both in a pass
whose steps are the places `poll`, `polled`, `handler`, `updated` and `rest`, so
that an interrupt can come between the test of a flag and its clearing. A frame
of the thermocouple is its temperature and its three fault bits, and `spi_read`
makes the 16 bit value of them. `age` bounds how many interrupts pass between
two polls (`PassMax`): how long a pass takes is a parameter. `low`, `high`,
`suspect`, `settled` and `overrun` are history variables.

**TempHistory** is the rest of `UpdateTemp`: the array of averages, told empty
by a 0 in its newest entry, and that of changes, told empty by -1; the sums that
give the changes over 4, 16 and 32 half seconds. `past` and `reported` are
the history variables, averages and changes as they were made, that the arrays
and the reports are compared with. `HistoryIsTrue` says that the array holds
averages that were made (`HistoryTypeOK`); that no change and no rate is reported
without a rise or fall that caused it (`ChangeIsReal`), even though an average of
0 or a change of -1 is taken for an empty array; and that the reports are exact
while no such value is remembered (`ChangeIsExact`).

**Lcd** is the driver and, external, the HD44780 on its four data lines.
`lcd_init` is the sequence of its pulses, delays and commands; `lcd_command` and
`lcd_data` are a wait for the busy flag and two nibbles (`call`). The display
has its width, the half byte it has taken, the time it is busy for. `lcd_read`
is one step: the display does not move between the two halves of an answer.
Without a display the busy flag is what the pull-ups of the port make it, and
before the first write they are off.

**Startup** EXTENDS Lcd with `main` up to its endless loop: `get_mcusr`, which
forgets the cause of the reset, `SetupHardware`, the splash loop with its two tests
of `tick`, its own `tick++` in two halves (`Load`, `Store`) and the host's packets,
`SetIdleMode`, and `Bootloader` step by step with the watchdog. `PowerFails` is a
reset at any step, from the power or the reset line; the display may keep its power
(`LcdReset`). `WDRF`, the bit of `MCUSR` that the watchdog's reset leaves, tells the
two apart at `pc = "start"`: `BootObeyed` accepts that the application starts again
only when it was not the watchdog that Bootloader armed, so the mark has to be
written before that. `PassesPerTick` says how often the loop comes round at least in
half a second; with two passes or more the interrupt never comes between `Load` and
`Store`, so that no half second is lost there (`Counting` in Startup_proofs).

**UsbDevice** is what this build runs of LUFA's device stack: `USB_GEN_vect` (bus
reset, suspend, wake-up), `USB_USBTask` with the standard requests and those of
the CDC class from wait to wait, `CDC_Device_USBTask`. The interrupt routine and
the main loop share `USB_DeviceState`, the configuration and the register that
selects the endpoint. Each request stands for those that are handled alike.
A bus reset comes at any step, of the handlers and of the flush too, from hosts
with "reset" in `rude`; from the others it comes at the place where the loop looks
for it (`loop`, `task`) after plugging in.

**HostLink** is the serial line made of it: reports go byte by byte into the bank
of the IN endpoint (`CDC_Device_SendByte`), lines come through the OUT bank and
`fgets` into `inBuf`. A byte of a report is its length and its place, a byte of a
line is a character of a small alphabet. The host writes one line or two at a
time, while up to `Ahead` earlier ones wait to be processed; a packet is as much
of the write as fits the bank, wherever lines end, or, of a host with "pieces", any
part of that. A session begins or ends at any step; while a line is read it ends
for hosts with "drops".

## 3. The runs

Every run explores its state space completely. All 40 properties have a mutant
of the code that breaks them.

| Run | Shows | Bounds |
|---|---|---|
| `pwm` | `Waveform`, `PinSettled`, `KeepsSwitching`, and that the PWM implements HeaterDrive | a period of 10 instead of 100; ratios 0, 1, 5, 9, 10 and 12: both ends, both extreme modulated ratios, one the pin ignores |
| `runs_and_tests` | reflow runs, the PID test and the two measurements in any order: `IdleIsCold`, `HeatNeedsConfirm`, `FaultCutsMains`, `HeatOffStages`, `OverTempStops`, `NoSwitchUnderLoad`, the contract | one temperature in each band that the handlers tell apart and a fault, with a profile that puts the marks of the measurements into its stages; falling and rising; counters modulo 4, so they wrap; any two or none of the buttons held |
| `calibrate_oven` | the stage counters: `CountMeetsEnd`, `StageLastsLong`, `CalibrationEnds` | 3600, 600, 1200, 600, 1800, 10 become 4, 1, 2, 2, 3, 2, which keeps their order (`OcalAssumption`); deltaCount modulo 4; 60 C measurements in between, since they write `endCount` |
| `temperature` | the types, `FaultNeverCool`, `AverageInRange`, `NoHalfSecondLost`; `HistoryIsTrue` | the real periods of 100, 10 and 50 interrupts; a pass of at most 9 interrupts; frames at 0 C, 120 C, just below zero, and a double fault. In the history sums of 2 and lags of 3, 5 and 6 for sums of 4 and lags of 8, 32 and 64, averages 0, 1 and 3 |
| `front_panel` | start-up and display: `SplashLasts`, `MainLoopReached`, `BootObeyed`, `WritesWhenReady`, `InStep`, `PresenceFound`; menus: `StackLeadsBack`, `TempOrMenu`, the tree | two passes per tick; every high nibble a text can leave half-written; `edges` counted to 20 (`EdgesMax`), above the 13 that occur. Three profiles as in the EEPROM, four levels |
| `usb` | device: `StallsOnlyUnknown`, `ConfigurationHasEndpoints`, `RequestAdvances`, `TransfersEnd`, `MainLoopRuns`; link: `LinesAsSent`, `ReportsInOrder`, `TransfersTerminated`, `BufferTerminated`, `PassAdvances`, `LinesProcessed` | a kind of each request, hosts with no fault or one; banks and buffer of four bytes, reports of four (fills a bank) and five (does not fit), lines of one character and one of five, up to three lines under way; a host that does nothing wrong, or one of "long", "pieces", "slow" and "drops". 446,000 states |

Runs that refute what the source says of itself:

* `pwm_on_time`: a new ratio does not take effect in the period it is set in
  when its switching instant has passed; "Turn on the SSR at 5%" is then nearly
  a whole second at full power.
* `bootloader`: `**BOOT` during a run leaves the relays on until the watchdog
  reset more than a second later, against "Cleanup and jump into the bootloader".
* `soak_wrap`: far behind the soak ramp the ratio wraps in its byte. With the
  default profile an oven held at 151 C asks for 0 % about 90 s into the soak.
* `cutoff_heat`: `UpdateTemp` divides by four however many readings there are.
  When a pass takes 600 ms, because a host has configured the port and does not
  fetch the telemetry, one or two readings make a half or a quarter of the
  temperature, and the cut-off at 120 C is not seen. The trip and the
  over-temperature stop are affected likewise.
* `menu_levels`: every run started from a submenu leaves its level on the stack,
  because `SetIdleMode` does not reset `CurrentMenuLevel`; the array of three
  overflows.
* `split_packets`: `GetPacket` does not look at what `fgets` returns. When a line
  comes in pieces `fgets` runs out of bytes and writes no end of string, so that
  the piece is read together with what an older line left behind it: after a line
  that asks for the settings, the first piece of any other that begins alike asks
  for them again, against "Command to get oven parameters". Banks of four bytes,
  two lines of two characters.

Seen while modelling, and in the models, but with no claim of the source to refute:
without a display the program does not get past `SetIdleMode`, because
`lcd_waitbusy` reads the pull-up as busy for ever (`MainLoopReached` and
`BootObeyed` therefore ask for a display, though the splash loop does not need one).
A device that is unplugged while `GetLineEncoding` or `SetAddress` waits for its
bank waits for ever: those two loops look at nothing else (`Forever` in
`MainLoopRuns`). Reconnecting such a device is outside the model. A bus reset that
comes between the two steps in which SetConfiguration selects an endpoint and
configures it moves the selection to the control endpoint, which then gets the type
of the other and keeps it until the next reset (the premise `type[0] = "control"` of
`ConfigurationHasEndpoints`).

A disagreement that one line shows and needs no run: the measurement to 120 degrees
heats at 20 % (`ReflowOven.c:1534`), where its comment and display say 100 %
(`ReflowOven.c:1527`, 1530 and 1542).

### What is assumed of hardware and host

* The ATmega32U2 has no VBUS interrupt (LUFA's `USB_SERIES_2_AVR`): an unplugged
  device sees a bus that goes to sleep. A bus reset clears the address, the
  endpoints and their banks; a SETUP packet takes the one bank of endpoint 0;
  traffic raises the wake-up interrupt. An event and its interrupt routine are
  one step.
* A host begins a transfer when the last one is through, unless it is "quick";
  it resets the bus between transfers, unless it is one that resets at any time;
  it keeps the cable, unless it is one that unplugs at any time. `Rudeness` lists the
  combinations. `StallsOnlyUnknown` is claimed for hosts without a fault, since
  the request of a quick one is indeed taken for the rest of the last one.
  `TransfersEnd` and `MainLoopRuns` are claimed when resets come between requests
  (`ResetsBetween`): one in the middle of a handler can leave a wait unanswered.
  `ConfigurationHasEndpoints` and `RequestAdvances` are claimed wherever they come.
* avr-libc's `fgets` at the end of the data gives up without ending the string.
* A host's write is cut into packets where the bank is full, wherever its lines
  end. `LinesAsSent` and `LinesProcessed` are claimed of hosts that write whole
  lines, as many as fit one packet, and do not end the session while a line is
  read (`WholeWrites`): a premise that nothing in the firmware enforces; the
  commands have at most 7 characters, the packets 16. Of other hosts ("long" writes,
  "pieces", "drops") a part of a line is processed as if it were one
  (`split_packets`), but `BufferTerminated`, `PassAdvances`, `ReportsInOrder` and
  `TransfersTerminated` still hold. A host that takes more than 100 ms for a
  packet ("slow") loses bytes of reports, since LUFA gives up the byte;
  `ReportsInOrder` and `TransfersTerminated` exclude it, `PassAdvances`,
  `LinesAsSent` and `LinesProcessed` do not.
* The run `usb` has CHECK_DEADLOCK FALSE for the two waits that never end.

### Fairness

`KeepsSwitching`, `CalibrationEnds`: the timer is a free-running compare match, so
it keeps firing; the main loop has no exit, and every wait in it is bounded as
long as the display answers and the USB host takes the data (or is absent:
LUFA's stream then times out). `MainLoopReached`, `BootObeyed`: the same, and a
display that is there becomes ready. `TransfersEnd`, `MainLoopRuns`: the program
runs on, the host goes on with a transfer it has begun, and a bus without a
cable goes quiet. `LinesProcessed`: the program runs on, the host fetches and
sends what it has to. Nobody has to press a button, begin a transfer, plug a
cable in or out, or send a line.

## 4. The proofs

Eight modules of theorems, all checked by TLAPS to the last leaf. They hold for
every value of the constants under the named assumptions of the modules, which
TLC evaluates in the runs.

`HeaterPWM_proofs` proves, for every period, every set of ratios and every width
of `tick`: the types; `Waveform`, which is inductive together with the types
because `steady` becomes true only at position 0, where the interrupt has just
set the pin for the ratio in force; `PinSettled`; and that HeaterPWM implements
HeaterDrive, so that the control program may be reasoned about with HeaterDrive
alone.

`ReflowOven_proofs` proves of the control program, for every profile, every table
of final temperatures, every reading of the sensor and every set of commands and
buttons:

* `TypeCorrect`: the types. The lemmas about `getDutyCycle`, `SoakRatio` and
  `DwellRatio` show that what a handler computes fits the byte it is passed in.
* `ColdWhenIdle` (`IdleIsCold`) and `HeatOffWhereMeant` (`HeatOffStages`).
* `MainsNeverUnderLoad` (`NoSwitchUnderLoad`).
* `ImplementsOvenContract`: the program implements OvenContract under `Phase`.

All five rest on one inductive invariant, `Inv`, the types and `Interlock`.
`IdleIsCold` is not inductive: a run that ends opens the mains relay and trusts
that the heat was taken off one place earlier. `Interlock` therefore says where
the heat is off (`DelaysAreCold`, `EarlyStages`, `LastStages`), that a delay is
passed in the run and the stage it belongs to (`DelaysOfRun`), and that asking
for no heat keeps the SSR off against the interrupt (`ZeroIsOff`). The types need
it too: `ovenStage` is bounded only because the first heat of a run is asked for
in stage 2, and the door is opened in stage 8.

A step of a handler is first classified by one of five kinds (`HandlerStep`:
`Idles`, `ClosesMains`, `Regulates`, `TakesHeatOff`, `Ends`), stage by stage;
invariance, the action property and the refinement are then argued by kind. The
other actions have a lemma each. The 16 bit bounds are written `Word == 256 * 256`,
because the provers are slow with large literals.

`OvenRuns_proofs` builds on `Inv` and proves the rest of what the runs check of
ReflowOven but for the liveness:

* `HotRunsStop` (`OverTempStops`) and `FaultsCutMains` (`FaultCutsMains`), which are
  inductive relative to `Inv`: the delays have to belong to the runs they are
  taken for.
* `HeatIsConfirmed` (`HeatNeedsConfirm`) by `Confirmed`: from stage 2 on the run is
  confirmed, and so it is where the handler is about to see, in stage 1, an
  ENTER that was just pressed. The press that started the run is seen in stage 0.
* `StagesMeetTheirEnd` (`CountMeetsEnd`) and `StagesLastLong` (`StageLastsLong`) by
  `StageEnds`: where `UpdateTemp` is about to count, the count is strictly below
  the end; the end is the limit until `endSet`, and never before `OcalShort`.
  Here the assumptions on the six constants are needed as they are.

`Temperature_proofs` proves, of the sampling, for every set of frames and every
`PassMax`, the types and `FaultNeverCool`; and, with `PassMax < ReadEvery` as a
hypothesis of the theorems (passes shorter than a tenth of a second),
`AverageInRange` and `NoHalfSecondLost`. The invariant relates the number of
readings to the place in the half second (`Window`), says that a request is on
time (`OnTime`), and bounds the sum by `low` and `high`. Of the history it proves,
for every length of the array, of the sums and of the lags and every sequence of
averages:

* `HistoryStaysTrue` (`HistoryIsTrue`). The invariant `Recorded` says that each
  array recalls what was pushed into it (`Recalls`: since it was filled the last
  time it took some number of values, which are its newest entries and the oldest
  of which is all the others; what came before them, if anything, looks like
  the mark), and that the reports are what the arrays give. That a
  positive difference of two sums has a greater entry in the first window than
  in the second is a property of the recursive `SumFrom`, and is proved by
  induction on the number of entries: the library's well-founded minimum
  (`WFMin`) applied to the set of counterexamples takes the place of the
  induction theorems (`NatSetInduction`).
* `ChangesFit`: with averages up to `M` the changes are within `Sum * M`. For the
  sums of four of the code and temperatures up to 8191 that is 32764, so that
  `ovenDelta4`, `ovenDelta16` and `ovenDelta32` fit their `int16_t`. The rate is a
  difference of sums of such changes, and stays in 16 bits only as long as no
  two of them differ by more than 8191, which takes 512 degrees in four seconds:
  an assumption on the oven, not a theorem.

`Menu_proofs` proves, for every number of profiles and levels, the types, that
the item selected exists, `StackLeadsBack`, `TempOrMenu`, and that the stack
implements the walk in the tree (`ImplementsMenuTree`). The invariant is their
conjunction and `Displayed`. The refinement needs `StackLeadsBack` in one
place, where MENU pops a level: the tree says which item has to come.

`Startup_proofs` proves of the display, for every set of instructions and texts
the program sends: `WritesWhenReady`, `InStep` and `PresenceFound`. They rest on
`LcdInv`, which follows the display through `lcd_init`: how long it can be busy
after each step (`ReadyInTime`), and what the three pulses of "8 bit" make of a
half byte that a reset left (`Resynchronised`: after the second pulse the display
is either there or has taken the first half, after the third it is there). The
steps of `main` are first reduced to those of the display (`StartUsesLcd`). And,
with `PassesPerTick >= 2` as a hypothesis, `SplashLasts`: a value that the loop
waits for is seen in the first pass after the interrupt that made it.

The types (`StartTypeOK`) hold without that hypothesis; that the driver does not
go past the end of `lcd_init` is part of `LcdInv`.

`HostLink_proofs` proves, for every size of bank and buffer and every length of
report:

* the types, `BufferTerminated`, `ReportsInOrder` and `TransfersTerminated`.
  `Continues` says that the next byte of the report follows the last one in the
  bank or, if it is empty, the last one fetched; `ShortAtEnd` that a full bank is
  only handed over by a step that waits to send another packet.
* `LinesArriveWhole` (`LinesAsSent`), for every set of lines of letters that with
  their ends fit a bank and the buffer (`LinesAssumption`; the longest
  command has 7 characters, the bank 16 bytes), and for any number of lines under
  way, of hosts with `WholeWrites`. The bytes that `fgets` has taken, those in the OUT
  bank and those the host still has to send are one stream, and `InLines` says
  that this stream can be cut into the lines that are expected, in their order,
  each with its end, and that the packet ends where a line does: every write fits
  the bank, so a packet is a whole write (`LineSent`, `PacketSent`). An end of line
  is met at the end of the first line only (`LineEndsOnce`), so that what
  `fgets` has then is that line, and what is stripped of it is its end.
* `PassesEnd` (`PassAdvances`): a pass comes nearer to its end with every step
  that is not a wait, by the count `StepsToLoop`. The count depends on the length
  of the reports and on the size of `inBuf` alone: `GetPacket` gives up at the
  latest when the buffer is full, a pass takes one line, and each wait for a bank
  is left at most once for each byte. It rests on `LinkInv` and holds whatever
  the host does.

`UsbDevice_proofs` proves, for every set of requests and of faults of the host:

* the types; `StallsOnlyUnknown`; and `ConfigurationHasEndpoints`: a configuration
  number or a state "configured" without the endpoints exists only while
  SetConfiguration is between its request and its last endpoint (`Configuring`).
  A reset may come there and take the endpoints already configured, but it takes
  number and state with them (`Endowed`).
* `RequestsAdvance` (`RequestAdvances`): the handling of a request is at most 13
  steps that are not waits from its end (`StepsToEnd`), whatever the interrupt
  routine does in between; three packets of a descriptor and three endpoints to
  configure are the loops in it (`Values`).

`PassAdvances` and `RequestAdvances` are the safety part of "the main loop comes
round": what is left to fairness, and to TLC (`MainLoopRuns`, `TransfersEnd`,
`LinesProcessed`), is only that a wait is left.

Model-checked only: what must eventually happen (`KeepsSwitching`,
`CalibrationEnds`, `MainLoopReached`, `BootObeyed`, `TransfersEnd`, `MainLoopRuns`,
`LinesProcessed`), since the prover has no ENABLED. Every invariant and every
action property that a passing run checks is also a theorem. The types of Menu,
Startup, HostLink and UsbDevice are theorems only: the runs leave them out.

## 5. Not modelled

* The composition of Menu with ReflowOven: ReflowOven lets any command start where
  Menu could start one, so it has more behaviours than the composition.
* That MENU aborts a run only when it is the only button read, and that a press
  shorter than a pass is missed (`ReflowOven.c:1730`): in the model, but no
  property demands otherwise. That a soak goes on for as long as its temperature
  is not reached (`ReflowOven.c:646`): the oven is not modelled, so nothing could
  be said of it. That a tick can be used up between the handler and `UpdateTemp`,
  so that the soak ramp lags behind `count` (`ReflowOven.c:632`): in the model, and
  nothing in the source bounds the lag.
* Of LUFA: the PLL and regulator, remote wake-up, the arithmetic of the endpoint
  memory, SetAddress with address 0, a SetConfiguration with a number above 1
  (it is among `Unknown`). The rest of the library in the repository (host
  mode, pipes, the other device classes, the other boards and architectures) is
  excluded by `USB_DEVICE_ONLY` and the architecture, or never called; it is most
  of the lines of the repository, and a model of it would say nothing about this
  oven.
* The USB descriptors are constant tables; their endpoints and sizes are
  constants of UsbDevice and HostLink. `usart.c` is not used. The texts on the
  display, the wrap of its lines and the formats of the reports are left out,
  as is the second `CalibrateOvenHandler`, which is commented out. `pid.c` is
  reduced to what the gains in use leave of it.

Next: action properties that carry the safety part of the remaining liveness
properties, as `PassAdvances` does for the passes of the loop: that a calibration
stage which does not end comes nearer to its end, and that the start-up does.
