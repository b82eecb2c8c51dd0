------------------------------ MODULE UsbDevice ------------------------------
(***************************************************************************)
(* The USB device as the program has it: the control endpoint served from  *)
(* the main loop (USB_USBTask, DeviceStandardReq.c, CDCClassDevice.c), the *)
(* interrupt routine of the bus (USB_GEN_vect), and between them           *)
(* USB_DeviceState, the configuration number and the one register that     *)
(* says which endpoint the others are about.  The controller is the        *)
(* ATmega32U2's, which has no VBUS interrupt: a cable pulled out is a bus   *)
(* that has gone to sleep.  The controller and the host are external.      *)
(*                                                                         *)
(* A request stands for those handled alike: GetStatus for every one with  *)
(* one packet of data for the host and ClearStatusStage, SetLine for       *)
(* SetControlLineState and SendBreak, Unknown for what nobody handles.     *)
(***************************************************************************)
EXTENDS Integers

CONSTANTS
    Requests,   \* the requests the host makes
    Rudeness    \* the choices of what it may do while the device handles one:
                \* reset the bus, be unplugged, quickly begin the next transfer

Known == {"GetStatus", "GetDescriptor", "SetAddress", "Configure", "Deconfigure",
          "SetFeature", "GetLineEncoding", "SetLineEncoding", "SetLine"}
RudeKinds == {"reset", "unplug", "quick"}
ASSUME RequestsAssumption == Requests \subseteq Known \cup {"Unknown"}
ASSUME RudenessAssumption == Rudeness \subseteq SUBSET RudeKinds

VARIABLES
    (* the library *)
    at,                  \* "loop", or where the main loop waits or stands
    request,             \* USB_ControlRequest
    USB_DeviceState,
    USB_Device_ConfigurationNumber,
    isSet,               \* what the test of the configuration number has found
    left,                \* packets of a descriptor left to send
    baud,                \* LineEncoding.BaudRateBPS is not zero
    prev, mine,          \* PrevEndpoint; the endpoint the main loop selected last
    (* the controller *)
    selected,            \* UENUM
    type,                \* what each endpoint is configured as
    setup,               \* RXSTPI and the packet it is about, or None
    unread,              \* that packet has not been read (history)
    txReady, outReceived, stalled,   \* TXINI, RXOUTI, STALLRQ of endpoint 0
    addressed,           \* ADDEN
    suspE, wakeE,        \* the interrupts for suspend and for wake-up
    (* the bus *)
    plugged, asleep,
    host,                \* the stage of the host's transfer
    rude                 \* what this host does while the device handles a request

library    == <<at, request, isSet, left, baud, prev, mine>>
shared     == <<USB_DeviceState, USB_Device_ConfigurationNumber>>
endpoint0  == <<setup, unread, txReady, outReceived, stalled>>
controller == <<selected, type, addressed, suspE, wakeE>>
bus        == <<plugged, asleep, host>>
deviceVars == <<library, shared, endpoint0, controller, bus, rude>>

None == "none"
Endpoints == {0, 2, 3, 4}
DataIN == 3                                        \* CDC_TX_EPADDR
Order == <<3, 4, 2>>                               \* as CDC configures them
CdcType == [e \in Endpoints |->
    CASE e = 0 -> "control" [] e = 2 -> "interrupt" [] e = 3 -> "in" [] e = 4 -> "out"]
Bare == [e \in Endpoints |-> IF e = 0 THEN "control" ELSE None]

(* The library is between two requests, and CDC does nothing. *)
Between == at \in {"loop", "task"}

ToHost(r) == r \in {"GetStatus", "GetDescriptor", "GetLineEncoding"}

(* USB_Init_Device. *)
DeviceInit ==
    /\ at = "loop" /\ request = None /\ USB_DeviceState = "Unattached"
    /\ USB_Device_ConfigurationNumber = 0 /\ isSet = FALSE /\ left = 0 /\ baud = FALSE
    /\ prev = 0 /\ mine = 0 /\ selected = 0 /\ type = Bare
    /\ setup = None /\ unread = FALSE /\ txReady = TRUE /\ outReceived = FALSE /\ stalled = FALSE
    /\ addressed = FALSE /\ suspE = TRUE /\ wakeE = FALSE
    /\ plugged \in BOOLEAN /\ asleep = FALSE /\ host = "absent"
    /\ rude \in Rudeness

-----------------------------------------------------------------------------
(* The interrupt routine, with the event that causes it.                   *)

(* The host resets the bus: the controller forgets address and endpoints,  *)
(* the routine the configuration; it leaves the control endpoint selected. *)
(* Mutated form: it does not reset the configuration number.               *)
ResetKeepsNumber ==
    /\ plugged
    /\ (host = "absent" /\ Between) \/ "reset" \in rude
    /\ USB_DeviceState' = "Default"
    /\ USB_Device_ConfigurationNumber' = USB_Device_ConfigurationNumber
    /\ suspE' = FALSE /\ wakeE' = TRUE
    /\ selected' = 0 /\ type' = Bare /\ addressed' = FALSE
    /\ setup' = None /\ unread' = FALSE /\ txReady' = TRUE /\ outReceived' = FALSE
    /\ stalled' = FALSE /\ asleep' = FALSE /\ host' = "idle"
    /\ UNCHANGED <<library, plugged>>

BusReset ==
    /\ plugged
    /\ (host = "absent" /\ Between) \/ "reset" \in rude
    /\ USB_DeviceState' = "Default"
    /\ USB_Device_ConfigurationNumber' = 0
    /\ suspE' = FALSE /\ wakeE' = TRUE
    /\ selected' = 0 /\ type' = Bare /\ addressed' = FALSE
    /\ setup' = None /\ unread' = FALSE /\ txReady' = TRUE /\ outReceived' = FALSE
    /\ stalled' = FALSE /\ asleep' = FALSE /\ host' = "idle"
    /\ UNCHANGED <<library, plugged>>

(* The bus has been idle for 3 ms: the host suspends it, or is gone.       *)
Suspend ==
    /\ suspE
    /\ ~plugged \/ (host = "idle" /\ (Between \/ "reset" \in rude))
    /\ suspE' = FALSE /\ wakeE' = TRUE
    /\ USB_DeviceState' = "Unattached"
    /\ asleep' = TRUE
    /\ UNCHANGED <<library, USB_Device_ConfigurationNumber, endpoint0, selected, type,
                   addressed, plugged, host>>

(* There is traffic on the bus: after it slept, or after a reset.          *)
WakeUp ==
    /\ wakeE /\ plugged /\ host # "absent"
    /\ wakeE' = FALSE /\ suspE' = TRUE
    /\ USB_DeviceState' =
          IF USB_Device_ConfigurationNumber # 0 THEN "Configured"
          ELSE IF addressed THEN "Addressed" ELSE "Powered"
    /\ asleep' = FALSE
    /\ UNCHANGED <<library, USB_Device_ConfigurationNumber, endpoint0, selected, type,
                   addressed, plugged, host>>

-----------------------------------------------------------------------------
(* The host and its cable: a hand is slower than the processor, so by the  *)
(* time it is plugged in again the bus has gone to sleep, and a wait that   *)
(* can end has ended.                                                       *)

Cable ==
    /\ ~plugged => Between /\ (asleep \/ ~suspE)
    /\ plugged => (host = "idle" /\ Between) \/ "unplug" \in rude
    /\ plugged' = ~plugged
    /\ host' = "absent"
    /\ UNCHANGED <<library, shared, endpoint0, controller, asleep>>

(* A transfer begins: the SETUP packet takes the bank, a stall ends.  A     *)
(* quick host, or one that has reset the bus, does not wait for the handler *)
(* of the last transfer to be through, but none is so quick that the        *)
(* handler misses the status.  The interrupt for traffic has come by then.  *)
HostSetup ==
    /\ plugged /\ ~asleep /\ ~wakeE
    /\ host = "idle" /\ (Between \/ (rude \cap {"quick", "reset"} # {} /\ ~outReceived))
    /\ \E r \in Requests :
          /\ setup' = r
          /\ host' = IF ToHost(r) THEN "data in"
                     ELSE IF r = "SetLineEncoding" THEN "data out" ELSE "status in"
    /\ unread' = TRUE /\ stalled' = FALSE /\ txReady' = TRUE /\ outReceived' = FALSE
    /\ UNCHANGED <<library, shared, controller, plugged, asleep>>

(* The host fetches a packet; data may be all of it or not. *)
HostIn ==
    /\ host \in {"data in", "status in"} /\ ~stalled
    /\ setup = None /\ ~txReady
    /\ txReady' = TRUE
    /\ IF host = "status in" THEN host' = "idle"
       ELSE host' \in {"status out"} \cup (IF left > 0 THEN {"data in"} ELSE {})
    /\ UNCHANGED <<library, shared, setup, unread, outReceived, stalled, controller, plugged, asleep>>

HostOut ==
    /\ host \in {"data out", "status out"} /\ ~stalled
    /\ setup = None /\ ~outReceived
    /\ outReceived' = TRUE
    /\ host' = IF host = "data out" THEN "status in" ELSE "idle"
    /\ UNCHANGED <<library, shared, setup, unread, txReady, stalled, controller, plugged, asleep>>

HostStalled ==
    /\ host \notin {"idle", "absent"} /\ stalled
    /\ host' = "idle"
    /\ UNCHANGED <<library, shared, endpoint0, controller, plugged, asleep>>

Host == HostIn \/ HostOut \/ HostStalled

-----------------------------------------------------------------------------
(* The main loop: the CDC task, then USB_USBTask.                          *)

Goto(where) == at' = where

CdcMayUse == USB_DeviceState = "Configured" /\ baud

(* CDC_Device_USBTask, and the telemetry before it, select the endpoint... *)
CDC_Device_USBTask ==
    /\ at = "loop"
    /\ IF CdcMayUse THEN Goto("flush") /\ selected' = DataIN /\ mine' = DataIN
                    ELSE Goto("task") /\ UNCHANGED <<selected, mine>>
    /\ UNCHANGED <<request, isSet, left, baud, prev, shared, endpoint0, type,
                   addressed, suspE, wakeE, bus>>

(* ...and hand the bank over, of the endpoint that is selected by then.    *)
CDC_Task_Flush ==
    /\ at = "flush"
    /\ Goto("task")
    /\ txReady' = IF selected = 0 THEN FALSE ELSE txReady
    /\ UNCHANGED <<request, isSet, left, baud, prev, mine, shared, setup, unread,
                   outReceived, stalled, controller, bus>>

(* USB_DeviceTask: a request is read and, if there is a handler for it,    *)
(* cleared.  A handler that needs nobody to wait for goes on at once.      *)
USB_DeviceTask ==
    /\ at = "task"
    /\ IF USB_DeviceState = "Unattached" \/ setup = None
       THEN Goto("loop") /\ UNCHANGED <<request, setup, unread, txReady, left, prev, mine, selected,
                                       USB_Device_ConfigurationNumber>>
       ELSE /\ prev' = selected /\ selected' = 0 /\ mine' = 0
            /\ request' = setup /\ unread' = FALSE
            /\ setup' = IF setup \in Known \ {"SetFeature"} THEN None ELSE setup
            /\ txReady' = (txReady /\ setup # "GetStatus")
            /\ USB_Device_ConfigurationNumber' =
                  CASE setup = "Configure" -> 1 [] setup = "Deconfigure" -> 0
                    [] OTHER -> USB_Device_ConfigurationNumber
            /\ left' = IF setup = "GetDescriptor" THEN 3 ELSE 0
            /\ Goto(CASE setup = "GetDescriptor"   -> "stream"
                      [] setup = "GetLineEncoding" -> "in wait"
                      [] setup = "SetLineEncoding" -> "out wait"
                      [] setup = "SetFeature"      -> "feature"
                      [] setup = "Unknown"         -> "end"
                      [] OTHER                     -> "status")
    /\ UNCHANGED <<isSet, baud, USB_DeviceState, outReceived, stalled, type, addressed,
                   suspE, wakeE, bus>>

-----------------------------------------------------------------------------
(* The handlers, from wait to wait.                                        *)

keep == <<request, isSet, left, baud, prev>>

(* GetLineEncoding waits for the bank to be free, whatever happens.        *)
GetLineEncoding ==
    /\ at = "in wait" /\ txReady
    /\ txReady' = FALSE
    /\ Goto("status")
    /\ UNCHANGED <<keep, mine, shared, setup, unread, outReceived, stalled, controller, bus>>

SetLineEncoding ==
    /\ at = "out wait"
    /\ \/ /\ outReceived
          /\ baud' = TRUE /\ outReceived' = FALSE
          /\ Goto("status")
       \/ /\ ~outReceived /\ USB_DeviceState = "Unattached"
          /\ Goto("end")
          /\ UNCHANGED <<baud, outReceived>>
    /\ UNCHANGED <<request, isSet, left, prev, mine, shared, setup, unread, txReady, stalled,
                   controller, bus>>

(* Mutated form: only the last packet ends it. *)
StreamToTheEnd ==
    /\ at = "stream"
    /\ \/ /\ left > 0 /\ USB_DeviceState # "Unattached" /\ setup = None
          /\ txReady
          /\ txReady' = FALSE /\ left' = left - 1
          /\ UNCHANGED <<at, outReceived>>
       \/ /\ USB_DeviceState = "Unattached" \/ setup # None \/ (outReceived /\ left = 0)
          /\ outReceived' = FALSE
          /\ Goto("end")
          /\ UNCHANGED <<left, txReady>>
    /\ UNCHANGED <<request, isSet, baud, prev, mine, shared, setup, unread, stalled, controller, bus>>

(* Endpoint_Write_Control_PStream_LE: packets until there are none, the    *)
(* host begins the status stage, a request comes in or the bus goes; then  *)
(* the status stage, likewise.                                             *)
WriteStream ==
    /\ at = "stream"
    /\ \/ /\ left > 0 /\ USB_DeviceState # "Unattached" /\ setup = None /\ ~outReceived
          /\ txReady
          /\ txReady' = FALSE /\ left' = left - 1
          /\ UNCHANGED <<at, outReceived>>
       \/ /\ USB_DeviceState = "Unattached" \/ setup # None \/ outReceived
          /\ outReceived' = FALSE
          /\ Goto("end")
          /\ UNCHANGED <<left, txReady>>
    /\ UNCHANGED <<request, isSet, baud, prev, mine, shared, setup, unread, stalled, controller, bus>>

(* USB_Device_ClearSetFeature for an endpoint: it selects that endpoint,   *)
(* stalls it if it is enabled, and selects the control endpoint again.     *)
SelectForFeature ==
    /\ at = "feature"
    /\ selected' = DataIN /\ mine' = DataIN
    /\ Goto("feature stall")
    /\ UNCHANGED <<keep, shared, endpoint0, type, addressed, suspE, wakeE, bus>>

(* Mutated form: it does not clear the request. *)
FeatureUncleared ==
    /\ at = "feature stall"
    /\ stalled' = (stalled \/ selected = 0)
    /\ selected' = 0 /\ mine' = 0
    /\ Goto("status")
    /\ UNCHANGED <<keep, shared, setup, unread, txReady, outReceived, type, addressed, suspE, wakeE, bus>>

ClearSetFeature ==
    /\ at = "feature stall"
    /\ stalled' = (stalled \/ selected = 0)
    /\ selected' = 0 /\ mine' = 0
    /\ setup' = None
    /\ Goto("status")
    /\ UNCHANGED <<keep, shared, unread, txReady, outReceived, type, addressed, suspE, wakeE, bus>>

AfterStatus ==
    CASE request = "SetAddress" -> "address wait"
      [] request \in {"Configure", "Deconfigure"} -> "test"
      [] OTHER -> "end"

Endpoint_ClearStatusStage ==
    /\ at = "status"
    /\ IF ToHost(request) /\ outReceived THEN outReceived' = FALSE /\ txReady' = txReady
       ELSE IF ~ToHost(request) /\ txReady THEN txReady' = FALSE /\ outReceived' = outReceived
       ELSE USB_DeviceState = "Unattached" /\ UNCHANGED <<txReady, outReceived>>
    /\ Goto(AfterStatus)
    /\ UNCHANGED <<keep, mine, shared, setup, unread, stalled, controller, bus>>

SetAddress ==
    /\ at = "address wait" /\ txReady
    /\ addressed' = TRUE
    /\ USB_DeviceState' = "Addressed"
    /\ Goto("end")
    /\ UNCHANGED <<keep, mine, USB_Device_ConfigurationNumber, endpoint0, selected, type,
                   suspE, wakeE, bus>>

(* SetConfiguration reads the number, then writes the state, then has CDC  *)
(* forget its line and configure its endpoints.                            *)
TestConfiguration ==
    /\ at = "test"
    /\ isSet' = (USB_Device_ConfigurationNumber # 0)
    /\ Goto("store")
    /\ UNCHANGED <<request, left, baud, prev, mine, shared, endpoint0, controller, bus>>

SetConfiguration ==
    /\ at = "store"
    /\ USB_DeviceState' = IF isSet \/ addressed THEN "Configured" ELSE "Powered"
    /\ baud' = FALSE
    /\ left' = 1
    /\ Goto("select")
    /\ UNCHANGED <<request, isSet, prev, mine, USB_Device_ConfigurationNumber, endpoint0,
                   controller, bus>>

SelectEndpoint ==
    /\ at = "select"
    /\ selected' = Order[left] /\ mine' = Order[left]
    /\ Goto("configure")
    /\ UNCHANGED <<keep, shared, endpoint0, type, addressed, suspE, wakeE, bus>>

(* Mutated form: it does not go on to the next. *)
ConfigureAgain ==
    /\ at = "configure"
    /\ type' = [type EXCEPT ![selected] = CdcType[Order[left]]]
    /\ left' = IF left = 3 THEN 0 ELSE left
    /\ Goto(IF left = 3 THEN "end" ELSE "select")
    /\ UNCHANGED <<request, isSet, baud, prev, mine, shared, endpoint0, selected, addressed,
                   suspE, wakeE, bus>>

ConfigureEndpoint ==
    /\ at = "configure"
    /\ type' = [type EXCEPT ![selected] = CdcType[Order[left]]]
    /\ left' = IF left = 3 THEN 0 ELSE left + 1
    /\ Goto(IF left = 3 THEN "end" ELSE "select")
    /\ UNCHANGED <<request, isSet, baud, prev, mine, shared, endpoint0, selected, addressed,
                   suspE, wakeE, bus>>

(* USB_Device_ProcessControlRequest: what is still there gets a stall.     *)
(* Mutated form: it does not. *)
EndNoStall ==
    /\ at = "end"
    /\ selected' = prev /\ mine' = prev
    /\ Goto("loop")
    /\ UNCHANGED <<keep, shared, endpoint0, type, addressed, suspE, wakeE, bus>>

EndOfRequest ==
    /\ at = "end"
    /\ stalled' = (stalled \/ setup # None)
    /\ setup' = None
    /\ selected' = prev /\ mine' = prev
    /\ Goto("loop")
    /\ UNCHANGED <<keep, shared, unread, txReady, outReceived, type, addressed, suspE, wakeE, bus>>

DeviceProgram ==
    \/ CDC_Device_USBTask \/ CDC_Task_Flush \/ USB_DeviceTask
    \/ GetLineEncoding \/ SetLineEncoding \/ WriteStream
    \/ SelectForFeature \/ ClearSetFeature \/ Endpoint_ClearStatusStage
    \/ SetAddress \/ TestConfiguration \/ SetConfiguration
    \/ SelectEndpoint \/ ConfigureEndpoint \/ EndOfRequest

DeviceNext ==
    /\ DeviceProgram \/ BusReset \/ Suspend \/ WakeUp \/ Cable \/ HostSetup \/ Host
    /\ UNCHANGED rude
DeviceSpec == DeviceInit /\ [][DeviceNext]_deviceVars

(* The processor runs on, a host finishes the transfer it has begun, and a  *)
(* bus without a cable goes quiet.                                          *)
FairDeviceSpec ==
    /\ DeviceSpec
    /\ WF_deviceVars(DeviceProgram /\ UNCHANGED rude)
    /\ WF_deviceVars(Host /\ UNCHANGED rude)
    /\ WF_deviceVars(~plugged /\ Suspend /\ UNCHANGED rude)

-----------------------------------------------------------------------------
(* Every variable keeps its type. *)
DeviceTypeOK ==
    /\ at \in {"loop", "flush", "task", "stream", "in wait", "out wait", "feature",
              "feature stall", "status", "address wait", "test", "store", "select",
              "configure", "end"}
    /\ {request, setup} \subseteq Requests \cup {None}
    /\ USB_DeviceState \in {"Unattached", "Powered", "Default", "Addressed", "Configured"}
    /\ USB_Device_ConfigurationNumber \in {0, 1} /\ left \in 0..3
    /\ {isSet, baud, unread, txReady, outReceived, stalled, addressed, suspE, wakeE,
        plugged, asleep} \subseteq BOOLEAN
    /\ {prev, mine, selected} \subseteq Endpoints
    /\ type \in [Endpoints -> {None, "control", "interrupt", "in", "out"}]
    /\ host \in {"absent", "idle", "data in", "data out", "status in", "status out"}

(* The steps the main loop is from its next pass at most, not counting those *)
(* in which it waits.                                                       *)
StepsToEnd ==
    CASE at = "loop"         -> 0
      [] at = "end"          -> 1
      [] at = "address wait" -> 2
      [] at = "configure"    -> 2 * (4 - left)
      [] at = "select"       -> 2 * (4 - left) + 1
      [] at = "stream"       -> 2 + left
      [] at = "store"        -> 8
      [] at = "test"         -> 9
      [] at = "status"       -> 10
      [] at \in {"in wait", "out wait", "feature stall"} -> 11
      [] at = "feature"      -> 12
      [] at = "task"         -> 13
      [] OTHER               -> 14

(* A handler never does anything again that it has done: whatever the host  *)
(* and the bus do meanwhile, all that can keep the main loop is a wait.     *)
RequestAdvances ==
    [][at # "loop" /\ <<at, left>>' # <<at, left>>
           => StepsToEnd' \in 0..StepsToEnd - 1]_deviceVars

(* Only a request that nobody handles is stalled, and none unread.  (If a   *)
(* quick host begins the next transfer before the handler of the last one   *)
(* is through, its request is taken for one nobody handles.)                *)
StallsOnlyUnknown == rude = {} /\ stalled => ~unread /\ request = "Unknown"

(* Between requests a configuration that is set has its endpoints, and the  *)
(* CDC driver touches its own only if it is there: wherever a reset comes,  *)
(* in a handler or a flush too, with an endpoint selected that the reset    *)
(* deselects and a baud rate that outlives it.  The one exception is a      *)
(* reset between the two steps that select an endpoint and configure it:    *)
(* then the control endpoint is configured in its place.                   *)
ConfigurationHasEndpoints ==
    type[0] = "control" =>
        /\ at = "flush" /\ selected # 0 => type = CdcType
        /\ at \in {"loop", "task"} /\ USB_Device_ConfigurationNumber # 0 => type = CdcType

(* Resets come between requests, as when a device is enumerated. *)
ResetsBetween == "reset" \notin rude

(* Every transfer that a host begins and sees through is answered.          *)
TransfersEnd ==
    ResetsBetween /\ host \notin {"idle", "absent"} ~> host \in {"idle", "absent"}

(* The main loop comes round: a cable that is pulled out ends the wait of   *)
(* every handler, except the two that look at nothing but the bank.         *)
Forever == ~plugged /\ at \in {"in wait", "address wait"}
MainLoopRuns == ResetsBetween => []<>(at = "loop" \/ Forever)
=============================================================================
