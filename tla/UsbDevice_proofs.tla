--------------------------- MODULE UsbDevice_proofs ---------------------------
(***************************************************************************)
(* Proofs about the USB device, for every set of requests a host makes and *)
(* every choice of what it may do besides.                                 *)
(***************************************************************************)
EXTENDS UsbDevice, TLAPS

(* Requests and the type of the endpoints. *)
Types ==
    /\ at \in {"loop", "flush", "task", "stream", "in wait", "out wait", "feature",
              "feature stall", "status", "address wait", "test", "store", "select",
              "configure", "end"}
    /\ setup \in Known \cup {"Unknown", None}
    /\ type = [e \in Endpoints |-> type[e]]

(* No request is being handled. *)
Unbound == at \in {"loop", "flush", "task"}

(* With a host that does nothing rude: while a request is handled no other *)
(* comes, and it is cleared unless nobody handles it.                      *)
OneRequest ==
    rude = {} =>
        /\ ~Unbound =>
              /\ ~unread
              /\ setup # None => request = "Unknown" \/ at \in {"feature", "feature stall"}
        /\ at = "feature stall" => selected = DataIN
        /\ stalled => setup = None /\ ~unread /\ request = "Unknown"

(* SetConfiguration is under way. *)
Configuring ==
    \/ at \in {"test", "store", "select", "configure"}
    \/ at = "status" /\ request \in {"Configure", "Deconfigure"}

(* Where SetConfiguration is among the endpoints. *)
Aimed ==
    /\ at \in {"select", "configure"} => left \in 1..3
    /\ at = "configure" => selected \in {0, Order[left]}

(* Whoever says that the device is configured has the endpoints, or is      *)
(* about to get them; and those that a reset took from a SetConfiguration   *)
(* under way took what says so with them.                                  *)
Endowed ==
    /\ at = "flush" /\ selected # 0 => type = CdcType
    /\ USB_Device_ConfigurationNumber # 0 => type = CdcType \/ Configuring
    /\ USB_DeviceState = "Configured" => type = CdcType \/ Configuring
    /\ at \in {"select", "configure"} =>
          \/ \A i \in 1..left - 1 : type[Order[i]] = CdcType[Order[i]]
          \/ USB_Device_ConfigurationNumber = 0 /\ USB_DeviceState # "Configured"

HasEndpoints == Aimed /\ (type[0] = "control" => Endowed)

DeviceInv == Types /\ OneRequest /\ HasEndpoints

-----------------------------------------------------------------------------
(* The endpoints, once all of them are configured, are those of CDC. *)
LEMMA AllConfigured ==
    ASSUME NEW t, t = [e \in Endpoints |-> t[e]], t[0] = "control",
           \A i \in 1..3 : t[Order[i]] = CdcType[Order[i]]
    PROVE  t = CdcType
<1>1. Order[1] = 3 /\ Order[2] = 4 /\ Order[3] = 2
  BY DEF Order
<1>2. t[3] = CdcType[3] /\ t[4] = CdcType[4] /\ t[2] = CdcType[2]
  BY <1>1
<1>3. CdcType[0] = "control"
  BY DEF CdcType, Endpoints
<1>4. \A e \in Endpoints : t[e] = CdcType[e]
  BY <1>2, <1>3 DEF Endpoints
<1>5. CdcType = [e \in Endpoints |-> CdcType[e]]
  <2> DEFINE kind(e) ==
        CASE e = 0 -> "control" [] e = 2 -> "interrupt" [] e = 3 -> "in" [] e = 4 -> "out"
  <2>1. CdcType = [e \in Endpoints |-> kind(e)]
    BY DEF CdcType
  <2> HIDE DEF kind
  <2> QED BY <2>1
<1> QED BY <1>4, <1>5

LEMMA BareTypes == Bare = [e \in Endpoints |-> Bare[e]] /\ Bare[0] = "control"
BY DEF Bare, Endpoints

-----------------------------------------------------------------------------
(* Types. *)
LEMMA TypesStep == ASSUME Types, [DeviceNext]_deviceVars PROVE Types'
<1>1. CASE BusReset
  BY <1>1, BareTypes DEF BusReset, library, Types
<1>2. CASE Suspend \/ WakeUp \/ Cable \/ Host \/ UNCHANGED deviceVars
  <2>1. UNCHANGED <<at, setup, type>>
    BY <1>2 DEF Suspend, WakeUp, Cable, Host, HostIn, HostOut, HostStalled, deviceVars, library,
        endpoint0, controller
  <2> QED BY <2>1 DEF Types
<1>3. CASE HostSetup
  BY <1>3, RequestsAssumption DEF HostSetup, library, controller, Types
<1>4. CASE ConfigureEndpoint
  <2>1. /\ at' \in {"end", "select"} /\ setup' = setup
        /\ type' = [type EXCEPT ![selected] = CdcType[Order[left]]]
    BY <1>4 DEF ConfigureEndpoint, Goto, endpoint0
  <2>2. type' = [e \in Endpoints |-> type'[e]]
    BY <2>1 DEF Types
  <2> QED BY <2>1, <2>2 DEF Types
<1>5. CASE CDC_Device_USBTask \/ CDC_Task_Flush \/ USB_DeviceTask
  <2>1. /\ at' \in {"loop", "flush", "task", "stream", "in wait", "out wait", "feature",
                    "status", "end"}
        /\ setup' \in {setup, None} /\ type' = type
    BY <1>5 DEF CDC_Device_USBTask, CDC_Task_Flush, USB_DeviceTask, Goto, endpoint0, controller
  <2> QED BY <2>1 DEF Types
<1>6. CASE \/ GetLineEncoding \/ SetLineEncoding \/ WriteStream \/ SelectForFeature
           \/ ClearSetFeature \/ Endpoint_ClearStatusStage \/ SetAddress \/ TestConfiguration
           \/ SetConfiguration \/ SelectEndpoint \/ EndOfRequest
  <2>1. /\ at' \in {"loop", "stream", "feature stall", "status", "address wait", "test",
                    "store", "select", "configure", "end"}
        /\ setup' \in {setup, None} /\ type' = type
    BY <1>6 DEF GetLineEncoding, SetLineEncoding, WriteStream, SelectForFeature,
        ClearSetFeature, Endpoint_ClearStatusStage, AfterStatus, SetAddress, TestConfiguration,
        SetConfiguration, SelectEndpoint, EndOfRequest, Goto, endpoint0, controller
  <2> QED BY <2>1 DEF Types
<1> QED BY <1>1, <1>2, <1>3, <1>4, <1>5, <1>6 DEF DeviceNext, DeviceProgram

-----------------------------------------------------------------------------
(* One request at a time. *)

LEMMA OneRequestStep == ASSUME Types, OneRequest, [DeviceNext]_deviceVars PROVE OneRequest'
<1>0. rude' = rude
  BY DEF DeviceNext, deviceVars
<1> SUFFICES ASSUME rude = {}
             PROVE  /\ ~Unbound' =>
                          /\ ~unread'
                          /\ setup' # None =>
                                request' = "Unknown" \/ at' \in {"feature", "feature stall"}
                    /\ at' = "feature stall" => selected' = DataIN
                    /\ stalled' => setup' = None /\ ~unread' /\ request' = "Unknown"
  BY <1>0 DEF OneRequest
<1>1. /\ ~Unbound =>
           /\ ~unread
           /\ setup # None => request = "Unknown" \/ at \in {"feature", "feature stall"}
      /\ at = "feature stall" => selected = DataIN
      /\ stalled => setup = None /\ ~unread /\ request = "Unknown"
  BY DEF OneRequest
<1>2. CASE BusReset
  BY <1>2 DEF BusReset, library, Between, Unbound
<1>3. CASE HostSetup
  BY <1>3 DEF HostSetup, library, Between, Unbound
<1>4. CASE Suspend \/ WakeUp \/ Cable \/ Host \/ UNCHANGED deviceVars
  <2>1. UNCHANGED <<at, request, setup, unread, stalled, selected>>
    BY <1>4 DEF Suspend, WakeUp, Cable, Host, HostIn, HostOut, HostStalled, deviceVars, library,
        endpoint0, controller
  <2> QED BY <1>1, <2>1 DEF Unbound
<1>5. CASE CDC_Device_USBTask \/ CDC_Task_Flush
  <2>1. Unbound' /\ at' # "feature stall" /\ UNCHANGED <<request, setup, unread, stalled>>
    BY <1>5 DEF CDC_Device_USBTask, CDC_Task_Flush, Goto, endpoint0, Unbound
  <2> QED BY <1>1, <2>1
<1>6. CASE USB_DeviceTask
  <2>1. CASE USB_DeviceState = "Unattached" \/ setup = None
    <3>1. at' = "loop" /\ UNCHANGED <<request, setup, unread, stalled>>
      BY <1>6, <2>1 DEF USB_DeviceTask, Goto
    <3> QED BY <1>1, <3>1 DEF Unbound
  <2>2. CASE ~(USB_DeviceState = "Unattached" \/ setup = None)
    <3>1. /\ request' = setup /\ unread' = FALSE /\ stalled' = stalled
          /\ setup' = IF setup \in Known \ {"SetFeature"} THEN None ELSE setup
          /\ (setup = "SetFeature" => at' = "feature") /\ at' # "feature stall"
      BY <1>6, <2>2 DEF USB_DeviceTask, Goto
    <3>2. ~stalled
      BY <1>1, <2>2
    <3>3. setup' # None => setup = "Unknown" \/ setup = "SetFeature"
      BY <3>1 DEF Types
    <3> QED BY <3>1, <3>2, <3>3
  <2> QED BY <2>1, <2>2
<1>7. CASE ClearSetFeature
  <2>1. /\ at = "feature stall" /\ setup' = None /\ at' = "status"
        /\ stalled' = (stalled \/ selected = 0) /\ UNCHANGED <<request, unread>>
    BY <1>7 DEF ClearSetFeature, Goto, keep
  <2>2. selected # 0
    <3>1. selected = DataIN
      BY <1>1, <2>1
    <3> QED BY <3>1 DEF DataIN
  <2>3. ~Unbound
    BY <2>1 DEF Unbound
  <2>4. ~unread
    BY <1>1, <2>3
  <2>5. stalled' => stalled
    BY <2>1, <2>2, Zenon
  <2> QED BY <1>1, <2>1, <2>4, <2>5
<1>8. CASE EndOfRequest
  <2>1. /\ at = "end" /\ setup' = None /\ at' = "loop"
        /\ stalled' = (stalled \/ setup # None) /\ UNCHANGED <<request, unread>>
    BY <1>8 DEF EndOfRequest, Goto, keep
  <2>2. ~unread /\ (setup # None => request = "Unknown")
    BY <1>1, <2>1 DEF Unbound
  <2> QED BY <1>1, <2>1, <2>2 DEF Unbound
<1>9. CASE SelectForFeature
  <2>1. /\ at = "feature" /\ at' = "feature stall" /\ selected' = DataIN
        /\ UNCHANGED <<request, setup, unread, stalled>>
    BY <1>9 DEF SelectForFeature, Goto, keep, endpoint0
  <2> QED BY <1>1, <2>1 DEF Unbound
<1>10. CASE \/ GetLineEncoding \/ SetLineEncoding \/ WriteStream
            \/ Endpoint_ClearStatusStage \/ SetAddress \/ TestConfiguration
            \/ SetConfiguration \/ SelectEndpoint \/ ConfigureEndpoint
  <2>1. /\ at \notin {"loop", "flush", "task", "feature", "feature stall"}
        /\ at' # "feature stall"
        /\ UNCHANGED <<request, setup, unread, stalled>>
    BY <1>10 DEF GetLineEncoding, SetLineEncoding, WriteStream, Endpoint_ClearStatusStage,
        AfterStatus, SetAddress, TestConfiguration, SetConfiguration, SelectEndpoint,
        ConfigureEndpoint, Goto, keep, endpoint0
  <2> QED BY <1>1, <2>1 DEF Unbound
<1> QED BY <1>2, <1>3, <1>4, <1>5, <1>6, <1>7, <1>8, <1>9, <1>10 DEF DeviceNext, DeviceProgram

-----------------------------------------------------------------------------
(* The endpoints of a configuration. *)

LEMMA Orders ==
    /\ Order[1] = 3 /\ Order[2] = 4 /\ Order[3] = 2
    /\ \A i \in 1..3 : Order[i] \in Endpoints /\ Order[i] # 0 /\ CdcType[Order[i]] # "control"
<1>1. Order[1] = 3 /\ Order[2] = 4 /\ Order[3] = 2
  BY DEF Order
<1>2. CdcType[3] = "in" /\ CdcType[4] = "out" /\ CdcType[2] = "interrupt"
  BY DEF CdcType, Endpoints
<1>3. \A i \in 1..3 : i = 1 \/ i = 2 \/ i = 3
  OBVIOUS
<1> QED BY <1>1, <1>2, <1>3 DEF Endpoints

(* Every step of SetConfiguration leads to the next, and the last endpoint *)
(* to the end; with another endpoint selected the control endpoint is lost. *)
LEMMA EndpointConfigured ==
    ASSUME Types, HasEndpoints, ConfigureEndpoint PROVE HasEndpoints'
<1>1. /\ at = "configure" /\ left \in 1..3 /\ selected \in {0, Order[left]}
      /\ type' = [type EXCEPT ![selected] = CdcType[Order[left]]]
      /\ left' = (IF left = 3 THEN 0 ELSE left + 1)
      /\ at' = (IF left = 3 THEN "end" ELSE "select")
      /\ UNCHANGED <<USB_DeviceState, USB_Device_ConfigurationNumber>>
  BY DEF ConfigureEndpoint, Goto, HasEndpoints, Aimed, shared
<1>2. type' = [e \in Endpoints |-> IF e = selected THEN CdcType[Order[left]] ELSE type[e]]
  BY <1>1 DEF Types
<1>3. type' = [e \in Endpoints |-> type'[e]]
  BY <1>2
<1>4. Aimed'
  BY <1>1 DEF Aimed
<1>5. CASE selected = 0
  <2>1. type'[0] # "control"
    BY <1>1, <1>2, <1>5, Orders DEF Endpoints
  <2> QED BY <1>4, <2>1 DEF HasEndpoints
<1>6. CASE selected = Order[left] /\ type[0] # "control"
  <2>1. type'[0] # "control"
    BY <1>1, <1>2, <1>6, Orders DEF Endpoints
  <2> QED BY <1>4, <2>1 DEF HasEndpoints
<1>7. CASE selected = Order[left] /\ type[0] = "control"
  <2>0. type'[0] = "control" /\ Endowed
    BY <1>1, <1>2, <1>7, Orders DEF Endpoints, HasEndpoints
  <2>1. CASE USB_Device_ConfigurationNumber = 0 /\ USB_DeviceState # "Configured"
    <3>1. Endowed'
      BY <1>1, <2>1 DEF Endowed
    <3> QED BY <1>4, <3>1 DEF HasEndpoints
  <2>2. CASE \A i \in 1..left - 1 : type[Order[i]] = CdcType[Order[i]]
    <3>1. \A i \in 1..left : type'[Order[i]] = CdcType[Order[i]]
      <4> TAKE i \in 1..left
      <4>1. Order[i] \in Endpoints /\ i \in 1..3
        BY <1>1, Orders
      <4>2. CASE i = left
        BY <1>2, <1>7, <4>1, <4>2
      <4>3. CASE i # left
        <5>1. i \in 1..left - 1 /\ Order[i] # Order[left]
          BY <1>1, Orders, <4>1, <4>3
        <5> QED BY <1>2, <1>7, <2>2, <4>1, <5>1
      <4> QED BY <4>2, <4>3
    <3>2. CASE left = 3
      <4>1. type' = CdcType
        BY <1>3, <2>0, <3>1, <3>2, AllConfigured
      <4>2. Endowed'
        BY <1>1, <3>2, <4>1 DEF Endowed
      <4> QED BY <1>4, <4>2 DEF HasEndpoints
    <3>3. CASE left # 3
      <4>1. left' \in 1..3 /\ left' - 1 = left /\ at' = "select"
        BY <1>1, <3>3
      <4>2. Configuring'
        BY <4>1 DEF Configuring
      <4>3. \A i \in 1..left' - 1 : type'[Order[i]] = CdcType[Order[i]]
        BY <3>1, <4>1
      <4>4. Endowed'
        BY <4>1, <4>2, <4>3 DEF Endowed
      <4> QED BY <1>4, <4>4 DEF HasEndpoints
    <3> QED BY <3>2, <3>3
  <2> QED BY <1>1, <2>0, <2>1, <2>2 DEF Endowed
<1> QED BY <1>1, <1>5, <1>6, <1>7

LEMMA AimedStep == ASSUME Aimed, [DeviceNext]_deviceVars, ~ConfigureEndpoint PROVE Aimed'
<1>1. CASE BusReset
  BY <1>1 DEF BusReset, library, Aimed
<1>2. CASE Suspend \/ WakeUp \/ Cable \/ HostSetup \/ Host \/ UNCHANGED deviceVars
  <2>1. UNCHANGED <<at, left, selected>>
    BY <1>2 DEF Suspend, WakeUp, Cable, HostSetup, Host, HostIn, HostOut, HostStalled, deviceVars,
        library, controller
  <2> QED BY <2>1 DEF Aimed
<1>3. CASE SetConfiguration
  BY <1>3 DEF SetConfiguration, Goto, Aimed
<1>4. CASE SelectEndpoint
  BY <1>4 DEF SelectEndpoint, Goto, keep, Aimed
<1>5. CASE \/ CDC_Device_USBTask \/ CDC_Task_Flush \/ USB_DeviceTask
           \/ GetLineEncoding \/ SetLineEncoding \/ WriteStream \/ SelectForFeature
           \/ ClearSetFeature \/ Endpoint_ClearStatusStage \/ SetAddress \/ TestConfiguration
           \/ EndOfRequest
  <2>1. at' \notin {"select", "configure"}
    BY <1>5 DEF CDC_Device_USBTask, CDC_Task_Flush, USB_DeviceTask, GetLineEncoding,
        SetLineEncoding, WriteStream, SelectForFeature, ClearSetFeature, AfterStatus,
        Endpoint_ClearStatusStage, SetAddress, TestConfiguration, EndOfRequest, Goto
  <2> QED BY <2>1 DEF Aimed
<1> QED BY <1>1, <1>2, <1>3, <1>4, <1>5 DEF DeviceNext, DeviceProgram

LEMMA HasEndpointsStep ==
    ASSUME Types, HasEndpoints, [DeviceNext]_deviceVars PROVE HasEndpoints'
<1>1. CASE ConfigureEndpoint
  BY <1>1, EndpointConfigured
<1>2. CASE BusReset
  <2>1. /\ at' = at /\ USB_Device_ConfigurationNumber' = 0 /\ selected' = 0
        /\ USB_DeviceState' = "Default"
    BY <1>2 DEF BusReset, library
  <2>2. Aimed'
    BY <1>2, AimedStep DEF HasEndpoints, BusReset, ConfigureEndpoint, Goto, library
  <2> QED BY <2>1, <2>2 DEF HasEndpoints, Endowed
<1> SUFFICES ASSUME ~ConfigureEndpoint, ~BusReset, type' = type, Endowed PROVE Endowed'
  <2>1. ~ConfigureEndpoint /\ ~BusReset => type' = type
    BY DEF DeviceNext, DeviceProgram, deviceVars, Suspend, WakeUp, Cable, HostSetup, Host, HostIn,
       HostOut, HostStalled, CDC_Device_USBTask, CDC_Task_Flush, USB_DeviceTask, GetLineEncoding,
       SetLineEncoding, WriteStream, SelectForFeature, ClearSetFeature, Endpoint_ClearStatusStage,
       SetAddress, TestConfiguration, SetConfiguration, SelectEndpoint, EndOfRequest, controller
  <2> QED BY <1>1, <1>2, <2>1, AimedStep DEF HasEndpoints
<1>3. CASE WakeUp
  <2>1. /\ UNCHANGED <<at, request, left, selected, type, USB_Device_ConfigurationNumber>>
        /\ USB_DeviceState' = "Configured" => USB_Device_ConfigurationNumber # 0
    BY <1>3 DEF WakeUp, library
  <2> QED BY <2>1 DEF Endowed, Configuring
<1>4. CASE Suspend \/ Cable \/ HostSetup \/ Host \/ UNCHANGED deviceVars
  <2>1. /\ UNCHANGED <<at, request, left, selected, type, USB_Device_ConfigurationNumber>>
        /\ USB_DeviceState' \in {USB_DeviceState, "Unattached"}
    BY <1>4 DEF Suspend, Cable, HostSetup, Host, HostIn, HostOut, HostStalled, deviceVars, library,
        shared, controller
  <2> QED BY <2>1 DEF Endowed, Configuring
<1>5. CASE CDC_Device_USBTask
  <2>1. /\ at = "loop" /\ UNCHANGED <<type, USB_DeviceState, USB_Device_ConfigurationNumber>>
        /\ at' = "task" \/ (at' = "flush" /\ USB_DeviceState = "Configured")
    BY <1>5 DEF CDC_Device_USBTask, CdcMayUse, Goto, shared
  <2> QED BY <2>1 DEF Endowed, Configuring
<1>6. CASE CDC_Task_Flush
  <2>1. /\ at = "flush" /\ at' = "task"
        /\ UNCHANGED <<type, USB_DeviceState, USB_Device_ConfigurationNumber>>
    BY <1>6 DEF CDC_Task_Flush, Goto, controller, shared
  <2> QED BY <2>1 DEF Endowed, Configuring
<1>7. CASE USB_DeviceTask
  <2>1. /\ at = "task" /\ UNCHANGED <<type, USB_DeviceState>>
        /\ at' \notin {"flush", "select", "configure"}
        /\ \/ USB_Device_ConfigurationNumber' \in {0, USB_Device_ConfigurationNumber}
           \/ at' = "status" /\ request' = "Configure"
    BY <1>7 DEF USB_DeviceTask, Goto
  <2> QED BY <2>1 DEF Endowed, Configuring
<1>8. CASE Endpoint_ClearStatusStage
  <2>1. /\ at = "status" /\ UNCHANGED <<type, USB_DeviceState, USB_Device_ConfigurationNumber>>
        /\ at' \in {"address wait", "test", "end"}
        /\ request \in {"Configure", "Deconfigure"} => at' = "test"
    BY <1>8 DEF Endpoint_ClearStatusStage, AfterStatus, Goto, shared, controller
  <2> QED BY <2>1 DEF Endowed, Configuring
<1>9. CASE TestConfiguration
  <2>1. at = "test" /\ at' = "store" /\ type' = type
    BY <1>9 DEF TestConfiguration, Goto, controller
  <2> QED BY <2>1 DEF Endowed, Configuring
<1>10. CASE SetConfiguration
  <2>1. at = "store" /\ at' = "select" /\ type' = type /\ left' = 1
    BY <1>10 DEF SetConfiguration, Goto, controller
  <2> QED BY <2>1 DEF Endowed, Configuring
<1>11. CASE SelectEndpoint
  <2>1. /\ at = "select" /\ at' = "configure"
        /\ UNCHANGED <<type, left, USB_DeviceState, USB_Device_ConfigurationNumber>>
    BY <1>11 DEF SelectEndpoint, Goto, keep, shared
  <2> QED BY <2>1 DEF Endowed, Configuring
<1>12. CASE \/ GetLineEncoding \/ SetLineEncoding \/ WriteStream \/ SelectForFeature
            \/ ClearSetFeature \/ SetAddress \/ EndOfRequest
  <2>1. /\ ~Configuring \/ at' = at
        /\ at \in {"in wait", "out wait", "stream", "feature", "feature stall",
                  "address wait", "end"}
        /\ UNCHANGED <<type, USB_Device_ConfigurationNumber>>
        /\ at' \notin {"flush", "select", "configure"}
        /\ USB_DeviceState' \in {USB_DeviceState, "Addressed"}
    BY <1>12 DEF GetLineEncoding, SetLineEncoding, WriteStream, SelectForFeature,
        ClearSetFeature, SetAddress, EndOfRequest, Goto, shared, controller, Configuring
  <2> QED BY <2>1 DEF Endowed, Configuring
<1> QED BY <1>1, <1>2, <1>3, <1>4, <1>5, <1>6, <1>7, <1>8, <1>9, <1>10, <1>11, <1>12
        DEF DeviceNext, DeviceProgram

-----------------------------------------------------------------------------
(* The invariant holds of the device. *)
THEOREM DeviceCorrect == DeviceSpec => []DeviceInv
<1>1. DeviceInit => DeviceInv
  <2> SUFFICES ASSUME DeviceInit PROVE DeviceInv
    OBVIOUS
  <2>1. /\ at = "loop" /\ setup = None /\ type = Bare /\ ~stalled
        /\ USB_DeviceState = "Unattached" /\ USB_Device_ConfigurationNumber = 0
    BY DEF DeviceInit
  <2>2. Types
    BY <2>1, BareTypes DEF Types
  <2>3. OneRequest
    BY <2>1 DEF OneRequest, Unbound
  <2>4. HasEndpoints
    BY <2>1 DEF HasEndpoints, Aimed, Endowed
  <2> QED BY <2>2, <2>3, <2>4 DEF DeviceInv
<1>2. DeviceInv /\ [DeviceNext]_deviceVars => DeviceInv'
  BY TypesStep, OneRequestStep, HasEndpointsStep DEF DeviceInv
<1> QED BY <1>1, <1>2, PTL DEF DeviceSpec

(* Whatever a host without a fault asks for, only a request that nobody    *)
(* handles is stalled: no handler leaves its request uncleared, and the    *)
(* ENDPOINT_HALT feature never stalls the control endpoint.                *)
THEOREM NoHandlerStalls == DeviceSpec => []StallsOnlyUnknown
<1>1. DeviceInv => StallsOnlyUnknown
  BY DEF DeviceInv, OneRequest, StallsOnlyUnknown
<1> QED BY <1>1, DeviceCorrect, PTL

(* Between requests the endpoints of a configuration are there, and so is   *)
(* the one the CDC driver has selected, wherever the interrupt routine      *)
(* changes the state and takes the endpoints; unless it has come between    *)
(* the two steps that configure one.                                       *)
THEOREM ConfiguredHasEndpoints == DeviceSpec => []ConfigurationHasEndpoints
<1>1. DeviceInv => ConfigurationHasEndpoints
  BY DEF DeviceInv, HasEndpoints, Endowed, ConfigurationHasEndpoints, Configuring
<1> QED BY <1>1, DeviceCorrect, PTL

-----------------------------------------------------------------------------
(* Types.                                                                  *)

(* The values of DeviceTypeOK; the endpoints are configured one after the   *)
(* other, whatever the bus does.                                           *)
Values ==
    /\ request \in Requests \cup {None} /\ setup \in Requests \cup {None}
    /\ USB_DeviceState \in {"Unattached", "Powered", "Default", "Addressed", "Configured"}
    /\ USB_Device_ConfigurationNumber \in {0, 1} /\ left \in 0..3
    /\ prev \in Endpoints /\ mine \in Endpoints /\ selected \in Endpoints
    /\ type \in [Endpoints -> {None, "control", "interrupt", "in", "out"}]
    /\ host \in {"absent", "idle", "data in", "data out", "status in", "status out"}
    /\ at \in {"select", "configure"} => left \in 1..3

Flags ==
    /\ isSet \in BOOLEAN /\ baud \in BOOLEAN /\ unread \in BOOLEAN /\ txReady \in BOOLEAN
    /\ outReceived \in BOOLEAN /\ stalled \in BOOLEAN /\ addressed \in BOOLEAN
    /\ suspE \in BOOLEAN /\ wakeE \in BOOLEAN /\ plugged \in BOOLEAN /\ asleep \in BOOLEAN

LEMMA EndpointKinds ==
    /\ Bare \in [Endpoints -> {None, "control", "interrupt", "in", "out"}]
    /\ 0 \in Endpoints /\ DataIN \in Endpoints
    /\ \A i \in 1..3 : /\ Order[i] \in Endpoints
                       /\ CdcType[Order[i]] \in {"control", "interrupt", "in", "out"}
<1>1. Order[1] = 3 /\ Order[2] = 4 /\ Order[3] = 2
  BY DEF Order
<1>2. CdcType[2] = "interrupt" /\ CdcType[3] = "in" /\ CdcType[4] = "out"
  BY DEF CdcType, Endpoints
<1>3. \A i \in 1..3 : i = 1 \/ i = 2 \/ i = 3
  OBVIOUS
<1> QED BY <1>1, <1>2, <1>3 DEF Bare, Endpoints, DataIN

LEMMA ValuesStep == ASSUME Values, [DeviceNext]_deviceVars PROVE Values'
<1>0. left \in 0..3 /\ USB_Device_ConfigurationNumber \in {0, 1}
  BY DEF Values
<1>1. CASE BusReset
  BY <1>1, EndpointKinds DEF BusReset, library, Between, Values
<1>2. CASE Suspend
  BY <1>2 DEF Suspend, library, endpoint0, Values
<1>3. CASE WakeUp
  BY <1>3 DEF WakeUp, library, endpoint0, Values
<1>4. CASE Cable
  BY <1>4 DEF Cable, library, shared, endpoint0, controller, Values
<1>5. CASE HostSetup
  <2>1. /\ setup' \in Requests /\ host' \in {"data in", "data out", "status in"}
        /\ UNCHANGED <<library, shared, controller>>
    BY <1>5 DEF HostSetup
  <2> QED BY <2>1 DEF library, shared, controller, Values
<1>6. CASE Host
  <2>1. /\ host' \in {"idle", "data in", "status in", "status out"}
        /\ UNCHANGED <<library, shared, setup, controller>>
    BY <1>6 DEF Host, HostIn, HostOut, HostStalled, endpoint0
  <2> QED BY <2>1 DEF library, shared, controller, Values
<1>7. CASE CDC_Device_USBTask
  BY <1>7, EndpointKinds DEF CDC_Device_USBTask, Goto, shared, endpoint0, bus, Values
<1>8. CASE CDC_Task_Flush
  BY <1>8 DEF CDC_Task_Flush, Goto, shared, controller, bus, Values
<1>9. CASE USB_DeviceTask
  <2>1. /\ request' \in {request, setup} /\ setup' \in {setup, None}
        /\ USB_Device_ConfigurationNumber' \in {0, 1, USB_Device_ConfigurationNumber}
        /\ left' \in {0, 3, left} /\ prev' \in {prev, selected}
        /\ selected' \in {0, selected} /\ mine' \in {0, mine}
        /\ at' \notin {"select", "configure"}
        /\ UNCHANGED <<USB_DeviceState, type, bus>>
    <3>1. CASE USB_DeviceState = "Unattached" \/ setup = None
      BY <1>9, <3>1 DEF USB_DeviceTask, Goto
    <3>2. CASE ~(USB_DeviceState = "Unattached" \/ setup = None)
      <4>1. /\ request' = setup /\ setup' \in {setup, None} /\ left' \in {0, 3}
            /\ prev' = selected /\ selected' = 0 /\ mine' = 0
            /\ UNCHANGED <<USB_DeviceState, type, bus>>
        BY <1>9, <3>2 DEF USB_DeviceTask
      <4>2. USB_Device_ConfigurationNumber' \in {0, 1, USB_Device_ConfigurationNumber}
        BY <1>9, <3>2 DEF USB_DeviceTask
      <4>3. at' \in {"stream", "in wait", "out wait", "feature", "end", "status"}
        BY <1>9, <3>2 DEF USB_DeviceTask, Goto
      <4> QED BY <4>1, <4>2, <4>3
    <3> QED BY <3>1, <3>2
  <2>2. left' \in 0..3 /\ USB_Device_ConfigurationNumber' \in {0, 1}
    BY <1>0, <2>1
  <2>3. prev' \in Endpoints /\ selected' \in Endpoints /\ mine' \in Endpoints
    BY <2>1, EndpointKinds DEF Values
  <2> QED BY <2>1, <2>2, <2>3 DEF bus, Values
<1>10. CASE WriteStream
  <2>1. /\ left' = left \/ (left > 0 /\ left' = left - 1)
        /\ at' \in {at, "end"} /\ at = "stream"
        /\ UNCHANGED <<request, prev, mine, shared, setup, controller, bus>>
    BY <1>10 DEF WriteStream, Goto
  <2>2. left' \in 0..3
    BY <1>0, <2>1
  <2> QED BY <2>1, <2>2 DEF shared, controller, bus, Values
<1>11. CASE GetLineEncoding \/ SetLineEncoding \/ Endpoint_ClearStatusStage \/ TestConfiguration
  <2>1. /\ at' \notin {"select", "configure"}
        /\ UNCHANGED <<request, left, prev, mine, shared, setup, controller, bus>>
    BY <1>11 DEF GetLineEncoding, SetLineEncoding, Endpoint_ClearStatusStage, AfterStatus,
        TestConfiguration, Goto, keep, endpoint0
  <2> QED BY <2>1 DEF shared, controller, bus, Values
<1>12. CASE SelectForFeature \/ ClearSetFeature \/ EndOfRequest
  <2>1. /\ at' \notin {"select", "configure"} /\ setup' \in {setup, None}
        /\ selected' \in {0, DataIN, prev} /\ mine' \in {0, DataIN, prev}
        /\ UNCHANGED <<request, left, prev, shared, type, bus>>
    BY <1>12 DEF SelectForFeature, ClearSetFeature, EndOfRequest, Goto, keep, endpoint0
  <2> QED BY <2>1, EndpointKinds DEF shared, bus, Values
<1>13. CASE SetAddress
  BY <1>13 DEF SetAddress, Goto, keep, endpoint0, bus, Values
<1>14. CASE SetConfiguration
  <2>1. /\ USB_DeviceState' \in {"Configured", "Powered"} /\ left' = 1
        /\ UNCHANGED <<request, prev, mine, USB_Device_ConfigurationNumber, setup, controller, bus>>
    BY <1>14 DEF SetConfiguration, endpoint0
  <2>2. left' \in 1..3 /\ left' \in 0..3
    BY <2>1
  <2> QED BY <2>1, <2>2 DEF controller, bus, Values
<1>15. CASE SelectEndpoint
  BY <1>15, EndpointKinds DEF SelectEndpoint, Goto, keep, shared, endpoint0, bus, Values
<1>16. CASE ConfigureEndpoint
  <2>1. /\ left \in 1..3 /\ left' = (IF left = 3 THEN 0 ELSE left + 1)
        /\ at' = (IF left = 3 THEN "end" ELSE "select")
        /\ type' = [type EXCEPT ![selected] = CdcType[Order[left]]]
        /\ UNCHANGED <<request, prev, mine, shared, setup, selected, bus>>
    BY <1>16 DEF ConfigureEndpoint, Goto, endpoint0, Values
  <2>2. left' \in 0..3 /\ (at' \in {"select", "configure"} => left' \in 1..3)
    BY <2>1
  <2>3. type' \in [Endpoints -> {None, "control", "interrupt", "in", "out"}]
    BY <2>1, EndpointKinds DEF Values
  <2> QED BY <2>1, <2>2, <2>3 DEF shared, bus, Values
<1>17. CASE UNCHANGED deviceVars
  BY <1>17 DEF deviceVars, library, shared, endpoint0, controller, bus, Values
<1> QED BY <1>1, <1>2, <1>3, <1>4, <1>5, <1>6, <1>7, <1>8, <1>9, <1>10, <1>11, <1>12, <1>13,
           <1>14, <1>15, <1>16, <1>17 DEF DeviceNext, DeviceProgram

LEMMA FlagsStep == ASSUME Flags, [DeviceNext]_deviceVars PROVE Flags'
<1>1. CASE BusReset
  BY <1>1, Zenon DEF BusReset, library, Flags
<1>2. CASE Suspend \/ WakeUp
  <2>1. /\ UNCHANGED <<isSet, baud, unread, txReady, outReceived, stalled, addressed, plugged>>
        /\ suspE' \in BOOLEAN /\ wakeE' \in BOOLEAN /\ asleep' \in BOOLEAN
    BY <1>2 DEF Suspend, WakeUp, library, endpoint0
  <2> QED BY <2>1, Zenon DEF Flags
<1>3. CASE Cable
  BY <1>3, Zenon DEF Cable, library, endpoint0, controller, Flags
<1>4. CASE HostSetup
  BY <1>4, Zenon DEF HostSetup, library, controller, Flags
<1>5. CASE HostIn \/ HostOut \/ HostStalled
  <2>1. /\ UNCHANGED <<isSet, baud, unread, stalled, addressed, suspE, wakeE, plugged, asleep>>
        /\ txReady' = TRUE \/ txReady' = txReady
        /\ outReceived' = TRUE \/ outReceived' = outReceived
    BY <1>5 DEF HostIn, HostOut, HostStalled, library, endpoint0, controller
  <2> QED BY <2>1, Zenon DEF Flags
<1>6. CASE CDC_Device_USBTask
  BY <1>6, Zenon DEF CDC_Device_USBTask, endpoint0, bus, Flags
<1>7. CASE CDC_Task_Flush
  <2>1. /\ UNCHANGED <<isSet, baud, unread, outReceived, stalled, addressed, suspE, wakeE, plugged,
                       asleep>>
        /\ txReady' = FALSE \/ txReady' = txReady
    BY <1>7 DEF CDC_Task_Flush, controller, bus
  <2> QED BY <2>1, Zenon DEF Flags
<1>8. CASE USB_DeviceTask
  <2>1. /\ UNCHANGED <<isSet, baud, outReceived, stalled, addressed, suspE, wakeE, plugged, asleep>>
        /\ unread' = FALSE \/ unread' = unread
    BY <1>8 DEF USB_DeviceTask, bus
  <2>2. txReady' = txReady \/ txReady' = (txReady /\ setup # "GetStatus")
    BY <1>8, Zenon DEF USB_DeviceTask
  <2> QED BY <2>1, <2>2, Zenon DEF Flags
<1>9. CASE GetLineEncoding \/ SetLineEncoding \/ WriteStream \/ Endpoint_ClearStatusStage
  <2>1. /\ UNCHANGED <<isSet, unread, stalled, addressed, suspE, wakeE, plugged, asleep>>
        /\ baud' = TRUE \/ baud' = baud
        /\ txReady' = FALSE \/ txReady' = txReady
        /\ outReceived' = FALSE \/ outReceived' = outReceived
    BY <1>9 DEF GetLineEncoding, SetLineEncoding, WriteStream, Endpoint_ClearStatusStage, keep,
        controller, bus
  <2> QED BY <2>1, Zenon DEF Flags
<1>10. CASE SelectForFeature \/ SetAddress
  <2>1. /\ UNCHANGED <<isSet, baud, unread, txReady, outReceived, stalled, suspE, wakeE, plugged,
                       asleep>>
        /\ addressed' = TRUE \/ addressed' = addressed
    BY <1>10 DEF SelectForFeature, SetAddress, keep, endpoint0, bus
  <2> QED BY <2>1, Zenon DEF Flags
<1>11. CASE ClearSetFeature \/ EndOfRequest
  <2>1. UNCHANGED <<isSet, baud, unread, txReady, outReceived, addressed, suspE, wakeE, plugged,
                    asleep>>
    BY <1>11 DEF ClearSetFeature, EndOfRequest, keep, bus
  <2>2. stalled' = (stalled \/ selected = 0) \/ stalled' = (stalled \/ setup # None)
    BY <1>11, Zenon DEF ClearSetFeature, EndOfRequest
  <2> QED BY <2>1, <2>2, Zenon DEF Flags
<1>12. CASE TestConfiguration
  <2>1. UNCHANGED <<baud, unread, txReady, outReceived, stalled, addressed, suspE, wakeE, plugged,
                    asleep>>
    BY <1>12 DEF TestConfiguration, endpoint0, controller, bus
  <2>2. isSet' = (USB_Device_ConfigurationNumber # 0)
    BY <1>12 DEF TestConfiguration
  <2> QED BY <2>1, <2>2, Zenon DEF Flags
<1>13. CASE SetConfiguration \/ SelectEndpoint \/ ConfigureEndpoint
  <2>1. /\ UNCHANGED <<isSet, unread, txReady, outReceived, stalled, addressed, suspE, wakeE, plugged,
                       asleep>>
        /\ baud' = FALSE \/ baud' = baud
    BY <1>13 DEF SetConfiguration, SelectEndpoint, ConfigureEndpoint, keep, endpoint0, controller, bus
  <2> QED BY <2>1, Zenon DEF Flags
<1>14. CASE UNCHANGED deviceVars
  BY <1>14, Zenon DEF deviceVars, library, endpoint0, controller, bus, Flags
<1> QED BY <1>1, <1>2, <1>3, <1>4, <1>5, <1>6, <1>7, <1>8, <1>9, <1>10, <1>11, <1>12, <1>13, <1>14
        DEF DeviceNext, DeviceProgram, Host

(* Types: in particular no packet of a descriptor is sent after the last,   *)
(* and no endpoint is configured that CDC does not have.                    *)
THEOREM DeviceTypeCorrect == DeviceSpec => []DeviceTypeOK
<1>1. ASSUME DeviceInit PROVE Values /\ Flags
  <2>1. Values
    BY <1>1, EndpointKinds DEF DeviceInit, Values
  <2>2. Flags
    BY <1>1, Zenon DEF DeviceInit, Flags
  <2> QED BY <2>1, <2>2
<1>2. (Values /\ Flags) /\ [DeviceNext]_deviceVars => (Values /\ Flags)'
  BY ValuesStep, FlagsStep
<1>3. DeviceInv /\ Values /\ Flags => DeviceTypeOK
  <2> SUFFICES ASSUME DeviceInv, Values, Flags PROVE DeviceTypeOK
    OBVIOUS
  <2>1. {isSet, baud, unread, txReady, outReceived, stalled, addressed, suspE, wakeE,
         plugged, asleep} \subseteq BOOLEAN
    BY Zenon DEF Flags
  <2> QED BY <2>1 DEF DeviceInv, Types, Values, DeviceTypeOK
<1> QED BY <1>1, <1>2, <1>3, DeviceCorrect, PTL DEF DeviceSpec

-----------------------------------------------------------------------------
(* The length of a request.                                                *)

LEMMA RequestStep ==
    ASSUME Values, Types, [DeviceNext]_deviceVars, at # "loop", <<at, left>>' # <<at, left>>
    PROVE  StepsToEnd' \in 0..StepsToEnd - 1
<1>0. left \in 0..3 /\ (at \in {"select", "configure"} => left \in 1..3)
  BY DEF Values
<1>1. CASE \/ BusReset \/ Suspend \/ WakeUp \/ Cable \/ HostSetup \/ Host \/ UNCHANGED deviceVars
  BY <1>1 DEF BusReset, Suspend, WakeUp, Cable, HostSetup, Host, HostIn, HostOut, HostStalled,
     deviceVars, library
<1>2. CASE CDC_Device_USBTask
  BY <1>2 DEF CDC_Device_USBTask
<1>3. CASE CDC_Task_Flush
  <2>1. at = "flush" /\ at' = "task"
    BY <1>3 DEF CDC_Task_Flush, Goto
  <2> QED BY <2>1 DEF StepsToEnd
<1>4. CASE USB_DeviceTask
  <2>1. /\ at = "task"
        /\ at' \in {"loop", "stream", "in wait", "out wait", "feature", "end", "status"}
        /\ at' = "stream" => left' = 3
    <3>1. CASE USB_DeviceState = "Unattached" \/ setup = None
      BY <1>4, <3>1 DEF USB_DeviceTask, Goto
    <3>2. CASE ~(USB_DeviceState = "Unattached" \/ setup = None)
      <4>1. at' \in {"stream", "in wait", "out wait", "feature", "end", "status"}
        BY <1>4, <3>2 DEF USB_DeviceTask, Goto
      <4>2. at = "task" /\ (setup = "GetDescriptor" => left' = 3)
        BY <1>4, <3>2 DEF USB_DeviceTask
      <4>3. setup # "GetDescriptor" => at' # "stream"
        BY <1>4, <3>2 DEF USB_DeviceTask, Goto
      <4> QED BY <4>1, <4>2, <4>3
    <3> QED BY <3>1, <3>2
  <2>2. /\ StepsToEnd = 13
        /\ at' = "loop" => StepsToEnd' = 0
        /\ at' = "stream" => StepsToEnd' = 2 + left'
        /\ at' \in {"in wait", "out wait"} => StepsToEnd' = 11
        /\ at' = "feature" => StepsToEnd' = 12
        /\ at' = "end" => StepsToEnd' = 1
        /\ at' = "status" => StepsToEnd' = 10
    BY <2>1 DEF StepsToEnd
  <2>3. StepsToEnd = 13
    BY <2>2
  <2>4. CASE at' = "stream"
    <3>1. StepsToEnd' = 5
      BY <2>1, <2>2, <2>4
    <3> QED BY <2>3, <3>1
  <2>5. CASE at' # "stream"
    <3>1. StepsToEnd' \in {0, 1, 10, 11, 12}
      BY <2>1, <2>2, <2>5
    <3> QED BY <2>3, <3>1
  <2> QED BY <2>4, <2>5
<1>5. CASE GetLineEncoding \/ SetLineEncoding \/ SelectForFeature \/ ClearSetFeature
  <2>1. \/ at \in {"in wait", "out wait", "feature stall"} /\ at' \in {"status", "end"}
        \/ at = "feature" /\ at' = "feature stall"
    BY <1>5 DEF GetLineEncoding, SetLineEncoding, SelectForFeature, ClearSetFeature, Goto
  <2>2. /\ at \in {"in wait", "out wait", "feature stall"} => StepsToEnd = 11
        /\ at = "feature" => StepsToEnd = 12
        /\ at' = "feature stall" => StepsToEnd' = 11
        /\ at' = "status" => StepsToEnd' = 10
        /\ at' = "end" => StepsToEnd' = 1
    BY DEF StepsToEnd
  <2>3. \/ StepsToEnd = 11 /\ StepsToEnd' \in {1, 10}
        \/ StepsToEnd = 12 /\ StepsToEnd' = 11
    BY <2>1, <2>2
  <2> QED BY <2>3
<1>6. CASE WriteStream
  <2>1. /\ at = "stream"
        /\ \/ left > 0 /\ left' = left - 1 /\ at' = "stream"
           \/ at' = "end"
    BY <1>6 DEF WriteStream, Goto
  <2>2. /\ StepsToEnd = 2 + left
        /\ at' = "stream" => StepsToEnd' = 2 + left'
        /\ at' = "end" => StepsToEnd' = 1
    BY <2>1 DEF StepsToEnd
  <2> QED BY <1>0, <2>1, <2>2
<1>7. CASE Endpoint_ClearStatusStage \/ SetAddress \/ EndOfRequest
  <2>1. \/ at = "status" /\ at' \in {"address wait", "test", "end"}
        \/ at = "address wait" /\ at' = "end"
        \/ at = "end" /\ at' = "loop"
    BY <1>7 DEF Endpoint_ClearStatusStage, AfterStatus, SetAddress, EndOfRequest, Goto
  <2>2. /\ at = "status" => StepsToEnd = 10
        /\ at = "address wait" => StepsToEnd = 2
        /\ at = "end" => StepsToEnd = 1
        /\ at' = "address wait" => StepsToEnd' = 2
        /\ at' = "test" => StepsToEnd' = 9
        /\ at' = "end" => StepsToEnd' = 1
        /\ at' = "loop" => StepsToEnd' = 0
    BY DEF StepsToEnd
  <2>3. \/ StepsToEnd = 10 /\ StepsToEnd' \in {1, 2, 9}
        \/ StepsToEnd = 2 /\ StepsToEnd' = 1
        \/ StepsToEnd = 1 /\ StepsToEnd' = 0
    BY <2>1, <2>2
  <2> QED BY <2>3
<1>8. CASE TestConfiguration \/ SetConfiguration
  <2>1. \/ at = "test" /\ at' = "store"
        \/ at = "store" /\ at' = "select" /\ left' = 1
    BY <1>8 DEF TestConfiguration, SetConfiguration, Goto
  <2>2. /\ at = "test" => StepsToEnd = 9
        /\ at = "store" => StepsToEnd = 8
        /\ at' = "store" => StepsToEnd' = 8
        /\ at' = "select" => StepsToEnd' = 2 * (4 - left') + 1
    BY DEF StepsToEnd
  <2>3. \/ StepsToEnd = 9 /\ StepsToEnd' = 8
        \/ StepsToEnd = 8 /\ StepsToEnd' = 7
    BY <2>1, <2>2
  <2> QED BY <2>3
<1>9. CASE SelectEndpoint \/ ConfigureEndpoint
  <2>1. \/ at = "select" /\ at' = "configure" /\ left' = left
        \/ at = "configure" /\ left = 3 /\ at' = "end"
        \/ at = "configure" /\ left # 3 /\ at' = "select" /\ left' = left + 1
    BY <1>9 DEF SelectEndpoint, ConfigureEndpoint, Goto, keep
  <2>2. /\ at = "select" => StepsToEnd = 2 * (4 - left) + 1
        /\ at = "configure" => StepsToEnd = 2 * (4 - left)
        /\ at' = "select" => StepsToEnd' = 2 * (4 - left') + 1
        /\ at' = "configure" => StepsToEnd' = 2 * (4 - left')
        /\ at' = "end" => StepsToEnd' = 1
    BY DEF StepsToEnd
  <2> QED BY <1>0, <2>1, <2>2
<1> QED BY <1>1, <1>2, <1>3, <1>4, <1>5, <1>6, <1>7, <1>8, <1>9 DEF DeviceNext, DeviceProgram

(* A request takes a bounded number of steps besides the waits of its       *)
(* handler, for any host and whatever happens on the bus.                   *)
THEOREM RequestsAdvance == DeviceSpec => RequestAdvances
<1>1. DeviceInit => Values
  BY EndpointKinds DEF DeviceInit, Values
<1>2. Values /\ [DeviceNext]_deviceVars => Values'
  BY ValuesStep
<1>3. DeviceInv /\ Values /\ [DeviceNext]_deviceVars
      => [at # "loop" /\ <<at, left>>' # <<at, left>>
             => StepsToEnd' \in 0..StepsToEnd - 1]_deviceVars
  BY RequestStep DEF DeviceInv
<1> QED BY <1>1, <1>2, <1>3, DeviceCorrect, PTL DEF DeviceSpec, RequestAdvances
=============================================================================
