-------------------------------- MODULE MCUsb --------------------------------
(***************************************************************************)
(* Instances of HostLink and UsbDevice for TLC.  The device makes the link *)
(* (HostLink's open is its Configured with a baud rate) but what it does   *)
(* in between does not depend on the bytes, so that one run checks the two *)
(* side by side: either part is at work.                                   *)
(*                                                                         *)
(* A bank of four bytes: two lines fit, one report fills it, a longer one  *)
(* does not fit.  "o" asks for the settings.                               *)
(***************************************************************************)
EXTENDS HostLink, UsbDevice

MCLines == {<<"o">>, <<"b">>}
MCAsks == {<<"o">>}
\* For packets that do not end with a line: one that asks, one that begins alike.
MCAlikeLines == {<<"o", "g">>, <<"o", "p">>}
MCAlikeAsks == {<<"o", "g">>}
MCLongLines == {<<"b", "b", "b", "b", "o">>}

VARIABLE part

everything == <<part, vars, deviceVars>>

InitEither ==
    /\ part \in {"device", "link"}
    /\ Init /\ DeviceInit
    /\ IF part = "device" THEN faults = {} ELSE rude = {} /\ ~plugged

NextEither ==
    /\ UNCHANGED part
    /\ \/ part = "device" /\ DeviceNext /\ UNCHANGED vars
       \/ part = "link" /\ Next /\ UNCHANGED deviceVars

SpecEither == InitEither /\ [][NextEither]_everything

(* The fairness of FairDeviceSpec and of FairSpec, of whichever part it is. *)
EitherWorks(Device, Link) ==
    /\ UNCHANGED part
    /\ \/ part = "device" /\ Device /\ UNCHANGED <<rude, vars>>
       \/ part = "link" /\ Link /\ UNCHANGED <<faults, deviceVars>>

FairSpecEither ==
    /\ SpecEither
    /\ WF_everything(EitherWorks(DeviceProgram, Program))
    /\ WF_everything(EitherWorks(Host, HostRead))
    /\ WF_everything(EitherWorks(~plugged /\ Suspend, HostPacket))
=============================================================================
