------------------------------- MODULE HostLink -------------------------------
(***************************************************************************)
(* The virtual serial port between the program and the host: reports go    *)
(* out a byte at a time into the bank of the IN endpoint (the stream over   *)
(* CDC_Device_SendByte), lines come in through the bank of the OUT endpoint *)
(* and fgets into inBuf (GetPacket), whole or in pieces, and some are       *)
(* answered (ProcessPacket).  One pass of the main loop follows another.    *)
(* The host, the controller and avr-libc's stdio are external; that a reset  *)
(* can take the selected endpoint away is in UsbDevice.                     *)
(*                                                                         *)
(* A byte of a report is <<length, place>>: the last one ends the line.     *)
(***************************************************************************)
EXTENDS Naturals, Sequences, SequencesExt

CONSTANTS
    Bank,        \* CDC_TXRX_EPSIZE
    BufSize,     \* sizeof inBuf
    Lines,       \* the lines the host may send, without their end
    Asks,        \* those of them that ask for the oven's settings
    Lengths,     \* the lengths a report of the program can have
    SettingsLength,
    LongLines,   \* lines that fit neither inBuf nor the bank
    Ahead,       \* so many lines may wait to be processed when the host sends more
    Faultiness   \* the choices of what a host may do: write what does not fit the
                 \* bank, send a write in pieces, take more than 100 ms to fetch a
                 \* packet, end its session while a line is read

FaultKinds == {"long", "pieces", "slow", "drops"}
ASSUME SizesAssumption == Bank \in Nat \ {0} /\ BufSize \in Nat \ {0, 1} /\ Ahead \in Nat
ASSUME LengthsAssumption == Lengths \subseteq Nat \ {0} /\ SettingsLength \in Nat \ {0}
ASSUME FaultinessAssumption == Asks \subseteq Lines /\ Faultiness \subseteq SUBSET FaultKinds

VARIABLES
    (* the program *)
    pc, resume,          \* where it is, and where a report it sends returns to
    report, place,       \* the report's length, the place of its next byte
    inBuf, count,        \* the buffer; the bytes fgets has put there
    (* the endpoints *)
    bank, busy,          \* what is in the IN bank; it is the host's to fetch
    out,                 \* what is left in the OUT bank
    open,                \* Configured, with a baud rate
    (* the host *)
    writing,             \* what it has still to send
    expected,            \* the lines sent and not processed yet (history)
    got, short,          \* the last byte it got; its last packet was a short one
    faults               \* what this host does

sending == <<resume, report, place>>
buffer  == <<inBuf, count>>
inward  == <<out, writing, expected>>
outward == <<bank, busy, got, short>>
vars == <<pc, sending, buffer, inward, outward, open, faults>>

CR == "cr"
NL == "nl"
Nul == "nul"
Nothing == <<0, 0>>
Ends == {<<NL>>, <<CR, NL>>}

Letter == STRING \ {CR, NL, Nul}
ASSUME LinesAssumption ==
    /\ Lines \cup LongLines \subseteq Seq(Letter)
    /\ \A line \in Lines : Len(line) + 2 <= Bank /\ Len(line) + 2 <= BufSize - 1

Init ==
    /\ pc = "loop" /\ resume = "get" /\ report = 1 /\ place = 1
    /\ inBuf = [i \in 1..BufSize |-> Nul] /\ count = 0
    /\ bank = <<>> /\ busy = FALSE /\ out = <<>> /\ open = FALSE
    /\ writing = <<>> /\ expected = <<>> /\ got = Nothing /\ short = TRUE
    /\ faults \in Faultiness

-----------------------------------------------------------------------------
(* Reports.                                                                *)

Fprintf(length, where) ==
    /\ pc' = "send" /\ resume' = where /\ report' = length /\ place' = 1

(* A pass begins, with or without something to report. *)
Report ==
    /\ pc = "loop"
    /\ \/ \E length \in Lengths : Fprintf(length, "get")
       \/ pc' = "get" /\ UNCHANGED sending
    /\ count' = 0
    /\ UNCHANGED <<inBuf, inward, outward, open>>

(* The stream goes on with the next byte, whether or not this one was sent. *)
NextByte ==
    /\ pc' = IF place = report THEN resume ELSE "send"
    /\ place' = place + 1
    /\ UNCHANGED <<resume, report>>

WriteByte == bank' = Append(bank, <<report, place>>)

(* Mutated form: it does not look whether there is room in the bank. *)
SendAnyway ==
    /\ pc = "send"
    /\ IF open /\ ~busy THEN WriteByte ELSE UNCHANGED bank
    /\ NextByte
    /\ UNCHANGED <<buffer, inward, busy, got, short, open>>

(* Nobody listens, or there is room in the bank, or it goes to the host     *)
(* first.                                                                   *)
CDC_Device_SendByte ==
    /\ pc = "send"
    /\ \/ /\ ~open
          /\ NextByte
          /\ UNCHANGED <<bank, busy>>
       \/ /\ open /\ ~busy /\ Len(bank) < Bank
          /\ WriteByte /\ NextByte
          /\ UNCHANGED busy
       \/ /\ open /\ (busy \/ Len(bank) = Bank)
          /\ busy' = TRUE
          /\ pc' = "send wait"
          /\ UNCHANGED <<sending, bank>>
    /\ UNCHANGED <<buffer, inward, got, short, open>>

(* Endpoint_WaitUntilReady: the byte goes into the bank, or it is lost with *)
(* the session or after 100 ms.                                             *)
SendWait ==
    /\ pc = "send wait"
    /\ \/ ~busy /\ open /\ WriteByte
       \/ ~open /\ UNCHANGED bank
       \/ busy /\ "slow" \in faults /\ UNCHANGED bank
    /\ NextByte
    /\ UNCHANGED <<buffer, inward, busy, got, short, open>>

-----------------------------------------------------------------------------
(* Packets.                                                                *)

Text(buf) ==
    LET end == CHOOSE n \in 1..BufSize : buf[n] = Nul /\ \A m \in 1..n-1 : buf[m] # Nul
    IN  SubSeq([m \in 1..BufSize |-> buf[m]], 1, end - 1)

Blank(s) == \A n \in 1..Len(s) : s[n] \in {CR, NL}

(* Mutated form: only one character goes. *)
StrippedOnce(buf) ==
    [n \in 1..BufSize |-> IF n = Len(Text(buf)) /\ Blank(<<Text(buf)[n]>>) THEN Nul ELSE buf[n]]

(* What is left of the line without the ends of line at its end. *)
Stripped(buf) ==
    [n \in 1..BufSize |-> IF n <= Len(Text(buf)) /\ Blank(SubSeq(Text(buf), n, Len(Text(buf))))
                          THEN Nul ELSE buf[n]]

(* Mutated forms: fgets is given a byte more than there is; the bank goes   *)
(* back with the end of the line, whatever follows it.                      *)
GetPacketOneMore ==
    /\ pc = "get"
    /\ IF count = 0 /\ (~open \/ out = <<>>) THEN pc' = "flush" /\ UNCHANGED <<buffer, out>>
       ELSE IF ~open \/ out = <<>> THEN pc' = "process" /\ inBuf' = Stripped(inBuf)
                                        /\ UNCHANGED <<count, out>>
       ELSE LET buf == [inBuf EXCEPT ![count + 1] = Head(out)] IN
            /\ out' = Tail(out)
            /\ count' = count + 1
            /\ IF count' = BufSize THEN pc' = "process" /\ inBuf' = buf
               ELSE IF Head(out) = NL
               THEN pc' = "process" /\ inBuf' = Stripped([buf EXCEPT ![count' + 1] = Nul])
               ELSE pc' = "get" /\ inBuf' = buf
    /\ UNCHANGED <<sending, writing, expected, outward, open>>

GetPacketDropsRest ==
    /\ pc = "get"
    /\ IF count = 0 /\ (~open \/ out = <<>>) THEN pc' = "flush" /\ UNCHANGED <<buffer, out>>
       ELSE IF ~open \/ out = <<>> THEN pc' = "process" /\ inBuf' = Stripped(inBuf)
                                        /\ UNCHANGED <<count, out>>
       ELSE LET buf == [inBuf EXCEPT ![count + 1] = Head(out)] IN
            /\ out' = IF Head(out) = NL THEN <<>> ELSE Tail(out)
            /\ count' = count + 1
            /\ IF Head(out) = NL \/ count' = BufSize - 1
               THEN pc' = "process" /\ inBuf' = Stripped([buf EXCEPT ![count' + 1] = Nul])
               ELSE pc' = "get" /\ inBuf' = buf
    /\ UNCHANGED <<sending, writing, expected, outward, open>>

(* GetPacket, a byte of fgets at a time, each into the next place from the  *)
(* buffer's first.  With nothing to read there is no packet; with nothing   *)
(* more to read fgets gives up and does not end the string.  (The bank goes *)
(* back to the controller as its last byte is read.)                        *)
GetPacket ==
    /\ pc = "get"
    /\ IF count = 0 /\ (~open \/ out = <<>>) THEN pc' = "flush" /\ UNCHANGED <<buffer, out>>
       ELSE IF ~open \/ out = <<>> THEN pc' = "process" /\ inBuf' = Stripped(inBuf)
                                        /\ UNCHANGED <<count, out>>
       ELSE LET buf == [inBuf EXCEPT ![count + 1] = Head(out)] IN
            /\ out' = Tail(out)
            /\ count' = count + 1
            /\ IF Head(out) = NL \/ count' = BufSize - 1
               THEN pc' = "process" /\ inBuf' = Stripped([buf EXCEPT ![count' + 1] = Nul])
               ELSE pc' = "get" /\ inBuf' = buf
    /\ UNCHANGED <<sending, writing, expected, outward, open>>

(* Mutated form: it reads the next line at once. *)
ProcessPacketAndGo ==
    /\ pc = "process"
    /\ IF Text(inBuf) \in Asks THEN Fprintf(SettingsLength, "flush") /\ UNCHANGED count
       ELSE pc' = "get" /\ count' = 0 /\ UNCHANGED sending
    /\ expected' = IF expected # <<>> /\ Head(expected) = Text(inBuf) THEN Tail(expected)
                   ELSE expected
    /\ UNCHANGED <<inBuf, out, writing, outward, open>>

(* A line that asks for the settings is answered; any other is not.         *)
ProcessPacket ==
    /\ pc = "process"
    /\ IF Text(inBuf) \in Asks THEN Fprintf(SettingsLength, "flush")
       ELSE pc' = "flush" /\ UNCHANGED sending
    /\ expected' = IF expected # <<>> /\ Head(expected) = Text(inBuf) THEN Tail(expected)
                   ELSE expected
    /\ UNCHANGED <<buffer, out, writing, outward, open>>

-----------------------------------------------------------------------------
(* Flushing.                                                               *)

(* Mutated form: a full bank is sent and nothing after it. *)
FlushOnce ==
    /\ pc = "flush"
    /\ pc' = "loop"
    /\ busy' = (busy \/ (open /\ bank # <<>>))
    /\ UNCHANGED <<sending, buffer, inward, bank, got, short, open>>

(* CDC_Device_USBTask hands over what is in the bank, if it is the          *)
(* program's; a full one is to be followed by an empty packet.              *)
CDC_Device_Flush ==
    /\ pc = "flush"
    /\ IF open /\ ~busy /\ bank # <<>>
       THEN busy' = TRUE /\ pc' = IF Len(bank) = Bank THEN "flush wait" ELSE "loop"
       ELSE busy' = busy /\ pc' = "loop"
    /\ UNCHANGED <<sending, buffer, inward, bank, got, short, open>>

FlushWait ==
    /\ pc = "flush wait"
    /\ \/ ~busy /\ open /\ busy' = TRUE
       \/ ~open /\ UNCHANGED busy
       \/ busy /\ "slow" \in faults /\ UNCHANGED busy
    /\ pc' = "loop"
    /\ UNCHANGED <<sending, buffer, inward, bank, got, short, open>>

Program ==
    \/ Report \/ CDC_Device_SendByte \/ SendWait
    \/ GetPacket \/ ProcessPacket \/ CDC_Device_Flush \/ FlushWait

-----------------------------------------------------------------------------
(* The host.                                                               *)

(* A session begins, or ends with a reset or the cable, which takes what is *)
(* in the banks with it.                                                    *)
Session ==
    /\ pc \in {"get", "process"} => "drops" \in faults
    /\ open' = ~open
    /\ bank' = <<>> /\ busy' = FALSE /\ out' = <<>>
    /\ writing' = <<>> /\ expected' = <<>> /\ got' = Nothing /\ short' = TRUE
    /\ UNCHANGED <<pc, sending, buffer>>

HostRead ==
    /\ busy /\ open
    /\ busy' = FALSE /\ bank' = <<>>
    /\ got' = IF bank = <<>> THEN got ELSE Last(bank)
    /\ short' = (Len(bank) < Bank)
    /\ UNCHANGED <<pc, sending, buffer, inward, open>>

(* One line or two in a write.  (Bounds of the model: two only from a host  *)
(* with no fault, or that sends them in pieces; before the last lines have  *)
(* been processed only from one with no fault.)                            *)
HostWrite ==
    /\ open /\ writing = <<>>
    /\ expected = <<>> \/ (faults = {} /\ Len(expected) <= Ahead)
    /\ \E first, second \in Lines \cup (IF "long" \in faults THEN LongLines ELSE {}),
          end, end2 \in Ends :
          \/ writing' = first \o end /\ expected' = Append(expected, first)
          \/ /\ faults \subseteq {"pieces"}
             /\ writing' = first \o end \o second \o end2
             /\ expected' = Append(Append(expected, first), second)
    /\ "long" \notin faults => Len(writing') <= Bank
    /\ UNCHANGED <<pc, sending, buffer, outward, out, open>>

(* The next packet: as much of what is to be sent as fits the bank, wherever *)
(* the lines end; or less.                                                  *)
HostPacket ==
    /\ open /\ writing # <<>> /\ out = <<>>
    /\ \E n \in 1..Len(writing) :
          /\ n <= Bank
          /\ n = Len(writing) \/ n = Bank \/ "pieces" \in faults
          /\ out' = SubSeq(writing, 1, n)
          /\ writing' = SubSeq(writing, n + 1, Len(writing))
    /\ UNCHANGED <<pc, sending, buffer, outward, expected, open>>

Next ==
    /\ Program \/ Session \/ HostRead \/ HostWrite \/ HostPacket
    /\ UNCHANGED faults
Spec == Init /\ [][Next]_vars

(* The processor runs on, and the host fetches and sends what it has to.    *)
FairSpec ==
    /\ Spec
    /\ WF_vars(Program /\ UNCHANGED faults)
    /\ WF_vars(HostRead /\ UNCHANGED faults)
    /\ WF_vars(HostPacket /\ UNCHANGED faults)

-----------------------------------------------------------------------------
(* Every variable keeps its type. *)
TypeOK ==
    /\ pc \in {"loop", "send", "send wait", "get", "process", "flush", "flush wait"}
    /\ resume \in {"get", "flush"}
    /\ place \in 1..report + 1 /\ report \in Lengths \cup {1, SettingsLength}
    /\ DOMAIN inBuf = 1..BufSize /\ count \in 0..BufSize - 1
    /\ Len(bank) <= Bank /\ Len(out) <= Bank
    /\ {busy, open, short} \subseteq BOOLEAN

(* The string in the buffer ends in the buffer: the strlen of GetPacket and *)
(* the strcmp of ProcessPacket stay in it, although an fgets that gives up  *)
(* writes no end, as its string then ends where an older one ended.         *)
BufferTerminated == inBuf[BufSize] = Nul

(* The host's writes are whole lines that fit one packet each, and it does  *)
(* not close its session while a line is read.                             *)
WholeWrites == faults \subseteq {"slow"}

(* Of a host that writes so, what is processed is the next line it has      *)
(* sent, and nothing else: the ends of line are gone, of two lines in one   *)
(* packet the second is neither lost nor taken for a part of the first, and *)
(* nothing of an older, longer line is left in the buffer.                  *)
LinesAsSent ==
    pc = "process" /\ WholeWrites => expected # <<>> /\ Text(inBuf) = Head(expected)

(* "Command to get oven parameters" (ReflowOven.c:1592): the settings are   *)
(* sent when the host has asked for them, whatever packets its lines come   *)
(* in.                                                                      *)
AsksWereSent ==
    pc = "process" /\ Text(inBuf) \in Asks => expected # <<>> /\ Text(inBuf) = Head(expected)

(* The host gets reports byte by byte as they were printed, with none left  *)
(* out and none twice, from where the session begins.                       *)
Follows(a, b) ==
    \/ a = Nothing
    \/ a[2] < a[1] /\ b = <<a[1], a[2] + 1>>
    \/ a[2] = a[1] /\ b[2] = 1
ReportsInOrder ==
    "slow" \notin faults =>
        \A n \in 1..Len(bank) : Follows(IF n = 1 THEN got ELSE bank[n - 1], bank[n])

(* When a pass is through and nothing waits to be fetched, the last packet  *)
(* was a short one: the host does not wait for the rest of a transfer.      *)
TransfersTerminated ==
    "slow" \notin faults /\ pc = "loop" /\ open /\ ~busy => bank = <<>> /\ short

(* The steps the program is from the end of the pass at most, not counting  *)
(* those in which it waits.                                                 *)
StepsOfReport == 2 * (report - place) + (IF pc = "send" THEN 2 ELSE 1)
StepsOfReply == 2 * SettingsLength + 3
StepsToLoop ==
    CASE pc = "loop"       -> 0
      [] pc = "flush wait" -> 1
      [] pc = "flush"      -> 2
      [] pc = "process"    -> StepsOfReply
      [] pc = "get"        -> StepsOfReply + BufSize - count
      [] OTHER -> StepsOfReport + (IF resume = "flush" THEN 2 ELSE StepsOfReply + BufSize)

(* A pass ends after a number of steps that depends on the length of what   *)
(* it reports and on the size of inBuf only: neither a host that sends line *)
(* after line nor one that comes and goes can keep the program reading or   *)
(* writing, away from the heater and the sensor.                            *)
PassAdvances ==
    [][pc # "loop" /\ <<pc, place, count>>' # <<pc, place, count>>
           => StepsToLoop' \in 0..StepsToLoop - 1]_vars

(* Of a host that writes so, every line is processed, unless its session    *)
(* ends: where lines wait, a next one will be, even if nothing more comes.   *)
LinesProcessed ==
    WholeWrites /\ expected # <<>> ~> pc = "process" \/ expected = <<>>
=============================================================================
