--------------------------- MODULE HostLink_proofs ---------------------------
(***************************************************************************)
(* Proofs about the virtual serial port, for every size of the bank and of *)
(* the buffer, and whatever lines the host sends.                          *)
(***************************************************************************)
EXTENDS HostLink, TLAPS, SequenceTheorems, WellFoundedInduction

Bytes == Nat \X Nat

Sending == {"send", "send wait"}

LEMMA Sizes == Bank \in Nat /\ Bank >= 1 /\ BufSize \in Nat /\ BufSize >= 2
BY SizesAssumption

(* The types the proofs need, and what holds without a session.            *)
Places ==
    /\ pc \in {"loop", "send", "send wait", "get", "process", "flush", "flush wait"}
    /\ resume \in {"get", "flush"}
    /\ report \in Nat /\ report >= 1 /\ place \in Nat /\ place >= 1
    /\ pc \in Sending => place <= report

Stored == bank \in Seq(Bytes) /\ Len(bank) <= Bank /\ got \in Bytes

Flags ==
    /\ busy \in BOOLEAN /\ open \in BOOLEAN /\ short \in BOOLEAN
    /\ ~open => bank = <<>> /\ got = Nothing /\ ~busy

Banks == Stored /\ Flags

LinkTypes == Places /\ Banks

-----------------------------------------------------------------------------
(* The buffer.                                                             *)

IsString(buf) == buf = [n \in 1..BufSize |-> buf[n]] /\ buf[BufSize] = Nul

(* fgets has room for another byte and for the end of the string.          *)
Room ==
    /\ IsString(inBuf)
    /\ count \in Nat
    /\ pc = "get" => count <= BufSize - 2
    /\ pc \in Sending /\ resume = "get" => count = 0

(* Stripping the ends of line leaves the last place alone. *)
LEMMA StrippedKeepsEnd ==
    ASSUME NEW buf, IsString(buf) PROVE IsString(Stripped(buf))
<1>1. Stripped(buf) = [n \in 1..BufSize |->
                          IF n <= Len(Text(buf)) /\ Blank(SubSeq(Text(buf), n, Len(Text(buf))))
                          THEN Nul ELSE buf[n]]
  BY DEF Stripped
<1>2. BufSize \in 1..BufSize
  BY Sizes
<1>3. Stripped(buf) = [n \in 1..BufSize |-> Stripped(buf)[n]]
  BY <1>1, Zenon
<1>4. Stripped(buf)[BufSize] = Nul
  BY <1>1, <1>2, Zenon DEF IsString
<1> QED BY <1>3, <1>4 DEF IsString

(* So does a character written to an earlier place, and an end anywhere.    *)
LEMMA WriteKeepsEnd ==
    ASSUME NEW buf, IsString(buf), NEW k \in 1..BufSize, NEW c, k = BufSize => c = Nul
    PROVE  IsString([buf EXCEPT ![k] = c])
<1> DEFINE new == [buf EXCEPT ![k] = c]
<1>1. buf = [n \in 1..BufSize |-> buf[n]] /\ buf[BufSize] = Nul
  BY DEF IsString
<1>2. DOMAIN buf = 1..BufSize
  BY <1>1, Zenon
<1>3. new = [n \in 1..BufSize |-> IF n = k THEN c ELSE buf[n]]
  BY <1>1, <1>2
<1>4. new = [n \in 1..BufSize |-> new[n]]
  BY <1>3, Zenon
<1>5. new[BufSize] = Nul
  <2>1. BufSize \in 1..BufSize
    BY Sizes
  <2> QED BY <1>1, <1>3, <2>1, Zenon
<1> QED BY <1>4, <1>5 DEF IsString

(* Every step keeps the end in the buffer. *)
LEMMA RoomStep == ASSUME LinkTypes, Room, [Next]_vars PROVE Room'
<1>1. CASE GetPacket
  <2>1. /\ pc = "get" /\ count \in Nat /\ count <= BufSize - 2 /\ IsString(inBuf)
    BY <1>1 DEF GetPacket, Room
  <2>2. CASE inBuf' = inBuf /\ count' = count /\ pc' \in {"flush", "process"}
    BY <2>1, <2>2 DEF Room, Sending
  <2>3. CASE inBuf' = Stripped(inBuf) /\ count' = count /\ pc' = "process"
    BY <2>1, <2>3, StrippedKeepsEnd DEF Room, Sending
  <2>4. CASE /\ count' = count + 1
             /\ \/ /\ pc' = "process"
                   /\ inBuf' = Stripped([[inBuf EXCEPT ![count + 1] = Head(out)]
                                                 EXCEPT ![count + 2] = Nul])
                \/ /\ pc' = "get" /\ count + 1 # BufSize - 1
                   /\ inBuf' = [inBuf EXCEPT ![count + 1] = Head(out)]
    <3> DEFINE buf == [inBuf EXCEPT ![count + 1] = Head(out)]
    <3>1. count + 1 \in 1..BufSize /\ count + 1 # BufSize /\ count + 2 \in 1..BufSize
      BY <2>1, Sizes
    <3>2. IsString(buf)
      BY <2>1, <3>1, WriteKeepsEnd
    <3>3. IsString([buf EXCEPT ![count + 2] = Nul])
      BY <3>1, <3>2, WriteKeepsEnd
    <3>4. IsString(inBuf')
      BY <2>4, <3>2, <3>3, StrippedKeepsEnd
    <3>5. /\ count' = count + 1
          /\ pc' = "process" \/ (pc' = "get" /\ count + 1 # BufSize - 1)
      BY <2>4, Zenon
    <3>6. count' \in Nat /\ (count + 1 # BufSize - 1 => count' <= BufSize - 2)
      BY <2>1, <3>5, Sizes
    <3>7. pc' \notin Sending
      BY <3>5 DEF Sending
    <3>8. pc' = "get" => count' <= BufSize - 2
      BY <3>5, <3>6
    <3> QED BY <3>4, <3>6, <3>7, <3>8 DEF Room
  <2> QED
    <3>1. CASE count = 0 /\ (~open \/ out = <<>>)
      BY <1>1, <2>2, <3>1 DEF GetPacket, buffer
    <3>2. CASE ~(count = 0 /\ (~open \/ out = <<>>)) /\ (~open \/ out = <<>>)
      BY <1>1, <2>3, <3>2 DEF GetPacket
    <3>3. CASE ~(~open \/ out = <<>>)
      <4>1. count' = count + 1
        BY <1>1, <3>3 DEF GetPacket
      <4>2. count' + 1 = count + 2
        BY <2>1, <4>1
      <4>3. IF Head(out) = NL \/ count + 1 = BufSize - 1
            THEN pc' = "process"
                 /\ inBuf' = Stripped([[inBuf EXCEPT ![count + 1] = Head(out)]
                                              EXCEPT ![count + 2] = Nul])
            ELSE pc' = "get" /\ inBuf' = [inBuf EXCEPT ![count + 1] = Head(out)]
        BY <1>1, <3>3, <4>1, <4>2 DEF GetPacket
      <4> QED BY <2>4, <4>1, <4>3
    <3> QED BY <3>1, <3>2, <3>3
<1>2. CASE Report
  BY <1>2, Sizes DEF Report, Fprintf, sending, Room, Sending
<1>3. CASE CDC_Device_SendByte \/ SendWait
  <2>1. /\ pc \in Sending /\ UNCHANGED <<inBuf, count, resume>>
        /\ pc' \in Sending \/ pc' = resume
    BY <1>3 DEF CDC_Device_SendByte, SendWait, NextByte, buffer, sending, Sending
  <2>2. resume = "get" => count = 0
    BY <2>1 DEF Room
  <2>3. pc' = "get" => count = 0
    BY <2>1, <2>2 DEF Sending
  <2> QED BY <2>1, <2>2, <2>3, Sizes DEF Room
<1>4. CASE ProcessPacket
  BY <1>4 DEF ProcessPacket, Fprintf, buffer, sending, Room, Sending
<1>5. CASE CDC_Device_Flush \/ FlushWait
  BY <1>5 DEF CDC_Device_Flush, FlushWait, buffer, sending, Room, Sending
<1>6. CASE Session \/ HostRead \/ HostWrite \/ HostPacket \/ UNCHANGED vars
  <2>1. UNCHANGED <<pc, resume, inBuf, count>>
    BY <1>6 DEF Session, HostRead, HostWrite, HostPacket, vars, sending, buffer
  <2> QED BY <2>1 DEF Room, Sending
<1> QED BY <1>1, <1>2, <1>3, <1>4, <1>5, <1>6 DEF Next, Program

-----------------------------------------------------------------------------
(* The stream of reports.                                                  *)

(* The byte the host has got, or will have when it fetches the bank. *)
LastByte == IF bank = <<>> THEN got ELSE bank[Len(bank)]

Before(n) == IF n = 1 THEN got ELSE bank[n - 1]
Chain == \A n \in 1..Len(bank) : Follows(Before(n), bank[n])

(* While a report is printed its next byte continues the stream; after it  *)
(* the stream ends with the end of a report.                               *)
Continues ==
    "slow" \notin faults =>
        /\ Chain
        /\ pc \in Sending => Follows(LastByte, <<report, place>>)
        /\ pc \notin Sending => LastByte[2] = LastByte[1]

(* Types of a step.                                                        *)
LEMMA FprintfPlaces ==
    ASSUME NEW length \in Nat \ {0}, NEW where \in {"get", "flush"}, Fprintf(length, where)
    PROVE  Places'
<1>1. length \in Nat /\ length >= 1
  OBVIOUS
<1>2. pc' = "send" /\ resume' = where /\ report' = length /\ place' = 1
  BY DEF Fprintf
<1> QED BY <1>1, <1>2 DEF Places

LEMMA PlacesStep == ASSUME Places, [Next]_vars PROVE Places'
<1>1. CASE Report
  <2>1. CASE pc' = "get" /\ UNCHANGED sending
    BY <2>1 DEF sending, Places, Sending
  <2>2. ASSUME NEW length \in Lengths, Fprintf(length, "get") PROVE Places'
    BY <2>2, FprintfPlaces, LengthsAssumption
  <2> QED BY <1>1, <2>1, <2>2 DEF Report
<1>2. CASE CDC_Device_SendByte \/ SendWait
  <2>1. pc \in Sending /\ (NextByte \/ (pc' = "send wait" /\ UNCHANGED sending))
    BY <1>2 DEF CDC_Device_SendByte, SendWait, Sending
  <2>2. CASE NextByte
    <3>1. /\ report' = report /\ resume' = resume /\ place' = place + 1
          /\ pc' = IF place = report THEN resume ELSE "send"
      BY <2>2 DEF NextByte
    <3>2. /\ report \in Nat /\ report >= 1 /\ place \in Nat /\ place >= 1 /\ place <= report
          /\ resume \in {"get", "flush"}
      BY <2>1 DEF Places
    <3>3. CASE place = report
      <4>1. pc' \in {"get", "flush"} /\ resume' \in {"get", "flush"}
        BY <3>1, <3>2, <3>3
      <4>2. place' \in Nat /\ place' >= 1 /\ report' \in Nat /\ report' >= 1
        BY <3>1, <3>2
      <4> QED BY <4>1, <4>2 DEF Places, Sending
    <3>4. CASE place # report
      <4>1. place' <= report' /\ place' \in Nat /\ place' >= 1 /\ report' \in Nat /\ report' >= 1
        BY <3>1, <3>2, <3>4
      <4>2. pc' = "send" /\ resume' \in {"get", "flush"}
        BY <3>1, <3>2, <3>4
      <4> QED BY <4>1, <4>2 DEF Places
    <3> QED BY <3>3, <3>4
  <2>3. CASE pc' = "send wait" /\ UNCHANGED sending
    BY <2>1, <2>3 DEF sending, Places, Sending
  <2> QED BY <2>1, <2>2, <2>3
<1>3. CASE ProcessPacket
  <2>1. Fprintf(SettingsLength, "flush") \/ (pc' = "flush" /\ UNCHANGED sending)
    BY <1>3 DEF ProcessPacket
  <2>2. CASE pc' = "flush" /\ UNCHANGED sending
    BY <2>2 DEF sending, Places, Sending
  <2> QED BY <2>1, <2>2, FprintfPlaces, LengthsAssumption
<1>4. CASE GetPacket
  <2>1. pc' \in {"flush", "process", "get"} /\ UNCHANGED sending
    BY <1>4 DEF GetPacket
  <2> QED BY <2>1 DEF sending, Places, Sending
<1>5. CASE CDC_Device_Flush \/ FlushWait
  <2>1. pc' \in {"flush wait", "loop"} /\ UNCHANGED sending
    BY <1>5 DEF CDC_Device_Flush, FlushWait
  <2> QED BY <2>1 DEF sending, Places, Sending
<1>6. CASE Session \/ HostRead \/ HostWrite \/ HostPacket \/ UNCHANGED vars
  <2>1. UNCHANGED pc /\ UNCHANGED sending
    BY <1>6 DEF Session, HostRead, HostWrite, HostPacket, vars
  <2> QED BY <2>1 DEF sending, Places, Sending
<1> QED BY <1>1, <1>2, <1>3, <1>4, <1>5, <1>6 DEF Next, Program

(* What is printed goes into a bank that has room and is the program's.    *)
LEMMA Written == ASSUME Places, Banks, pc \in Sending, WriteByte, Len(bank) < Bank
                 PROVE  bank' \in Seq(Bytes) /\ Len(bank') = Len(bank) + 1 /\ bank' # <<>>
<1>1. <<report, place>> \in Bytes
  BY DEF Places, Bytes
<1> QED BY <1>1 DEF WriteByte, Banks, Stored

(* A bank that waits to be taken is empty once it has been. *)
Fetched == pc \in {"send wait", "flush wait"} /\ open => busy \/ bank = <<>>

LEMMA StoredStep == ASSUME LinkTypes, Fetched, [Next]_vars PROVE Stored'
<1> USE DEF LinkTypes, Banks
<1>1. CASE CDC_Device_SendByte \/ SendWait
  <2>1. pc \in Sending /\ got' = got
    BY <1>1 DEF CDC_Device_SendByte, SendWait, Sending
  <2>2. CASE WriteByte
    <3>1. Len(bank) < Bank
      <4>1. bank' # bank
        BY <2>2 DEF WriteByte, Stored
      <4>2. CASE CDC_Device_SendByte
        BY <2>2, <4>1, <4>2 DEF CDC_Device_SendByte
      <4>3. CASE SendWait
        <5>1. pc = "send wait" /\ ~busy /\ open
          BY <4>1, <4>3 DEF SendWait
        <5>2. bank = <<>>
          BY <5>1 DEF Fetched
        <5> QED BY <5>2, Sizes
      <4> QED BY <1>1, <4>2, <4>3
    <3>2. bank' \in Seq(Bytes) /\ Len(bank') = Len(bank) + 1
      BY <2>1, <2>2, <3>1, Written
    <3> QED BY <2>1, <3>1, <3>2, Sizes DEF Stored
  <2>3. CASE bank' = bank
    BY <2>1, <2>3 DEF Stored
  <2> QED BY <1>1, <2>2, <2>3 DEF CDC_Device_SendByte, SendWait
<1>2. CASE HostRead
  BY <1>2, Sizes DEF HostRead, Stored, Last
<1>3. CASE Session
  BY <1>3, Sizes DEF Session, Stored, Nothing, Bytes
<1>4. CASE \/ Report \/ GetPacket \/ ProcessPacket \/ CDC_Device_Flush \/ FlushWait
           \/ HostWrite \/ HostPacket \/ UNCHANGED vars
  <2>1. bank' = bank /\ got' = got
    BY <1>4 DEF Report, GetPacket, ProcessPacket, CDC_Device_Flush, FlushWait, HostWrite,
        HostPacket, vars, outward
  <2> QED BY <2>1 DEF Stored
<1> QED BY <1>1, <1>2, <1>3, <1>4 DEF Next, Program

LEMMA FlagsStep == ASSUME LinkTypes, [Next]_vars PROVE Flags'
<1> USE DEF LinkTypes, Banks
<1>1. CASE CDC_Device_SendByte \/ SendWait \/ CDC_Device_Flush \/ FlushWait
  <2>1. got' = got /\ short' = short /\ open' = open
    BY <1>1 DEF CDC_Device_SendByte, SendWait, CDC_Device_Flush, FlushWait
  <2>2. bank' = bank \/ open
    BY <1>1 DEF CDC_Device_SendByte, SendWait, CDC_Device_Flush, FlushWait
  <2>3. busy' = busy \/ (open /\ busy' = TRUE)
    BY <1>1 DEF CDC_Device_SendByte, SendWait, CDC_Device_Flush, FlushWait
  <2>4. CASE busy' = busy
    BY <2>1, <2>2, <2>4, Zenon DEF Flags
  <2>5. CASE open /\ busy' = TRUE
    BY <2>1, <2>5, Zenon DEF Flags
  <2> QED BY <2>3, <2>4, <2>5
<1>2. CASE HostRead
  <2>1. /\ busy' = FALSE /\ open' = open /\ open
        /\ short' = (Len(bank) < Bank)
    BY <1>2 DEF HostRead
  <2>2. (Len(bank) < Bank) \in BOOLEAN
    OBVIOUS
  <2> QED BY <2>1, <2>2, Zenon DEF Flags
<1>3. CASE Session
  <2>1. bank' = <<>> /\ got' = Nothing /\ busy' = FALSE /\ short' = TRUE /\ open' = ~open
    BY <1>3 DEF Session
  <2> QED BY <2>1, Zenon DEF Flags
<1>4. CASE Report \/ GetPacket \/ ProcessPacket \/ HostWrite \/ HostPacket \/ UNCHANGED vars
  <2>1. bank' = bank /\ got' = got /\ busy' = busy /\ short' = short /\ open' = open
    BY <1>4 DEF Report, GetPacket, ProcessPacket, HostWrite, HostPacket, vars, outward
  <2> QED BY <2>1, Zenon DEF Flags
<1> QED BY <1>1, <1>2, <1>3, <1>4 DEF Next, Program

-----------------------------------------------------------------------------
(* What the proof of the order needs of a step.                            *)

(* A byte that continues the stream extends the chain. *)
LEMMA ChainGrows ==
    ASSUME Stored, Chain, NEW x, Follows(LastByte, x), bank' = Append(bank, x), got' = got
    PROVE  Chain' /\ LastByte' = x
<1>1. /\ Len(bank') = Len(bank) + 1 /\ Len(bank) \in Nat /\ bank' # <<>>
      /\ bank'[Len(bank) + 1] = x
      /\ \A n \in 1..Len(bank) : bank'[n] = bank[n]
  BY DEF Stored
<1>2. LastByte' = x
  BY <1>1 DEF LastByte
<1>3. ASSUME NEW n \in 1..Len(bank') PROVE Follows(Before(n)', bank'[n])
  <2>1. CASE n = Len(bank) + 1
    <3>1. Before(n)' = LastByte
      <4>1. CASE bank = <<>>
        BY <1>1, <2>1, <4>1 DEF Before, LastByte
      <4>2. CASE bank # <<>>
        <5>1. Len(bank) >= 1
          BY <4>2 DEF Stored
        <5> QED BY <1>1, <2>1, <4>2, <5>1 DEF Before, LastByte
      <4> QED BY <4>1, <4>2
    <3> QED BY <1>1, <2>1, <3>1
  <2>2. CASE n # Len(bank) + 1
    <3>1. n \in 1..Len(bank) /\ (n # 1 => n - 1 \in 1..Len(bank))
      BY <1>1, <1>3, <2>2
    <3>2. Before(n)' = Before(n) /\ bank'[n] = bank[n]
      BY <1>1, <3>1 DEF Before
    <3> QED BY <3>1, <3>2 DEF Chain
  <2> QED BY <2>1, <2>2
<1> QED BY <1>2, <1>3 DEF Chain

(* The host that fetches the bank does not change the stream.              *)
LEMMA FetchKeepsChain ==
    ASSUME Stored, HostRead PROVE Chain' /\ LastByte' = LastByte
<1>1. bank' = <<>> /\ got' = IF bank = <<>> THEN got ELSE bank[Len(bank)]
  BY DEF HostRead, Last
<1> QED BY <1>1 DEF Chain, LastByte

LEMMA ContinuesStep ==
    ASSUME LinkTypes, Continues, [Next]_vars PROVE Continues'
<1> USE DEF LinkTypes, Banks
<1>1. CASE "slow" \in faults
  <2>1. faults' = faults
    BY DEF Next, vars
  <2> QED BY <1>1, <2>1 DEF Continues
<1>2. CASE "slow" \notin faults
  <2>0. /\ Chain
        /\ pc \in Sending => Follows(LastByte, <<report, place>>)
        /\ pc \notin Sending => LastByte[2] = LastByte[1]
    BY <1>2 DEF Continues
  <2>1. CASE CDC_Device_SendByte \/ SendWait
    <3>1. pc \in Sending /\ got' = got
      BY <2>1 DEF CDC_Device_SendByte, SendWait, Sending
    <3>2. CASE WriteByte /\ NextByte
      <4>1. Chain' /\ LastByte' = <<report, place>>
        BY <2>0, <3>1, <3>2, ChainGrows DEF WriteByte
      <4>2. /\ report' = report /\ place' = place + 1
            /\ pc' = IF place = report THEN resume ELSE "send"
        BY <3>2 DEF NextByte
      <4>3. report \in Nat /\ place \in Nat /\ place <= report /\ resume \in {"get", "flush"}
        BY <3>1 DEF Places
      <4>4. pc' \in Sending => Follows(LastByte', <<report', place'>>)
        <5>1. pc' \in Sending => place < report
          <6>1. place = report => pc' \notin Sending
            BY <4>2, <4>3 DEF Sending
          <6>2. place # report => place < report
            BY <4>3
          <6> QED BY <6>1, <6>2
        <5> QED BY <4>1, <4>2, <4>3, <5>1 DEF Follows
      <4>5. pc' \notin Sending => LastByte'[2] = LastByte'[1]
        BY <4>1, <4>2, <4>3 DEF Sending
      <4> QED BY <4>1, <4>4, <4>5 DEF Continues
    <3>3. CASE bank' = bank /\ pc' = "send wait" /\ UNCHANGED sending
      BY <2>0, <3>1, <3>3 DEF Continues, Chain, Before, LastByte, sending, Sending
    <3>4. CASE ~open /\ NextByte /\ bank' = bank
      <4>1. bank' = <<>> /\ got' = Nothing
        BY <3>1, <3>4 DEF Flags
      <4>2. Chain' /\ LastByte' = Nothing
        BY <4>1 DEF Chain, LastByte
      <4> QED BY <4>2 DEF Continues, Follows, Nothing
    <3> QED BY <1>2, <2>1, <3>2, <3>3, <3>4 DEF CDC_Device_SendByte, SendWait
  <2>2. CASE HostRead
    <3>1. pc' = pc /\ report' = report /\ place' = place
      BY <2>2 DEF HostRead, sending
    <3> QED BY <2>0, <2>2, <3>1, FetchKeepsChain DEF Continues
  <2>3. CASE Session
    <3>1. Chain' /\ LastByte' = Nothing
      BY <2>3 DEF Session, Chain, LastByte
    <3> QED BY <3>1 DEF Continues, Follows, Nothing
  <2>4. CASE Report \/ ProcessPacket
    <3>1. /\ pc \notin Sending /\ bank' = bank /\ got' = got
          /\ (pc' = "send" /\ place' = 1) \/ pc' \in {"get", "flush"}
      BY <2>4 DEF Report, ProcessPacket, Fprintf, outward, Sending
    <3>2. Chain' /\ LastByte' = LastByte
      BY <2>0, <3>1 DEF Chain, Before, LastByte
    <3>3. LastByte[2] = LastByte[1]
      BY <2>0, <3>1
    <3> QED BY <3>1, <3>2, <3>3 DEF Continues, Follows, Sending
  <2>5. CASE \/ GetPacket \/ CDC_Device_Flush \/ FlushWait
             \/ HostWrite \/ HostPacket \/ UNCHANGED vars
    <3>1. /\ bank' = bank /\ got' = got
          /\ \/ pc' = pc /\ report' = report /\ place' = place
             \/ pc \notin Sending /\ pc' \notin Sending
      BY <2>5 DEF GetPacket, CDC_Device_Flush, FlushWait, HostWrite, HostPacket, vars, outward,
          sending, Sending
    <3>2. Chain' /\ LastByte' = LastByte
      BY <2>0, <3>1 DEF Chain, Before, LastByte
    <3> QED BY <2>0, <3>1, <3>2 DEF Continues
  <2> QED BY <2>1, <2>2, <2>3, <2>4, <2>5 DEF Next, Program
<1> QED BY <1>1, <1>2

-----------------------------------------------------------------------------
(* The end of a transfer.                                                  *)

(* A full bank is only ever handed over by one who stays to follow it with  *)
(* another packet; and a long packet was the last only as long as he waits. *)
Waiting == {"send wait", "flush wait"}
ShortAtEnd ==
    open /\ "slow" \notin faults =>
        /\ pc = "loop" => busy \/ (bank = <<>> /\ short)
        /\ busy /\ pc \notin Waiting => Len(bank) < Bank
        /\ ~busy /\ bank = <<>> /\ pc \notin Waiting => short

(* Only a bank that is handed over is waited for. *)
LEMMA FetchedStep == ASSUME LinkTypes, Fetched, [Next]_vars PROVE Fetched'
<1>1. CASE CDC_Device_SendByte
  BY <1>1 DEF CDC_Device_SendByte, NextByte, Fetched, LinkTypes, Places
<1>2. CASE CDC_Device_Flush
  BY <1>2 DEF CDC_Device_Flush, Fetched
<1>3. CASE SendWait \/ FlushWait \/ Report \/ GetPacket \/ ProcessPacket
  <2>1. pc' \notin Waiting
    BY <1>3 DEF SendWait, FlushWait, Report, Fprintf, GetPacket, ProcessPacket, NextByte, LinkTypes,
        Places, Waiting
  <2> QED BY <2>1 DEF Fetched, Waiting
<1>4. CASE Session \/ HostRead
  BY <1>4 DEF Session, HostRead, Fetched
<1>5. CASE HostWrite \/ HostPacket \/ UNCHANGED vars
  BY <1>5 DEF HostWrite, HostPacket, vars, outward, Fetched
<1> QED BY <1>1, <1>2, <1>3, <1>4, <1>5 DEF Next, Program

LEMMA ShortStep == ASSUME LinkTypes, Fetched, ShortAtEnd, [Next]_vars PROVE ShortAtEnd'
<1> SUFFICES ASSUME open', "slow" \notin faults'
             PROVE  /\ pc' = "loop" => busy' \/ (bank' = <<>> /\ short')
                    /\ busy' /\ pc' \notin Waiting => Len(bank') < Bank
                    /\ ~busy' /\ bank' = <<>> /\ pc' \notin Waiting => short'
  BY DEF ShortAtEnd
<1>1. "slow" \notin faults /\ faults' = faults
  BY DEF Next, vars
<1>2. CASE Session
  BY <1>2 DEF Session
<1>3. CASE ~Session
  <2>1. open
    BY <1>3 DEF Next, Program, Report, CDC_Device_SendByte, SendWait, GetPacket, ProcessPacket,
        CDC_Device_Flush, FlushWait, HostRead, HostWrite, HostPacket, vars
  <2>2. /\ pc = "loop" => busy \/ (bank = <<>> /\ short)
        /\ busy /\ pc \notin Waiting => Len(bank) < Bank
        /\ ~busy /\ bank = <<>> /\ pc \notin Waiting => short
        /\ pc \in Waiting => busy \/ bank = <<>>
    BY <1>1, <2>1 DEF ShortAtEnd, Fetched, Waiting
  <2>3. CASE CDC_Device_SendByte
    <3>1. pc = "send" /\ pc \notin Waiting /\ UNCHANGED short
      BY <2>3 DEF CDC_Device_SendByte, Waiting
    <3>2. CASE pc' = "send wait"
      BY <3>2 DEF Waiting
    <3>3. CASE ~busy /\ UNCHANGED busy /\ WriteByte /\ NextByte
      <4>1. bank' # <<>> /\ pc' # "loop"
        BY <3>1, <3>3 DEF WriteByte, NextByte, LinkTypes, Places, Banks, Stored
      <4> QED BY <3>3, <4>1
    <3> QED BY <2>1, <2>3, <3>2, <3>3 DEF CDC_Device_SendByte
  <2>4. CASE SendWait
    <3>1. ~busy /\ WriteByte /\ UNCHANGED busy /\ NextByte
      BY <1>1, <2>1, <2>4 DEF SendWait
    <3>2. bank' # <<>> /\ pc' # "loop"
      <4>1. bank' # <<>>
        BY <3>1 DEF WriteByte, LinkTypes, Banks, Stored
      <4>2. pc' # "loop"
        BY <3>1 DEF NextByte, LinkTypes, Places
      <4> QED BY <4>1, <4>2
    <3> QED BY <3>1, <3>2
  <2>5. CASE CDC_Device_Flush
    <3>1. pc = "flush" /\ pc \notin Waiting /\ UNCHANGED <<bank, short>>
      BY <2>5 DEF CDC_Device_Flush, Waiting
    <3>2. CASE ~busy /\ bank # <<>>
      <4>1. busy' /\ (pc' = "flush wait" \/ (pc' = "loop" /\ Len(bank) # Bank))
        BY <2>1, <2>5, <3>2 DEF CDC_Device_Flush
      <4>2. Len(bank) # Bank => Len(bank) < Bank
        BY Sizes DEF LinkTypes, Banks, Stored
      <4> QED BY <3>1, <4>1, <4>2 DEF Waiting
    <3>3. CASE busy \/ bank = <<>>
      <4>1. busy' = busy /\ pc' = "loop"
        BY <2>5, <3>3 DEF CDC_Device_Flush
      <4> QED BY <2>2, <3>1, <3>3, <4>1
    <3> QED BY <3>2, <3>3
  <2>6. CASE FlushWait
    <3>1. ~busy /\ busy' /\ UNCHANGED bank /\ pc = "flush wait"
      BY <1>1, <2>1, <2>6 DEF FlushWait
    <3>2. bank' = <<>>
      BY <2>2, <3>1 DEF Waiting
    <3>3. Len(bank') < Bank
      BY <3>2, Sizes
    <3> QED BY <3>1, <3>3
  <2>7. CASE HostRead
    <3>1. busy /\ ~busy' /\ bank' = <<>> /\ UNCHANGED pc
      BY <2>7 DEF HostRead
    <3>2. pc \notin Waiting => short'
      <4>1. short' = (Len(bank) < Bank)
        BY <2>7 DEF HostRead
      <4>2. pc \notin Waiting => Len(bank) < Bank
        BY <2>2, <3>1
      <4> QED BY <4>1, <4>2
    <3> QED BY <3>1, <3>2 DEF Waiting
  <2>8. CASE Report \/ GetPacket \/ ProcessPacket
    <3>1. pc \notin Waiting /\ pc' # "loop" /\ UNCHANGED <<bank, busy, short>>
      BY <2>8 DEF Report, GetPacket, ProcessPacket, Fprintf, outward, Waiting
    <3> QED BY <2>2, <3>1
  <2>9. CASE HostWrite \/ HostPacket \/ UNCHANGED vars
    <3>1. UNCHANGED <<pc, bank, busy, short>>
      BY <2>9 DEF HostWrite, HostPacket, outward, vars
    <3> QED BY <2>2, <3>1
  <2> QED BY <1>3, <2>3, <2>4, <2>5, <2>6, <2>7, <2>8, <2>9 DEF Next, Program
<1> QED BY <1>2, <1>3

-----------------------------------------------------------------------------
(* The invariant, and what it is for.                                      *)

LinkInv == LinkTypes /\ Fetched /\ Room /\ Continues /\ ShortAtEnd

(* The invariant holds of every behaviour of the link. *)
THEOREM LinkCorrect == Spec => []LinkInv
<1>1. ASSUME Init PROVE LinkInv
  <2>1. Places
    BY <1>1 DEF Init, Places, Sending
  <2>2. Banks
    <3>1. bank = <<>> /\ got = Nothing /\ busy = FALSE /\ open = FALSE /\ short = TRUE
      BY <1>1 DEF Init
    <3>2. Stored
      BY <3>1, Sizes DEF Stored, Nothing, Bytes
    <3>3. Flags
      BY <3>1, Zenon DEF Flags
    <3> QED BY <3>2, <3>3 DEF Banks
  <2>3. Fetched
    BY <1>1 DEF Init, Fetched
  <2>4. Room
    BY <1>1, Sizes DEF Init, Room, IsString, Sending
  <2>5. Continues
    BY <1>1 DEF Init, Continues, Chain, LastByte, Nothing, Sending
  <2>6. ShortAtEnd
    BY <1>1 DEF Init, ShortAtEnd, Waiting
  <2> QED BY <2>1, <2>2, <2>3, <2>4, <2>5, <2>6 DEF LinkInv, LinkTypes
<1>2. LinkInv /\ [Next]_vars => LinkInv'
  BY PlacesStep, StoredStep, FlagsStep, FetchedStep, RoomStep, ContinuesStep, ShortStep
     DEF LinkInv, LinkTypes, Banks
<1> QED BY <1>1, <1>2, PTL DEF Spec

(* The string in inBuf always ends in inBuf: fgets never writes its last    *)
(* place but with the end of the string.                                   *)
THEOREM StringsEnd == Spec => []BufferTerminated
<1>1. LinkInv => BufferTerminated
  BY DEF LinkInv, Room, IsString, BufferTerminated
<1> QED BY <1>1, LinkCorrect, PTL

(* The host gets every byte printed in a session, in order and once, as     *)
(* long as it fetches packets in time.                                     *)
THEOREM ReportsAreWhole == Spec => []ReportsInOrder
<1>1. LinkInv => ReportsInOrder
  BY DEF LinkInv, Continues, Chain, Before, ReportsInOrder
<1> QED BY <1>1, LinkCorrect, PTL

(* A pass leaves no transfer open: after a full packet comes a short one.   *)
THEOREM TransfersAreClosed == Spec => []TransfersTerminated
<1>1. LinkInv => TransfersTerminated
  BY DEF LinkInv, ShortAtEnd, TransfersTerminated
<1> QED BY <1>1, LinkCorrect, PTL

-----------------------------------------------------------------------------
(* Lines.                                                                  *)

(* What the host sends. *)
Char == Letter \cup {CR, NL}

LEMMA NoNulInLines == Nul \notin Char /\ {CR, NL} \cap Letter = {} /\ CR # NL
BY DEF Char, Letter, CR, NL, Nul

(* A set of natural numbers that is not empty has a first member.          *)
LEMMA FirstMember ==
    ASSUME NEW T \in SUBSET Nat, T # {}
    PROVE  \E first \in T : first - 1 \notin T
<1> DEFINE Less == OpToRel(<, Nat)
<1>1. IsWellFoundedOn(Less, Nat)
  BY NatLessThanWellFounded, Zenon
<1>2. \A m, n \in Nat : m < n => <<m, n>> \in Less
  BY DEF OpToRel
<1> HIDE DEF Less
<1>3. PICK first \in T : \A n \in T : ~ (<<n, first>> \in Less)
  BY <1>1, WFMin
<1>4. first - 1 \in T => first - 1 \in Nat /\ first \in Nat /\ first - 1 < first
  OBVIOUS
<1> QED BY <1>2, <1>3, <1>4

(* The string in a buffer ends before the first end of a string.           *)
LEMMA TextIs ==
    ASSUME NEW buf, IsString(buf), NEW n \in 0..BufSize - 1, buf[n + 1] = Nul,
           \A i \in 1..n : buf[i] # Nul /\ buf[i] \in Char
    PROVE  /\ Text(buf) \in Seq(Char) /\ Len(Text(buf)) = n
           /\ \A i \in 1..n : Text(buf)[i] = buf[i]
<1> DEFINE IsEnd(m) == buf[m] = Nul /\ \A i \in 1..m - 1 : buf[i] # Nul
           end == CHOOSE m \in 1..BufSize : IsEnd(m)
           all == [m \in 1..BufSize |-> buf[m]]
<1>1. n + 1 \in 1..BufSize /\ IsEnd(n + 1)
  BY Sizes
<1>2. end \in 1..BufSize /\ IsEnd(end)
  <2> HIDE DEF IsEnd
  <2> QED BY <1>1
<1>3. end = n + 1
  <2>1. ~(end < n + 1)
    BY <1>2
  <2>2. ~(n + 1 < end)
    BY <1>1, <1>2
  <2> HIDE DEF end
  <2> QED BY <1>2, <2>1, <2>2
<1>4. Text(buf) = SubSeq(all, 1, n)
  <2>1. Text(buf) = SubSeq(all, 1, end - 1)
    BY DEF Text
  <2> HIDE DEF end, all
  <2>2. end - 1 = n
    BY <1>3
  <2> QED BY <2>1, <2>2
<1>5. \A i \in 1..n : all[i] = buf[i]
  BY Sizes
<1> HIDE DEF all
<1>6. \A i \in 1..n : all[i] \in Char
  BY <1>5
<1>7. /\ SubSeq(all, 1, n) \in Seq(Char)
      /\ Len(SubSeq(all, 1, n)) = IF 1 <= n THEN n - 1 + 1 ELSE 0
      /\ \A i \in 1..n - 1 + 1 : SubSeq(all, 1, n)[i] = all[1 + i - 1]
  BY <1>6, SubSeqProperties
<1> QED BY <1>4, <1>5, <1>7

(* A line without NL, CR and Nul, as the host sends it.                     *)
LEMMA LineIs ==
    ASSUME NEW line \in Lines
    PROVE  /\ line \in Seq(Char) /\ Len(line) \in Nat
           /\ Len(line) + 2 <= Bank /\ Len(line) + 2 <= BufSize - 1
           /\ \A i \in 1..Len(line) : line[i] \in Char /\ line[i] \notin {NL, CR, Nul}
<1>1. line \in Seq(Letter) /\ Len(line) + 2 <= Bank /\ Len(line) + 2 <= BufSize - 1
  BY LinesAssumption
<1>2. \A i \in 1..Len(line) : line[i] \in Letter
  BY <1>1
<1>3. line \in Seq(Char) /\ Len(line) \in Nat
  BY <1>1 DEF Char
<1> QED BY <1>1, <1>2, <1>3 DEF Letter, Char

(* Of a line that has come whole, with its end, the line is left.          *)
LEMMA LineIsLeft ==
    ASSUME NEW buf, IsString(buf), NEW line \in Lines,
           NEW n \in {Len(line) + 1, Len(line) + 2},
           \A i \in 1..Len(line) : buf[i] = line[i],
           \A i \in Len(line) + 1..n - 1 : buf[i] = CR,
           buf[n] = NL, buf[n + 1] = Nul
    PROVE  Text(Stripped(buf)) = line
<1> DEFINE new == Stripped(buf)
           text == Text(buf)
           Goes(i) == i <= Len(text) /\ Blank(SubSeq(text, i, Len(text)))
<1>1. /\ line \in Seq(Char) /\ Len(line) \in Nat /\ Len(line) + 2 <= BufSize - 1
      /\ \A i \in 1..Len(line) : line[i] \in Char /\ line[i] \notin {NL, CR, Nul}
  BY LineIs
<1>2. n \in Nat /\ n \in 0..BufSize - 1 /\ Len(line) < n
  BY <1>1, Sizes
<1>3. /\ text \in Seq(Char) /\ Len(text) = n
      /\ \A i \in 1..n : text[i] = buf[i]
  <2>1. \A i \in 1..n : buf[i] # Nul /\ buf[i] \in Char
    <3>1. ASSUME NEW i \in 1..n PROVE buf[i] # Nul /\ buf[i] \in Char
      <4>1. CASE i \in 1..Len(line)
        BY <1>1, <4>1
      <4>2. CASE i \in Len(line) + 1..n - 1
        BY <4>2, NoNulInLines DEF Char
      <4>3. CASE i = n
        BY <4>3, NoNulInLines DEF Char
      <4> QED BY <1>1, <1>2, <4>1, <4>2, <4>3
    <3> QED BY <3>1
  <2> QED BY <1>2, <2>1, TextIs
<1> HIDE DEF text
<1>4. ASSUME NEW i \in 1..n
      PROVE  /\ Len(SubSeq(text, i, n)) = n - i + 1
             /\ \A m \in 1..n - i + 1 : SubSeq(text, i, n)[m] = buf[i + m - 1]
  <2>1. \A m \in i..n : text[m] \in Char
    BY <1>2, <1>3
  <2>2. /\ Len(SubSeq(text, i, n)) = IF i <= n THEN n - i + 1 ELSE 0
        /\ \A m \in 1..n - i + 1 : SubSeq(text, i, n)[m] = text[i + m - 1]
    BY <1>2, <2>1, SubSeqProperties
  <2>3. \A m \in 1..n - i + 1 : i + m - 1 \in 1..n
    BY <1>2
  <2> QED BY <1>2, <1>3, <2>2, <2>3
<1>5. ASSUME NEW i \in 1..Len(line) PROVE ~Goes(i)
  <2>1. i \in 1..n /\ 1 \in 1..n - i + 1 /\ i + 1 - 1 = i
    BY <1>1, <1>2
  <2>2. SubSeq(text, i, n)[1] = buf[i] /\ 1 \in 1..Len(SubSeq(text, i, n))
    BY <1>4, <2>1
  <2>3. buf[i] \notin {CR, NL}
    BY <1>1
  <2> QED BY <1>3, <2>2, <2>3 DEF Blank
<1>6. Goes(Len(line) + 1)
  <2> DEFINE i == Len(line) + 1
  <2>1. i \in 1..n /\ i \in Nat
    BY <1>1, <1>2
  <2>2. \A m \in 1..n - i + 1 : buf[i + m - 1] \in {CR, NL}
    <3>1. ASSUME NEW m \in 1..n - i + 1 PROVE buf[i + m - 1] \in {CR, NL}
      <4>1. i + m - 1 \in Len(line) + 1..n - 1 \/ i + m - 1 = n
        BY <1>1, <1>2
      <4> QED BY <4>1
    <3> QED BY <3>1
  <2>3. n - i + 1 = Len(SubSeq(text, i, n))
    BY <1>4, <2>1
  <2> HIDE DEF i
  <2>4. Blank(SubSeq(text, i, n))
    BY <1>4, <2>1, <2>2, <2>3 DEF Blank
  <2>5. i <= n
    BY <2>1
  <2> QED BY <1>3, <2>4, <2>5 DEF i
<1>7. new = [i \in 1..BufSize |-> IF Goes(i) THEN Nul ELSE buf[i]]
  BY DEF Stripped, text
<1> HIDE DEF Goes
<1>8. IsString(new)
  BY StrippedKeepsEnd
<1>9. \A i \in 1..Len(line) : new[i] = line[i]
  <2>1. \A i \in 1..Len(line) : i \in 1..BufSize
    BY <1>1, Sizes
  <2> QED BY <1>5, <1>7, <2>1
<1>10. new[Len(line) + 1] = Nul
  <2>1. Len(line) + 1 \in 1..BufSize
    BY <1>1, Sizes
  <2> QED BY <1>6, <1>7, <2>1
<1> HIDE DEF new
<1>11. /\ Text(new) \in Seq(Char) /\ Len(Text(new)) = Len(line)
       /\ \A i \in 1..Len(line) : Text(new)[i] = new[i]
  <2>1. Len(line) \in 0..BufSize - 1
    BY <1>1, Sizes
  <2>2. \A i \in 1..Len(line) : new[i] # Nul /\ new[i] \in Char
    BY <1>1, <1>9
  <2> QED BY <1>8, <1>10, <2>1, <2>2, TextIs
<1>12. Text(new) = line
  BY <1>1, <1>9, <1>11, SeqEqual
<1> QED BY <1>12 DEF new

(* The types of what is on its way in. *)
Sent == Lines \cup LongLines
Inward ==
    /\ out \in Seq(Char) /\ Len(out) <= Bank /\ writing \in Seq(Char)
    /\ expected \in Seq(Sent)

LEMMA SentIs ==
    ASSUME NEW line \in Sent, NEW end \in Ends
    PROVE  /\ line \in Seq(Char) /\ end \in Seq(Char) /\ line \o end \in Seq(Char)
<1>1. line \in Seq(Char)
  <2>1. line \in Seq(Letter)
    BY LinesAssumption DEF Sent
  <2> QED BY <2>1 DEF Char
<1>2. end \in Seq(Char)
  <2>1. CR \in Char /\ NL \in Char
    BY DEF Char
  <2>2. <<NL>> \in Seq(Char) /\ <<CR, NL>> \in Seq(Char)
    BY <2>1
  <2> QED BY <2>2 DEF Ends
<1> QED BY <1>1, <1>2, ConcatProperties

LEMMA InwardStep == ASSUME Inward, [Next]_vars PROVE Inward'
<1>1. CASE GetPacket
  <2>1. UNCHANGED <<writing, expected>> /\ (out' = out \/ (out # <<>> /\ out' = Tail(out)))
    BY <1>1 DEF GetPacket
  <2>2. CASE out # <<>> /\ out' = Tail(out)
    <3>1. out' \in Seq(Char) /\ Len(out') = Len(out) - 1 /\ Len(out) \in Nat
      BY <2>2, HeadTailProperties DEF Inward
    <3> QED BY <2>1, <3>1, Sizes DEF Inward
  <2> QED BY <2>1, <2>2 DEF Inward
<1>2. CASE ProcessPacket
  <2>1. /\ UNCHANGED <<out, writing>>
        /\ expected' = expected \/ (expected # <<>> /\ expected' = Tail(expected))
    BY <1>2 DEF ProcessPacket
  <2>2. CASE expected # <<>> /\ expected' = Tail(expected)
    <3>1. expected' \in Seq(Sent)
      BY <2>2, HeadTailProperties DEF Inward
    <3> QED BY <2>1, <3>1 DEF Inward
  <2> QED BY <2>1, <2>2 DEF Inward
<1>3. CASE Session
  BY <1>3, Sizes, EmptySeq DEF Session, Inward
<1>4. CASE HostWrite
  <2>1. PICK first, second \in Sent, end, end2 \in Ends :
          \/ writing' = first \o end /\ expected' = Append(expected, first)
          \/ /\ writing' = first \o end \o second \o end2
             /\ expected' = Append(Append(expected, first), second)
    <3>1. Lines \cup (IF "long" \in faults THEN LongLines ELSE {}) \subseteq Sent
      BY DEF Sent
    <3> QED BY <1>4, <3>1 DEF HostWrite
  <2>2. writing' \in Seq(Char)
    <3>1. first \o end \in Seq(Char) /\ second \in Seq(Char) /\ end2 \in Seq(Char)
      BY SentIs
    <3>2. (first \o end) \o second \in Seq(Char)
      BY <3>1, ConcatProperties
    <3>3. ((first \o end) \o second) \o end2 \in Seq(Char)
      BY <3>1, <3>2, ConcatProperties
    <3> QED BY <2>1, <3>1, <3>3
  <2>3. expected' \in Seq(Sent)
    <3>1. Append(expected, first) \in Seq(Sent)
      BY AppendProperties DEF Inward
    <3>2. Append(Append(expected, first), second) \in Seq(Sent)
      BY <3>1, AppendProperties
    <3> QED BY <2>1, <3>1, <3>2
  <2> QED BY <1>4, <2>2, <2>3 DEF Inward, HostWrite
<1>5. CASE HostPacket
  <2>1. PICK n \in 1..Len(writing) :
          /\ n <= Bank
          /\ out' = SubSeq(writing, 1, n)
          /\ writing' = SubSeq(writing, n + 1, Len(writing))
    BY <1>5 DEF HostPacket
  <2>2. Len(writing) \in Nat /\ \A i \in 1..Len(writing) : writing[i] \in Char
    BY DEF Inward
  <2>3. \A i \in 1..n : writing[i] \in Char
    BY <2>2
  <2>4. \A i \in n + 1..Len(writing) : writing[i] \in Char
    BY <2>2
  <2>5. out' \in Seq(Char) /\ Len(out') = n
    BY <2>1, <2>2, <2>3, SubSeqProperties
  <2>6. writing' \in Seq(Char)
    BY <2>1, <2>2, <2>4, SubSeqProperties
  <2> QED BY <1>5, <2>1, <2>5, <2>6 DEF Inward, HostPacket
<1>6. CASE \/ Report \/ CDC_Device_SendByte \/ SendWait \/ CDC_Device_Flush \/ FlushWait
           \/ HostRead \/ UNCHANGED vars
  <2>1. UNCHANGED <<out, writing, expected>>
    BY <1>6 DEF Report, CDC_Device_SendByte, SendWait, CDC_Device_Flush, FlushWait, HostRead,
        vars, inward
  <2> QED BY <2>1 DEF Inward
<1> QED BY <1>1, <1>2, <1>3, <1>4, <1>5, <1>6 DEF Next, Program

-----------------------------------------------------------------------------
(* A stream of bytes, at the places from start + 1 to left, that is made of *)
(* lines: cut[j - 1] + 1 is the first place of line j, cut[j] its last.     *)

IsLine(stream, line, from, to) ==
    /\ line \in Lines
    /\ from \in Int /\ to \in Int
    /\ to - from \in {Len(line) + 1, Len(line) + 2}
    /\ \A i \in 1..Len(line) : stream[from + i] = line[i]
    /\ \A i \in Len(line) + 1..to - from - 1 : stream[from + i] = CR
    /\ stream[to] = NL

(* None of the lines ends at place 0 or before, and one of them ends at     *)
(* stop, unless stop is the start.                                          *)
IsCut(cut, stream, lines, start, left, stop) ==
    /\ cut \in [0..Len(lines) -> Int]
    /\ cut[0] = start /\ cut[Len(lines)] = left
    /\ \A j \in 1..Len(lines) : cut[j] > 0 /\ IsLine(stream, lines[j], cut[j - 1], cut[j])
    /\ \E j \in 0..Len(lines) : cut[j] = stop

(* A line has no end but at its end. *)
LEMMA LineEndsOnce ==
    ASSUME NEW s, NEW line, NEW from, NEW to, IsLine(s, line, from, to)
    PROVE  /\ from \in Int /\ to \in Int
           /\ from < to /\ to - from <= Bank /\ to - from <= BufSize - 1
           /\ \A i \in from + 1..to : i # to => s[i] # NL
<1>1. /\ Len(line) \in Nat /\ Len(line) + 2 <= Bank /\ Len(line) + 2 <= BufSize - 1
      /\ \A i \in 1..Len(line) : line[i] # NL
  BY LineIs DEF IsLine
<1>2. from < to /\ to - from <= Bank /\ to - from <= BufSize - 1
  BY <1>1, Sizes DEF IsLine
<1>3. ASSUME NEW i \in from + 1..to, i # to PROVE s[i] # NL
  <2>1. i - from \in 1..Len(line) \/ i - from \in Len(line) + 1..to - from - 1
    BY <1>1, <1>3 DEF IsLine
  <2>2. from + (i - from) = i
    BY <1>3 DEF IsLine
  <2>3. CASE i - from \in 1..Len(line)
    BY <1>1, <2>2, <2>3 DEF IsLine
  <2>4. CASE i - from \in Len(line) + 1..to - from - 1
    <3>1. s[from + (i - from)] = CR
      BY <2>4 DEF IsLine
    <3> QED BY <2>2, <3>1, NoNulInLines
  <2> QED BY <2>1, <2>3, <2>4
<1> QED BY <1>2, <1>3 DEF IsLine

(* The same bytes at other places are the same line. *)
LEMMA LineMoves ==
    ASSUME NEW s, NEW t, NEW line, NEW from, NEW to, IsLine(s, line, from, to),
           NEW shift \in Int, \A i \in from + 1..to : t[i - shift] = s[i]
    PROVE  IsLine(t, line, from - shift, to - shift)
<1>1. Len(line) \in Nat /\ from \in Int /\ to \in Int /\ from < to
  BY LineIs, LineEndsOnce DEF IsLine
<1>2. to - from \in {Len(line) + 1, Len(line) + 2}
  BY DEF IsLine
<1>3. ASSUME NEW i \in 1..to - from PROVE t[(from - shift) + i] = s[from + i]
  <2>1. from + i \in from + 1..to /\ (from + i) - shift = (from - shift) + i
    BY <1>1
  <2> QED BY <2>1
<1>4. \A i \in 1..Len(line) : t[(from - shift) + i] = line[i]
  <2>1. \A i \in 1..Len(line) : i \in 1..to - from
    BY <1>1, <1>2
  <2> QED BY <1>3, <2>1 DEF IsLine
<1>5. \A i \in Len(line) + 1..to - from - 1 : t[(from - shift) + i] = CR
  <2>1. \A i \in Len(line) + 1..to - from - 1 : i \in 1..to - from
    BY <1>1
  <2> QED BY <1>3, <2>1 DEF IsLine
<1>6. t[to - shift] = NL
  <2>1. to \in from + 1..to
    BY <1>1
  <2> QED BY <2>1 DEF IsLine
<1>7. (to - shift) - (from - shift) = to - from /\ from - shift \in Int /\ to - shift \in Int
  BY <1>1
<1> QED BY <1>2, <1>4, <1>5, <1>6, <1>7 DEF IsLine

(* The cuts are in order.                                                   *)
LEMMA CutsInOrder ==
    ASSUME NEW cut, NEW s, NEW lines, Len(lines) \in Nat, NEW start \in Int, start <= 0,
           NEW left, NEW stop, IsCut(cut, s, lines, start, left, stop)
    PROVE  /\ \A j \in 0..Len(lines) : cut[j] \in Int /\ start <= cut[j] /\ cut[j] <= left
           /\ \A j \in 1..Len(lines) : cut[j - 1] \in Int /\ cut[j - 1] < cut[j] /\ cut[j] > 0
           /\ left \in Int
<1>1. /\ \A j \in 0..Len(lines) : cut[j] \in Int
      /\ left \in Int
  BY DEF IsCut
<1>2. \A j \in 1..Len(lines) : cut[j - 1] \in Int /\ cut[j - 1] < cut[j] /\ cut[j] > 0
  BY LineEndsOnce DEF IsCut
<1>3. \A j \in 0..Len(lines) : start <= cut[j]
  <2>1. \A j \in 0..Len(lines) : j = 0 \/ j \in 1..Len(lines)
    OBVIOUS
  <2> QED BY <1>1, <1>2, <2>1 DEF IsCut
<1>4. ASSUME NEW k \in 0..Len(lines), cut[k] > left PROVE FALSE
  <2> DEFINE T == {d \in Nat : d <= Len(lines) /\ cut[Len(lines) - d] > left}
  <2>1. Len(lines) - k \in T
    <3>1. Len(lines) - (Len(lines) - k) = k /\ Len(lines) - k \in Nat /\ Len(lines) - k <= Len(lines)
      OBVIOUS
    <3> QED BY <1>4, <3>1
  <2>2. T \in SUBSET Nat /\ T # {}
    BY <2>1
  <2>3. PICK d \in T : d - 1 \notin T
    <3> HIDE DEF T
    <3> QED BY <2>2, FirstMember
  <2>4. d \in Nat /\ d <= Len(lines) /\ cut[Len(lines) - d] > left
    BY <2>3
  <2>5. d # 0
    BY <1>1, <2>4 DEF IsCut
  <2>6. d - 1 \in Nat /\ d - 1 <= Len(lines) /\ Len(lines) - (d - 1) \in 1..Len(lines)
        /\ (Len(lines) - (d - 1)) - 1 = Len(lines) - d
    BY <2>4, <2>5
  <2>7. ~(cut[Len(lines) - (d - 1)] > left)
    BY <2>3, <2>6
  <2>8. cut[Len(lines) - d] \in Int /\ cut[Len(lines) - d] < cut[Len(lines) - (d - 1)]
    BY <1>2, <2>6
  <2>9. cut[Len(lines) - (d - 1)] \in Int
    BY <1>1, <2>6
  <2> QED BY <1>1, <2>4, <2>7, <2>8, <2>9
<1> QED BY <1>1, <1>2, <1>3, <1>4

(* A stream that is not empty begins with a line that fits.                 *)
LEMMA FirstLineFits ==
    ASSUME NEW cut, NEW s, NEW lines, Len(lines) \in Nat, NEW start \in Int, start <= 0,
           NEW left, NEW stop, IsCut(cut, s, lines, start, left, stop), left > 0
    PROVE  /\ 1 \in 1..Len(lines) /\ cut[1] \in 1..left
           /\ cut[1] <= Bank /\ cut[1] <= BufSize - 1 + start
           /\ s[cut[1]] = NL /\ IsLine(s, lines[1], start, cut[1])
           /\ \A i \in 1..cut[1] - 1 : s[i] # NL
<1>1. /\ \A j \in 0..Len(lines) : cut[j] \in Int /\ cut[j] <= left
      /\ \A j \in 1..Len(lines) : cut[j - 1] < cut[j] /\ cut[j] > 0
      /\ left \in Int /\ cut[0] = start /\ cut[Len(lines)] = left
  BY CutsInOrder DEF IsCut
<1>2. 1 \in 1..Len(lines) /\ 1 - 1 = 0
  BY <1>1
<1>3. cut[1] \in 1..left
  BY <1>1, <1>2
<1>4. IsLine(s, lines[1], start, cut[1])
  <2>1. IsLine(s, lines[1], cut[1 - 1], cut[1])
    BY <1>2 DEF IsCut
  <2> QED BY <1>1, <1>2, <2>1
<1>5. /\ cut[1] - start <= Bank /\ cut[1] - start <= BufSize - 1
      /\ \A i \in start + 1..cut[1] : i # cut[1] => s[i] # NL
  BY <1>4, LineEndsOnce
<1>6. cut[1] <= Bank /\ cut[1] <= BufSize - 1 + start
  BY <1>3, <1>5, Sizes
<1>7. \A i \in 1..cut[1] - 1 : s[i] # NL
  BY <1>3, <1>5
<1> QED BY <1>2, <1>3, <1>4, <1>6, <1>7 DEF IsLine

(* The same bytes are cut alike, whichever cut it is that the bank ends at. *)
LEMMA SameCut ==
    ASSUME NEW cut, NEW s, NEW lines, Len(lines) \in Nat, NEW start \in Int, start <= 0,
           NEW left, NEW stop, IsCut(cut, s, lines, start, left, stop),
           NEW t, \A i \in start + 1..left : t[i] = s[i],
           NEW stop2, \E j \in 0..Len(lines) : cut[j] = stop2
    PROVE  IsCut(cut, t, lines, start, left, stop2)
<1>1. /\ \A j \in 0..Len(lines) : cut[j] \in Int /\ start <= cut[j] /\ cut[j] <= left
      /\ left \in Int
  BY CutsInOrder
<1>2. ASSUME NEW j \in 1..Len(lines) PROVE IsLine(t, lines[j], cut[j - 1], cut[j])
  <2>1. j - 1 \in 0..Len(lines) /\ j \in 0..Len(lines)
    OBVIOUS
  <2>2. \A i \in cut[j - 1] + 1..cut[j] : t[i - 0] = s[i]
    <3>1. /\ start <= cut[j - 1] /\ cut[j] <= left
          /\ cut[j - 1] \in Int /\ cut[j] \in Int /\ left \in Int
      BY <1>1, <2>1
    <3>2. ASSUME NEW i \in cut[j - 1] + 1..cut[j] PROVE i \in start + 1..left /\ i - 0 = i
      BY <3>1
    <3> QED BY <3>2
  <2>3. IsLine(s, lines[j], cut[j - 1], cut[j])
    BY DEF IsCut
  <2>4. IsLine(t, lines[j], cut[j - 1] - 0, cut[j] - 0)
    BY <2>2, <2>3, LineMoves
  <2>5. cut[j - 1] - 0 = cut[j - 1] /\ cut[j] - 0 = cut[j]
    BY <1>1, <2>1
  <2> QED BY <2>4, <2>5
<1> QED BY <1>2 DEF IsCut

(* A line that comes after the others is cut after them.                   *)
LEMMA CutGrows ==
    ASSUME NEW cut, NEW s, NEW S, NEW lines \in Seq(S), NEW start \in Int, start <= 0,
           NEW left \in Nat, NEW stop, IsCut(cut, s, lines, start, left, stop),
           NEW t, \A i \in start + 1..left : t[i] = s[i],
           NEW line \in S, NEW left2, IsLine(t, line, left, left2)
    PROVE  \E cut2 : IsCut(cut2, t, Append(lines, line), start, left2, stop)
<1> DEFINE last == Len(lines) + 1
           cut2 == [j \in 0..last |-> IF j = last THEN left2 ELSE cut[j]]
<1>1. /\ Len(lines) \in Nat /\ last \in Nat /\ Len(Append(lines, line)) = last
      /\ \A j \in 1..Len(lines) : Append(lines, line)[j] = lines[j]
      /\ Append(lines, line)[last] = line
  BY AppendProperties
<1>2. IsCut(cut, t, lines, start, left, stop)
  <2>1. \E j \in 0..Len(lines) : cut[j] = stop
    BY DEF IsCut
  <2> QED BY <1>1, <2>1, SameCut
<1>3. left2 \in Int /\ left2 > 0
  BY LineEndsOnce
<1>4. \A j \in 0..Len(lines) : j \in 0..last /\ j # last /\ cut2[j] = cut[j]
  BY <1>1
<1>5. cut2[last] = left2
  BY <1>1
<1>6. cut2 \in [0..last -> Int] /\ cut2[0] = start
  BY <1>1, <1>2, <1>3, <1>4 DEF IsCut
<1> HIDE DEF cut2
<1>7. ASSUME NEW j \in 1..last
      PROVE  cut2[j] > 0 /\ IsLine(t, Append(lines, line)[j], cut2[j - 1], cut2[j])
  <2>1. CASE j = last
    <3>1. j - 1 = Len(lines) /\ cut2[j - 1] = left
      BY <1>1, <1>2, <1>4, <2>1 DEF IsCut
    <3> QED BY <1>1, <1>3, <1>5, <2>1, <3>1
  <2>2. CASE j # last
    <3>1. j \in 1..Len(lines) /\ j \in 0..Len(lines) /\ j - 1 \in 0..Len(lines)
      BY <1>1, <2>2
    <3> QED BY <1>1, <1>2, <1>4, <3>1 DEF IsCut
  <2> QED BY <2>1, <2>2
<1>8. \E j \in 0..last : cut2[j] = stop
  <2>1. PICK j \in 0..Len(lines) : cut[j] = stop
    BY <1>2 DEF IsCut
  <2> QED BY <1>4, <2>1
<1>9. IsCut(cut2, t, Append(lines, line), start, left2, stop)
  BY <1>1, <1>5, <1>6, <1>7, <1>8 DEF IsCut
<1> QED BY <1>9

(* A byte is read that does not end the first line.                        *)
LEMMA CutAfterByte ==
    ASSUME NEW cut, NEW s, NEW lines, Len(lines) \in Nat, NEW start \in Int, start <= 0,
           NEW left, NEW stop \in Int, stop > 0, IsCut(cut, s, lines, start, left, stop),
           NEW t, \A i \in start + 1..left : t[i - 1] = s[i], s[1] # NL
    PROVE  \E cut2 : IsCut(cut2, t, lines, start - 1, left - 1, stop - 1)
<1> DEFINE cut2 == [j \in 0..Len(lines) |-> cut[j] - 1]
<1>1. /\ \A j \in 0..Len(lines) : cut[j] \in Int /\ start <= cut[j] /\ cut[j] <= left
      /\ \A j \in 1..Len(lines) : cut[j] > 0
      /\ left \in Int
  BY CutsInOrder
<1>2. ASSUME NEW j \in 1..Len(lines)
      PROVE  cut2[j] > 0 /\ IsLine(t, lines[j], cut2[j - 1], cut2[j])
  <2>1. j - 1 \in 0..Len(lines) /\ j \in 0..Len(lines)
    OBVIOUS
  <2>2. \A i \in cut[j - 1] + 1..cut[j] : t[i - 1] = s[i]
    <3>1. /\ start <= cut[j - 1] /\ cut[j] <= left
          /\ cut[j - 1] \in Int /\ cut[j] \in Int /\ left \in Int
      BY <1>1, <2>1
    <3>2. ASSUME NEW i \in cut[j - 1] + 1..cut[j] PROVE i \in start + 1..left
      BY <3>1
    <3> QED BY <3>2
  <2>3. IsLine(s, lines[j], cut[j - 1], cut[j])
    BY DEF IsCut
  <2>4. IsLine(t, lines[j], cut[j - 1] - 1, cut[j] - 1)
    BY <2>2, <2>3, LineMoves
  <2>5. cut[j] # 1
    BY <2>3 DEF IsLine
  <2>6. cut[j] - 1 > 0
    BY <1>1, <2>1, <2>5
  <2> QED BY <2>1, <2>4, <2>6
<1>3. cut2 \in [0..Len(lines) -> Int]
  BY <1>1
<1>4. cut2[0] = start - 1 /\ cut2[Len(lines)] = left - 1
  BY DEF IsCut
<1>5. \E j \in 0..Len(lines) : cut2[j] = stop - 1
  BY DEF IsCut
<1> HIDE DEF cut2
<1> QED BY <1>2, <1>3, <1>4, <1>5 DEF IsCut

(* A byte is read that ends it: what remains is the stream of the others.   *)
LEMMA CutAfterLine ==
    ASSUME NEW cut, NEW s, NEW lines \in Seq(Sent), NEW start \in Int, start <= 0,
           NEW left, NEW stop \in Int, stop > 0, IsCut(cut, s, lines, start, left, stop),
           left > 0, s[1] = NL, NEW t, \A i \in 2..left : t[i - 1] = s[i]
    PROVE  /\ lines # <<>> /\ IsLine(s, Head(lines), start, 1)
           /\ \E cut2 : IsCut(cut2, t, Tail(lines), 0, left - 1, stop - 1)
<1> DEFINE rest == Tail(lines)
           cut2 == [j \in 0..Len(rest) |-> cut[j + 1] - 1]
<1>0. Len(lines) \in Nat
  OBVIOUS
<1>1. /\ \A j \in 0..Len(lines) : cut[j] \in Int /\ start <= cut[j] /\ cut[j] <= left
      /\ \A j \in 1..Len(lines) : cut[j - 1] < cut[j] /\ cut[j] > 0
      /\ left \in Int
  BY <1>0, CutsInOrder
<1>2. /\ 1 \in 1..Len(lines) /\ cut[1] \in 1..left /\ IsLine(s, lines[1], start, cut[1])
      /\ \A i \in 1..cut[1] - 1 : s[i] # NL
  BY <1>0, FirstLineFits
<1>3. cut[1] = 1
  BY <1>2
<1>4. lines # <<>> /\ Head(lines) = lines[1]
  BY <1>2
<1>5. /\ Len(rest) = Len(lines) - 1 /\ Len(rest) \in Nat
      /\ \A j \in 1..Len(rest) : rest[j] = lines[j + 1]
  BY <1>0, <1>2, <1>4, HeadTailProperties
<1> HIDE DEF rest
<1>6. ASSUME NEW j \in 1..Len(rest)
      PROVE  cut2[j] > 0 /\ IsLine(t, rest[j], cut2[j - 1], cut2[j])
  <2>1. /\ j - 1 \in 0..Len(rest) /\ j \in 0..Len(rest) /\ (j - 1) + 1 = j
        /\ j + 1 \in 1..Len(lines) /\ (j + 1) - 1 = j /\ j \in 1..Len(lines)
    BY <1>0, <1>5
  <2>2. cut[j] > 0 /\ cut[j] \in Int /\ cut[j + 1] \in Int /\ cut[j] < cut[j + 1] /\ cut[j + 1] <= left
    <3>1. j \in 0..Len(lines) /\ j + 1 \in 0..Len(lines)
      BY <1>0, <1>5
    <3>2. cut[(j + 1) - 1] < cut[j + 1]
      BY <1>1, <2>1
    <3> QED BY <1>1, <2>1, <3>1, <3>2
  <2>3. \A i \in cut[j] + 1..cut[j + 1] : t[i - 1] = s[i]
    BY <1>1, <2>2
  <2>4. IsLine(s, rest[j], cut[j], cut[j + 1])
    <3>1. IsLine(s, lines[j + 1], cut[(j + 1) - 1], cut[j + 1])
      BY <2>1 DEF IsCut
    <3> QED BY <1>5, <2>1, <3>1
  <2>5. IsLine(t, rest[j], cut[j] - 1, cut[j + 1] - 1)
    BY <2>3, <2>4, LineMoves
  <2>6. cut2[j - 1] = cut[j] - 1 /\ cut2[j] = cut[j + 1] - 1
    BY <2>1
  <2>7. cut2[j] > 0
    BY <2>2, <2>6
  <2> QED BY <2>5, <2>6, <2>7
<1>7. cut2 \in [0..Len(rest) -> Int]
  <2>1. \A j \in 0..Len(rest) : j + 1 \in 0..Len(lines)
    BY <1>0, <1>5
  <2> QED BY <1>1, <2>1
<1>8. cut2[0] = 0 /\ cut2[Len(rest)] = left - 1
  <2>1. 0 \in 0..Len(rest) /\ Len(rest) \in 0..Len(rest) /\ Len(rest) + 1 = Len(lines)
    BY <1>0, <1>5
  <2>2. cut[Len(lines)] = left
    BY DEF IsCut
  <2> QED BY <1>3, <2>1, <2>2
<1>9. \E j \in 0..Len(rest) : cut2[j] = stop - 1
  <2>1. PICK j \in 0..Len(lines) : cut[j] = stop
    BY DEF IsCut
  <2>2. j # 0
    BY <2>1 DEF IsCut
  <2>3. j - 1 \in 0..Len(rest) /\ (j - 1) + 1 = j
    BY <1>0, <1>5, <2>2
  <2>4. cut2[j - 1] = stop - 1
    BY <2>1, <2>3
  <2> QED BY <2>3, <2>4
<1> HIDE DEF cut2
<1>10. IsCut(cut2, t, rest, 0, left - 1, stop - 1)
  BY <1>6, <1>7, <1>8, <1>9 DEF IsCut
<1> QED BY <1>2, <1>3, <1>4, <1>10 DEF rest

(* A line with its end is cut as one. *)
LEMMA WholeLine ==
    ASSUME NEW line \in Lines, NEW end \in Ends, NEW t, NEW from \in Int,
           \A i \in 1..Len(line) + Len(end) : t[from + i] = (line \o end)[i]
    PROVE  /\ Len(line) \in Nat /\ Len(end) \in {1, 2}
           /\ IsLine(t, line, from, from + (Len(line) + Len(end)))
<1> DEFINE both == line \o end
           to == from + (Len(line) + Len(end))
<1>1. line \in Seq(Char) /\ Len(line) \in Nat /\ end \in Seq(Char)
  BY LineIs, SentIs DEF Sent
<1>2. Len(end) \in {1, 2} /\ end[Len(end)] = NL /\ (Len(end) = 2 => end[1] = CR)
  <2>1. CASE end = <<NL>>
    BY <2>1
  <2>2. CASE end = <<CR, NL>>
    BY <2>2
  <2> QED BY <2>1, <2>2 DEF Ends
<1>3. /\ \A i \in 1..Len(line) : both[i] = line[i]
      /\ both[Len(line) + Len(end)] = NL
      /\ Len(end) = 2 => both[Len(line) + 1] = CR
  <2>1. \A i \in 1..Len(line) + Len(end) :
          both[i] = IF i <= Len(line) THEN line[i] ELSE end[i - Len(line)]
    BY <1>1, ConcatProperties
  <2>2. \A i \in 1..Len(line) : i \in 1..Len(line) + Len(end) /\ i <= Len(line)
    BY <1>1, <1>2
  <2>3. ASSUME NEW n \in Nat, NEW m \in {1, 2}
        PROVE  /\ n + m \in 1..n + m /\ ~(n + m <= n) /\ (n + m) - n = m
               /\ n + 1 \in 1..n + m /\ ~(n + 1 <= n) /\ (n + 1) - n = 1
    OBVIOUS
  <2> HIDE DEF both
  <2> QED BY <1>1, <1>2, <2>1, <2>2, <2>3
<1> HIDE DEF both
<1>4. \A i \in 1..Len(line) : t[from + i] = line[i]
  <2>1. \A i \in 1..Len(line) : i \in 1..Len(line) + Len(end)
    BY <1>1, <1>2
  <2> QED BY <1>3, <2>1 DEF both
<1>5. \A i \in Len(line) + 1..(to - from) - 1 : t[from + i] = CR
  <2>1. ASSUME NEW i \in Len(line) + 1..(to - from) - 1 PROVE t[from + i] = CR
    <3>1. i = Len(line) + 1 /\ Len(end) = 2 /\ i \in 1..Len(line) + Len(end)
      BY <1>1, <1>2
    <3> QED BY <1>3, <3>1 DEF both
  <2> QED BY <2>1
<1>6. t[to] = NL
  <2>1. Len(line) + Len(end) \in 1..Len(line) + Len(end)
    BY <1>1, <1>2
  <2> QED BY <1>3, <2>1 DEF both
<1>7. to \in Int /\ to - from \in {Len(line) + 1, Len(line) + 2}
  <2>1. to - from = Len(line) + Len(end) /\ to \in Int
    BY <1>1, <1>2
  <2> QED BY <1>2, <2>1
<1> HIDE DEF to
<1>8. IsLine(t, line, from, to)
  BY <1>4, <1>5, <1>6, <1>7 DEF IsLine
<1> QED BY <1>1, <1>2, <1>8 DEF to

-----------------------------------------------------------------------------
(* The bytes of the lines that wait to be processed, or are being read:     *)
(* those fgets has put in the buffer at the places up to 0, those in the    *)
(* OUT bank and those the host has still to send after them.                *)

Start == IF pc = "get" THEN 0 - count ELSE 0
Left == Len(out) + Len(writing)
At(i) == IF i <= 0 THEN inBuf[count + i]
         ELSE IF i <= Len(out) THEN out[i] ELSE writing[i - Len(out)]
Stream == [i \in Start + 1..Left |-> At(i)]

(* The line that is processed is not one of them any more. *)
Pending == IF pc = "process" THEN Tail(expected) ELSE expected

(* They are the lines the host expects to be processed, whole; the bank     *)
(* ends where one of them ends; and what is processed is the first.         *)
InLines ==
    WholeWrites =>
        /\ ~open => out = <<>>
        /\ Len(writing) <= Bank
        /\ pc = "process" => expected # <<>> /\ Text(inBuf) = Head(expected)
        /\ \E cut : IsCut(cut, Stream, Pending, Start, Left, Len(out))

LEMMA StreamTypes ==
    ASSUME LinkTypes, Room, Inward
    PROVE  /\ Start \in Int /\ Start <= 0 /\ Left \in Nat
           /\ Len(out) \in Nat /\ Len(writing) \in Nat /\ count \in Nat
           /\ expected \in Seq(Sent) /\ Len(expected) \in Nat
           /\ pc # "process" => Pending = expected
<1>1. Len(out) \in Nat /\ Len(writing) \in Nat /\ count \in Nat /\ Len(expected) \in Nat
  BY DEF Room, Inward
<1> QED BY <1>1 DEF Start, Left, Pending, Inward

(* What leaves the bytes alone, and neither begins nor ends the reading of  *)
(* a line, leaves the cuts alone.                                          *)
LEMMA StreamStays ==
    ASSUME LinkTypes, Room, Inward, InLines, pc # "process", pc' # "process",
           UNCHANGED <<out, writing, expected, faults>>, ~open' => out = <<>>,
           Start' = Start, Start = 0 \/ UNCHANGED <<inBuf, count>>
    PROVE  InLines'
<1> SUFFICES ASSUME WholeWrites
             PROVE  \E cut : IsCut(cut, Stream', Pending', Start', Left', Len(out'))
  BY DEF InLines, WholeWrites
<1>1. PICK cut : IsCut(cut, Stream, Pending, Start, Left, Len(out))
  BY DEF InLines
<1>2. Start' = Start /\ Left' = Left /\ out' = out /\ Pending' = Pending
  BY DEF Left, Pending
<1>3. \A i \in Start + 1..Left : At(i)' = At(i)
  <2>1. \A i \in Start + 1..Left : i <= 0 => Start # 0
    BY StreamTypes
  <2> QED BY <2>1 DEF At
<1>4. Stream' = Stream
  <2>1. Stream' = [i \in Start' + 1..Left' |-> At(i)']
    BY DEF Stream
  <2> QED BY <1>2, <1>3, <2>1, Zenon DEF Stream
<1> QED BY <1>1, <1>2, <1>4

(* A byte is read. *)
LEMMA ByteRead ==
    ASSUME LinkTypes, Room, Inward, InLines, pc = "get", out # <<>>,
           out' = Tail(out), count' = count + 1, UNCHANGED <<writing, expected, faults, open>>,
           WholeWrites, open,
           LET buf == [inBuf EXCEPT ![count + 1] = Head(out)] IN
           IF Head(out) = NL \/ count' = BufSize - 1
           THEN pc' = "process" /\ inBuf' = Stripped([buf EXCEPT ![count' + 1] = Nul])
           ELSE pc' = "get" /\ inBuf' = buf
    PROVE  InLines'
<1> DEFINE buf == [inBuf EXCEPT ![count + 1] = Head(out)]
<1>1. PICK cut : IsCut(cut, Stream, expected, Start, Left, Len(out))
  BY StreamTypes DEF InLines
<1>2. /\ Start = 0 - count /\ Start \in Int /\ Start <= 0 /\ count \in Nat /\ count <= BufSize - 2
      /\ Left = Len(out) + Len(writing) /\ Len(writing) \in Nat
      /\ expected \in Seq(Sent) /\ Len(expected) \in Nat
      /\ Left \in Nat
  BY StreamTypes DEF Start, Left, Room
<1>3. /\ Len(out) \in Nat /\ Len(out) >= 1 /\ Head(out) = out[1]
      /\ Len(Tail(out)) = Len(out) - 1
      /\ \A i \in 1..Len(out) - 1 : Tail(out)[i] = out[i + 1]
  <2>1. out \in Seq(Char)
    BY DEF Inward
  <2>2. Len(out) \in Nat /\ Len(out) # 0
    BY <2>1, EmptySeq
  <2>3. Tail(out) \in Seq(Char) /\ Len(Tail(out)) = Len(out) - 1
        /\ \A i \in 1..Len(Tail(out)) : Tail(out)[i] = out[i + 1]
    BY <2>1, HeadTailProperties
  <2> QED BY <2>1, <2>2, <2>3
<1>4. Left' = Left - 1 /\ Len(out') = Len(out) - 1 /\ Left > 0
  BY <1>2, <1>3 DEF Left
<1>5. Stream[1] = Head(out)
  BY <1>2, <1>3 DEF Stream, At
<1>6. \A i \in 1..count : Stream[Start + i] = inBuf[i]
  <2>1. ASSUME NEW i \in 1..count PROVE Stream[Start + i] = inBuf[i]
    <3>1. Start + i \in Start + 1..Left /\ Start + i <= 0 /\ count + (Start + i) = i
      BY <1>2
    <3> QED BY <3>1 DEF Stream, At
  <2> QED BY <2>1
<1>7. inBuf = [n \in 1..BufSize |-> inBuf[n]] /\ IsString(inBuf) /\ DOMAIN inBuf = 1..BufSize
  <2>1. inBuf = [n \in 1..BufSize |-> inBuf[n]]
    BY DEF Room, IsString
  <2>2. DOMAIN [n \in 1..BufSize |-> inBuf[n]] = 1..BufSize
    BY Zenon
  <2> QED BY <2>1, <2>2 DEF Room
<1>8. count + 1 \in 1..BufSize /\ count + 1 # BufSize /\ count + 2 \in 1..BufSize
      /\ 1..count \subseteq 1..BufSize
  BY <1>2, Sizes
<1>9. buf[count + 1] = Head(out) /\ \A i \in 1..count : buf[i] = inBuf[i]
  BY <1>2, <1>7, <1>8
<1>10. DOMAIN buf = 1..BufSize /\ IsString(buf)
  BY <1>7, <1>8, WriteKeepsEnd
<1>11. \A i \in 2..Left : At(i - 1)' = Stream[i]
  <2>1. ASSUME NEW i \in 2..Left PROVE At(i - 1)' = Stream[i]
    <3>1. i \in Start + 1..Left /\ i - 1 >= 1
      BY <1>2
    <3>2. Stream[i] = IF i <= Len(out) THEN out[i] ELSE writing[i - Len(out)]
      BY <1>2, <3>1 DEF Stream, At
    <3>3. At(i - 1)' = IF i - 1 <= Len(out) - 1 THEN Tail(out)[i - 1]
                       ELSE writing[(i - 1) - (Len(out) - 1)]
      BY <1>4, <3>1 DEF At
    <3>4. CASE i <= Len(out)
      <4>1. i - 1 \in 1..Len(out) - 1 /\ (i - 1) + 1 = i
        BY <1>3, <3>4
      <4>2. Tail(out)[i - 1] = out[i]
        BY <1>3, <4>1
      <4> QED BY <3>2, <3>3, <3>4, <4>1, <4>2
    <3>5. CASE ~(i <= Len(out))
      <4>1. ~(i - 1 <= Len(out) - 1) /\ (i - 1) - (Len(out) - 1) = i - Len(out)
        BY <1>3, <3>5
      <4> QED BY <3>2, <3>3, <3>5, <4>1
    <3> QED BY <3>4, <3>5
  <2> QED BY <2>1
<1> HIDE DEF buf
<1>12. CASE Head(out) = NL
  <2>1. \A i \in 2..Left : Stream'[i - 1] = Stream[i]
    <3>1. pc' = "process"
      BY <1>12
    <3>2. Stream' = [i \in 1..Left - 1 |-> At(i)']
      <4>1. Stream' = [i \in Start' + 1..Left' |-> At(i)']
        BY DEF Stream
      <4>2. Start' + 1 = 1
        BY <3>1 DEF Start
      <4> QED BY <1>4, <4>1, <4>2
    <3>3. \A i \in 2..Left : i - 1 \in 1..Left - 1
      BY <1>2
    <3> QED BY <1>11, <3>2, <3>3
  <2>2. /\ expected # <<>> /\ IsLine(Stream, Head(expected), Start, 1)
        /\ \E cut2 : IsCut(cut2, Stream', Tail(expected), 0, Left - 1, Len(out) - 1)
    <3> HIDE DEF At, Start, Left, Stream
    <3>1. Len(out) \in Int /\ Len(out) > 0
      BY <1>3
    <3>2. Stream[1] = NL
      BY <1>5, <1>12
    <3>3. /\ Start \in Int /\ Start <= 0 /\ Left > 0 /\ expected \in Seq(Sent)
      BY <1>2, <1>4
    <3> QED BY <1>1, <2>1, <3>1, <3>2, <3>3, CutAfterLine
  <2>3. pc' = "process" /\ inBuf' = Stripped([buf EXCEPT ![count + 2] = Nul])
    <3>1. count' + 1 = count + 2
      BY <1>2
    <3> QED BY <1>12, <3>1 DEF buf
  <2>4. Text(inBuf') = Head(expected)
    <3> DEFINE line == Head(expected)
               whole == [buf EXCEPT ![count + 2] = Nul]
               n == count + 1
    <3>1. /\ line \in Lines /\ Len(line) \in Nat /\ n \in {Len(line) + 1, Len(line) + 2}
          /\ \A i \in 1..Len(line) : Stream[Start + i] = line[i]
          /\ \A i \in Len(line) + 1..n - 1 : Stream[Start + i] = CR
      <4>1. 1 - Start = n
        BY <1>2
      <4>2. /\ line \in Lines /\ n \in {Len(line) + 1, Len(line) + 2}
            /\ \A i \in 1..Len(line) : Stream[Start + i] = line[i]
            /\ \A i \in Len(line) + 1..n - 1 : Stream[Start + i] = CR
        BY <2>2, <4>1 DEF IsLine
      <4> HIDE DEF line, n
      <4>3. Len(line) \in Nat
        BY <4>2, LineIs
      <4> QED BY <4>2, <4>3
    <3> HIDE DEF line
    <3>2. IsString(whole)
      BY <1>8, <1>10, WriteKeepsEnd
    <3>3. /\ whole[count + 1] = NL /\ whole[(count + 1) + 1] = Nul
          /\ \A i \in 1..count : whole[i] = inBuf[i]
      BY <1>2, <1>8, <1>9, <1>10, <1>12
    <3> HIDE DEF whole
    <3>4. \A i \in 1..Len(line) : whole[i] = line[i]
      <4>1. \A i \in 1..Len(line) : i \in 1..count
        BY <1>2, <3>1
      <4> QED BY <1>6, <3>1, <3>3, <4>1
    <3>5. \A i \in Len(line) + 1..n - 1 : whole[i] = CR
      <4>1. \A i \in Len(line) + 1..n - 1 : i \in 1..count
        BY <1>2, <3>1
      <4> QED BY <1>6, <3>1, <3>3, <4>1
    <3>6. Text(Stripped(whole)) = line
      BY <3>1, <3>2, <3>3, <3>4, <3>5, LineIsLeft
    <3> QED BY <2>3, <3>6 DEF whole, line
  <2>5. Start' = 0 /\ Pending' = Tail(expected)
    BY <2>3 DEF Start, Pending
  <2> QED BY <1>4, <2>2, <2>3, <2>4, <2>5 DEF InLines
<1>13. CASE Head(out) # NL
  <2>1. count + 1 # BufSize - 1
    <3>1. ASSUME NEW c, c \in 1..Left, c <= BufSize - 1 + Start, Stream[c] = NL
          PROVE  count + 1 # BufSize - 1
      <4>1. c # 1
        BY <1>5, <1>13, <3>1
      <4> QED BY <1>2, <3>1, <4>1, Sizes
    <3>2. cut[1] \in 1..Left /\ cut[1] <= BufSize - 1 + Start /\ Stream[cut[1]] = NL
      <4> HIDE DEF At, Start, Left, Stream
      <4> QED BY <1>1, <1>2, <1>4, FirstLineFits
    <3> QED BY <3>1, <3>2
  <2>2. pc' = "get" /\ inBuf' = buf
    BY <1>13, <2>1 DEF buf
  <2>3. Start' = Start - 1 /\ Pending' = expected
    BY <1>2, <2>2 DEF Start, Pending
  <2>4. \A i \in Start + 1..Left : At(i - 1)' = Stream[i]
    <3>1. ASSUME NEW i \in Start + 1..Left, i <= 1 PROVE At(i - 1)' = Stream[i]
      <4>1. i - 1 <= 0 /\ (count + 1) + (i - 1) = count + i /\ count + i \in 1..count + 1
        BY <1>2, <3>1
      <4>2. At(i - 1)' = buf[count + i]
        BY <2>2, <4>1 DEF At
      <4>3. CASE i = 1
        <5>1. count + i = count + 1
          BY <4>3
        <5> QED BY <1>5, <1>9, <4>2, <4>3, <5>1
      <4>4. CASE i # 1
        <5>1. i <= 0 /\ count + i \in 1..count
          BY <1>2, <3>1, <4>4
        <5>2. Stream[i] = inBuf[count + i]
          BY <5>1 DEF Stream, At
        <5> QED BY <1>9, <4>2, <5>1, <5>2
      <4> QED BY <4>3, <4>4
    <3>2. \A i \in Start + 1..Left : ~(i <= 1) => i \in 2..Left
      BY <1>2
    <3> QED BY <1>11, <3>1, <3>2
  <2>5. \A i \in Start + 1..Left : Stream'[i - 1] = Stream[i]
    <3>1. Stream' = [i \in Start' + 1..Left' |-> At(i)']
      BY DEF Stream
    <3>2. \A i \in Start + 1..Left : i - 1 \in Start' + 1..Left'
      BY <1>2, <1>4, <2>3
    <3> QED BY <2>4, <3>1, <3>2
  <2>6. \E cut2 : IsCut(cut2, Stream', expected, Start - 1, Left - 1, Len(out) - 1)
    <3> HIDE DEF At, Start, Left, Stream
    <3>1. Len(out) \in Int /\ Len(out) > 0
      BY <1>3
    <3> QED BY <1>1, <1>2, <1>5, <1>13, <2>5, <3>1, CutAfterByte
  <2> QED BY <1>4, <2>2, <2>3, <2>6 DEF InLines
<1> QED BY <1>12, <1>13

(* What is appended to a sequence that is not empty does not change its     *)
(* head, and is appended to its tail.                                       *)
LEMMA AppendToTail ==
    ASSUME NEW S, NEW seq \in Seq(S), seq # <<>>, NEW x \in S
    PROVE  /\ Append(seq, x) \in Seq(S) /\ Append(seq, x) # <<>>
           /\ Head(Append(seq, x)) = Head(seq) /\ Tail(seq) \in Seq(S)
           /\ Tail(Append(seq, x)) = Append(Tail(seq), x)
OBVIOUS

(* The host sends a line or two.                                            *)
LEMMA LineSent ==
    ASSUME LinkTypes, Room, Inward, InLines, HostWrite, UNCHANGED faults PROVE InLines'
<1> SUFFICES ASSUME WholeWrites PROVE InLines'
  BY DEF InLines, WholeWrites
<1>0. "long" \notin faults
  BY DEF WholeWrites
<1>1. /\ pc' = pc /\ open' = open /\ open /\ out' = out /\ writing = <<>>
      /\ UNCHANGED <<inBuf, count>> /\ Len(writing') <= Bank
  BY <1>0 DEF HostWrite, buffer
<1>2. PICK first, second \in Lines, end, end2 \in Ends :
         \/ writing' = first \o end /\ expected' = Append(expected, first)
         \/ /\ writing' = first \o end \o second \o end2
            /\ expected' = Append(Append(expected, first), second)
  <2>1. Lines \cup (IF "long" \in faults THEN LongLines ELSE {}) = Lines
    BY <1>0
  <2> QED BY <2>1 DEF HostWrite
<1>3. Inward'
  BY InwardStep DEF Next
<1>4. first \in Sent /\ second \in Sent
  BY DEF Sent
<1>5. /\ first \in Seq(Char) /\ end \in Seq(Char) /\ second \in Seq(Char) /\ end2 \in Seq(Char)
      /\ first \o end \in Seq(Char) /\ second \o end2 \in Seq(Char)
      /\ Len(first \o end) = Len(first) + Len(end)
      /\ Len(second \o end2) = Len(second) + Len(end2)
  BY <1>4, SentIs, ConcatProperties
<1>6. Start' = Start /\ Left = Len(out) /\ Left \in Nat /\ Left' = Left + Len(writing')
  BY <1>1, StreamTypes DEF Start, Left
<1>7. /\ \A i \in Start + 1..Left : Stream'[i] = Stream[i]
      /\ \A i \in 1..Len(writing') : Stream'[Left + i] = writing'[i]
  <2>1. Len(writing') \in Nat /\ Start \in Int /\ Start <= 0
    BY <1>3, StreamTypes DEF Inward
  <2>2. Stream' = [i \in Start + 1..Left + Len(writing') |-> At(i)']
    <3>1. Stream' = [i \in Start' + 1..Left' |-> At(i)']
      BY DEF Stream
    <3> QED BY <1>6, <3>1
  <2>3. ASSUME NEW i \in Start + 1..Left PROVE Stream'[i] = Stream[i]
    <3>1. i \in Start + 1..Left + Len(writing') /\ (i <= 0 \/ i <= Len(out))
      BY <1>6, <2>1
    <3>2. At(i)' = At(i)
      BY <1>1, <3>1 DEF At
    <3> QED BY <2>2, <3>1, <3>2 DEF Stream
  <2>4. ASSUME NEW k \in Left + 1..Left + Len(writing') PROVE Stream'[k] = writing'[k - Left]
    <3>1. /\ k \in Start + 1..Left + Len(writing')
          /\ ~(k <= 0) /\ ~(k <= Len(out)) /\ k - Len(out) = k - Left
      BY <1>6, <2>1
    <3>2. At(k)' = writing'[k - Left]
      BY <1>1, <3>1 DEF At
    <3> QED BY <2>2, <3>1, <3>2
  <2>5. \A i \in 1..Len(writing') : Left + i \in Left + 1..Left + Len(writing') /\ (Left + i) - Left = i
    BY <1>6, <2>1
  <2> QED BY <2>3, <2>4, <2>5
<1>8. /\ expected \in Seq(Sent)
      /\ pc = "process" => expected # <<>>
      /\ Pending \in Seq(Sent)
  <2>1. expected \in Seq(Sent) /\ (pc = "process" => expected # <<>>)
    BY DEF Inward, InLines
  <2> QED BY <2>1, AppendToTail DEF Pending
<1>9. PICK cut : IsCut(cut, Stream, Pending, Start, Left, Len(out))
  BY DEF InLines
<1> DEFINE to == Left + (Len(first) + Len(end))
<1>10. ASSUME \A i \in 1..Len(first) + Len(end) : Stream'[Left + i] = (first \o end)[i]
       PROVE  /\ to \in Nat
              /\ \E cut1 : IsCut(cut1, Stream', Append(Pending, first), Start, to, Len(out))
  <2> HIDE DEF Stream, Pending, Start, Left
  <2>1. /\ Len(first) \in Nat /\ Len(end) \in {1, 2}
        /\ IsLine(Stream', first, Left, Left + (Len(first) + Len(end)))
    <3>1. Left \in Int
      BY <1>6
    <3> QED BY <1>10, <3>1, WholeLine
  <2>2. to \in Nat
    BY <1>6, <2>1
  <2> HIDE DEF to
  <2>3. IsLine(Stream', first, Left, to)
    BY <2>1 DEF to
  <2>4. Start \in Int /\ Start <= 0 /\ Left \in Nat
    BY StreamTypes
  <2>5. \A i \in Start + 1..Left : Stream'[i] = Stream[i]
    BY <1>7
  <2>6. \E cut1 : IsCut(cut1, Stream', Append(Pending, first), Start, to, Len(out))
    <3>1. Pending \in Seq(Sent) /\ first \in Sent
      BY <1>4, <1>8
    <3> QED BY <1>9, <2>3, <2>4, <2>5, <3>1, CutGrows
  <2> QED BY <2>2, <2>6
<1>11. ASSUME NEW lines, lines # <<>>,
              pc = "process" => expected' # <<>> /\ Head(expected') = Head(expected),
              Pending' = lines, NEW left, Left' = left,
              \E cut1 : IsCut(cut1, Stream', lines, Start, left, Len(out))
       PROVE  InLines'
  <2>1. pc' = "process" => expected' # <<>> /\ Text(inBuf)' = Head(expected')
    BY <1>1, <1>11 DEF InLines, Text
  <2> QED BY <1>1, <1>6, <1>11, <2>1 DEF InLines
<1>12. CASE writing' = first \o end /\ expected' = Append(expected, first)
  <2>1. /\ pc = "process" => expected' # <<>> /\ Head(expected') = Head(expected)
        /\ Pending' = Append(Pending, first) /\ Append(Pending, first) # <<>>
    BY <1>1, <1>4, <1>8, <1>12, AppendToTail DEF Pending
  <2>2. Left' = to
    BY <1>5, <1>6, <1>12
  <2>3. \A i \in 1..Len(first) + Len(end) : Stream'[Left + i] = (first \o end)[i]
    BY <1>5, <1>7, <1>12
  <2> HIDE DEF Stream, Pending, Start, Left, to
  <2> QED BY <1>10, <1>11, <2>1, <2>2, <2>3
<1>13. CASE /\ writing' = first \o end \o second \o end2
            /\ expected' = Append(Append(expected, first), second)
  <2> DEFINE a == first \o end
             b == second \o end2
             all == to + (Len(second) + Len(end2))
             more == Append(Pending, first)
  <2>1. writing' = a \o b
    <3>1. a \in Seq(Char)
      BY <1>5
    <3> HIDE DEF a
    <3>2. \A u, v, w \in Seq(Char) : (u \o v) \o w = u \o (v \o w)
      BY ConcatAssociative
    <3>3. (a \o second) \o end2 = a \o (second \o end2)
      BY <1>5, <3>1, <3>2, Zenon
    <3> QED BY <1>13, <3>3 DEF a
  <2>2. /\ a \in Seq(Char) /\ b \in Seq(Char)
        /\ Len(a) = Len(first) + Len(end) /\ Len(b) = Len(second) + Len(end2)
        /\ Len(a) \in Nat /\ Len(b) \in Nat
    BY <1>5
  <2> HIDE DEF a, b
  <2>3. /\ Len(writing') = Len(a) + Len(b)
        /\ \A i \in 1..Len(a) : writing'[i] = a[i]
        /\ \A i \in 1..Len(b) : writing'[Len(a) + i] = b[i]
    <3>1. \A i \in 1..Len(a) + Len(b) : (a \o b)[i] = IF i <= Len(a) THEN a[i] ELSE b[i - Len(a)]
      BY <2>2, ConcatProperties
    <3>2. \A i \in 1..Len(b) :
            Len(a) + i \in 1..Len(a) + Len(b) /\ ~(Len(a) + i <= Len(a)) /\ (Len(a) + i) - Len(a) = i
      BY <2>2
    <3>3. \A i \in 1..Len(a) : i \in 1..Len(a) + Len(b) /\ i <= Len(a)
      BY <2>2
    <3>4. Len(a \o b) = Len(a) + Len(b)
      BY <2>2, ConcatProperties
    <3> QED BY <2>1, <3>1, <3>2, <3>3, <3>4
  <2>4. \A i \in 1..Len(first) + Len(end) : Stream'[Left + i] = (first \o end)[i]
    <3>1. \A i \in 1..Len(a) : i \in 1..Len(writing')
      BY <2>2, <2>3
    <3> QED BY <1>7, <2>2, <2>3, <3>1 DEF a
  <2>5. to \in Nat /\ \E cut1 : IsCut(cut1, Stream', more, Start, to, Len(out))
    <3> HIDE DEF Stream, Pending, Start, Left, to
    <3> QED BY <1>10, <2>4
  <2>6. IsLine(Stream', second, to, all)
    <3>1. ASSUME NEW i \in 1..Len(b) PROVE Stream'[to + i] = b[i]
      <4>1. to + i = Left + (Len(a) + i) /\ Len(a) + i \in 1..Len(writing')
        BY <1>6, <2>2, <2>3
      <4> HIDE DEF Stream, Left, to
      <4> QED BY <1>7, <2>3, <4>1
    <3>2. \A i \in 1..Len(second) + Len(end2) : Stream'[to + i] = (second \o end2)[i]
      BY <2>2, <3>1 DEF b
    <3>3. to \in Int
      BY <2>5
    <3> HIDE DEF Stream, to
    <3> QED BY <3>2, <3>3, WholeLine
  <2>7. /\ more \in Seq(Sent) /\ Append(more, second) # <<>>
        /\ Pending' = Append(more, second)
        /\ pc = "process" => expected' # <<>> /\ Head(expected') = Head(expected)
    <3>1. more \in Seq(Sent)
      BY <1>4, <1>8, AppendProperties
    <3>2. Append(more, second) # <<>>
      BY <1>4, <3>1, AppendProperties
    <3>3. CASE pc = "process"
      <4>1. /\ Append(expected, first) \in Seq(Sent) /\ Append(expected, first) # <<>>
            /\ Head(Append(expected, first)) = Head(expected)
            /\ Tail(Append(expected, first)) = Append(Tail(expected), first)
        BY <1>4, <1>8, <3>3, AppendToTail
      <4> DEFINE e == Append(expected, first)
      <4> HIDE DEF e
      <4>2. /\ Append(e, second) # <<>> /\ Head(Append(e, second)) = Head(e)
            /\ Tail(Append(e, second)) = Append(Tail(e), second)
        BY <1>4, <4>1, AppendToTail DEF e
      <4> QED BY <1>1, <1>13, <3>1, <3>2, <3>3, <4>1, <4>2 DEF Pending, e
    <3>4. CASE pc # "process"
      BY <1>1, <1>13, <3>1, <3>2, <3>4 DEF Pending
    <3> QED BY <3>3, <3>4
  <2>8. Left' = all
    BY <1>5, <1>6, <2>2, <2>3
  <2>9. \E cut2 : IsCut(cut2, Stream', Append(more, second), Start, all, Len(out))
    <3>1. \A i \in Start + 1..to : Stream'[i] = Stream'[i]
      OBVIOUS
    <3> HIDE DEF Stream, Pending, Start, Left, to, all, more
    <3> QED BY <1>4, <2>5, <2>6, <2>7, <3>1, StreamTypes, CutGrows
  <2> HIDE DEF Stream, Pending, Start, Left, to, all, more
  <2> QED BY <1>11, <2>7, <2>8, <2>9
<1> QED BY <1>2, <1>12, <1>13

(* A packet of whole lines comes.                                           *)
LEMMA PacketSent ==
    ASSUME LinkTypes, Room, Inward, InLines, HostPacket, UNCHANGED faults PROVE InLines'
<1> SUFFICES ASSUME WholeWrites
             PROVE  InLines'
  BY DEF InLines, WholeWrites
<1>1. PICK n \in 1..Len(writing) :
         /\ n = Len(writing)
         /\ out' = SubSeq(writing, 1, n)
         /\ writing' = SubSeq(writing, n + 1, Len(writing))
  <2>1. "pieces" \notin faults
    BY DEF WholeWrites
  <2>2. Len(writing) \in Nat /\ Len(writing) <= Bank
    BY DEF Inward, InLines
  <2> QED BY <2>1, <2>2, Sizes DEF HostPacket
<1>2. open /\ open' = open /\ out = <<>> /\ writing # <<>>
      /\ UNCHANGED <<pc, inBuf, count, expected>>
  BY DEF HostPacket, buffer
<1>3. /\ Len(writing) \in Nat /\ Len(out) = 0
      /\ \A i \in 1..Len(writing) : writing[i] \in Char
  BY <1>2 DEF Inward
<1>4. /\ Len(out') = n /\ \A i \in 1..n : out'[i] = writing[i]
      /\ Len(writing') = Len(writing) - n
      /\ \A i \in 1..Len(writing) - n : writing'[i] = writing[n + i]
  <2>1. \A i \in 1..n : writing[i] \in Char
    BY <1>3
  <2>2. \A i \in n + 1..Len(writing) : writing[i] \in Char
    BY <1>3
  <2>3. /\ Len(SubSeq(writing, 1, n)) = IF 1 <= n THEN n - 1 + 1 ELSE 0
        /\ \A i \in 1..n - 1 + 1 : SubSeq(writing, 1, n)[i] = writing[1 + i - 1]
    BY <2>1, SubSeqProperties
  <2>4. /\ Len(SubSeq(writing, n + 1, Len(writing)))
             = IF n + 1 <= Len(writing) THEN Len(writing) - (n + 1) + 1 ELSE 0
        /\ \A i \in 1..Len(writing) - (n + 1) + 1 :
             SubSeq(writing, n + 1, Len(writing))[i] = writing[n + 1 + i - 1]
    BY <1>3, <2>2, SubSeqProperties
  <2>5. \A i \in 1..n : 1 + i - 1 = i /\ i \in 1..n - 1 + 1
    OBVIOUS
  <2>6. \A i \in 1..Len(writing) - n : n + 1 + i - 1 = n + i /\ i \in 1..Len(writing) - (n + 1) + 1
    BY <1>3
  <2> QED BY <1>1, <1>3, <2>3, <2>4, <2>5, <2>6
<1>5. Start' = Start /\ Left' = Left /\ Left = Len(writing) /\ Pending' = Pending /\ Left > 0
  <2>1. Len(writing) > 0
    BY <1>1, <1>3
  <2> QED BY <1>2, <1>3, <1>4, <2>1 DEF Start, Left, Pending
<1>6. \A i \in Start + 1..Left : At(i)' = At(i)
  <2>1. ASSUME NEW i \in Start + 1..Left PROVE At(i)' = At(i)
    <3>1. i \in Int
      BY StreamTypes
    <3>2. CASE i <= 0
      BY <1>2, <3>2 DEF At
    <3>3. CASE i \in 1..n
      <4>1. ~(i <= 0) /\ i <= n /\ ~(i <= Len(out)) /\ i - Len(out) = i
        BY <1>3, <3>3
      <4> QED BY <1>4, <3>3, <4>1 DEF At
    <3>4. CASE i > n
      <4>1. /\ ~(i <= 0) /\ ~(i <= n) /\ ~(i <= Len(out)) /\ i - Len(out) = i
            /\ i - n \in 1..Len(writing) - n /\ n + (i - n) = i
        BY <1>3, <1>5, <3>1, <3>4
      <4> QED BY <1>4, <4>1 DEF At
    <3> QED BY <3>1, <3>2, <3>3, <3>4
  <2> QED BY <2>1
<1>7. Stream' = Stream
  <2>1. Stream' = [i \in Start' + 1..Left' |-> At(i)']
    BY DEF Stream
  <2> QED BY <1>5, <1>6, <2>1, Zenon DEF Stream
<1>9. PICK cut : IsCut(cut, Stream, Pending, Start, Left, Len(out))
  BY DEF InLines
<1>10. Len(Pending) \in Nat
  <2>1. pc = "process" => expected # <<>>
    BY DEF InLines
  <2>2. expected # <<>> => Tail(expected) \in Seq(Sent)
    BY HeadTailProperties DEF Inward
  <2> QED BY <2>1, <2>2, StreamTypes DEF Pending
<1>11. \E j \in 0..Len(Pending) : cut[j] = n
  <2> HIDE DEF At, Start, Left, Stream, Pending
  <2>1. cut[Len(Pending)] = n /\ Len(Pending) \in 0..Len(Pending)
    BY <1>1, <1>5, <1>9, <1>10 DEF IsCut
  <2> QED BY <2>1
<1>12. IsCut(cut, Stream, Pending, Start, Left, n)
  <2> HIDE DEF At, Start, Left, Stream, Pending
  <2> QED BY <1>9, <1>10, <1>11, SameCut, StreamTypes
<1>13. pc' = "process" => expected' # <<>> /\ Text(inBuf') = Head(expected')
  <2>1. Text(inBuf)' = Text(inBuf)
    BY <1>2 DEF Text
  <2> QED BY <1>2, <2>1 DEF InLines
<1>14. Len(writing') <= Bank
  BY <1>1, <1>3, <1>4, Sizes
<1> QED BY <1>2, <1>4, <1>5, <1>7, <1>12, <1>13, <1>14 DEF InLines

(* Every step keeps the bytes in lines. *)
LEMMA InLinesStep ==
    ASSUME LinkTypes, Room, Inward, InLines, [Next]_vars PROVE InLines'
<1> SUFFICES ASSUME WholeWrites PROVE InLines'
  <2>1. faults' = faults
    BY DEF Next, vars
  <2> QED BY <2>1 DEF InLines, WholeWrites
<1>0. /\ faults' = faults
      /\ ~open => out = <<>>
      /\ Len(writing) <= Bank
      /\ pc = "process" => expected # <<>> /\ Text(inBuf) = Head(expected)
  BY DEF Next, vars, InLines, WholeWrites
<1>1. CASE GetPacket
  <2>1. pc = "get" /\ UNCHANGED <<writing, expected, open>>
    BY <1>1 DEF GetPacket, outward
  <2>2. CASE open /\ out # <<>>
    <3>1. /\ out' = Tail(out) /\ count' = count + 1
          /\ LET buf == [inBuf EXCEPT ![count + 1] = Head(out)] IN
             IF Head(out) = NL \/ count' = BufSize - 1
             THEN pc' = "process" /\ inBuf' = Stripped([buf EXCEPT ![count' + 1] = Nul])
             ELSE pc' = "get" /\ inBuf' = buf
      BY <1>1, <2>2 DEF GetPacket
    <3> QED BY <1>0, <2>1, <2>2, <3>1, ByteRead
  <2>3. CASE ~open \/ out = <<>>
    <3>1. out = <<>>
      BY <1>0, <2>3
    <3>2. count = 0
      <4>1. PICK cut : IsCut(cut, Stream, Pending, Start, Left, Len(out))
        BY DEF InLines
      <4>2. PICK j \in 0..Len(Pending) : cut[j] = 0
        BY <3>1, <4>1 DEF IsCut
      <4>3. j = 0
        BY <2>1, <4>1, <4>2, StreamTypes DEF IsCut
      <4>4. 0 - count = 0
        BY <2>1, <4>1, <4>2, <4>3 DEF IsCut, Start
      <4> QED BY <4>4, StreamTypes
    <3>3. pc' = "flush" /\ UNCHANGED <<inBuf, count, out>>
      BY <1>1, <2>3, <3>2 DEF GetPacket, buffer
    <3>4. Start' = Start
      BY <3>2, <3>3 DEF Start
    <3> QED BY <1>0, <2>1, <3>3, <3>4, StreamStays
  <2> QED BY <2>2, <2>3
<1>2. CASE ProcessPacket
  <2>1. /\ pc = "process" /\ pc' \in {"send", "flush"}
        /\ expected' = Tail(expected)
        /\ UNCHANGED <<inBuf, count, out, writing, open>>
    BY <1>0, <1>2 DEF ProcessPacket, Fprintf, buffer
  <2>2. Start = 0 /\ Start' = 0 /\ Left' = Left /\ Pending' = Pending
    BY <2>1 DEF Start, Left, Pending
  <2>3. Stream' = Stream
    <3>1. Stream' = [i \in Start' + 1..Left' |-> At(i)']
      BY DEF Stream
    <3>2. \A i \in Start + 1..Left : At(i)' = At(i)
      BY <2>1 DEF At
    <3> QED BY <2>2, <3>1, <3>2, Zenon DEF Stream
  <2> QED BY <1>0, <2>1, <2>2, <2>3 DEF InLines
<1>3. CASE Session
  <2>1. pc' = pc /\ pc \notin {"get", "process"} /\ out' = <<>> /\ writing' = <<>> /\ expected' = <<>>
    <3>1. "drops" \notin faults
      BY DEF WholeWrites
    <3> QED BY <1>3, <3>1 DEF Session
  <2>2. Start' = 0 /\ Left' = 0 /\ Pending' = <<>> /\ Len(out') = 0
    BY <2>1 DEF Start, Left, Pending
  <2> DEFINE cut == [j \in 0..0 |-> 0]
  <2>3. cut \in [0..0 -> Int] /\ cut[0] = 0 /\ Len(<<>>) = 0
    OBVIOUS
  <2> HIDE DEF cut
  <2>4. IsCut(cut, Stream', <<>>, 0, 0, 0)
    <3>1. \A j \in 1..0 : FALSE
      OBVIOUS
    <3> QED BY <2>3, <3>1 DEF IsCut
  <2>5. Len(writing') <= Bank
    BY <2>1, Sizes
  <2> QED BY <2>1, <2>2, <2>4, <2>5 DEF InLines
<1>4. CASE HostWrite
  BY <1>0, <1>4, LineSent
<1>5. CASE HostPacket
  BY <1>0, <1>5, PacketSent
<1>6. CASE Report
  <2>1. /\ pc = "loop" /\ pc' \in {"send", "get"} /\ count' = 0
        /\ UNCHANGED <<out, writing, expected, open>>
    BY <1>6 DEF Report, Fprintf, inward
  <2>2. Start = 0 /\ Start' = 0
    BY <2>1 DEF Start
  <2> QED BY <1>0, <2>1, <2>2, StreamStays
<1>7. CASE CDC_Device_SendByte \/ SendWait
  <2>1. /\ pc \in Sending /\ pc' \in Sending \cup {resume}
        /\ UNCHANGED <<inBuf, count, out, writing, expected, open>>
    BY <1>7 DEF CDC_Device_SendByte, SendWait, NextByte, Sending, buffer, inward
  <2>2. resume \in {"get", "flush"} /\ (resume = "get" => count = 0)
    BY <2>1 DEF LinkTypes, Places, Room
  <2>3. pc # "process" /\ pc # "get" /\ pc' # "process" /\ (pc' = "get" => count' = 0)
    BY <2>1, <2>2 DEF Sending
  <2>4. Start = 0 /\ Start' = 0
    BY <2>3 DEF Start
  <2> QED BY <1>0, <2>1, <2>3, <2>4, StreamStays
<1>8. CASE CDC_Device_Flush \/ FlushWait
  <2>1. /\ pc \in {"flush", "flush wait"} /\ pc' \in {"loop", "flush wait"}
        /\ UNCHANGED <<inBuf, count, out, writing, expected, open>>
    BY <1>8 DEF CDC_Device_Flush, FlushWait, buffer, inward
  <2>2. Start = 0 /\ Start' = 0
    BY <2>1 DEF Start
  <2> QED BY <1>0, <2>1, <2>2, StreamStays
<1>9. CASE HostRead \/ UNCHANGED vars
  <2>1. UNCHANGED <<pc, inBuf, count, out, writing, expected, open>>
    BY <1>9 DEF HostRead, vars, buffer, inward
  <2>2. Start' = Start /\ Left' = Left /\ Pending' = Pending
    BY <2>1 DEF Start, Left, Pending
  <2>3. Stream' = Stream
    BY <2>1, <2>2, Zenon DEF Stream, At
  <2>4. Text(inBuf)' = Text(inBuf)
    BY <2>1 DEF Text
  <2> QED BY <1>0, <2>1, <2>2, <2>3, <2>4 DEF InLines
<1> QED BY <1>1, <1>2, <1>3, <1>4, <1>5, <1>6, <1>7, <1>8, <1>9 DEF Next, Program

-----------------------------------------------------------------------------

(* The bytes between the host and the program are lines in every behaviour  *)
(* of the link.                                                            *)
THEOREM LinesStayWhole == Spec => [](Inward /\ InLines)
<1>1. ASSUME Init PROVE Inward /\ InLines
  <2>1. out = <<>> /\ writing = <<>> /\ expected = <<>> /\ pc = "loop"
    BY <1>1 DEF Init
  <2>2. Inward
    BY <2>1, Sizes, EmptySeq DEF Inward
  <2>3. Start = 0 /\ Left = 0 /\ Pending = <<>> /\ Len(out) = 0
    BY <2>1 DEF Start, Left, Pending
  <2> DEFINE cut == [j \in 0..0 |-> 0]
  <2>4. cut \in [0..0 -> Int] /\ cut[0] = 0 /\ Len(<<>>) = 0
    OBVIOUS
  <2> HIDE DEF cut
  <2>5. IsCut(cut, Stream, <<>>, 0, 0, 0)
    <3>1. \A j \in 1..0 : FALSE
      OBVIOUS
    <3> QED BY <2>4, <3>1 DEF IsCut
  <2>6. Len(writing) <= Bank
    BY <2>1, Sizes
  <2> QED BY <2>1, <2>2, <2>3, <2>5, <2>6 DEF InLines
<1>2. LinkInv /\ (Inward /\ InLines) /\ [Next]_vars => (Inward /\ InLines)'
  BY InwardStep, InLinesStep DEF LinkInv
<1> QED BY <1>1, <1>2, LinkCorrect, PTL DEF Spec

(* As long as the host's writes are whole lines that fit one packet, and it *)
(* does not close its session while a line is read (WholeWrites), the line  *)
(* that is processed is the next one of those it has sent, without its end: *)
(* whole, once, and in the order of their sending.                         *)
THEOREM LinesArriveWhole == Spec => []LinesAsSent
<1>1. Inward /\ InLines => LinesAsSent
  BY DEF InLines, LinesAsSent
<1> QED BY <1>1, LinesStayWhole, PTL

(* What the types of a report and of the buffer leave open of them.         *)
Bounded ==
    /\ report \in Lengths \cup {1, SettingsLength} /\ place <= report + 1
    /\ count <= BufSize - 1

LEMMA BoundedStep == ASSUME LinkTypes, Room, Bounded, [Next]_vars PROVE Bounded'
<1>1. /\ report \in Nat /\ report >= 1 /\ place \in Nat /\ count \in Nat
      /\ pc \in Sending => place <= report
  BY DEF LinkTypes, Places, Room
<1>2. CASE GetPacket
  <2>1. pc = "get" /\ UNCHANGED <<report, place>> /\ (count' = count \/ count' = count + 1)
    BY <1>2 DEF GetPacket, sending, buffer
  <2>2. count' <= BufSize - 1
    BY <1>1, <2>1, Sizes DEF Room
  <2> QED BY <2>1, <2>2 DEF Bounded
<1>3. CASE Report \/ ProcessPacket
  <2>1. /\ \/ UNCHANGED <<report, place>>
           \/ report' \in Lengths \cup {SettingsLength} /\ place' = 1
        /\ count' \in {0, count}
    BY <1>3 DEF Report, ProcessPacket, Fprintf, sending, buffer
  <2>2. count' <= BufSize - 1
    BY <2>1, Sizes DEF Bounded
  <2>3. \A length \in Lengths \cup {SettingsLength} : length \in Nat /\ 1 <= length + 1
    BY LengthsAssumption
  <2> QED BY <2>1, <2>2, <2>3 DEF Bounded
<1>4. CASE CDC_Device_SendByte \/ SendWait
  <2>1. /\ pc \in Sending /\ UNCHANGED <<report, count>>
        /\ place' = place \/ place' = place + 1
    BY <1>4 DEF CDC_Device_SendByte, SendWait, NextByte, Sending, sending, buffer
  <2>2. place' <= report + 1
    BY <1>1, <2>1
  <2> QED BY <2>1, <2>2 DEF Bounded
<1>5. CASE \/ CDC_Device_Flush \/ FlushWait \/ Session \/ HostRead \/ HostWrite \/ HostPacket
           \/ UNCHANGED vars
  <2>1. UNCHANGED <<report, place, count>>
    BY <1>5 DEF CDC_Device_Flush, FlushWait, Session, HostRead, HostWrite, HostPacket, vars,
        sending, buffer
  <2> QED BY <2>1 DEF Bounded
<1> QED BY <1>2, <1>3, <1>4, <1>5 DEF Next, Program

(* Types: in particular no bank ever holds more than its size, and a report *)
(* ends with its last byte.                                                *)
THEOREM TypeCorrect == Spec => []TypeOK
<1>1. Init => Bounded
  BY Sizes DEF Init, Bounded
<1>2. LinkInv /\ Bounded /\ [Next]_vars => Bounded'
  BY BoundedStep DEF LinkInv
<1>3. LinkInv /\ Inward /\ Bounded => TypeOK
  <2> SUFFICES ASSUME LinkInv, Inward, Bounded PROVE TypeOK
    OBVIOUS
  <2>1. /\ report \in Nat /\ place \in 1..report + 1 /\ count \in 0..BufSize - 1
    <3>1. /\ report \in Nat /\ place \in Nat /\ place >= 1 /\ place <= report + 1
          /\ count \in Nat /\ count <= BufSize - 1
      BY DEF LinkInv, LinkTypes, Places, Room, Bounded
    <3> QED BY <3>1, Sizes
  <2>2. DOMAIN inBuf = 1..BufSize
    <3>1. inBuf = [n \in 1..BufSize |-> inBuf[n]]
      BY DEF LinkInv, Room, IsString
    <3>2. DOMAIN [n \in 1..BufSize |-> inBuf[n]] = 1..BufSize
      BY Zenon
    <3> QED BY <3>1, <3>2
  <2>3. {busy, open, short} \subseteq BOOLEAN
    BY Zenon DEF LinkInv, LinkTypes, Banks, Flags
  <2>4. /\ pc \in {"loop", "send", "send wait", "get", "process", "flush", "flush wait"}
        /\ resume \in {"get", "flush"} /\ Len(bank) <= Bank /\ Len(out) <= Bank
    BY DEF LinkInv, LinkTypes, Banks, Places, Stored, Inward
  <2>5. report \in Lengths \cup {1, SettingsLength}
    BY DEF Bounded
  <2> QED BY <2>1, <2>2, <2>3, <2>4, <2>5 DEF TypeOK
<1> QED BY <1>1, <1>2, <1>3, LinkCorrect, LinesStayWhole, PTL DEF Spec

-----------------------------------------------------------------------------
(* The length of a pass.                                                   *)

LEMMA PassStep ==
    ASSUME LinkTypes, Room, [Next]_vars, pc # "loop", <<pc, place, count>>' # <<pc, place, count>>
    PROVE  StepsToLoop' \in 0..StepsToLoop - 1
<1> DEFINE reply == 2 * SettingsLength + 3
<1>1. SettingsLength \in Nat /\ SettingsLength >= 1 /\ BufSize \in Nat /\ BufSize >= 2
  BY LengthsAssumption, Sizes
<1>2. /\ report \in Nat /\ place \in Nat /\ count \in Nat /\ resume \in {"get", "flush"}
      /\ pc \in Sending => place <= report
      /\ pc = "get" => count <= BufSize - 2
      /\ pc \in Sending /\ resume = "get" => count = 0
  BY DEF LinkTypes, Places, Room
<1> DEFINE rest == IF resume = "flush" THEN 2 ELSE reply + BufSize
<1>3. CASE GetPacket
  <2>1. /\ pc = "get" /\ StepsToLoop = reply + BufSize - count
        /\ \/ pc' = "flush"
           \/ pc' = "process"
           \/ pc' = "get" /\ count' = count + 1
    BY <1>3 DEF GetPacket, buffer, StepsToLoop, StepsOfReply
  <2>2. /\ pc' = "flush" => StepsToLoop' = 2
        /\ pc' = "process" => StepsToLoop' = reply
        /\ pc' = "get" => StepsToLoop' = reply + BufSize - count'
    BY DEF StepsToLoop, StepsOfReply
  <2> QED BY <1>1, <1>2, <2>1, <2>2
<1>4. CASE ProcessPacket
  <2>1. /\ pc = "process" /\ StepsToLoop = reply
        /\ \/ pc' = "flush"
           \/ pc' = "send" /\ resume' = "flush" /\ report' = SettingsLength /\ place' = 1
    BY <1>4 DEF ProcessPacket, Fprintf, StepsToLoop, StepsOfReply
  <2>2. /\ pc' = "flush" => StepsToLoop' = 2
        /\ pc' = "send" /\ resume' = "flush" => StepsToLoop' = 2 * (report' - place') + 2 + 2
    BY DEF StepsToLoop, StepsOfReport
  <2> QED BY <1>1, <2>1, <2>2
<1>5. CASE CDC_Device_SendByte \/ SendWait
  <2> HIDE DEF reply
  <2>0. reply \in Nat /\ reply >= 3
    BY <1>1 DEF reply
  <2>1. /\ pc \in Sending /\ UNCHANGED <<report, resume, count>>
        /\ \/ pc = "send" /\ pc' = "send wait" /\ place' = place
           \/ pc' = (IF place = report THEN resume ELSE "send") /\ place' = place + 1
    BY <1>5 DEF CDC_Device_SendByte, SendWait, NextByte, Sending, sending, buffer
  <2>2. /\ pc = "send" => StepsToLoop = 2 * (report - place) + 2 + rest
        /\ pc = "send wait" => StepsToLoop = 2 * (report - place) + 1 + rest
        /\ pc = "send" \/ pc = "send wait"
    BY <2>1 DEF StepsToLoop, StepsOfReport, StepsOfReply, Sending, reply
  <2>3. /\ pc' = "send" => StepsToLoop' = 2 * (report - place') + 2 + rest
        /\ pc' = "send wait" => StepsToLoop' = 2 * (report - place') + 1 + rest
    BY <2>1 DEF StepsToLoop, StepsOfReport, StepsOfReply, reply
  <2>4. /\ pc' = "flush" => StepsToLoop' = 2
        /\ pc' = "get" => StepsToLoop' = reply + BufSize - count
    BY <2>1 DEF StepsToLoop, StepsOfReply, reply
  <2>5. /\ rest \in Nat /\ rest >= 2
        /\ resume = "flush" => rest = 2
        /\ resume = "get" /\ count = 0 => rest = reply + BufSize - count
    BY <1>1, <1>2, <2>0
  <2>6. /\ place <= report
        /\ resume = "get" => count = 0
        /\ resume \in {"get", "flush"}
    BY <1>2, <2>1
  <2> HIDE DEF rest
  <2>7. CASE pc = "send" /\ pc' = "send wait" /\ place' = place
    <3>1. /\ StepsToLoop = 2 * (report - place) + 2 + rest
          /\ StepsToLoop' = 2 * (report - place) + 1 + rest
      BY <2>2, <2>3, <2>7
    <3> QED BY <1>2, <2>5, <2>6, <3>1
  <2>8. CASE pc' = (IF place = report THEN resume ELSE "send") /\ place' = place + 1
    <3>1. CASE place = report
      <4>1. pc' = resume
        BY <2>8, <3>1
      <4>2. StepsToLoop' = rest
        BY <2>4, <2>5, <2>6, <4>1
      <4>3. StepsToLoop = rest + 2 \/ StepsToLoop = rest + 1
        <5>1. report - place = 0
          BY <1>2, <3>1
        <5>2. CASE pc = "send"
          BY <2>2, <2>5, <5>1, <5>2
        <5>3. CASE pc = "send wait"
          <6>1. StepsToLoop = 2 * (report - place) + 1 + rest
            BY <2>2, <5>3
          <6> QED BY <2>5, <5>1, <6>1
        <5> QED BY <2>2, <5>2, <5>3
      <4> QED BY <2>5, <4>2, <4>3
    <3>2. CASE place # report
      <4>1. pc' = "send" /\ place' = place + 1 /\ place < report
        BY <1>2, <2>6, <2>8, <3>2
      <4>2. StepsToLoop' = 2 * (report - place') + 2 + rest
        BY <2>3, <4>1
      <4>3. \/ StepsToLoop = 2 * (report - place) + 2 + rest
            \/ StepsToLoop = 2 * (report - place) + 1 + rest
        BY <2>2
      <4> QED BY <1>2, <2>5, <4>1, <4>2, <4>3
    <3> QED BY <3>1, <3>2
  <2> QED BY <2>1, <2>7, <2>8
<1>6. CASE CDC_Device_Flush
  <2>1. pc = "flush" /\ pc' \in {"loop", "flush wait"}
    BY <1>6 DEF CDC_Device_Flush
  <2>2. /\ StepsToLoop = 2
        /\ pc' = "loop" => StepsToLoop' = 0
        /\ pc' = "flush wait" => StepsToLoop' = 1
    BY <2>1 DEF StepsToLoop
  <2>3. StepsToLoop = 2 /\ (StepsToLoop' = 0 \/ StepsToLoop' = 1)
    BY <2>1, <2>2
  <2> QED BY <2>3
<1>7. CASE FlushWait
  <2>1. pc = "flush wait" /\ pc' = "loop"
    BY <1>7 DEF FlushWait
  <2>2. StepsToLoop = 1 /\ StepsToLoop' = 0
    BY <2>1 DEF StepsToLoop
  <2> QED BY <2>2
<1>8. CASE Session \/ HostRead \/ HostWrite \/ HostPacket \/ UNCHANGED vars
  BY <1>8 DEF Session, HostRead, HostWrite, HostPacket, vars, sending, buffer
<1>9. CASE Report
  BY <1>9 DEF Report
<1> QED BY <1>3, <1>4, <1>5, <1>6, <1>7, <1>8, <1>9 DEF Next, Program

(* Every pass ends after a bounded number of steps, whatever the host does: *)
(* the bound is in the length of the reports and in the size of inBuf.      *)
THEOREM PassesEnd == Spec => PassAdvances
<1>1. LinkInv /\ [Next]_vars
      => [pc # "loop" /\ <<pc, place, count>>' # <<pc, place, count>>
             => StepsToLoop' \in 0..StepsToLoop - 1]_vars
  BY PassStep DEF LinkInv
<1> QED BY <1>1, LinkCorrect, PTL DEF Spec, PassAdvances
=============================================================================
