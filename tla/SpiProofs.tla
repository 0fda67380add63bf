------------------------------ MODULE SpiProofs ------------------------------
(***************************************************************************)
(* No byte is overwritten and a command exchanges what it was asked to,    *)
(* for commands of any length.  With one credit there is at most one byte  *)
(* between TXDATA and RXDATA; Flight says where it is, and what has been   *)
(* sent, heard and received so far.                                        *)
(***************************************************************************)
EXTENDS Spi, TLAPS

\* The k-th byte sent by a command, how many were sent and received.
Byte(k) == IF k <= write_length THEN k ELSE 0
Sent == spi_written + read_length - write_zeros
Received == write_length - read_ignore + Len(read)

Quiet ==
  /\ tx = None /\ shift = None /\ ~RRDY
  /\ Len(heard) = Sent /\ Received = Sent

InTx ==
  /\ credits = 0 /\ tx = Byte(Sent) /\ shift = None /\ ~RRDY
  /\ Len(heard) = Sent - 1 /\ Received = Sent - 1

InShift ==
  /\ credits = 0 /\ tx = None /\ shift = Byte(Sent) /\ ~RRDY
  /\ Len(heard) = Sent - 1 /\ Received = Sent - 1

InRx ==
  /\ credits = 0 /\ tx = None /\ shift = None /\ RRDY /\ rx = Sent
  /\ Len(heard) = Sent /\ Received = Sent - 1

Flight ==
  /\ spi_pc = "poll" => (credits # 0 /\ Quiet) \/ InTx \/ InShift \/ InRx
  /\ spi_pc = "send" => credits = 1 /\ Quiet /\ ~status.RRDY
  /\ spi_pc = "receive" => InRx
  /\ spi_pc \in {"drain", "release"} => Quiet /\ read_ignore = 0 /\ Len(read) = read_length
  /\ spi_pc = "idle" => tx = None /\ shift = None

\* Data before zeros; ignored bytes before bytes that are kept.
Counts ==
  /\ write_zeros < read_length => spi_written = write_length
  /\ read_ignore > 0 => read = <<>>

Data ==
  /\ \A k \in 1 .. Len(heard) : heard[k] = Byte(k)
  /\ \A k \in 1 .. Len(read) : read[k] = write_length + k

IInv == CommandTypes /\ NoOverrun /\ Flight /\ Counts /\ Data

LEMMA NoneIsNoByte == None \notin Nat
BY DEF None

LEMMA Initially == SpiInit => IInv
<1> SUFFICES ASSUME SpiInit PROVE IInv  OBVIOUS
<1> USE DEF SpiInit, Stale
<1>1. CommandTypes
  <2>1. Flags  BY DEF Flags
  <2>2. Counters  BY DEF Counters
  <2>3. ByteTypes  BY DEF ByteTypes
  <2> QED  BY <2>1, <2>2, <2>3 DEF CommandTypes
<1>2. NoOverrun  BY DEF NoOverrun
<1>3. Flight  BY DEF Flight
<1>4. Counts  BY DEF Counts
<1>5. Data  BY DEF Data
<1> QED  BY <1>1, <1>2, <1>3, <1>4, <1>5 DEF IInv

LEMMA AppendIs ==
  ASSUME NEW s \in Seq(Nat), NEW e \in Nat
  PROVE  /\ Append(s, e) \in Seq(Nat) /\ Len(s) \in Nat /\ Len(Append(s, e)) = Len(s) + 1
         /\ \A k \in 1 .. Len(s) : Append(s, e)[k] = s[k]
         /\ Append(s, e)[Len(s) + 1] = e
OBVIOUS

LEMMA Inductive == IInv /\ [SpiNext]_spi_vars => IInv'
<1> SUFFICES ASSUME IInv, [SpiNext]_spi_vars PROVE IInv'  OBVIOUS
<1> USE NoneIsNoByte DEF TRDY
<1>0. CommandTypes /\ NoOverrun /\ Flight /\ Counts /\ Data  BY DEF IInv
<1>1. CASE Call
  <2> USE <1>1 DEF Call, Arguments, CREDITS
  <2>1. spi_pc = "idle" /\ tx = None /\ shift = None  BY <1>0 DEF Flight
  <2>2. CommandTypes'
    <3>1. Flags'  BY <1>0 DEF CommandTypes, Flags
    <3>2. Counters'  BY <1>0 DEF CommandTypes, Counters
    <3>3. ByteTypes'  BY <1>0 DEF CommandTypes, ByteTypes
    <3>4. spi_pc' \in {"idle", "poll", "send", "receive", "drain", "release"}
      BY <1>0 DEF CommandTypes
    <3>5. status' \in [TRDY : BOOLEAN, RRDY : BOOLEAN]
      BY <1>0 DEF CommandTypes
    <3> QED  BY <3>1, <3>2, <3>3, <3>4, <3>5 DEF CommandTypes
  <2>3. NoOverrun'  BY <1>0 DEF NoOverrun
  <2>4. Sent' = 0 /\ Received' = 0 /\ Len(heard') = 0
    <3>1. read' = <<>> /\ heard' = <<>> /\ spi_written' = 0 /\ write_zeros' = read_length'
          /\ read_ignore' = write_length'
      OBVIOUS
    <3>2. read_length' \in Int /\ write_length' \in Int  OBVIOUS
    <3>3. \A m, n \in Int : 0 + m - m = 0 /\ n - n + 0 = 0  OBVIOUS
    <3>4. Sent' = 0 + read_length' - read_length'  BY <3>1 DEF Sent
    <3>5. Received' = write_length' - write_length' + 0  BY <3>1 DEF Received
    <3>6. Len(read') = 0 /\ Len(heard') = 0  BY <3>1
    <3> QED  BY <3>2, <3>3, <3>4, <3>5, <3>6
  <2>5. Flight'  BY <2>1, <2>4 DEF Flight, Quiet, args
  <2>6. Counts' /\ Data'  BY <1>0 DEF Counts, Data, CommandTypes, Counters, ByteTypes
  <2> QED  BY <2>2, <2>3, <2>5, <2>6 DEF IInv
<1>2. CASE Poll
  <2> USE <1>2 DEF Poll, args, locals, core
  <2>1. CommandTypes'
    <3>1. Flags'  BY <1>0 DEF CommandTypes, Flags
    <3>2. Counters'  BY <1>0 DEF CommandTypes, Counters
    <3>3. ByteTypes'  BY <1>0 DEF CommandTypes, ByteTypes
    <3>4. spi_pc' \in {"idle", "poll", "send", "receive", "drain", "release"}
      BY <1>0 DEF CommandTypes
    <3>5. status' \in [TRDY : BOOLEAN, RRDY : BOOLEAN]
      BY <1>0 DEF CommandTypes, Flags
    <3> QED  BY <3>1, <3>2, <3>3, <3>4, <3>5 DEF CommandTypes
  <2>2. NoOverrun'  BY <1>0 DEF NoOverrun
  <2>3. (Quiet <=> Quiet') /\ (InTx <=> InTx') /\ (InShift <=> InShift') /\ (InRx <=> InRx')
    BY DEF Quiet, InTx, InShift, InRx, Sent, Received, Byte
  <2>4. status'.RRDY = RRDY  OBVIOUS
  <2>5. spi_pc' = "send" => credits = 1 /\ Quiet /\ ~RRDY
    BY <1>0 DEF Flight, Quiet, InTx, InShift, InRx, CommandTypes, Counters, ByteTypes
  <2>6. spi_pc' = "receive" => InRx
    BY <1>0 DEF Flight, Quiet, InTx, InShift, InRx, CommandTypes, Counters, ByteTypes
  <2>7. spi_pc' \in {"poll", "send", "receive"}  OBVIOUS
  <2>8. Flight'  BY <1>0, <2>3, <2>4, <2>5, <2>6, <2>7 DEF Flight
  <2>9. Counts' /\ Data'  BY <1>0 DEF Counts, Data, Byte
  <2> QED  BY <2>1, <2>2, <2>8, <2>9 DEF IInv
<1>3. CASE SendData \/ SendZero
  <2> USE DEF AfterSend, Transmit, args
  <2>1. credits = 1 /\ Quiet /\ ~status.RRDY  BY <1>0, <1>3 DEF SendData, SendZero, Flight
  <2>2. spi_pc' = "poll" /\ credits' = 0 /\ Sent' = Sent + 1 /\ tx' = Byte(Sent)'
    <3>1. /\ write_length \in Nat /\ read_length \in Nat
          /\ spi_written \in 0 .. write_length /\ write_zeros \in 0 .. read_length
      BY <1>0 DEF CommandTypes, Counters
    <3>2. spi_pc' = "poll" /\ credits' = 0  BY <1>3, <2>1 DEF SendData, SendZero
    <3>3. CASE SendData
      <4>1. write_zeros = read_length  BY <1>0, <3>1, <3>3 DEF SendData, Counts
      <4>2. Sent = spi_written  BY <3>1, <4>1 DEF Sent
      <4>3. Sent' = spi_written + 1 /\ tx' = spi_written + 1 /\ write_length' = write_length
        BY <3>1, <3>3, <4>1 DEF SendData, Sent
      <4>4. spi_written + 1 <= write_length  BY <3>1, <3>3 DEF SendData
      <4>5. Byte(Sent)' = IF Sent' <= write_length' THEN Sent' ELSE 0  BY DEF Byte
      <4> QED  BY <3>1, <3>2, <4>2, <4>3, <4>4, <4>5
    <3>4. CASE SendZero
      <4>1. spi_written = write_length /\ write_zeros > 0 /\ tx' = 0 /\ spi_written' = spi_written
            /\ write_zeros' = write_zeros - 1 /\ write_length' = write_length
            /\ read_length' = read_length
        BY <3>4 DEF SendZero
      <4>2. Sent' = Sent + 1  BY <3>1, <4>1 DEF Sent
      <4>3. Sent' \in Int /\ Sent' > write_length'  BY <3>1, <4>1 DEF Sent
      <4>4. Byte(Sent)' = IF Sent' <= write_length' THEN Sent' ELSE 0  BY DEF Byte
      <4>5. Byte(Sent)' = 0  BY <3>1, <4>1, <4>3, <4>4
      <4> QED  BY <3>2, <4>1, <4>2, <4>5
    <3> QED  BY <1>3, <3>2, <3>3, <3>4
  <2>3. CommandTypes'
    <3>1. Flags'  BY <1>0, <1>3, <2>1, <2>2 DEF SendData, SendZero, CommandTypes, Flags
    <3>2. Counters'  BY <1>0, <1>3, <2>1, <2>2 DEF SendData, SendZero, CommandTypes, Counters
    <3>3. ByteTypes'
      <4>1. tx' \in Nat  BY <1>0, <1>3 DEF SendData, SendZero, CommandTypes, Counters
      <4> QED  BY <1>0, <1>3, <4>1 DEF SendData, SendZero, CommandTypes, ByteTypes
    <3>4. spi_pc' \in {"idle", "poll", "send", "receive", "drain", "release"}
      BY <1>0, <1>3, <2>1, <2>2 DEF SendData, SendZero, CommandTypes
    <3>5. status' \in [TRDY : BOOLEAN, RRDY : BOOLEAN]
      BY <1>0, <1>3, <2>1, <2>2 DEF SendData, SendZero, CommandTypes
    <3> QED  BY <3>1, <3>2, <3>3, <3>4, <3>5 DEF CommandTypes
  <2>4. NoOverrun'  BY <1>0, <1>3, <2>1 DEF SendData, SendZero, NoOverrun, Quiet
  <2>5. /\ shift' = shift /\ RRDY' = RRDY /\ heard' = heard /\ read' = read
        /\ read_ignore' = read_ignore /\ write_length' = write_length
    BY <1>3 DEF SendData, SendZero, args
  <2>6. Received' = Received  BY <2>5 DEF Received
  <2>7. Sent \in Int /\ Received \in Int
    BY <1>0 DEF Sent, Received, CommandTypes, Counters, ByteTypes
  <2>8. InTx'  BY <2>1, <2>2, <2>5, <2>6, <2>7 DEF InTx, Quiet
  <2>9. Flight'  BY <2>2, <2>8 DEF Flight
  <2>10. Counts'
    BY <1>0, <1>3 DEF SendData, SendZero, Counts, CommandTypes, Counters, ByteTypes, args
  <2>11. Data'  BY <1>0, <2>5 DEF Data, Byte
  <2> QED  BY <2>3, <2>4, <2>9, <2>10, <2>11 DEF IInv
<1>4. CASE NothingToSend
  <2> USE <1>4 DEF NothingToSend, AfterSend, args, core
  <2>1. Quiet /\ ~status.RRDY  BY <1>0 DEF Flight
  <2>2. spi_pc' = "poll" /\ credits' # 0  BY <2>1
  <2>3. CommandTypes'
    <3>1. Flags'  BY <1>0, <2>1 DEF CommandTypes, Flags
    <3>2. Counters'  BY <1>0, <2>1 DEF CommandTypes, Counters
    <3>3. ByteTypes'  BY <1>0, <2>1 DEF CommandTypes, ByteTypes
    <3>4. spi_pc' \in {"idle", "poll", "send", "receive", "drain", "release"}
      BY <1>0, <2>1 DEF CommandTypes
    <3>5. status' \in [TRDY : BOOLEAN, RRDY : BOOLEAN]
      BY <1>0, <2>1 DEF CommandTypes
    <3> QED  BY <3>1, <3>2, <3>3, <3>4, <3>5 DEF CommandTypes
  <2>4. NoOverrun'  BY <1>0 DEF NoOverrun
  <2>5. Quiet'  BY <2>1 DEF Quiet, Sent, Received
  <2>6. Flight'  BY <2>2, <2>5 DEF Flight
  <2>7. Counts' /\ Data'  BY <1>0 DEF Counts, Data, Byte
  <2> QED  BY <2>3, <2>4, <2>6, <2>7 DEF IInv
<1>5. CASE Receive
  <2> USE <1>5 DEF Receive, TakeByte, args
  <2>1. InRx  BY <1>0 DEF Flight
  <2>2. /\ read' \in Seq(Nat) /\ Len(read') \in Nat /\ read_ignore' \in 0 .. write_length
        /\ Received' = Received + 1
        /\ read_ignore' > 0 => read' = <<>>
        /\ \A k \in 1 .. Len(read') : read'[k] = write_length + k
    <3>1. CASE read_ignore > 0
      BY <1>0, <3>1 DEF Received, Counts, Data, CommandTypes, Counters, ByteTypes
    <3>2. CASE ~(read_ignore > 0)
      <4>1. read' = Append(read, rx) /\ read_ignore' = 0 /\ read_ignore = 0
        BY <1>0, <3>2 DEF CommandTypes, Counters, ByteTypes
      <4>2. read \in Seq(Nat) /\ rx \in Nat  BY <1>0 DEF CommandTypes, Counters, ByteTypes
      <4>3. rx = write_length + Len(read) + 1
        BY <1>0, <2>1, <4>1, <4>2, AppendIs
        DEF InRx, Received, Sent, CommandTypes, Counters, ByteTypes
      <4>4. \A k \in 1 .. Len(read') : read'[k] = write_length + k
        <5>1. TAKE k \in 1 .. Len(read')
        <5>2. k \in 1 .. Len(read) \/ k = Len(read) + 1  BY <4>1, <4>2, AppendIs
        <5>3. CASE k \in 1 .. Len(read)
          <6>1. read'[k] = read[k]  BY <4>1, <4>2, <5>3, AppendIs
          <6> QED  BY <1>0, <5>3, <6>1 DEF Data
        <5>4. CASE k = Len(read) + 1
          BY <1>0, <4>1, <4>2, <4>3, <5>4, AppendIs DEF CommandTypes, Counters
        <5> QED  BY <5>2, <5>3, <5>4
      <4> QED  BY <1>0, <4>1, <4>2, <4>4, AppendIs DEF Received, CommandTypes, Counters, ByteTypes
    <3> QED  BY <3>1, <3>2
  <2>3. credits' = 1  BY <2>1 DEF InRx
  <2>4. CommandTypes'
    <3>1. Flags'  BY <1>0, <2>2, <2>3 DEF CommandTypes, Flags
    <3>2. Counters'  BY <1>0, <2>2, <2>3 DEF CommandTypes, Counters
    <3>3. ByteTypes'  BY <1>0, <2>2, <2>3 DEF CommandTypes, ByteTypes
    <3>4. spi_pc' \in {"idle", "poll", "send", "receive", "drain", "release"}
      BY <1>0, <2>2, <2>3 DEF CommandTypes
    <3>5. status' \in [TRDY : BOOLEAN, RRDY : BOOLEAN]
      BY <1>0, <2>2, <2>3 DEF CommandTypes
    <3> QED  BY <3>1, <3>2, <3>3, <3>4, <3>5 DEF CommandTypes
  <2>5. NoOverrun'  BY <1>0 DEF NoOverrun
  <2>6. Quiet'
    BY <1>0, <2>1, <2>2 DEF Quiet, InRx, Sent, Received, CommandTypes, Counters, ByteTypes
  <2>7. Flight'  BY <2>3, <2>6 DEF Flight
  <2>8. Counts' /\ Data'  BY <1>0, <2>2 DEF Counts, Data, Byte
  <2> QED  BY <2>4, <2>5, <2>7, <2>8 DEF IInv
<1>6. CASE Drain \/ Release
  <2> USE <1>6 DEF Drain, Release, args, locals, core
  <2>1. CommandTypes'
    <3>1. Flags'  BY <1>0 DEF CommandTypes, Flags
    <3>2. Counters'  BY <1>0 DEF CommandTypes, Counters
    <3>3. ByteTypes'  BY <1>0 DEF CommandTypes, ByteTypes
    <3>4. spi_pc' \in {"idle", "poll", "send", "receive", "drain", "release"}
      BY <1>0 DEF CommandTypes
    <3>5. status' \in [TRDY : BOOLEAN, RRDY : BOOLEAN]
      BY <1>0 DEF CommandTypes
    <3> QED  BY <3>1, <3>2, <3>3, <3>4, <3>5 DEF CommandTypes
  <2>2. NoOverrun'  BY <1>0 DEF NoOverrun
  <2>3. Quiet /\ read_ignore = 0 /\ Len(read) = read_length  BY <1>0 DEF Flight
  <2>4. Quiet' /\ spi_pc' \in {"release", "idle"}  BY <2>3 DEF Quiet, Sent, Received
  <2>5. Flight'  BY <2>3, <2>4 DEF Flight, Quiet
  <2>6. Counts' /\ Data'  BY <1>0 DEF Counts, Data, Byte
  <2> QED  BY <2>1, <2>2, <2>5, <2>6 DEF IInv
<1>7. CASE Load
  <2> USE <1>7 DEF Load, args, locals
  <2>1. spi_pc = "poll" /\ InTx
    BY <1>0 DEF CommandTypes, ByteTypes, Flight, Quiet, InTx, InShift, InRx
  <2>2. CommandTypes'
    <3>1. Flags'  BY <1>0 DEF CommandTypes, Flags
    <3>2. Counters'  BY <1>0 DEF CommandTypes, Counters
    <3>3. ByteTypes'  BY <1>0 DEF CommandTypes, ByteTypes
    <3>4. spi_pc' \in {"idle", "poll", "send", "receive", "drain", "release"}
      BY <1>0 DEF CommandTypes
    <3>5. status' \in [TRDY : BOOLEAN, RRDY : BOOLEAN]
      BY <1>0 DEF CommandTypes
    <3> QED  BY <3>1, <3>2, <3>3, <3>4, <3>5 DEF CommandTypes
  <2>3. NoOverrun'  BY <1>0 DEF NoOverrun
  <2>4. InShift'  BY <2>1 DEF InTx, InShift, Sent, Received, Byte
  <2>5. Flight'  BY <2>1, <2>4 DEF Flight
  <2>6. Counts' /\ Data'  BY <1>0 DEF Counts, Data, Byte
  <2> QED  BY <2>2, <2>3, <2>5, <2>6 DEF IInv
<1>8. CASE Shift
  <2> USE <1>8 DEF Shift, args, locals
  <2>1. spi_pc = "poll" /\ InShift
    BY <1>0 DEF CommandTypes, ByteTypes, Flight, Quiet, InTx, InShift, InRx
  <2>2. heard \in Seq(Nat) /\ shift \in Nat /\ Sent \in Int
    BY <1>0 DEF CommandTypes, Counters, ByteTypes, Sent
  <2>3. /\ heard' \in Seq(Nat) /\ Len(heard') = Sent
        /\ \A k \in 1 .. Len(heard') : heard'[k] = Byte(k)
    BY <1>0, <2>1, <2>2, AppendIs DEF InShift, Data
  <2>4. CommandTypes'
    <3>1. rx' \in Nat  BY <2>3, <2>2, AppendIs
    <3>2. Flags'  BY <1>0 DEF CommandTypes, Flags
    <3>3. Counters'  BY <1>0 DEF CommandTypes, Counters
    <3>4. ByteTypes'  BY <1>0, <2>3, <3>1 DEF CommandTypes, ByteTypes
    <3> QED  BY <1>0, <3>2, <3>3, <3>4 DEF CommandTypes
  <2>5. NoOverrun'  BY <1>0, <2>1 DEF NoOverrun, InShift
  <2>6. InRx'  BY <2>1, <2>3 DEF InShift, InRx, Sent, Received
  <2>7. Flight'  BY <2>1, <2>6 DEF Flight
  <2>8. Counts' /\ Data'  BY <1>0, <2>3 DEF Counts, Data, Byte
  <2> QED  BY <2>4, <2>5, <2>7, <2>8 DEF IInv
<1>9. CASE Idle \/ UNCHANGED spi_vars
  <2> USE <1>9 DEF Idle, spi_vars, args, locals, core
  <2>1. CommandTypes'
    <3>1. Flags'  BY <1>0 DEF CommandTypes, Flags
    <3>2. Counters'  BY <1>0 DEF CommandTypes, Counters
    <3>3. ByteTypes'  BY <1>0 DEF CommandTypes, ByteTypes
    <3>4. spi_pc' \in {"idle", "poll", "send", "receive", "drain", "release"}
      BY <1>0 DEF CommandTypes
    <3>5. status' \in [TRDY : BOOLEAN, RRDY : BOOLEAN]
      BY <1>0 DEF CommandTypes
    <3> QED  BY <3>1, <3>2, <3>3, <3>4, <3>5 DEF CommandTypes
  <2>2. NoOverrun'  BY <1>0 DEF NoOverrun
  <2>3. (Quiet <=> Quiet') /\ (InTx <=> InTx') /\ (InShift <=> InShift') /\ (InRx <=> InRx')
    BY DEF Quiet, InTx, InShift, InRx, Sent, Received, Byte
  <2>4. Flight'  BY <1>0, <2>3 DEF Flight
  <2>5. Counts' /\ Data'  BY <1>0 DEF Counts, Data, Byte
  <2> QED  BY <2>1, <2>2, <2>4, <2>5 DEF IInv
<1> QED
  BY <1>1, <1>2, <1>3, <1>4, <1>5, <1>6, <1>7, <1>8, <1>9 DEF SpiNext, Command, Core

LEMMA Invariant == SpiSpec => []IInv
BY Initially, Inductive, PTL DEF SpiSpec

\* Every variable of the command and of the core has its type, for commands
\* of any length (alt_avalon_spi_command).
THEOREM SpiTypes == SpiSpec => []CommandTypes
<1>1. IInv => CommandTypes  BY DEF IInv
<1> QED  BY <1>1, Invariant, PTL

\* No register of the core is written over, however late the processor polls
\* (the credit of alt_avalon_spi_command).
THEOREM SpiNoOverrun == SpiSpec => []NoOverrun
<1>1. IInv => NoOverrun  BY DEF IInv
<1> QED  BY <1>1, Invariant, PTL

\* A command that has read its last byte sent write_data and then zeros, and
\* has the answers to the zeros, in order.
THEOREM SpiExchanged == SpiSpec => []Exchanged
<1>1. IInv => Exchanged
  <2> SUFFICES ASSUME IInv, spi_pc \in {"drain", "release"}
               PROVE  /\ heard = [k \in 1 .. write_length + read_length |->
                                    IF k <= write_length THEN k ELSE 0]
                      /\ read = [k \in 1 .. read_length |-> write_length + k]
    BY DEF Exchanged
  <2>0. CommandTypes /\ Flight /\ Data  BY DEF IInv
  <2>1. Len(read) = read_length /\ Len(heard) = write_length + read_length
    BY <2>0 DEF Flight, Quiet, Received, CommandTypes, Counters, ByteTypes
  <2>2. heard \in Seq(Nat) /\ read \in Seq(Nat)  BY <2>0 DEF CommandTypes, Counters, ByteTypes
  <2>3. heard = [k \in 1 .. Len(heard) |-> heard[k]] /\ read = [k \in 1 .. Len(read) |-> read[k]]
    BY <2>2
  <2> QED  BY <2>0, <2>1, <2>3 DEF Data, Byte
<1> QED  BY <1>1, Invariant, PTL

-----------------------------------------------------------------------------
\* From the end of Drain on the core stays idle: only a byte written to TXDATA clears TMT.
Drained == spi_pc = "release" => TMT

LEMMA NextDrained == Drained /\ [SpiNext]_spi_vars => Drained'
<1> SUFFICES ASSUME Drained, [SpiNext]_spi_vars PROVE Drained'  OBVIOUS
<1> USE DEF Drained
<1>1. CASE Call \/ Poll \/ Receive \/ Release
  BY <1>1 DEF Call, Arguments, Poll, Receive, TakeByte, Release
<1>2. CASE SendData \/ SendZero \/ NothingToSend
  BY <1>2 DEF SendData, SendZero, NothingToSend, AfterSend
<1>3. CASE Drain \/ Core \/ UNCHANGED spi_vars
  BY <1>3 DEF Drain, Core, Load, Shift, Idle, core, spi_vars
<1> QED
  BY <1>1, <1>2, <1>3 DEF SpiNext, Command

\* The target is deselected only while the core transmits nothing: after the wait for TMT at
\* the end of alt_avalon_spi_command.
THEOREM SpiReleased == SpiSpec => ReleasedWhenIdle
<1>1. Drained /\ [SpiNext]_spi_vars => [SSO /\ ~SSO' => TMT]_spi_vars
  <2> SUFFICES ASSUME Drained, [SpiNext]_spi_vars, SSO, ~SSO' PROVE TMT
    OBVIOUS
  <2>1. Release
    BY DEF SpiNext, Command, Core, spi_vars, Call, Arguments, Poll, AfterSend, SendData, SendZero,
           NothingToSend, Receive, TakeByte, Drain, Load, Shift, Idle
  <2> QED
    BY <2>1 DEF Release, Drained
<1>2. SpiInit => Drained
  BY DEF SpiInit, Drained
<1>3. SpiSpec => []Drained
  BY <1>2, NextDrained, PTL DEF SpiSpec
<1>4. SpiSpec => [][SSO /\ ~SSO' => TMT]_spi_vars
  BY <1>1, <1>3, PTL DEF SpiSpec
<1> QED
  BY <1>4 DEF ReleasedWhenIdle
=============================================================================
