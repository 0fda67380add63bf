--------------------------- MODULE JtagUartProofs ---------------------------
(***************************************************************************)
(* Proofs about JtagUart: the types, the contents of the two circular      *)
(* buffers, the interrupt enables, and that each buffer is a Pipe.         *)
(***************************************************************************)
EXTENDS JtagUart, TLAPS

-----------------------------------------------------------------------------
(* The inductive invariant                                                 *)

\* How far slot s is after slot out.
Distance(s, out) == IF s >= out THEN s - out ELSE s + BUF_LEN - out

\* A buffer holds the k characters from first on, the oldest in slot out.
Ring(buf, in, out, first, k) ==
  /\ k \in 0 .. BUF_LEN - 1
  /\ in = out + k \/ in = out + k - BUF_LEN
  /\ \A s \in Slots : Distance(s, out) < k => buf[s] = first + Distance(s, out)

\* The space the thread measured is still there when it is used, because the
\* interrupt routine only makes more of it.
TxCall ==
  /\ pc \in {"w_copy", "w_publish"} =>
       /\ n \in 1 .. count /\ tx_in + n <= BUF_LEN
       /\ accepted - sent + n <= BUF_LEN - 1
  /\ pc = "w_publish" =>
       \A s \in tx_in .. tx_in + n - 1 : tx_buf[s] = accepted + (s - tx_in)

TxInv == Ring(tx_buf, tx_in, tx_out, sent, accepted - sent) /\ TxCall

\* The characters the thread saw are still there when it copies them.
RxCall ==
  /\ pc = "r_copy" => n \in 1 .. count
  /\ pc \in {"r_copy", "r_publish"} =>
       /\ n \in 1 .. BUF_LEN /\ rx_out + n <= BUF_LEN
       /\ n <= typed - rfifo - Taken
  /\ pc = "r_publish" => done > 0 /\ n <= delivered

RxInv ==
  /\ rfifo <= typed /\ Taken \in Nat
  /\ Ring(rx_buf, rx_in, rx_out, Taken, typed - rfifo - Taken)
  /\ RxCall

\* The space the interrupt routine was told of is still there.
IsrInv == ipc \in {"rx", "tx"} => wfifo + space <= WRITE_DEPTH

IInv == TypeOK /\ TxInv /\ RxInv /\ IsrInv /\ StreamsIntact /\ WriteIrqArmed /\ ReadIrqArmed

-----------------------------------------------------------------------------
(* Lemmas                                                                  *)

\* An index is wrapped at the end of the buffer.
LEMMA Wrapped ==
  ASSUME NEW i \in 0 .. BUF_LEN + BUF_LEN - 1
  PROVE  i % BUF_LEN = (IF i < BUF_LEN THEN i ELSE i - BUF_LEN)
  <1>1. BUF_LEN \in Nat /\ BUF_LEN > 1
    BY UartAssumption
  <1>2. CASE i < BUF_LEN
    BY <1>1, <1>2, SMT
  <1>3. CASE i >= BUF_LEN
    BY <1>1, <1>3, SMT
  <1>. QED BY <1>1, <1>2, <1>3

\* A ring is empty exactly when its indices are equal.
LEMMA RingEmpty ==
  ASSUME NEW buf, NEW in \in Slots, NEW out \in Slots, NEW first, NEW k,
         Ring(buf, in, out, first, k)
  PROVE  in = out <=> k = 0
  BY UartAssumption DEF Ring, Slots

\* How many characters a ring holds.
LEMMA RingSize ==
  ASSUME NEW buf, NEW in \in Slots, NEW out \in Slots, NEW first, NEW k,
         Ring(buf, in, out, first, k)
  PROVE  k = Distance(in, out)
  BY UartAssumption DEF Ring, Slots, Distance

\* The space Contiguous computes lies before the end and leaves a slot free.
LEMMA ContiguousFree ==
  ASSUME NEW buf, NEW in \in Slots, NEW out \in Slots, NEW first, NEW k,
         Ring(buf, in, out, first, k)
  PROVE  /\ Contiguous(in, out) \in Nat
         /\ in + Contiguous(in, out) <= BUF_LEN
         /\ k + Contiguous(in, out) <= BUF_LEN - 1
  BY UartAssumption DEF Ring, Slots, Contiguous

\* The characters Available counts are in the ring, before the end.
LEMMA AvailableHeld ==
  ASSUME NEW buf, NEW in \in Slots, NEW out \in Slots, NEW first, NEW k,
         Ring(buf, in, out, first, k)
  PROVE  /\ Available(in, out) \in Nat
         /\ out + Available(in, out) <= BUF_LEN
         /\ Available(in, out) <= k
         /\ Available(in, out) = 0 => in = out
  BY UartAssumption DEF Ring, Slots, Available

\* m characters after the newest make the ring m longer.
LEMMA RingPut ==
  ASSUME NEW buf, NEW in \in Slots, NEW out \in Slots, NEW first \in Nat, NEW k,
         Ring(buf, in, out, first, k),
         NEW m \in Nat, in + m <= BUF_LEN, k + m <= BUF_LEN - 1,
         \A s \in in .. in + m - 1 : buf[s] = first + k + (s - in)
  PROVE  Ring(buf, (in + m) % BUF_LEN, out, first, k + m)
  <1>1. (in + m) % BUF_LEN = (IF in + m < BUF_LEN THEN in + m ELSE in + m - BUF_LEN)
    BY Wrapped, UartAssumption DEF Slots
  <1>2. k + m \in 0 .. BUF_LEN - 1
    BY UartAssumption DEF Ring
  <1>3. (in + m) % BUF_LEN = out + (k + m) \/ (in + m) % BUF_LEN = out + (k + m) - BUF_LEN
    BY <1>1, UartAssumption DEF Ring, Slots
  <1>4. ASSUME NEW s \in Slots, Distance(s, out) < k + m
        PROVE  buf[s] = first + Distance(s, out)
    <2>1. CASE Distance(s, out) < k
      BY <2>1 DEF Ring
    <2>2. CASE ~(Distance(s, out) < k)
      <3>1. s \in in .. in + m - 1 /\ Distance(s, out) = k + (s - in)
        BY <1>4, <2>2, UartAssumption DEF Ring, Slots, Distance
      <3>2. buf[s] = first + k + (s - in)
        BY <3>1
      <3>. QED BY <3>1, <3>2, UartAssumption DEF Ring, Slots
    <2>. QED BY <2>1, <2>2
  <1>. QED BY <1>2, <1>3, <1>4 DEF Ring

\* Without its m oldest characters the ring is m shorter.
LEMMA RingGet ==
  ASSUME NEW buf, NEW in \in Slots, NEW out \in Slots, NEW first \in Nat, NEW k,
         Ring(buf, in, out, first, k),
         NEW m \in Nat, out + m <= BUF_LEN, m <= k
  PROVE  Ring(buf, in, (out + m) % BUF_LEN, first + m, k - m)
  <1>. DEFINE o == (out + m) % BUF_LEN
  <1>1. o = (IF out + m < BUF_LEN THEN out + m ELSE out + m - BUF_LEN)
    BY Wrapped, UartAssumption DEF Slots
  <1>. HIDE DEF o
  <1>2. k - m \in 0 .. BUF_LEN - 1
    BY UartAssumption DEF Ring
  <1>3. in = o + (k - m) \/ in = o + (k - m) - BUF_LEN
    BY <1>1, <1>2, UartAssumption DEF Ring, Slots
  <1>4. ASSUME NEW s \in Slots, Distance(s, o) < k - m
        PROVE  buf[s] = first + m + Distance(s, o)
    <2>1. Distance(s, out) < k /\ Distance(s, out) = m + Distance(s, o) /\ Distance(s, o) \in Int
      BY <1>1, <1>4, UartAssumption DEF Ring, Slots, Distance
    <2>2. buf[s] = first + Distance(s, out)
      BY <2>1 DEF Ring
    <2>. QED BY <2>1, <2>2
  <1>. QED BY <1>2, <1>3, <1>4 DEF Ring, o

\* What is written outside a ring does not disturb it.
LEMMA RingKept ==
  ASSUME NEW buf, NEW in \in Slots, NEW out \in Slots, NEW first, NEW k,
         Ring(buf, in, out, first, k), NEW new,
         \A s \in Slots : Distance(s, out) < k => new[s] = buf[s]
  PROVE  Ring(new, in, out, first, k)
  BY DEF Ring

-----------------------------------------------------------------------------
(* The types                                                               *)

LEMMA TypeInit == Init => IInv
  <1>. SUFFICES ASSUME Init PROVE IInv
    OBVIOUS
  <1>1. TypeOK
    <2>1. 0 \in Slots
      BY UartAssumption DEF Slots
    <2>2. BufferTypes /\ CallTypes /\ StreamTypes
      BY <2>1 DEF Init, BufferTypes, CallTypes, StreamTypes, PCs
    <2>3. timeout \in 2 .. INT_MAX /\ host_inactive \in 0 .. INT_MAX - 2
      BY UartAssumption DEF Init
    <2>4. wfifo \in 0 .. WRITE_DEPTH /\ rfifo \in 0 .. READ_DEPTH /\ space \in 0 .. WRITE_DEPTH
      BY UartAssumption DEF Init
    <2>5. DeviceTypes
      BY <2>3, <2>4 DEF Init, DeviceTypes
    <2>. QED BY <2>2, <2>5 DEF TypeOK
  <1>2. TxInv
    BY UartAssumption DEF Init, TxInv, TxCall, Ring, Slots, Distance
  <1>3. RxInv
    BY UartAssumption DEF Init, RxInv, RxCall, Taken, Ring, Slots, Distance
  <1>4. IsrInv /\ StreamsIntact /\ WriteIrqArmed /\ ReadIrqArmed
    BY DEF Init, IsrInv, StreamsIntact, WriteIrqArmed, ReadIrqArmed
  <1>. QED BY <1>1, <1>2, <1>3, <1>4 DEF IInv

\* Between calls the locals are cleared.
LEMMA LeaveTypes ==
  ASSUME Leave, ret' \in {"ok", "EWOULDBLOCK", "EIO"}
  PROVE  CallTypes'
  <1>1. 0 \in Slots /\ 0 \in Nat
    BY UartAssumption DEF Slots
  <1>2. ret' \in {"none", "ok", "EWOULDBLOCK", "EIO"}
    OBVIOUS
  <1>. QED BY <1>1, <1>2 DEF Leave, CallTypes, PCs

LEMMA TypeStep == IInv /\ [Next]_vars => TypeOK'
  <1>. SUFFICES ASSUME IInv, [Next]_vars PROVE TypeOK'
    OBVIOUS
  <1>. USE DEF tx, rx, alarm, call, isr, device, streams
  <1>1. CASE WriteCall
    <2>1. BufferTypes'
      BY <1>1 DEF IInv, TypeOK, BufferTypes, WriteCall
    <2>2. CallTypes'
      BY <1>1, UartAssumption DEF IInv, TypeOK, CallTypes, WriteCall, PCs, At, BufferTypes,
         Least, TxInv, TxCall, RxInv, RxCall, Taken, PCs
    <2>3. DeviceTypes'
      BY <1>1 DEF IInv, TypeOK, DeviceTypes, WriteCall
    <2>4. StreamTypes'
      BY <1>1 DEF IInv, TypeOK, StreamTypes, WriteCall
    <2>. QED BY <2>1, <2>2, <2>3, <2>4 DEF TypeOK
  <1>2. CASE WriteSpace
    <2>1. BufferTypes'
      BY <1>2 DEF IInv, TypeOK, BufferTypes, WriteSpace
    <2>2. CallTypes'
      BY <1>2, UartAssumption, ContiguousFree DEF IInv, TypeOK, CallTypes, WriteSpace, PCs, At,
         BufferTypes, Least, TxInv, TxCall, RxInv, RxCall, Taken, PCs, Contiguous
    <2>3. DeviceTypes'
      BY <1>2 DEF IInv, TypeOK, DeviceTypes, WriteSpace
    <2>4. StreamTypes'
      BY <1>2 DEF IInv, TypeOK, StreamTypes, WriteSpace
    <2>. QED BY <2>1, <2>2, <2>3, <2>4 DEF TypeOK
  <1>3. CASE WriteCopy
    <2>1. BufferTypes'
      BY <1>3, UartAssumption DEF IInv, TypeOK, BufferTypes, WriteCopy, StreamTypes, CallTypes,
         DeviceTypes, RxInv, TxInv, TxCall, RxCall, Ring, Slots
    <2>2. CallTypes'
      BY <1>3, UartAssumption DEF IInv, TypeOK, CallTypes, WriteCopy, PCs, At, BufferTypes,
         Least, TxInv, TxCall, RxInv, RxCall, Taken
    <2>3. DeviceTypes'
      BY <1>3 DEF IInv, TypeOK, DeviceTypes, WriteCopy
    <2>4. StreamTypes'
      BY <1>3 DEF IInv, TypeOK, StreamTypes, WriteCopy
    <2>. QED BY <2>1, <2>2, <2>3, <2>4 DEF TypeOK
  <1>4. CASE WritePublish
    <2>1. BufferTypes'
      BY <1>4, UartAssumption, Wrapped DEF IInv, TypeOK, BufferTypes, WritePublish, StreamTypes,
         CallTypes, DeviceTypes, RxInv, TxInv, TxCall, RxCall, Ring, Slots
    <2>2. CallTypes'
      BY <1>4, UartAssumption, Wrapped DEF IInv, TypeOK, CallTypes, WritePublish, PCs, At,
         BufferTypes, Least, TxInv, TxCall, RxInv, RxCall, Taken
    <2>3. DeviceTypes'
      BY <1>4 DEF IInv, TypeOK, DeviceTypes, WritePublish
    <2>4. StreamTypes'
      BY <1>4, UartAssumption, Wrapped DEF IInv, TypeOK, StreamTypes, WritePublish, DeviceTypes,
         CallTypes, RxInv, RxCall
    <2>. QED BY <2>1, <2>2, <2>3, <2>4 DEF TypeOK
  <1>5. CASE WriteKick
    <2>1. BufferTypes'
      BY <1>5 DEF IInv, TypeOK, BufferTypes, WriteKick
    <2>2. CallTypes'
      BY <1>5, UartAssumption DEF IInv, TypeOK, CallTypes, WriteKick, PCs, At, BufferTypes,
         Least, TxInv, TxCall, RxInv, RxCall, Taken
    <2>3. DeviceTypes'
      BY <1>5, UartAssumption DEF IInv, TypeOK, DeviceTypes, WriteKick, IsrInv, ReadIrq, WriteIrq
    <2>4. StreamTypes'
      BY <1>5 DEF IInv, TypeOK, StreamTypes, WriteKick
    <2>. QED BY <2>1, <2>2, <2>3, <2>4 DEF TypeOK
  <1>6. CASE WriteSpin
    <2>1. BufferTypes'
      BY <1>6 DEF IInv, TypeOK, BufferTypes, WriteSpin
    <2>2. CallTypes'
      BY <1>6, UartAssumption DEF IInv, TypeOK, CallTypes, WriteSpin, PCs, At, BufferTypes,
         Least, TxInv, TxCall, RxInv, RxCall, Taken
    <2>3. DeviceTypes'
      BY <1>6 DEF IInv, TypeOK, DeviceTypes, WriteSpin
    <2>4. StreamTypes'
      BY <1>6 DEF IInv, TypeOK, StreamTypes, WriteSpin
    <2>. QED BY <2>1, <2>2, <2>3, <2>4 DEF TypeOK
  <1>7. CASE WriteCheck
    <2>1. BufferTypes'
      BY <1>7 DEF IInv, TypeOK, BufferTypes, WriteCheck
    <2>2. CallTypes'
      BY <1>7, UartAssumption DEF IInv, TypeOK, CallTypes, WriteCheck, PCs, At, BufferTypes,
         Least, TxInv, TxCall, RxInv, RxCall, Taken
    <2>3. DeviceTypes'
      BY <1>7 DEF IInv, TypeOK, DeviceTypes, WriteCheck
    <2>4. StreamTypes'
      BY <1>7 DEF IInv, TypeOK, StreamTypes, WriteCheck
    <2>. QED BY <2>1, <2>2, <2>3, <2>4 DEF TypeOK
  <1>8. CASE WriteReturn
    <2>1. BufferTypes'
      BY <1>8 DEF IInv, TypeOK, BufferTypes, WriteReturn
    <2>2. CallTypes'
      BY <1>8, LeaveTypes DEF WriteReturn, Result
    <2>3. DeviceTypes'
      BY <1>8 DEF IInv, TypeOK, DeviceTypes, WriteReturn
    <2>4. StreamTypes'
      BY <1>8 DEF IInv, TypeOK, StreamTypes, WriteReturn
    <2>. QED BY <2>1, <2>2, <2>3, <2>4 DEF TypeOK
  <1>9. CASE ReadCall
    <2>1. BufferTypes'
      BY <1>9 DEF IInv, TypeOK, BufferTypes, ReadCall
    <2>2. CallTypes'
      BY <1>9, UartAssumption DEF IInv, TypeOK, CallTypes, ReadCall, PCs, At, BufferTypes,
         Least, TxInv, TxCall, RxInv, RxCall, Taken
    <2>3. DeviceTypes'
      BY <1>9 DEF IInv, TypeOK, DeviceTypes, ReadCall
    <2>4. StreamTypes'
      BY <1>9 DEF IInv, TypeOK, StreamTypes, ReadCall
    <2>. QED BY <2>1, <2>2, <2>3, <2>4 DEF TypeOK
  <1>10. CASE ReadAvail
    <2>1. BufferTypes'
      BY <1>10 DEF IInv, TypeOK, BufferTypes, ReadAvail
    <2>2. CallTypes'
      BY <1>10, UartAssumption, AvailableHeld DEF IInv, TypeOK, CallTypes, ReadAvail, PCs, At,
         BufferTypes, Least, TxInv, TxCall, RxInv, RxCall, Taken
    <2>3. DeviceTypes'
      BY <1>10 DEF IInv, TypeOK, DeviceTypes, ReadAvail
    <2>4. StreamTypes'
      BY <1>10 DEF IInv, TypeOK, StreamTypes, ReadAvail
    <2>. QED BY <2>1, <2>2, <2>3, <2>4 DEF TypeOK
  <1>11. CASE ReadCopy
    <2>1. BufferTypes'
      BY <1>11 DEF IInv, TypeOK, BufferTypes, ReadCopy
    <2>2. CallTypes'
      BY <1>11, UartAssumption DEF IInv, TypeOK, CallTypes, ReadCopy, PCs, At, BufferTypes,
         Least, TxInv, TxCall, RxInv, RxCall, Taken
    <2>3. DeviceTypes'
      BY <1>11 DEF IInv, TypeOK, DeviceTypes, ReadCopy
    <2>4. StreamTypes'
      BY <1>11, UartAssumption DEF IInv, TypeOK, StreamTypes, ReadCopy, DeviceTypes, CallTypes,
         RxInv, RxCall
    <2>. QED BY <2>1, <2>2, <2>3, <2>4 DEF TypeOK
  <1>12. CASE ReadPublish
    <2>1. BufferTypes'
      BY <1>12, UartAssumption, Wrapped DEF IInv, TypeOK, BufferTypes, ReadPublish, StreamTypes,
         CallTypes, DeviceTypes, RxInv, TxInv, TxCall, RxCall, Ring, Slots
    <2>2. CallTypes'
      BY <1>12, UartAssumption, Wrapped DEF IInv, TypeOK, CallTypes, ReadPublish, PCs, At,
         BufferTypes, Least, TxInv, TxCall, RxInv, RxCall, Taken
    <2>3. DeviceTypes'
      BY <1>12 DEF IInv, TypeOK, DeviceTypes, ReadPublish
    <2>4. StreamTypes'
      BY <1>12 DEF IInv, TypeOK, StreamTypes, ReadPublish
    <2>. QED BY <2>1, <2>2, <2>3, <2>4 DEF TypeOK
  <1>13. CASE ReadSpin
    <2>1. BufferTypes'
      BY <1>13 DEF IInv, TypeOK, BufferTypes, ReadSpin
    <2>2. CallTypes'
      BY <1>13, UartAssumption DEF IInv, TypeOK, CallTypes, ReadSpin, PCs, At, BufferTypes,
         Least, TxInv, TxCall, RxInv, RxCall, Taken
    <2>3. DeviceTypes'
      BY <1>13 DEF IInv, TypeOK, DeviceTypes, ReadSpin
    <2>4. StreamTypes'
      BY <1>13 DEF IInv, TypeOK, StreamTypes, ReadSpin
    <2>. QED BY <2>1, <2>2, <2>3, <2>4 DEF TypeOK
  <1>14. CASE ReadCheck
    <2>1. BufferTypes'
      BY <1>14 DEF IInv, TypeOK, BufferTypes, ReadCheck
    <2>2. CallTypes'
      BY <1>14, UartAssumption DEF IInv, TypeOK, CallTypes, ReadCheck, PCs, At, BufferTypes,
         Least, TxInv, TxCall, RxInv, RxCall, Taken
    <2>3. DeviceTypes'
      BY <1>14 DEF IInv, TypeOK, DeviceTypes, ReadCheck
    <2>4. StreamTypes'
      BY <1>14 DEF IInv, TypeOK, StreamTypes, ReadCheck
    <2>. QED BY <2>1, <2>2, <2>3, <2>4 DEF TypeOK
  <1>15. CASE ReadEnable
    <2>1. BufferTypes'
      BY <1>15 DEF IInv, TypeOK, BufferTypes, ReadEnable
    <2>2. CallTypes'
      BY <1>15, UartAssumption DEF IInv, TypeOK, CallTypes, ReadEnable, PCs, At, BufferTypes,
         Least, TxInv, TxCall, RxInv, RxCall, Taken
    <2>3. DeviceTypes'
      BY <1>15, UartAssumption DEF IInv, TypeOK, DeviceTypes, ReadEnable, IsrInv, ReadIrq, WriteIrq
    <2>4. StreamTypes'
      BY <1>15 DEF IInv, TypeOK, StreamTypes, ReadEnable
    <2>. QED BY <2>1, <2>2, <2>3, <2>4 DEF TypeOK
  <1>16. CASE ReadReturn
    <2>1. BufferTypes'
      BY <1>16 DEF IInv, TypeOK, BufferTypes, ReadReturn
    <2>2. CallTypes'
      BY <1>16, LeaveTypes DEF ReadReturn, Result
    <2>3. DeviceTypes'
      BY <1>16 DEF IInv, TypeOK, DeviceTypes, ReadReturn
    <2>4. StreamTypes'
      BY <1>16 DEF IInv, TypeOK, StreamTypes, ReadReturn
    <2>. QED BY <2>1, <2>2, <2>3, <2>4 DEF TypeOK
  <1>17. CASE SetTimeout
    <2>1. BufferTypes'
      BY <1>17 DEF IInv, TypeOK, BufferTypes, SetTimeout
    <2>2. CallTypes'
      BY <1>17 DEF IInv, TypeOK, CallTypes, SetTimeout
    <2>3. DeviceTypes'
      BY <1>17, UartAssumption DEF IInv, TypeOK, DeviceTypes, SetTimeout, IsrInv, ReadIrq, WriteIrq
    <2>4. StreamTypes'
      BY <1>17 DEF IInv, TypeOK, StreamTypes, SetTimeout
    <2>. QED BY <2>1, <2>2, <2>3, <2>4 DEF TypeOK
  <1>18. CASE CloseCall
    <2>1. BufferTypes'
      BY <1>18 DEF IInv, TypeOK, BufferTypes, CloseCall
    <2>2. CallTypes'
      BY <1>18, UartAssumption DEF IInv, TypeOK, CallTypes, CloseCall, PCs, At, BufferTypes,
         Least, TxInv, TxCall, RxInv, RxCall, Taken
    <2>3. DeviceTypes'
      BY <1>18 DEF IInv, TypeOK, DeviceTypes, CloseCall
    <2>4. StreamTypes'
      BY <1>18 DEF IInv, TypeOK, StreamTypes, CloseCall
    <2>. QED BY <2>1, <2>2, <2>3, <2>4 DEF TypeOK
  <1>19. CASE CloseReturn
    <2>1. BufferTypes'
      BY <1>19 DEF IInv, TypeOK, BufferTypes, CloseReturn
    <2>2. CallTypes'
      BY <1>19, LeaveTypes DEF CloseReturn
    <2>3. DeviceTypes'
      BY <1>19 DEF IInv, TypeOK, DeviceTypes, CloseReturn
    <2>4. StreamTypes'
      BY <1>19 DEF IInv, TypeOK, StreamTypes, CloseReturn
    <2>. QED BY <2>1, <2>2, <2>3, <2>4 DEF TypeOK
  <1>20. CASE IsrEnter
    <2>1. BufferTypes'
      BY <1>20 DEF IInv, TypeOK, BufferTypes, IsrEnter
    <2>2. CallTypes'
      BY <1>20 DEF IInv, TypeOK, CallTypes, IsrEnter
    <2>3. DeviceTypes'
      BY <1>20, UartAssumption DEF IInv, TypeOK, DeviceTypes, IsrEnter, IsrInv, ReadIrq, WriteIrq
    <2>4. StreamTypes'
      BY <1>20 DEF IInv, TypeOK, StreamTypes, IsrEnter
    <2>. QED BY <2>1, <2>2, <2>3, <2>4 DEF TypeOK
  <1>21. CASE IsrControl
    <2>1. BufferTypes'
      BY <1>21 DEF IInv, TypeOK, BufferTypes, IsrControl
    <2>2. CallTypes'
      BY <1>21 DEF IInv, TypeOK, CallTypes, IsrControl
    <2>3. DeviceTypes'
      BY <1>21, UartAssumption DEF IInv, TypeOK, DeviceTypes, IsrControl, IsrInv, ReadIrq, WriteIrq
    <2>4. StreamTypes'
      BY <1>21 DEF IInv, TypeOK, StreamTypes, IsrControl
    <2>. QED BY <2>1, <2>2, <2>3, <2>4 DEF TypeOK
  <1>22. CASE IsrReceive
    <2>1. BufferTypes'
      BY <1>22, UartAssumption, Wrapped DEF IInv, TypeOK, BufferTypes, IsrReceive, StreamTypes,
         CallTypes, DeviceTypes, RxInv, TxInv, TxCall, RxCall, Ring, Slots
    <2>2. CallTypes'
      BY <1>22 DEF IInv, TypeOK, CallTypes, IsrReceive
    <2>3. DeviceTypes'
      BY <1>22, UartAssumption, Wrapped DEF IInv, TypeOK, DeviceTypes, IsrReceive, IsrInv,
         ReadIrq, WriteIrq
    <2>4. StreamTypes'
      BY <1>22 DEF IInv, TypeOK, StreamTypes, IsrReceive
    <2>. QED BY <2>1, <2>2, <2>3, <2>4 DEF TypeOK
  <1>23. CASE IsrReceiveEnds
    <2>1. BufferTypes'
      BY <1>23 DEF IInv, TypeOK, BufferTypes, IsrReceiveEnds
    <2>2. CallTypes'
      BY <1>23 DEF IInv, TypeOK, CallTypes, IsrReceiveEnds
    <2>3. DeviceTypes'
      BY <1>23, UartAssumption DEF IInv, TypeOK, DeviceTypes, IsrReceiveEnds, IsrInv, ReadIrq,
         WriteIrq
    <2>4. StreamTypes'
      BY <1>23 DEF IInv, TypeOK, StreamTypes, IsrReceiveEnds
    <2>. QED BY <2>1, <2>2, <2>3, <2>4 DEF TypeOK
  <1>24. CASE IsrTransmit
    <2>1. BufferTypes'
      BY <1>24, UartAssumption, Wrapped DEF IInv, TypeOK, BufferTypes, IsrTransmit, StreamTypes,
         CallTypes, DeviceTypes, RxInv, TxInv, TxCall, RxCall, Ring, Slots
    <2>2. CallTypes'
      BY <1>24 DEF IInv, TypeOK, CallTypes, IsrTransmit
    <2>3. DeviceTypes'
      BY <1>24, UartAssumption, Wrapped DEF IInv, TypeOK, DeviceTypes, IsrTransmit, IsrInv,
         ReadIrq, WriteIrq
    <2>4. StreamTypes'
      BY <1>24, UartAssumption, Wrapped DEF IInv, TypeOK, StreamTypes, IsrTransmit, DeviceTypes,
         CallTypes, RxInv, RxCall
    <2>. QED BY <2>1, <2>2, <2>3, <2>4 DEF TypeOK
  <1>25. CASE IsrTransmitEnds
    <2>1. BufferTypes'
      BY <1>25 DEF IInv, TypeOK, BufferTypes, IsrTransmitEnds
    <2>2. CallTypes'
      BY <1>25 DEF IInv, TypeOK, CallTypes, IsrTransmitEnds
    <2>3. DeviceTypes'
      BY <1>25, UartAssumption DEF IInv, TypeOK, DeviceTypes, IsrTransmitEnds, IsrInv, ReadIrq,
         WriteIrq
    <2>4. StreamTypes'
      BY <1>25 DEF IInv, TypeOK, StreamTypes, IsrTransmitEnds
    <2>. QED BY <2>1, <2>2, <2>3, <2>4 DEF TypeOK
  <1>26. CASE AlarmTick
    <2>1. BufferTypes'
      BY <1>26 DEF IInv, TypeOK, BufferTypes, AlarmTick
    <2>2. CallTypes'
      BY <1>26 DEF IInv, TypeOK, CallTypes, AlarmTick
    <2>3. DeviceTypes'
      <3>1. timeout \in 2 .. INT_MAX /\ host_inactive \in 0 .. INT_MAX - 2 /\ INT_MAX - 2 \in Nat
        BY UartAssumption DEF IInv, TypeOK, DeviceTypes
      <3>2. host_inactive' \in 0 .. INT_MAX - 2
        BY <1>26, <3>1 DEF AlarmTick
      <3>3. ac' \in BOOLEAN
        BY <1>26 DEF AlarmTick, IInv, TypeOK, DeviceTypes
      <3>. QED BY <1>26, <3>2, <3>3 DEF AlarmTick, IInv, TypeOK, DeviceTypes
    <2>4. StreamTypes'
      BY <1>26 DEF IInv, TypeOK, StreamTypes, AlarmTick
    <2>. QED BY <2>1, <2>2, <2>3, <2>4 DEF TypeOK
  <1>27. CASE HostPolls
    <2>1. BufferTypes'
      BY <1>27 DEF IInv, TypeOK, BufferTypes, HostPolls
    <2>2. CallTypes'
      BY <1>27 DEF IInv, TypeOK, CallTypes, HostPolls
    <2>3. DeviceTypes'
      BY <1>27, UartAssumption DEF IInv, TypeOK, DeviceTypes, HostPolls, IsrInv, ReadIrq, WriteIrq
    <2>4. StreamTypes'
      BY <1>27 DEF IInv, TypeOK, StreamTypes, HostPolls
    <2>. QED BY <2>1, <2>2, <2>3, <2>4 DEF TypeOK
  <1>28. CASE HostTakes
    <2>1. BufferTypes'
      BY <1>28 DEF IInv, TypeOK, BufferTypes, HostTakes
    <2>2. CallTypes'
      BY <1>28 DEF IInv, TypeOK, CallTypes, HostTakes
    <2>3. DeviceTypes'
      BY <1>28, UartAssumption DEF IInv, TypeOK, DeviceTypes, HostTakes, IsrInv, ReadIrq, WriteIrq
    <2>4. StreamTypes'
      BY <1>28 DEF IInv, TypeOK, StreamTypes, HostTakes
    <2>. QED BY <2>1, <2>2, <2>3, <2>4 DEF TypeOK
  <1>29. CASE HostTypes
    <2>1. BufferTypes'
      BY <1>29 DEF IInv, TypeOK, BufferTypes, HostTypes
    <2>2. CallTypes'
      BY <1>29 DEF IInv, TypeOK, CallTypes, HostTypes
    <2>3. DeviceTypes'
      BY <1>29, UartAssumption DEF IInv, TypeOK, DeviceTypes, HostTypes, IsrInv, ReadIrq, WriteIrq
    <2>4. StreamTypes'
      BY <1>29, UartAssumption DEF IInv, TypeOK, StreamTypes, HostTypes, DeviceTypes, CallTypes,
         RxInv, RxCall
    <2>. QED BY <2>1, <2>2, <2>3, <2>4 DEF TypeOK
  <1>30. CASE HostLeaves
    <2>1. BufferTypes'
      BY <1>30 DEF IInv, TypeOK, BufferTypes, HostLeaves
    <2>2. CallTypes'
      BY <1>30 DEF IInv, TypeOK, CallTypes, HostLeaves
    <2>3. DeviceTypes'
      BY <1>30, UartAssumption DEF IInv, TypeOK, DeviceTypes, HostLeaves, IsrInv, ReadIrq, WriteIrq
    <2>4. StreamTypes'
      BY <1>30 DEF IInv, TypeOK, StreamTypes, HostLeaves
    <2>. QED BY <2>1, <2>2, <2>3, <2>4 DEF TypeOK
  <1>31. CASE UNCHANGED vars
    BY <1>31 DEF IInv, TypeOK, BufferTypes, CallTypes, DeviceTypes, StreamTypes, vars
  <1>. QED
    BY <1>1, <1>2, <1>3, <1>4, <1>5, <1>6, <1>7, <1>8, <1>9, <1>10, <1>11, <1>12, <1>13, <1>14,
       <1>15, <1>16, <1>17, <1>18, <1>19, <1>20, <1>21, <1>22, <1>23, <1>24, <1>25, <1>26,
       <1>27, <1>28, <1>29, <1>30, <1>31 DEF Next, Begin, Continue, Isr, Host
-----------------------------------------------------------------------------
(* The transmit buffer                                                     *)

LEMMA TxUntouched ==
  ASSUME TxInv, UNCHANGED <<tx_in, tx_out, tx_buf, sent, accepted>>,
         pc' \notin {"w_copy", "w_publish"} \/ UNCHANGED <<pc, n, count>>
  PROVE  TxInv'
  <1>1. Ring(tx_buf, tx_in, tx_out, sent, accepted - sent)'
    BY DEF TxInv, Ring, Distance
  <1>2. TxCall'
    BY DEF TxInv, TxCall
  <1>. QED BY <1>1, <1>2 DEF TxInv

LEMMA TxStep == IInv /\ [Next]_vars => TxInv'
  <1>. SUFFICES ASSUME IInv, [Next]_vars PROVE TxInv'
    OBVIOUS
  <1>. USE DEF tx, rx, alarm, call, isr, device, streams
  <1>1. CASE WriteCall
    BY <1>1, TxUntouched DEF IInv, WriteCall, At
  <1>2. CASE WriteSpace
    <2>1. Ring(tx_buf, tx_in, tx_out, sent, accepted - sent)'
      BY <1>2 DEF WriteSpace, IInv, TxInv, Ring, Distance
    <2>2. CASE pc' = "w_copy"
      <3>1. /\ n' = Least(Contiguous(tx_in, tx_out), count) /\ n' # 0
            /\ UNCHANGED <<tx_in, tx_out, tx_buf, sent, accepted, count>>
        BY <1>2, <2>2 DEF WriteSpace
      <3>2. /\ Contiguous(tx_in, tx_out) \in Nat
            /\ tx_in + Contiguous(tx_in, tx_out) <= BUF_LEN
            /\ accepted - sent + Contiguous(tx_in, tx_out) <= BUF_LEN - 1
        BY ContiguousFree DEF IInv, TypeOK, BufferTypes, CallTypes, DeviceTypes, StreamTypes, TxInv
      <3>. HIDE DEF Contiguous
      <3>3. /\ n' \in 1 .. count' /\ tx_in' + n' <= BUF_LEN
            /\ accepted' - sent' + n' <= BUF_LEN - 1
        BY <3>1, <3>2, UartAssumption DEF Least, IInv, TypeOK, BufferTypes, CallTypes,
           StreamTypes, Slots
      <3>. QED BY <2>1, <2>2, <3>3 DEF TxInv, TxCall
    <2>3. CASE pc' = "w_kick"
      BY <2>1, <2>3 DEF TxInv, TxCall
    <2>. QED BY <1>2, <2>2, <2>3 DEF WriteSpace
  <1>3. CASE WriteCopy
    <2>. USE <1>3 DEF WriteCopy, At
    <2>1. /\ n \in 1 .. count /\ tx_in + n <= BUF_LEN
          /\ accepted - sent + n <= BUF_LEN - 1
      BY DEF IInv, TxInv, TxCall
    <2>2. \A s \in Slots : Distance(s, tx_out) < accepted - sent => tx_buf'[s] = tx_buf[s]
      <3>1. SUFFICES ASSUME NEW s \in Slots, Distance(s, tx_out) < accepted - sent
                     PROVE  s \notin tx_in .. tx_in + n - 1
        OBVIOUS
      <3>. QED BY <2>1, <3>1, UartAssumption
               DEF IInv, TypeOK, BufferTypes, CallTypes, DeviceTypes, StreamTypes, TxInv, Ring,
               Slots, Distance
    <2>3. Ring(tx_buf, tx_in, tx_out, sent, accepted - sent)'
      <3>1. Ring(tx_buf', tx_in, tx_out, sent, accepted - sent)
        BY <2>2, RingKept DEF IInv, TypeOK, BufferTypes, CallTypes, DeviceTypes, StreamTypes, TxInv
      <3>. QED BY <3>1 DEF Ring, Distance
    <2>4. \A s \in tx_in .. tx_in + n - 1 : tx_buf'[s] = accepted + (s - tx_in)
      <3>1. tx_in .. tx_in + n - 1 \subseteq Slots
        BY <2>1, UartAssumption DEF IInv, TypeOK, BufferTypes, CallTypes, DeviceTypes,
           StreamTypes, TxInv, Slots
      <3>. QED BY <3>1
    <2>5. TxCall'
      BY <2>1, <2>4 DEF TxCall
    <2>. QED BY <2>3, <2>5 DEF TxInv
  <1>4. CASE WritePublish
    <2>. USE <1>4 DEF WritePublish, At
    <2>1. /\ n \in 1 .. count /\ tx_in + n <= BUF_LEN
          /\ accepted - sent + n <= BUF_LEN - 1
          /\ \A s \in tx_in .. tx_in + n - 1 : tx_buf[s] = accepted + (s - tx_in)
      BY DEF IInv, TxInv, TxCall
    <2>2. \A s \in tx_in .. tx_in + n - 1 : tx_buf[s] = sent + (accepted - sent) + (s - tx_in)
      BY <2>1 DEF IInv, TypeOK, BufferTypes, CallTypes, DeviceTypes, StreamTypes, TxInv, Slots
    <2>3. Ring(tx_buf, (tx_in + n) % BUF_LEN, tx_out, sent, accepted - sent + n)
      BY <2>1, <2>2, RingPut DEF IInv, TypeOK, BufferTypes, CallTypes, DeviceTypes, StreamTypes,
         TxInv
    <2>4. accepted' - sent' = accepted - sent + n
      BY DEF IInv, TypeOK, BufferTypes, CallTypes, DeviceTypes, StreamTypes, TxInv
    <2>5. Ring(tx_buf, tx_in, tx_out, sent, accepted - sent)'
      BY <2>3, <2>4 DEF Ring, Distance
    <2>. QED BY <2>5 DEF TxInv, TxCall
  <1>5. CASE WriteKick
    BY <1>5, TxUntouched DEF IInv, WriteKick, At
  <1>6. CASE WriteSpin
    BY <1>6, TxUntouched DEF IInv, WriteSpin, At
  <1>7. CASE WriteCheck
    BY <1>7, TxUntouched DEF IInv, WriteCheck, At
  <1>8. CASE WriteReturn
    BY <1>8, TxUntouched DEF IInv, WriteReturn, At, Leave
  <1>9. CASE ReadCall
    BY <1>9, TxUntouched DEF IInv, ReadCall, At
  <1>10. CASE ReadAvail
    BY <1>10, TxUntouched DEF IInv, ReadAvail, At
  <1>11. CASE ReadCopy
    BY <1>11, TxUntouched DEF IInv, ReadCopy, At
  <1>12. CASE ReadPublish
    BY <1>12, TxUntouched DEF IInv, ReadPublish, At
  <1>13. CASE ReadSpin
    BY <1>13, TxUntouched DEF IInv, ReadSpin, At
  <1>14. CASE ReadCheck
    BY <1>14, TxUntouched DEF IInv, ReadCheck, At
  <1>15. CASE ReadEnable
    BY <1>15, TxUntouched DEF IInv, ReadEnable, At
  <1>16. CASE ReadReturn
    BY <1>16, TxUntouched DEF IInv, ReadReturn, At, Leave
  <1>17. CASE SetTimeout
    BY <1>17, TxUntouched DEF IInv, SetTimeout, At
  <1>18. CASE CloseCall
    BY <1>18, TxUntouched DEF IInv, CloseCall, At
  <1>19. CASE CloseReturn
    BY <1>19, TxUntouched DEF IInv, CloseReturn, At, Leave
  <1>20. CASE IsrEnter
    BY <1>20, TxUntouched DEF IInv, IsrEnter
  <1>21. CASE IsrControl
    BY <1>21, TxUntouched DEF IInv, IsrControl
  <1>22. CASE IsrReceive
    BY <1>22, TxUntouched DEF IInv, IsrReceive
  <1>23. CASE IsrReceiveEnds
    BY <1>23, TxUntouched DEF IInv, IsrReceiveEnds
  <1>24. CASE IsrTransmit
    <2>. USE <1>24 DEF IsrTransmit
    <2>1. accepted - sent >= 1
      <3>1. accepted - sent # 0
        BY RingEmpty DEF IInv, TypeOK, BufferTypes, CallTypes, DeviceTypes, StreamTypes, TxInv
      <3>. QED BY <3>1 DEF IInv, TxInv, Ring
    <2>2. Ring(tx_buf, tx_in, (tx_out + 1) % BUF_LEN, sent + 1, accepted - sent - 1)
      <3>1. /\ Ring(tx_buf, tx_in, tx_out, sent, accepted - sent)
            /\ tx_in \in Slots /\ tx_out \in Slots /\ sent \in Nat
        BY DEF IInv, TypeOK, BufferTypes, CallTypes, DeviceTypes, StreamTypes, TxInv
      <3>2. 1 \in Nat /\ tx_out + 1 <= BUF_LEN /\ 1 <= accepted - sent
        BY <2>1, <3>1, UartAssumption DEF IInv, TypeOK, BufferTypes, CallTypes, DeviceTypes,
           StreamTypes, TxInv, Slots
      <3>. HIDE <1>24
      <3>. QED BY <3>1, <3>2, RingGet
    <2>3. accepted' - sent' = accepted - sent - 1
      BY DEF IInv, TypeOK, BufferTypes, CallTypes, DeviceTypes, StreamTypes, TxInv
    <2>4. Ring(tx_buf, tx_in, tx_out, sent, accepted - sent)'
      BY <2>2, <2>3 DEF Ring, Distance
    <2>5. TxCall'
      <3>1. /\ TxCall /\ accepted \in Nat /\ sent \in Nat /\ n \in Nat
            /\ UNCHANGED <<pc, n, count, tx_in, tx_buf, accepted>> /\ sent' = sent + 1
        BY DEF IInv, TypeOK, BufferTypes, CallTypes, DeviceTypes, StreamTypes, TxInv
      <3>2. accepted - sent + n <= BUF_LEN - 1 => accepted - (sent + 1) + n <= BUF_LEN - 1
        BY <3>1, UartAssumption
      <3>. QED BY <3>1, <3>2 DEF TxCall
    <2>. QED BY <2>4, <2>5 DEF TxInv
  <1>25. CASE IsrTransmitEnds
    BY <1>25, TxUntouched DEF IInv, IsrTransmitEnds
  <1>26. CASE AlarmTick
    BY <1>26, TxUntouched DEF IInv, AlarmTick
  <1>27. CASE HostPolls
    BY <1>27, TxUntouched DEF IInv, HostPolls
  <1>28. CASE HostTakes
    BY <1>28, TxUntouched DEF IInv, HostTakes
  <1>29. CASE HostTypes
    BY <1>29, TxUntouched DEF IInv, HostTypes
  <1>30. CASE HostLeaves
    BY <1>30, TxUntouched DEF IInv, HostLeaves
  <1>31. CASE UNCHANGED vars
    BY <1>31, TxUntouched DEF IInv, vars
  <1>. QED
    BY <1>1, <1>2, <1>3, <1>4, <1>5, <1>6, <1>7, <1>8, <1>9, <1>10, <1>11, <1>12, <1>13, <1>14,
       <1>15, <1>16, <1>17, <1>18, <1>19, <1>20, <1>21, <1>22, <1>23, <1>24, <1>25, <1>26,
       <1>27, <1>28, <1>29, <1>30, <1>31 DEF Next, Begin, Continue, Isr, Host
-----------------------------------------------------------------------------
(* The receive buffer                                                      *)

\* The index after the newest character is the oldest's when the ring is full.
LEMMA RingFull ==
  ASSUME NEW buf, NEW in \in Slots, NEW out \in Slots, NEW first, NEW k,
         Ring(buf, in, out, first, k)
  PROVE  (in + 1) % BUF_LEN = out <=> k = BUF_LEN - 1
  <1>. DEFINE next == (in + 1) % BUF_LEN
  <1>1. next = (IF in + 1 < BUF_LEN THEN in + 1 ELSE in + 1 - BUF_LEN)
    BY Wrapped, UartAssumption DEF Slots
  <1>. HIDE DEF next
  <1>2. next = out <=> k = BUF_LEN - 1
    BY <1>1, UartAssumption DEF Ring, Slots
  <1>. QED BY <1>2 DEF next

LEMMA RxUntouched ==
  ASSUME RxInv, UNCHANGED <<rx_in, rx_out, rx_buf, typed, rfifo, delivered>>,
         \/ {pc, pc'} \intersect {"r_copy", "r_publish"} = {}
         \/ UNCHANGED <<pc, n, count, done>>
  PROVE  RxInv'
  <1>1. Taken' = Taken
    BY DEF Taken
  <1>2. Ring(rx_buf, rx_in, rx_out, Taken, typed - rfifo - Taken)'
    BY <1>1 DEF RxInv, Ring, Distance
  <1>3. RxCall'
    BY <1>1 DEF RxInv, RxCall
  <1>. QED BY <1>1, <1>2, <1>3 DEF RxInv

LEMMA RxStep == IInv /\ [Next]_vars => RxInv'
  <1>. SUFFICES ASSUME IInv, [Next]_vars PROVE RxInv'
    OBVIOUS
  <1>. USE DEF tx, rx, alarm, call, isr, device, streams
  <1>1. CASE WriteCall
    BY <1>1, RxUntouched DEF IInv, WriteCall, At
  <1>2. CASE WriteSpace
    BY <1>2, RxUntouched DEF IInv, WriteSpace, At
  <1>3. CASE WriteCopy
    BY <1>3, RxUntouched DEF IInv, WriteCopy, At
  <1>4. CASE WritePublish
    BY <1>4, RxUntouched DEF IInv, WritePublish, At
  <1>5. CASE WriteKick
    BY <1>5, RxUntouched DEF IInv, WriteKick, At
  <1>6. CASE WriteSpin
    BY <1>6, RxUntouched DEF IInv, WriteSpin, At
  <1>7. CASE WriteCheck
    BY <1>7, RxUntouched DEF IInv, WriteCheck, At
  <1>8. CASE WriteReturn
    BY <1>8, RxUntouched DEF IInv, WriteReturn, At, Leave
  <1>9. CASE ReadCall
    BY <1>9, RxUntouched DEF IInv, ReadCall, At
  <1>10. CASE ReadAvail
    <2>. USE <1>10 DEF ReadAvail, At
    <2>1. Taken' = Taken /\ Taken \in Nat
      BY DEF Taken, IInv, TypeOK, BufferTypes, CallTypes, DeviceTypes, StreamTypes, RxInv
    <2>2. Ring(rx_buf, rx_in, rx_out, Taken, typed - rfifo - Taken)'
      BY <2>1 DEF IInv, TypeOK, BufferTypes, CallTypes, DeviceTypes, StreamTypes, RxInv, Ring,
         Distance
    <2>3. CASE pc' = "r_copy"
      <3>1. /\ n' = Least(Available(rx_in, rx_out), count) /\ n' > 0
            /\ UNCHANGED <<rx_in, rx_out, rx_buf, typed, rfifo, delivered, count>>
        BY <2>3
      <3>2. /\ Available(rx_in, rx_out) \in Nat
            /\ rx_out + Available(rx_in, rx_out) <= BUF_LEN
            /\ Available(rx_in, rx_out) <= typed - rfifo - Taken
        BY AvailableHeld DEF IInv, TypeOK, BufferTypes, CallTypes, DeviceTypes, StreamTypes, RxInv
      <3>. HIDE DEF Available, ReadAvail
      <3>3. /\ n' \in 1 .. count' /\ n' \in 1 .. BUF_LEN /\ rx_out' + n' <= BUF_LEN
            /\ n' <= typed' - rfifo' - Taken'
        BY <2>1, <3>1, <3>2, UartAssumption
        DEF Least, IInv, TypeOK, BufferTypes, CallTypes, StreamTypes, DeviceTypes, Slots
      <3>4. RxCall'
        BY <2>3, <3>3 DEF RxCall
      <3>. QED BY <2>1, <2>2, <3>1, <3>4 DEF IInv, RxInv
    <2>4. CASE pc' # "r_copy"
      <3>1. pc' \notin {"r_copy", "r_publish"}
        BY <2>4
      <3>2. RxCall'
        BY <3>1 DEF RxCall
      <3>. QED BY <2>1, <2>2, <3>2 DEF IInv, RxInv
    <2>. QED BY <2>3, <2>4
  <1>11. CASE ReadCopy
    <2>. USE <1>11 DEF ReadCopy, At
    <2>1. /\ n \in 1 .. count /\ n \in 1 .. BUF_LEN /\ rx_out + n <= BUF_LEN
          /\ n <= typed - rfifo - Taken
      BY DEF IInv, RxInv, RxCall
    <2>2. Taken = delivered /\ Taken' = delivered /\ delivered \in Nat
      BY <2>1 DEF IInv, TypeOK, BufferTypes, CallTypes, DeviceTypes, StreamTypes, RxInv, Taken
    <2>3. Ring(rx_buf, rx_in, rx_out, Taken, typed - rfifo - Taken)'
      BY <2>2 DEF IInv, RxInv, Ring, Distance
    <2>4. done' > 0 /\ n' <= delivered'
      BY <2>1, <2>2 DEF IInv, TypeOK, BufferTypes, CallTypes, DeviceTypes, StreamTypes, RxInv
    <2>5. RxCall'
      BY <2>1, <2>2, <2>4 DEF RxCall
    <2>. QED BY <2>2, <2>3, <2>5 DEF IInv, RxInv
  <1>12. CASE ReadPublish
    <2>. USE <1>12 DEF ReadPublish, At
    <2>1. /\ n \in 1 .. BUF_LEN /\ rx_out + n <= BUF_LEN /\ n <= typed - rfifo - Taken
      BY DEF IInv, RxInv, RxCall
    <2>2. Taken \in Nat /\ Taken = delivered - n /\ Taken' = delivered /\ delivered \in Nat
      BY <2>1 DEF IInv, TypeOK, BufferTypes, CallTypes, DeviceTypes, StreamTypes, RxInv, Taken
    <2>3. /\ Ring(rx_buf, rx_in, rx_out, Taken, typed - rfifo - Taken)
          /\ rx_in \in Slots /\ rx_out \in Slots
      BY DEF IInv, TypeOK, BufferTypes, CallTypes, DeviceTypes, StreamTypes, RxInv
    <2>4. Ring(rx_buf, rx_in, (rx_out + n) % BUF_LEN, Taken + n, typed - rfifo - Taken - n)
      <3>. HIDE <1>12
      <3>. QED BY <2>1, <2>2, <2>3, RingGet
    <2>5. Taken + n = Taken' /\ typed - rfifo - Taken - n = typed' - rfifo' - Taken'
      BY <2>1, <2>2 DEF IInv, TypeOK, BufferTypes, CallTypes, DeviceTypes, StreamTypes, RxInv
    <2>6. Ring(rx_buf, rx_in, rx_out, Taken, typed - rfifo - Taken)'
      BY <2>4, <2>5 DEF Ring, Distance
    <2>7. RxCall'
      BY DEF RxCall
    <2>. QED BY <2>2, <2>6, <2>7 DEF IInv, RxInv
  <1>13. CASE ReadSpin
    BY <1>13, RxUntouched DEF IInv, ReadSpin, At
  <1>14. CASE ReadCheck
    BY <1>14, RxUntouched DEF IInv, ReadCheck, At
  <1>15. CASE ReadEnable
    BY <1>15, RxUntouched DEF IInv, ReadEnable, At
  <1>16. CASE ReadReturn
    BY <1>16, RxUntouched DEF IInv, ReadReturn, At, Leave
  <1>17. CASE SetTimeout
    BY <1>17, RxUntouched DEF IInv, SetTimeout, At
  <1>18. CASE CloseCall
    BY <1>18, RxUntouched DEF IInv, CloseCall, At
  <1>19. CASE CloseReturn
    BY <1>19, RxUntouched DEF IInv, CloseReturn, At, Leave
  <1>20. CASE IsrEnter
    BY <1>20, RxUntouched DEF IInv, IsrEnter
  <1>21. CASE IsrControl
    BY <1>21, RxUntouched DEF IInv, IsrControl
  <1>22. CASE IsrReceive
    <2>. USE <1>22 DEF IsrReceive
    <2>. DEFINE k == typed - rfifo - Taken
    <2>1. /\ Ring(rx_buf, rx_in, rx_out, Taken, k)
          /\ rx_in \in Slots /\ rx_out \in Slots /\ Taken \in Nat
          /\ rfifo \in Nat /\ typed \in Nat /\ rfifo <= typed
      BY DEF IInv, TypeOK, BufferTypes, CallTypes, DeviceTypes, StreamTypes, RxInv
    <2>2. Taken' = Taken
      BY DEF Taken
    <2>3. k \in 0 .. BUF_LEN - 2
      <3>1. k # BUF_LEN - 1
        BY <2>1, RingFull DEF Full
      <3>2. k \in 0 .. BUF_LEN - 1
        BY <2>1 DEF Ring
      <3>. HIDE DEF k
      <3>. QED BY <3>1, <3>2, UartAssumption
    <2>4. Ring(rx_buf', rx_in, rx_out, Taken, k)
      <3>1. \A s \in Slots : Distance(s, rx_out) < k => rx_buf'[s] = rx_buf[s]
        <4>1. Distance(rx_in, rx_out) = k
          BY <2>1, RingSize
        <4>2. SUFFICES ASSUME NEW s \in Slots, Distance(s, rx_out) < k PROVE s # rx_in
          BY DEF IInv, TypeOK, BufferTypes, CallTypes, DeviceTypes, StreamTypes, RxInv
        <4>. QED BY <2>3, <4>1, <4>2
      <3>. QED BY <2>1, <3>1, RingKept
    <2>5. rx_buf'[rx_in] = Taken + k + (rx_in - rx_in)
      BY <2>1 DEF IInv, TypeOK, BufferTypes, CallTypes, DeviceTypes, StreamTypes, RxInv, Slots
    <2>6. Ring(rx_buf', (rx_in + 1) % BUF_LEN, rx_out, Taken, k + 1)
      <3>1. 1 \in Nat /\ rx_in + 1 <= BUF_LEN /\ k + 1 <= BUF_LEN - 1
        BY <2>1, <2>3, UartAssumption DEF Slots
      <3>2. \A s \in rx_in .. rx_in + 1 - 1 : rx_buf'[s] = Taken + k + (s - rx_in)
        BY <2>1, <2>5 DEF Slots
      <3>. HIDE <1>22 DEF k
      <3>. QED BY <2>1, <2>4, <3>1, <3>2, RingPut
    <2>7. k + 1 = typed' - rfifo' - Taken' /\ rfifo' <= typed'
      BY <2>1, <2>2
    <2>8. Ring(rx_buf, rx_in, rx_out, Taken, typed - rfifo - Taken)'
      BY <2>2, <2>6, <2>7 DEF Ring, Distance
    <2>9. RxCall'
      <3>1. UNCHANGED <<pc, n, count, done, rx_out, delivered>> /\ RxCall /\ n \in Nat
        BY DEF IInv, TypeOK, BufferTypes, CallTypes, DeviceTypes, StreamTypes, RxInv
      <3>2. n <= k => n <= k + 1
        BY <2>1, <3>1
      <3>. QED BY <2>7, <3>1, <3>2 DEF RxCall
    <2>. QED BY <2>1, <2>2, <2>7, <2>8, <2>9 DEF RxInv
  <1>23. CASE IsrReceiveEnds
    BY <1>23, RxUntouched DEF IInv, IsrReceiveEnds
  <1>24. CASE IsrTransmit
    BY <1>24, RxUntouched DEF IInv, IsrTransmit
  <1>25. CASE IsrTransmitEnds
    BY <1>25, RxUntouched DEF IInv, IsrTransmitEnds
  <1>26. CASE AlarmTick
    BY <1>26, RxUntouched DEF IInv, AlarmTick
  <1>27. CASE HostPolls
    BY <1>27, RxUntouched DEF IInv, HostPolls
  <1>28. CASE HostTakes
    BY <1>28, RxUntouched DEF IInv, HostTakes
  <1>29. CASE HostTypes
    <2>. USE <1>29 DEF HostTypes
    <2>1. Taken' = Taken /\ typed' - rfifo' - Taken' = typed - rfifo - Taken /\ rfifo' <= typed'
      BY DEF IInv, TypeOK, BufferTypes, CallTypes, DeviceTypes, StreamTypes, RxInv, Taken
    <2>2. Ring(rx_buf, rx_in, rx_out, Taken, typed - rfifo - Taken)'
      BY <2>1 DEF IInv, RxInv, Ring, Distance
    <2>3. RxCall'
      BY <2>1 DEF IInv, RxInv, RxCall
    <2>. QED BY <2>1, <2>2, <2>3 DEF IInv, RxInv
  <1>30. CASE HostLeaves
    BY <1>30, RxUntouched DEF IInv, HostLeaves
  <1>31. CASE UNCHANGED vars
    BY <1>31, RxUntouched DEF IInv, vars
  <1>. QED
    BY <1>1, <1>2, <1>3, <1>4, <1>5, <1>6, <1>7, <1>8, <1>9, <1>10, <1>11, <1>12, <1>13, <1>14,
       <1>15, <1>16, <1>17, <1>18, <1>19, <1>20, <1>21, <1>22, <1>23, <1>24, <1>25, <1>26,
       <1>27, <1>28, <1>29, <1>30, <1>31 DEF Next, Begin, Continue, Isr, Host
-----------------------------------------------------------------------------
(* The space in the write FIFO                                             *)

LEMMA IsrStep == IInv /\ [Next]_vars => IsrInv'
  <1>. SUFFICES ASSUME IInv, [Next]_vars PROVE IsrInv'
    OBVIOUS
  <1>. USE DEF tx, rx, alarm, call, isr, device, streams
  <1>1. CASE WriteCall
    BY <1>1 DEF IInv, IsrInv, WriteCall, At
  <1>2. CASE WriteSpace
    BY <1>2 DEF IInv, IsrInv, WriteSpace, At
  <1>3. CASE WriteCopy
    BY <1>3 DEF IInv, IsrInv, WriteCopy, At
  <1>4. CASE WritePublish
    BY <1>4 DEF IInv, IsrInv, WritePublish, At
  <1>5. CASE WriteKick
    BY <1>5 DEF IInv, IsrInv, WriteKick, At
  <1>6. CASE WriteSpin
    BY <1>6 DEF IInv, IsrInv, WriteSpin, At
  <1>7. CASE WriteCheck
    BY <1>7 DEF IInv, IsrInv, WriteCheck, At
  <1>8. CASE WriteReturn
    BY <1>8 DEF IInv, IsrInv, WriteReturn, At, Leave
  <1>9. CASE ReadCall
    BY <1>9 DEF IInv, IsrInv, ReadCall, At
  <1>10. CASE ReadAvail
    BY <1>10 DEF IInv, IsrInv, ReadAvail, At
  <1>11. CASE ReadCopy
    BY <1>11 DEF IInv, IsrInv, ReadCopy, At
  <1>12. CASE ReadPublish
    BY <1>12 DEF IInv, IsrInv, ReadPublish, At
  <1>13. CASE ReadSpin
    BY <1>13 DEF IInv, IsrInv, ReadSpin, At
  <1>14. CASE ReadCheck
    BY <1>14 DEF IInv, IsrInv, ReadCheck, At
  <1>15. CASE ReadEnable
    BY <1>15 DEF IInv, IsrInv, ReadEnable, At
  <1>16. CASE ReadReturn
    BY <1>16 DEF IInv, IsrInv, ReadReturn, At, Leave
  <1>17. CASE SetTimeout
    BY <1>17 DEF IInv, IsrInv, SetTimeout, At
  <1>18. CASE CloseCall
    BY <1>18 DEF IInv, IsrInv, CloseCall, At
  <1>19. CASE CloseReturn
    BY <1>19 DEF IInv, IsrInv, CloseReturn, At, Leave
  <1>20. CASE IsrEnter
    BY <1>20, UartAssumption DEF IInv, TypeOK, BufferTypes, CallTypes, DeviceTypes, StreamTypes,
       IsrInv, IsrEnter, WriteIrq, ReadIrq
  <1>21. CASE IsrControl
    BY <1>21, UartAssumption DEF IInv, TypeOK, BufferTypes, CallTypes, DeviceTypes, StreamTypes,
       IsrInv, IsrControl, WriteIrq, ReadIrq
  <1>22. CASE IsrReceive
    BY <1>22, UartAssumption DEF IInv, TypeOK, BufferTypes, CallTypes, DeviceTypes, StreamTypes,
       IsrInv, IsrReceive, WriteIrq, ReadIrq
  <1>23. CASE IsrReceiveEnds
    BY <1>23, UartAssumption DEF IInv, TypeOK, BufferTypes, CallTypes, DeviceTypes, StreamTypes,
       IsrInv, IsrReceiveEnds, WriteIrq, ReadIrq
  <1>24. CASE IsrTransmit
    BY <1>24, UartAssumption DEF IInv, TypeOK, BufferTypes, CallTypes, DeviceTypes, StreamTypes,
       IsrInv, IsrTransmit, WriteIrq, ReadIrq
  <1>25. CASE IsrTransmitEnds
    BY <1>25, UartAssumption DEF IInv, TypeOK, BufferTypes, CallTypes, DeviceTypes, StreamTypes,
       IsrInv, IsrTransmitEnds, WriteIrq, ReadIrq
  <1>26. CASE AlarmTick
    BY <1>26 DEF IInv, IsrInv, AlarmTick
  <1>27. CASE HostPolls
    BY <1>27 DEF IInv, IsrInv, HostPolls
  <1>28. CASE HostTakes
    BY <1>28, UartAssumption DEF IInv, TypeOK, BufferTypes, CallTypes, DeviceTypes, StreamTypes,
       IsrInv, HostTakes, WriteIrq, ReadIrq
  <1>29. CASE HostTypes
    BY <1>29 DEF IInv, IsrInv, HostTypes
  <1>30. CASE HostLeaves
    BY <1>30 DEF IInv, IsrInv, HostLeaves
  <1>31. CASE UNCHANGED vars
    BY <1>31 DEF IInv, IsrInv, vars
  <1>. QED
    BY <1>1, <1>2, <1>3, <1>4, <1>5, <1>6, <1>7, <1>8, <1>9, <1>10, <1>11, <1>12, <1>13, <1>14,
       <1>15, <1>16, <1>17, <1>18, <1>19, <1>20, <1>21, <1>22, <1>23, <1>24, <1>25, <1>26,
       <1>27, <1>28, <1>29, <1>30, <1>31 DEF Next, Begin, Continue, Isr, Host
-----------------------------------------------------------------------------
(* The two streams                                                         *)

LEMMA StreamsStep == IInv /\ [Next]_vars => StreamsIntact'
  <1>. SUFFICES ASSUME IInv, [Next]_vars PROVE StreamsIntact'
    OBVIOUS
  <1>. USE DEF tx, rx, alarm, call, isr, device, streams
  <1>1. CASE WriteCall
    BY <1>1 DEF IInv, StreamsIntact, WriteCall
  <1>2. CASE WriteSpace
    BY <1>2 DEF IInv, StreamsIntact, WriteSpace
  <1>3. CASE WriteCopy
    BY <1>3 DEF IInv, StreamsIntact, WriteCopy
  <1>4. CASE WritePublish
    BY <1>4 DEF IInv, StreamsIntact, WritePublish
  <1>5. CASE WriteKick
    BY <1>5 DEF IInv, StreamsIntact, WriteKick
  <1>6. CASE WriteSpin
    BY <1>6 DEF IInv, StreamsIntact, WriteSpin
  <1>7. CASE WriteCheck
    BY <1>7 DEF IInv, StreamsIntact, WriteCheck
  <1>8. CASE WriteReturn
    BY <1>8 DEF IInv, StreamsIntact, WriteReturn
  <1>9. CASE ReadCall
    BY <1>9 DEF IInv, StreamsIntact, ReadCall
  <1>10. CASE ReadAvail
    BY <1>10 DEF IInv, StreamsIntact, ReadAvail
  <1>11. CASE ReadCopy
    <2>. USE <1>11 DEF ReadCopy, At
    <2>1. /\ n \in 1 .. BUF_LEN /\ rx_out + n <= BUF_LEN /\ n <= typed - rfifo - Taken
          /\ Taken = delivered
      BY DEF IInv, RxInv, RxCall, Taken, TypeOK, StreamTypes
    <2>2. ASSUME NEW j \in 0 .. n - 1 PROVE rx_buf[rx_out + j] = delivered + j
      <3>1. /\ rx_out + j \in Slots /\ Distance(rx_out + j, rx_out) = j
            /\ j < typed - rfifo - Taken
        BY <2>1, UartAssumption DEF IInv, TypeOK, BufferTypes, CallTypes, DeviceTypes,
           StreamTypes, Slots, Distance
      <3>. QED BY <2>1, <3>1 DEF IInv, RxInv, Ring
    <2>. QED BY <2>2 DEF IInv, StreamsIntact
  <1>12. CASE ReadPublish
    BY <1>12 DEF IInv, StreamsIntact, ReadPublish
  <1>13. CASE ReadSpin
    BY <1>13 DEF IInv, StreamsIntact, ReadSpin
  <1>14. CASE ReadCheck
    BY <1>14 DEF IInv, StreamsIntact, ReadCheck
  <1>15. CASE ReadEnable
    BY <1>15 DEF IInv, StreamsIntact, ReadEnable
  <1>16. CASE ReadReturn
    BY <1>16 DEF IInv, StreamsIntact, ReadReturn
  <1>17. CASE SetTimeout
    BY <1>17 DEF IInv, StreamsIntact, SetTimeout
  <1>18. CASE CloseCall
    BY <1>18 DEF IInv, StreamsIntact, CloseCall
  <1>19. CASE CloseReturn
    BY <1>19 DEF IInv, StreamsIntact, CloseReturn
  <1>20. CASE IsrEnter
    BY <1>20 DEF IInv, StreamsIntact, IsrEnter
  <1>21. CASE IsrControl
    BY <1>21 DEF IInv, StreamsIntact, IsrControl
  <1>22. CASE IsrReceive
    BY <1>22 DEF IInv, StreamsIntact, IsrReceive
  <1>23. CASE IsrReceiveEnds
    BY <1>23 DEF IInv, StreamsIntact, IsrReceiveEnds
  <1>24. CASE IsrTransmit
    <2>. USE <1>24 DEF IsrTransmit
    <2>1. accepted - sent # 0
      BY RingEmpty DEF IInv, TypeOK, BufferTypes, CallTypes, DeviceTypes, StreamTypes, TxInv
    <2>2. Distance(tx_out, tx_out) = 0 /\ 0 < accepted - sent
      BY <2>1 DEF IInv, TypeOK, BufferTypes, CallTypes, DeviceTypes, StreamTypes, TxInv, Ring,
         Slots, Distance
    <2>3. tx_buf[tx_out] = sent
      BY <2>2 DEF IInv, TypeOK, BufferTypes, CallTypes, DeviceTypes, StreamTypes, TxInv, Ring
    <2>. QED BY <2>3 DEF IInv, StreamsIntact
  <1>25. CASE IsrTransmitEnds
    BY <1>25 DEF IInv, StreamsIntact, IsrTransmitEnds
  <1>26. CASE AlarmTick
    BY <1>26 DEF IInv, StreamsIntact, AlarmTick
  <1>27. CASE HostPolls
    BY <1>27 DEF IInv, StreamsIntact, HostPolls
  <1>28. CASE HostTakes
    BY <1>28 DEF IInv, StreamsIntact, HostTakes
  <1>29. CASE HostTypes
    BY <1>29 DEF IInv, StreamsIntact, HostTypes
  <1>30. CASE HostLeaves
    BY <1>30 DEF IInv, StreamsIntact, HostLeaves
  <1>31. CASE UNCHANGED vars
    BY <1>31 DEF IInv, StreamsIntact, vars
  <1>. QED
    BY <1>1, <1>2, <1>3, <1>4, <1>5, <1>6, <1>7, <1>8, <1>9, <1>10, <1>11, <1>12, <1>13, <1>14,
       <1>15, <1>16, <1>17, <1>18, <1>19, <1>20, <1>21, <1>22, <1>23, <1>24, <1>25, <1>26,
       <1>27, <1>28, <1>29, <1>30, <1>31 DEF Next, Begin, Continue, Isr, Host
-----------------------------------------------------------------------------
(* The interrupt enables                                                   *)

LEMMA ArmStep == IInv /\ [Next]_vars => (WriteIrqArmed /\ ReadIrqArmed)'
  <1>. SUFFICES ASSUME IInv, [Next]_vars PROVE (WriteIrqArmed /\ ReadIrqArmed)'
    OBVIOUS
  <1>. USE DEF tx, rx, alarm, call, isr, device, streams
  <1>1. CASE WriteCall
    BY <1>1 DEF IInv, WriteIrqArmed, ReadIrqArmed, WriteCall, At
  <1>2. CASE WriteSpace
    BY <1>2 DEF IInv, WriteIrqArmed, ReadIrqArmed, WriteSpace, At
  <1>3. CASE WriteCopy
    BY <1>3 DEF IInv, WriteIrqArmed, ReadIrqArmed, WriteCopy, At
  <1>4. CASE WritePublish
    BY <1>4 DEF IInv, WriteIrqArmed, ReadIrqArmed, WritePublish, At
  <1>5. CASE WriteKick
    BY <1>5 DEF IInv, WriteIrqArmed, ReadIrqArmed, WriteKick, At
  <1>6. CASE WriteSpin
    BY <1>6 DEF IInv, WriteIrqArmed, ReadIrqArmed, WriteSpin, At
  <1>7. CASE WriteCheck
    BY <1>7 DEF IInv, WriteIrqArmed, ReadIrqArmed, WriteCheck, At
  <1>8. CASE WriteReturn
    BY <1>8 DEF IInv, WriteIrqArmed, ReadIrqArmed, WriteReturn, At, Leave
  <1>9. CASE ReadCall
    BY <1>9 DEF IInv, WriteIrqArmed, ReadIrqArmed, ReadCall, At
  <1>10. CASE ReadAvail
    <2>1. n' > 0 => rx_in # rx_out
      BY <1>10 DEF ReadAvail, At, Available, Least, IInv, TypeOK, BufferTypes, CallTypes,
         DeviceTypes, StreamTypes, Slots
    <2>. QED BY <1>10, <2>1 DEF ReadAvail, At, IInv, WriteIrqArmed, ReadIrqArmed
  <1>11. CASE ReadCopy
    BY <1>11 DEF IInv, WriteIrqArmed, ReadIrqArmed, ReadCopy, At
  <1>12. CASE ReadPublish
    <2>1. done > 0
      BY <1>12 DEF ReadPublish, At, IInv, RxInv, RxCall
    <2>. QED BY <1>12, <2>1 DEF ReadPublish, At, IInv, WriteIrqArmed, ReadIrqArmed
  <1>13. CASE ReadSpin
    BY <1>13 DEF IInv, WriteIrqArmed, ReadIrqArmed, ReadSpin, At
  <1>14. CASE ReadCheck
    BY <1>14 DEF IInv, WriteIrqArmed, ReadIrqArmed, ReadCheck, At
  <1>15. CASE ReadEnable
    BY <1>15 DEF IInv, WriteIrqArmed, ReadIrqArmed, ReadEnable, At
  <1>16. CASE ReadReturn
    BY <1>16 DEF IInv, WriteIrqArmed, ReadIrqArmed, ReadReturn, At, Leave
  <1>17. CASE SetTimeout
    BY <1>17 DEF IInv, WriteIrqArmed, ReadIrqArmed, SetTimeout, At
  <1>18. CASE CloseCall
    BY <1>18 DEF IInv, WriteIrqArmed, ReadIrqArmed, CloseCall, At
  <1>19. CASE CloseReturn
    BY <1>19 DEF IInv, WriteIrqArmed, ReadIrqArmed, CloseReturn, At, Leave
  <1>20. CASE IsrEnter
    BY <1>20 DEF IInv, WriteIrqArmed, ReadIrqArmed, IsrEnter
  <1>21. CASE IsrControl
    BY <1>21 DEF IInv, WriteIrqArmed, ReadIrqArmed, IsrControl
  <1>22. CASE IsrReceive
    <2>1. rx_in' # rx_out'
      BY <1>22 DEF IsrReceive, Full
    <2>. QED BY <1>22, <2>1 DEF IsrReceive, IInv, WriteIrqArmed, ReadIrqArmed
  <1>23. CASE IsrReceiveEnds
    <2>1. Full => rx_in # rx_out
      <3>1. /\ Ring(rx_buf, rx_in, rx_out, Taken, typed - rfifo - Taken)
            /\ rx_in \in Slots /\ rx_out \in Slots
        BY DEF IInv, TypeOK, BufferTypes, CallTypes, DeviceTypes, StreamTypes, RxInv
      <3>2. Full => typed - rfifo - Taken = BUF_LEN - 1
        BY <3>1, RingFull DEF Full
      <3>3. rx_in = rx_out <=> typed - rfifo - Taken = 0
        BY <3>1, RingEmpty
      <3>. QED BY <3>2, <3>3, UartAssumption
    <2>. QED BY <1>23, <2>1 DEF IsrReceiveEnds, IInv, WriteIrqArmed, ReadIrqArmed
  <1>24. CASE IsrTransmit
    BY <1>24 DEF IInv, WriteIrqArmed, ReadIrqArmed, IsrTransmit
  <1>25. CASE IsrTransmitEnds
    BY <1>25 DEF IInv, WriteIrqArmed, ReadIrqArmed, IsrTransmitEnds
  <1>26. CASE AlarmTick
    BY <1>26 DEF IInv, WriteIrqArmed, ReadIrqArmed, AlarmTick
  <1>27. CASE HostPolls
    BY <1>27 DEF IInv, WriteIrqArmed, ReadIrqArmed, HostPolls
  <1>28. CASE HostTakes
    BY <1>28 DEF IInv, WriteIrqArmed, ReadIrqArmed, HostTakes
  <1>29. CASE HostTypes
    BY <1>29 DEF IInv, WriteIrqArmed, ReadIrqArmed, HostTypes
  <1>30. CASE HostLeaves
    BY <1>30 DEF IInv, WriteIrqArmed, ReadIrqArmed, HostLeaves
  <1>31. CASE UNCHANGED vars
    BY <1>31 DEF IInv, WriteIrqArmed, ReadIrqArmed, vars
  <1>. QED
    BY <1>1, <1>2, <1>3, <1>4, <1>5, <1>6, <1>7, <1>8, <1>9, <1>10, <1>11, <1>12, <1>13, <1>14,
       <1>15, <1>16, <1>17, <1>18, <1>19, <1>20, <1>21, <1>22, <1>23, <1>24, <1>25, <1>26,
       <1>27, <1>28, <1>29, <1>30, <1>31 DEF Next, Begin, Continue, Isr, Host

-----------------------------------------------------------------------------
(* The theorems                                                            *)

LEMMA Invariant == Spec => []IInv
  <1>1. IInv /\ [Next]_vars => IInv'
    BY TypeStep, TxStep, RxStep, IsrStep, StreamsStep, ArmStep DEF IInv
  <1>. QED BY TypeInit, <1>1, PTL DEF Spec

\* Every variable keeps its type; the write FIFO is never overfilled.
THEOREM UartTypes == Spec => []TypeOK
  <1>1. IInv => TypeOK
    BY DEF IInv
  <1>. QED BY Invariant, <1>1, PTL

\* For every size of the buffers and FIFOs, and every interleaving of the
\* thread, the interrupt routine, the alarm and the host, the characters leave
\* each buffer once and in the order in which they came.
THEOREM UartStreams == Spec => []StreamsIntact
  <1>1. IInv => StreamsIntact
    BY DEF IInv
  <1>. QED BY Invariant, <1>1, PTL

\* No character waits in tx_buf with the transmit interrupt off, and receive
\* interrupts are never off with nothing to read.
THEOREM UartArmed == Spec => []IrqArmed
  <1>1. IInv => IrqArmed
    BY DEF IInv, IrqArmed
  <1>. QED BY Invariant, <1>1, PTL

-----------------------------------------------------------------------------
(* Each buffer implements a Pipe                                           *)

\* What a buffer keeps for a position is the character of that position.
LEMMA QueueHolds ==
  ASSUME NEW buf, NEW in \in Slots, NEW out \in Slots, NEW first \in Nat, NEW last \in Nat,
         Ring(buf, in, out, first, last - first), NEW i \in first .. last - 1
  PROVE  buf[(out + (i - first)) % BUF_LEN] = i
  <1>. DEFINE d == i - first
              a == out + d
              s == a % BUF_LEN
  <1>1. d \in 0 .. BUF_LEN - 1 /\ d < last - first
    BY UartAssumption DEF Ring
  <1>2. a \in 0 .. BUF_LEN + BUF_LEN - 1
    BY <1>1, UartAssumption DEF Slots
  <1>3. s = (IF a < BUF_LEN THEN a ELSE a - BUF_LEN)
    <2>. HIDE DEF a
    <2>. QED BY <1>2, Wrapped
  <1>. HIDE DEF s
  <1>4. s \in Slots /\ Distance(s, out) = d
    BY <1>1, <1>3, UartAssumption DEF Slots, Distance
  <1>5. buf[s] = first + d
    BY <1>1, <1>4 DEF Ring
  <1>. QED BY <1>5 DEF s

LEMMA TxQueueHolds == IInv => TxQueue = [i \in sent .. accepted - 1 |-> i]
  <1>. SUFFICES ASSUME IInv PROVE TxQueue = [i \in sent .. accepted - 1 |-> i]
    OBVIOUS
  <1>1. /\ tx_in \in Slots /\ tx_out \in Slots /\ sent \in Nat /\ accepted \in Nat
        /\ Ring(tx_buf, tx_in, tx_out, sent, accepted - sent)
    BY DEF IInv, TypeOK, BufferTypes, StreamTypes, TxInv
  <1>2. \A i \in sent .. accepted - 1 : tx_buf[(tx_out + (i - sent)) % BUF_LEN] = i
    BY <1>1, QueueHolds
  <1>. QED BY <1>2 DEF TxQueue

LEMMA RxQueueHolds == IInv => RxQueue = [i \in Taken .. typed - rfifo - 1 |-> i]
  <1>. SUFFICES ASSUME IInv PROVE RxQueue = [i \in Taken .. typed - rfifo - 1 |-> i]
    OBVIOUS
  <1>. DEFINE last == typed - rfifo
  <1>1. /\ rx_in \in Slots /\ rx_out \in Slots /\ Taken \in Nat /\ last \in Nat
        /\ Ring(rx_buf, rx_in, rx_out, Taken, last - Taken)
    BY DEF IInv, TypeOK, BufferTypes, DeviceTypes, StreamTypes, RxInv
  <1>2. \A i \in Taken .. last - 1 : rx_buf[(rx_out + (i - Taken)) % BUF_LEN] = i
    <2>. HIDE DEF last
    <2>. QED BY <1>1, QueueHolds
  <1>. QED BY <1>2 DEF RxQueue

\* The indices, the copies and the interrupt routine make tx_buf a pipe.
THEOREM UartTxPipe == Spec => TxIsPipe
  <1>1. Init => TxPipe!Init
    <2>. SUFFICES ASSUME Init PROVE TxPipe!Init
      OBVIOUS
    <2>1. TxQueue = [i \in sent .. accepted - 1 |-> i]
      BY TypeInit, TxQueueHolds
    <2>. QED BY <2>1 DEF Init, TxPipe!Init
  <1>. DEFINE Holds == TxQueue = [i \in sent .. accepted - 1 |-> i]
  <1>3. IInv /\ IInv' => Holds /\ Holds'
    <2>1. IInv => Holds
      BY TxQueueHolds
    <2>. QED BY <2>1, PTL
  <1>2. IInv /\ IInv' /\ [Next]_vars => [TxPipe!Next]_(TxPipe!vars)
    <2>. SUFFICES ASSUME IInv, IInv', [Next]_vars PROVE TxPipe!Next \/ UNCHANGED TxPipe!vars
      OBVIOUS
    <2>1. /\ TxQueue = [i \in sent .. accepted - 1 |-> i]
          /\ TxQueue' = [i \in sent' .. accepted' - 1 |-> i]
      BY <1>3
    <2>2. /\ sent \in Nat /\ accepted \in Nat /\ accepted - sent \in 0 .. BUF_LEN - 1
          /\ accepted' - sent' \in 0 .. BUF_LEN - 1
      BY DEF IInv, TypeOK, StreamTypes, TxInv, Ring
    <2>3. CASE WritePublish
      <3>1. sent' = sent /\ accepted' = accepted + n /\ n \in Nat \ {0}
        BY <2>3 DEF WritePublish, At, IInv, TypeOK, CallTypes, TxInv, TxCall
      <3>2. n \in 1 .. BUF_LEN - 1 /\ accepted - sent + n <= BUF_LEN - 1
        BY <2>2, <3>1, UartAssumption
      <3>3. TxQueue' = [i \in sent .. accepted + n - 1 |-> IF i < accepted THEN TxQueue[i] ELSE i]
        BY <2>1, <2>2, <3>1
      <3>4. TxPipe!Put(n)
        BY <3>1, <3>2, <3>3 DEF TxPipe!Put
      <3>. QED BY <3>2, <3>4 DEF TxPipe!Next
    <2>4. CASE IsrTransmit
      <3>1. sent' = sent + 1 /\ accepted' = accepted
        BY <2>4 DEF IsrTransmit
      <3>2. 1 \in 1 .. BUF_LEN - 1 /\ 1 <= accepted - sent
        BY <2>2, <3>1, UartAssumption
      <3>3. /\ \A i \in sent .. sent + 1 - 1 : TxQueue[i] = i
            /\ TxQueue' = [i \in sent + 1 .. accepted - 1 |-> TxQueue[i]]
        BY <2>1, <2>2, <3>1, <3>2
      <3>4. TxPipe!Get(1)
        BY <3>1, <3>2, <3>3 DEF TxPipe!Get
      <3>. QED BY <3>2, <3>4 DEF TxPipe!Next
    <2>5. CASE UNCHANGED <<sent, accepted>>
      BY <2>1, <2>5 DEF TxPipe!vars
    <2>6. WritePublish \/ IsrTransmit \/ UNCHANGED <<sent, accepted>>
      BY DEF Next, Begin, Continue, Isr, Host, vars, streams, WriteCall, WriteSpace, WriteCopy,
         WriteKick, WriteSpin, WriteCheck, WriteReturn, ReadCall, ReadAvail, ReadCopy,
         ReadPublish, ReadSpin, ReadCheck, ReadEnable, ReadReturn, SetTimeout, CloseCall,
         CloseReturn, IsrEnter, IsrControl, IsrReceive, IsrReceiveEnds, IsrTransmitEnds,
         AlarmTick, HostPolls, HostTakes, HostTypes, HostLeaves
    <2>. QED BY <2>3, <2>4, <2>5, <2>6
  <1>. QED BY Invariant, <1>1, <1>2, PTL DEF Spec, TxIsPipe, TxPipe!Spec

\* The interrupt routine, the copies and the indices make rx_buf a pipe.
THEOREM UartRxPipe == Spec => RxIsPipe
  <1>1. Init => RxPipe!Init
    <2>. SUFFICES ASSUME Init PROVE RxPipe!Init
      OBVIOUS
    <2>1. RxQueue = [i \in Taken .. typed - rfifo - 1 |-> i]
      BY TypeInit, RxQueueHolds
    <2>2. Taken = 0
      BY DEF Init, Taken
    <2>. QED BY <2>1, <2>2 DEF Init, RxPipe!Init
  <1>. DEFINE put == typed - rfifo
              Holds == RxQueue = [i \in Taken .. put - 1 |-> i]
  <1>3. IInv /\ IInv' => Holds /\ Holds'
    <2>1. IInv => Holds
      BY RxQueueHolds
    <2>. QED BY <2>1, PTL
  <1>2. IInv /\ IInv' /\ [Next]_vars => [RxPipe!Next]_(RxPipe!vars)
    <2>. SUFFICES ASSUME IInv, IInv', [Next]_vars PROVE RxPipe!Next \/ UNCHANGED RxPipe!vars
      OBVIOUS
    <2>1. /\ RxQueue = [i \in Taken .. put - 1 |-> i]
          /\ RxQueue' = [i \in Taken' .. put' - 1 |-> i]
      BY <1>3
    <2>2. /\ put \in Nat /\ Taken \in Nat /\ put - Taken \in 0 .. BUF_LEN - 1
          /\ put' - Taken' \in 0 .. BUF_LEN - 1
      <3>1. typed \in Nat /\ rfifo \in Nat /\ typed' \in Nat /\ rfifo' \in Nat
        BY DEF IInv, TypeOK, DeviceTypes, StreamTypes
      <3>2. /\ rfifo <= typed /\ Taken \in Nat /\ Taken' \in Nat
            /\ typed - rfifo - Taken \in 0 .. BUF_LEN - 1
            /\ typed' - rfifo' - Taken' \in 0 .. BUF_LEN - 1
        BY DEF IInv, RxInv, Ring
      <3>3. put \in Nat
        BY <3>1, <3>2
      <3>. QED BY <3>2, <3>3
    <2>3. CASE IsrReceive
      <3>1. Taken' = Taken /\ put' = put + 1
        <4>1. /\ UNCHANGED <<delivered, pc, n, typed>> /\ rfifo' = rfifo - 1
              /\ typed \in Nat /\ rfifo \in Nat
          BY <2>3 DEF IsrReceive, call, streams, IInv, TypeOK, DeviceTypes, StreamTypes
        <4>2. Taken' = Taken
          BY <4>1 DEF Taken
        <4>. QED BY <4>1, <4>2
      <3>. HIDE DEF put
      <3>2. 1 \in 1 .. BUF_LEN - 1 /\ put - Taken + 1 <= BUF_LEN - 1
        BY <2>2, <3>1, UartAssumption
      <3>3. RxQueue' = [i \in Taken .. put + 1 - 1 |-> IF i < put THEN RxQueue[i] ELSE i]
        BY <2>1, <2>2, <3>1
      <3>4. RxPipe!Put(1)
        BY <3>1, <3>2, <3>3 DEF RxPipe!Put, put
      <3>. QED BY <3>2, <3>4 DEF RxPipe!Next
    <2>4. CASE ReadPublish
      <3>1. n \in Nat \ {0} /\ Taken' = Taken + n /\ put' = put
        <4>1. /\ UNCHANGED <<delivered, typed, rfifo>> /\ pc = "r_publish" /\ pc' # "r_publish"
              /\ n \in 1 .. BUF_LEN /\ delivered \in Nat /\ put' = put
          BY <2>4 DEF ReadPublish, At, device, streams, IInv, TypeOK, StreamTypes, RxInv, RxCall
        <4>2. Taken = delivered - n /\ Taken' = delivered
          BY <4>1 DEF Taken
        <4>. QED BY <4>1, <4>2, UartAssumption
      <3>. HIDE DEF put
      <3>2. n \in 1 .. BUF_LEN - 1 /\ n <= put - Taken
        BY <2>2, <3>1, UartAssumption
      <3>3. /\ \A i \in Taken .. Taken + n - 1 : RxQueue[i] = i
            /\ RxQueue' = [i \in Taken + n .. put - 1 |-> RxQueue[i]]
        BY <2>1, <2>2, <3>1, <3>2
      <3>4. RxPipe!Get(n)
        BY <3>1, <3>2, <3>3 DEF RxPipe!Get, put
      <3>. QED BY <3>2, <3>4 DEF RxPipe!Next
    <2>5. CASE UNCHANGED <<put, Taken>>
      BY <2>1, <2>5 DEF RxPipe!vars
    <2>6. ASSUME ~IsrReceive, ~ReadPublish PROVE UNCHANGED <<put, Taken>>
      <3>1. CASE UNCHANGED vars
        BY <3>1 DEF vars, device, streams, call, Taken
      <3>2. CASE ReadCopy
        BY <3>2 DEF ReadCopy, At, device, Taken, IInv, TypeOK, CallTypes, StreamTypes
      <3>3. CASE HostTypes
        BY <3>3 DEF HostTypes, call, Taken, IInv, TypeOK, DeviceTypes, StreamTypes
      <3>4. ASSUME Next, ~ReadCopy, ~HostTypes
            PROVE  \/ /\ UNCHANGED <<typed, rfifo, delivered>>
                      /\ {pc, pc'} \intersect {"r_publish"} = {}
                   \/ UNCHANGED <<typed, rfifo, delivered, pc, n>>
        BY <2>6, <3>4 DEF Next, Begin, Continue, Isr, Host, At, call, device, streams, Leave,
           WriteCall, WriteSpace, WriteCopy, WritePublish, WriteKick, WriteSpin, WriteCheck,
           WriteReturn, ReadCall, ReadAvail, ReadSpin, ReadCheck, ReadEnable, ReadReturn,
           SetTimeout, CloseCall, CloseReturn, IsrEnter, IsrControl, IsrReceiveEnds,
           IsrTransmit, IsrTransmitEnds, AlarmTick, HostPolls, HostTakes, HostLeaves
      <3>5. CASE Next /\ ~ReadCopy /\ ~HostTypes
        BY <3>4, <3>5 DEF Taken
      <3>. QED BY <3>1, <3>2, <3>3, <3>5
    <2>. QED BY <2>3, <2>4, <2>5, <2>6
  <1>. QED BY Invariant, <1>1, <1>2, PTL DEF Spec, RxIsPipe, RxPipe!Spec
=============================================================================
