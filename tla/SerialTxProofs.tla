--------------------------- MODULE SerialTxProofs ---------------------------
(***************************************************************************)
(* Safety of SerialTx for every buffer size and every number of bytes, on  *)
(* a line that is slow compared with the CPU (~ LineFast).                 *)
(***************************************************************************)
EXTENDS SerialTx, TLAPS

(* The distance of place p of the ring from the tail. *)
Off(p) == IF p >= tail THEN p - tail ELSE TxSize + p - tail

(* Bytes that have left the queue. *)
Left == Len(wire) + Busy(shift) + Busy(udr)

(* The bytes 1 .. Committed lie, in order, on the wire, in the shift        *)
(* register, in UDR and in the queue.                                      *)
InOrder ==
  /\ \A k \in 1 .. Len(wire) : wire[k] = k
  /\ shift # NoByte => shift = Len(wire) + 1
  /\ udr # NoByte => udr = Len(wire) + Busy(shift) + 1
  /\ \A p \in Slots : Off(p) < Count => buffer[p] = Left + Off(p) + 1
  /\ Left + Count = Committed

(* What each place of the sketch has already established. *)
Progress ==
  /\ open \/ (pc = "idle" /\ head = tail)
  /\ written => cur > 0
  /\ pc \in {"direct", "clear_txc", "full", "publish", "enable",
             "flush"} => cur > 0
  /\ pc = "direct" => head = tail /\ udr = NoByte
  /\ pc = "clear_txc" => head = tail /\ (udr # NoByte \/ shift # NoByte)
  /\ pc \in {"full", "publish"} => next = Inc(head)
  /\ pc = "publish" => next # tail /\ buffer[head] = cur

(* The interrupt is enabled exactly while the queue holds bytes, up to the *)
(* one write() is about to enable it for.                                  *)
Enabled ==
  /\ IrqHasData
  /\ NoneStranded
  /\ pc = "enable" => head # tail
  /\ pc = "enable" /\ udrie /\ ~ drained => Count > 1

(* TXC0 is set exactly when the USART has sent all it was given. *)
Completed ==
  /\ txc => pc = "clear_txc" \/ (udr = NoByte /\ shift = NoByte)
  /\ udr = NoByte /\ shift = NoByte /\ Len(wire) > 0 => txc

Promised == room = 0 \/ room + Count <= TxSize - (IF pc = "enable" THEN 0 ELSE 1)

IInv == TypeOK /\ InOrder /\ Progress /\ Enabled /\ Completed /\ Promised

-----------------------------------------------------------------------------
(* The index arithmetic of the ring buffer. *)
LEMMA IncIs ==
  ASSUME NEW i \in Slots
  PROVE  /\ Inc(i) \in Slots
         /\ Inc(i) = IF i + 1 = TxSize THEN 0 ELSE i + 1
  BY TxSizeAssumption DEF Inc, Slots

(* The queue holds less than TxSize bytes, and none only if head = tail. *)
LEMMA CountIs ==
  ASSUME TypeOK
  PROVE  /\ Count \in 0 .. TxSize - 1
         /\ Count = 0 <=> head = tail
         /\ Inc(head) = tail <=> Count = TxSize - 1
         /\ Room = TxSize - 1 - Count
  <1>1. Inc(head) = IF head + 1 = TxSize THEN 0 ELSE head + 1
    BY IncIs DEF TypeOK
  <1> QED
    BY <1>1, TxSizeAssumption DEF TypeOK, Slots, Count, Room

LEMMA LeftIs ==
  ASSUME TypeOK
  PROVE  /\ Len(wire) \in Nat /\ Busy(shift) \in 0 .. 1 /\ Busy(udr) \in 0 .. 1
         /\ Left \in Nat
  <1>1. Len(wire) \in Nat /\ Busy(shift) \in 0 .. 1 /\ Busy(udr) \in 0 .. 1
    BY DEF TypeOK, Busy
  <1> QED
    BY <1>1 DEF Left

(* The initial state. *)
LEMMA InitIInv == Init => IInv
  <1> SUFFICES ASSUME Init PROVE IInv
    OBVIOUS
  <1> USE TxSizeAssumption, MaxBytesAssumption DEF Init, NoByte
  <1>1. TypeOK
    BY DEF TypeOK, Slots
  <1>2. InOrder
    BY DEF InOrder, Off, Count, Left, Busy, Committed, Slots
  <1>3. Progress /\ Enabled /\ Completed /\ Promised
    BY DEF Progress, Enabled, IrqHasData, NoneStranded, Completed, Promised,
           Count
  <1> QED
    BY <1>1, <1>2, <1>3 DEF IInv

(* Taking a byte out of a queue that is not empty, into an empty UDR. *)
LEMMA IrqMovesOneByte ==
  ASSUME TypeOK, InOrder, head # tail, udr = NoByte, TxUdrEmptyIrq,
         UNCHANGED <<pc, cur>>
  PROVE  /\ InOrder'
         /\ Count' = Count - 1
         /\ udr' \in 1 .. MaxBytes
         /\ tail' \in Slots
  <1> USE TxSizeAssumption
  <1>1. tail' = IF tail + 1 = TxSize THEN 0 ELSE tail + 1
    BY IncIs DEF TypeOK, TxUdrEmptyIrq, StaysOn, NewTxc
  <1>2. tail' \in Slots
    BY <1>1 DEF TypeOK, Slots
  <1>3. Count' = Count - 1
    BY <1>1 DEF TypeOK, TxUdrEmptyIrq, StaysOn, NewTxc, Count, Slots
  <1>4. Off(tail) = 0 /\ Count > 0
    BY CountIs DEF Off, TypeOK, Slots
  <1>5. Len(wire) \in Nat /\ Busy(shift) \in 0 .. 1 /\ Busy(udr) = 0
        /\ Left \in Nat /\ Left = Len(wire) + Busy(shift)
    BY DEF TypeOK, Busy, Left
  <1>6. udr' = Left + 1
    BY <1>4, <1>5 DEF TypeOK, InOrder, TxUdrEmptyIrq, StaysOn, NewTxc
  <1>7. udr' # NoByte /\ Left' = Left + 1
    <2>1. udr' # NoByte
      BY <1>5, <1>6 DEF NoByte
    <2>2. Busy(udr') = 1 /\ Len(wire') = Len(wire) /\ Busy(shift') = Busy(shift)
      BY <2>1 DEF Busy, TxUdrEmptyIrq, StaysOn, NewTxc
    <2> QED
      BY <1>5, <2>2 DEF Left
  <1>8. \A p \in Slots : Off(p)' < Count' =>
                           Off(p)' = Off(p) - 1 /\ Off(p) < Count
    BY <1>1, <1>2, <1>3
       DEF Off, TypeOK, Slots, Count, TxUdrEmptyIrq, StaysOn, NewTxc
  <1>9. InOrder'
    <2>1. \A k \in 1 .. Len(wire') : wire'[k] = k
      BY DEF InOrder, TxUdrEmptyIrq, StaysOn, NewTxc
    <2>2. shift' # NoByte => shift' = Len(wire') + 1
      BY DEF InOrder, TxUdrEmptyIrq, StaysOn, NewTxc
    <2>3. udr' = Len(wire') + Busy(shift') + 1
      BY <1>5, <1>6 DEF Left, TxUdrEmptyIrq, StaysOn, NewTxc
    <2>4. ASSUME NEW p \in Slots, Off(p)' < Count'
          PROVE  buffer'[p] = Left' + Off(p)' + 1
      <3>1. buffer[p] = Left + Off(p) + 1
        BY <1>8, <2>4 DEF InOrder
      <3>2. Off(p) \in Nat /\ Off(p)' = Off(p) - 1
        BY <1>8, <2>4 DEF Off, TypeOK, Slots
      <3> QED
        BY <3>1, <3>2, <1>5, <1>7 DEF TxUdrEmptyIrq, StaysOn, NewTxc
    <2>5. Left' + Count' = Committed'
      BY <1>3, <1>5, <1>7, CountIs DEF InOrder, Committed
    <2> QED
      BY <2>1, <2>2, <2>3, <2>4, <2>5 DEF InOrder, Busy
  <1>10. udr' \in 1 .. MaxBytes
    BY <1>4, <1>5, <1>6, CountIs DEF InOrder, Committed, TypeOK
  <1> QED
    BY <1>2, <1>3, <1>9, <1>10

(* A step that moves no byte keeps them in order. *)
LEMMA NothingMoves ==
  ASSUME TypeOK, InOrder, UNCHANGED <<head, tail, buffer, udr, shift, wire>>,
         Committed' = Committed
  PROVE  InOrder' /\ Count' = Count
  <1>1. Count' = Count /\ Left' = Left /\ Busy(shift') = Busy(shift)
    BY DEF Count, Left, Busy
  <1>2. \A p \in Slots : Off(p)' = Off(p)
    BY DEF Off
  <1> QED
    BY <1>1, <1>2 DEF InOrder

(* The steps of the sketch that move no byte. *)
LEMMA SketchStep ==
  ASSUME IInv,
         \/ WriteCall \/ WriteEnable \/ FlushCall \/ FlushReturn
         \/ EndCall \/ EndReturn \/ Begin \/ AvailableForWrite
         \/ \E on \in BOOLEAN : SetInterrupts(on)
  PROVE  IInv'
  <1> USE DEF IInv, flags, sketch, usart, queue, Return, DataRegisterEmpty
  <1>1. CASE WriteCall
    <2>1. Committed' = Committed
      BY <1>1 DEF WriteCall, Shortcut, TypeOK, Committed
    <2>2. TypeOK'
      BY <1>1, IncIs, MaxBytesAssumption DEF WriteCall, Shortcut, TypeOK
    <2>3. InOrder' /\ Count' = Count
      BY <1>1, <2>1, NothingMoves DEF WriteCall, Shortcut
    <2>4. Progress' /\ Enabled' /\ Completed' /\ Promised'
      BY <1>1, <2>3
         DEF WriteCall, Shortcut, TypeOK, Progress, Enabled, IrqHasData,
                        NoneStranded, Completed, Promised, Inc
    <2> QED
      BY <2>2, <2>3, <2>4
  <1>2. CASE WriteEnable
    <2>1. Committed' = Committed
      BY <1>2 DEF WriteEnable, TypeOK, Committed
    <2>2. TypeOK'
      BY <1>2, TxSizeAssumption DEF WriteEnable, TypeOK, Slots
    <2>3. InOrder' /\ Count' = Count
      BY <1>2, <2>1, NothingMoves DEF WriteEnable
    <2>4. Progress' /\ Enabled' /\ Completed'
      <3>1. Progress'
        BY <1>2, <2>3 DEF WriteEnable, TypeOK, Progress
      <3>2. Enabled'
        BY <1>2, <2>3 DEF WriteEnable, TypeOK, Progress, Enabled, IrqHasData,
                          NoneStranded
      <3>3. Completed'
        <4>1. UNCHANGED <<txc, udr, shift, wire>> /\ pc = "enable"
          BY <1>2 DEF WriteEnable
        <4> QED
          BY <4>1 DEF Completed
      <3> QED
        BY <3>1, <3>2, <3>3
    <2>5. Promised'
      <3>1. /\ pc = "enable" /\ pc' = "idle"
            /\ room' = IF room > 0 THEN room - 1 ELSE 0
        BY <1>2 DEF WriteEnable
      <3>2. Count \in Nat /\ TxSize \in Nat
        BY CountIs, TxSizeAssumption
      <3>3. room \in Nat
        BY TxSizeAssumption DEF TypeOK, Slots
      <3> QED
        BY <2>3, <3>1, <3>2, <3>3 DEF Promised
    <2> QED
      BY <2>2, <2>3, <2>4, <2>5
  <1>3. CASE FlushCall \/ FlushReturn \/ EndCall
    <2> USE DEF FlushCall, FlushReturn, EndCall
    <2>1. Committed' = Committed
      BY <1>3 DEF TypeOK, Committed
    <2>2. TypeOK'
      BY <1>3 DEF TypeOK
    <2>3. InOrder' /\ Count' = Count
      BY <1>3, <2>1, NothingMoves
    <2>4. Progress' /\ Enabled' /\ Completed' /\ Promised'
      BY <1>3, <2>3 DEF TypeOK, Progress, Enabled, IrqHasData, NoneStranded,
                        Completed, Promised
    <2> QED
      BY <2>2, <2>3, <2>4
  <1>4. CASE EndReturn \/ Begin
    <2> USE DEF EndReturn, Begin
    <2>1. Committed' = Committed
      BY <1>4 DEF TypeOK, Committed
    <2>2. TypeOK'
      BY <1>4 DEF TypeOK
    <2>3. InOrder' /\ Count' = Count
      BY <1>4, <2>1, NothingMoves
    <2>4. Progress' /\ Enabled' /\ Completed' /\ Promised'
      BY <1>4, <2>3 DEF TypeOK, Progress, Enabled, IrqHasData, NoneStranded,
                        Completed, Promised
    <2> QED
      BY <2>2, <2>3, <2>4
  <1>5. CASE AvailableForWrite
    <2>1. Committed' = Committed
      BY <1>5 DEF AvailableForWrite, Committed
    <2>2. TypeOK'
      <3>1. Room \in Slots
        BY CountIs, TxSizeAssumption DEF Slots
      <3> QED
        BY <1>5, <3>1 DEF AvailableForWrite, TypeOK
    <2>3. InOrder' /\ Count' = Count
      BY <1>5, <2>1, NothingMoves DEF AvailableForWrite
    <2>4. Progress' /\ Enabled' /\ Completed'
      <3>1. UNCHANGED <<pc, cur, next, irqOn, open, written, usart, queue, drained>>
        BY <1>5 DEF AvailableForWrite
      <3> QED
        BY <2>3, <3>1 DEF Progress, Enabled, IrqHasData, NoneStranded, Completed,
                          Inc
    <2>5. Promised'
      BY <1>5, <2>3, CountIs, TxSizeAssumption DEF AvailableForWrite, Promised
    <2> QED
      BY <2>2, <2>3, <2>4, <2>5
  <1>6. CASE \E on \in BOOLEAN : SetInterrupts(on)
    <2> USE DEF SetInterrupts
    <2>1. Committed' = Committed
      BY <1>6 DEF Committed
    <2>2. TypeOK'
      BY <1>6 DEF TypeOK
    <2>3. InOrder' /\ Count' = Count
      BY <1>6, <2>1, NothingMoves
    <2>4. Progress' /\ Enabled' /\ Completed' /\ Promised'
      BY <1>6, <2>3 DEF TypeOK, Progress, Enabled, IrqHasData, NoneStranded,
                        Completed, Promised
    <2> QED
      BY <2>2, <2>3, <2>4
  <1> QED
    BY <1>1, <1>2, <1>3, <1>4, <1>5, <1>6

(* The steps that move a byte: into the queue or past it, out of the queue  *)
(* by the interrupt handler, and through the USART.                        *)
LEMMA DirectStep ==
  ASSUME IInv, WriteDirect \/ WriteClearTxc, ~ LineFast
  PROVE  IInv'
  <1> USE DEF IInv, flags, sketch, usart, queue, Return, DataRegisterEmpty
  <1>1. CASE WriteDirect
    <2>1. udr = NoByte /\ head = tail /\ Count = 0 /\ udr' = cur /\ cur > 0
      BY <1>1, CountIs DEF WriteDirect, Progress
    <2>2. TypeOK'
      BY <1>1, <2>1 DEF WriteDirect, TypeOK
    <2>3. /\ Count' = 0 /\ Committed' = Committed + 1
          /\ Left = Len(wire) + Busy(shift)
          /\ Left' = Left + 1 /\ Left \in Nat
          /\ Busy(shift) \in 0 .. 1 /\ Len(wire) \in Nat
      <3>1. Count' = 0 /\ Committed' = Committed + 1
        BY <1>1, <2>1 DEF WriteDirect, TypeOK, Count, Committed
      <3>2. Busy(udr) = 0 /\ Busy(udr') = 1 /\ Busy(shift') = Busy(shift)
            /\ Busy(shift) \in 0 .. 1
        BY <1>1, <2>1 DEF WriteDirect, Busy, NoByte
      <3> QED
        BY <1>1, <3>1, <3>2 DEF WriteDirect, Left, TypeOK
    <2>4. InOrder'
      <3>1. udr' = Len(wire') + Busy(shift') + 1
        BY <1>1, <2>1, <2>3
        DEF WriteDirect, InOrder, TypeOK, Committed, Busy
      <3>2. \A p \in Slots : ~ (Off(p)' < Count')
        BY <1>1, <2>3, TxSizeAssumption DEF WriteDirect, Off, TypeOK, Slots
      <3>3. Left + Count = Committed
        BY DEF InOrder
      <3> QED
        BY <1>1, <2>1, <2>3, <3>1, <3>2, <3>3
           DEF WriteDirect, InOrder, Busy, TypeOK
    <2>5. Progress' /\ Enabled' /\ Completed' /\ Promised'
      BY <1>1, <2>1, <2>3 DEF WriteDirect, TypeOK, Progress, Enabled, NoByte,
                       IrqHasData, NoneStranded, Completed, Promised
    <2> QED
      BY <2>2, <2>4, <2>5
  <1>2. CASE WriteClearTxc
    <2>1. Committed' = Committed
      BY <1>2 DEF WriteClearTxc, Committed
    <2>2. TypeOK'
      <3>1. room' \in Slots
        BY <1>2, TxSizeAssumption DEF WriteClearTxc, TypeOK, Slots
      <3>2. /\ written' \in BOOLEAN /\ open' \in BOOLEAN /\ irqOn' \in BOOLEAN
            /\ udrie' \in BOOLEAN /\ txc' \in BOOLEAN /\ drained' \in BOOLEAN
        BY <1>2 DEF WriteClearTxc, TypeOK
      <3> QED
        BY <1>2, <3>1, <3>2 DEF WriteClearTxc, TypeOK
    <2>3. InOrder' /\ Count' = Count
      BY <1>2, <2>1, NothingMoves DEF WriteClearTxc
    <2>4. Progress' /\ Enabled' /\ Promised'
      BY <1>2, <2>3, CountIs, TxSizeAssumption
      DEF WriteClearTxc, TypeOK, Progress, Enabled, IrqHasData, NoneStranded,
          Promised, Slots
    <2>5. udr # NoByte \/ shift # NoByte
      BY <1>2 DEF WriteClearTxc, Progress
    <2>6. Completed'
      BY <1>2, <2>5 DEF WriteClearTxc, Completed
    <2> QED
      BY <2>2, <2>3, <2>4, <2>6
  <1> QED
    BY <1>1, <1>2

LEMMA QueueStep ==
  ASSUME IInv, WriteStore \/ WritePublish
  PROVE  IInv'
  <1> USE DEF IInv, flags, sketch, usart, queue
  <1>1. CASE WriteStore
    <2>1. Committed' = Committed /\ Count' = Count /\ Left' = Left
      BY <1>1 DEF WriteStore, Committed, Count, Left, Busy
    <2>2. TypeOK'
      BY <1>1 DEF WriteStore, TypeOK
    <2>3. \A p \in Slots : Off(p)' = Off(p) /\ (Off(p) < Count => p # head)
      <3>1. \A p \in Slots : Off(p) < Count => p # head
        <4>1. Off(head) = Count /\ ~ (Count < Count)
          BY CountIs DEF Off, Count
        <4> QED
          BY <4>1
      <3> QED
        BY <1>1, <3>1 DEF WriteStore, Off
    <2>4. InOrder'
      <3>1. \A p \in Slots : Off(p)' < Count' => buffer'[p] = Left' + Off(p)' + 1
        BY <1>1, <2>1, <2>3 DEF WriteStore, InOrder, TypeOK
      <3> QED
        BY <1>1, <2>1, <3>1 DEF WriteStore, InOrder, Busy
    <2>5. buffer'[head] = cur
      BY <1>1 DEF WriteStore, TypeOK
    <2>6. Progress'
      BY <1>1, <2>5 DEF WriteStore, Progress, Inc
    <2>7. Enabled' /\ Completed' /\ Promised'
      BY <1>1, <2>1 DEF WriteStore, Enabled, IrqHasData, NoneStranded,
                        Completed, Promised
    <2> QED
      BY <2>2, <2>4, <2>6, <2>7
  <1>2. CASE WritePublish
    <2>1. next = Inc(head) /\ next # tail /\ buffer[head] = cur /\ cur > 0
      BY <1>2 DEF WritePublish, Progress
    <2>2. next = IF head + 1 = TxSize THEN 0 ELSE head + 1
      BY <2>1, IncIs DEF TypeOK
    <2>3. Count' = Count + 1 /\ Count \in Nat /\ head' # tail'
      BY <1>2, <2>1, <2>2, CountIs, TxSizeAssumption
      DEF WritePublish, Count, TypeOK, Slots
    <2>4. Committed' = Committed + 1 /\ Committed' = cur /\ Left' = Left
      BY <1>2 DEF WritePublish, Committed, TypeOK, Left, Busy
    <2>5. TypeOK'
      BY <1>2 DEF WritePublish, TypeOK
    <2>6. \A p \in Slots : Off(p)' = Off(p)
                           /\ (Off(p) < Count + 1 => Off(p) < Count \/ p = head)
      BY <1>2, TxSizeAssumption DEF WritePublish, Off, Count, TypeOK, Slots
    <2>7. InOrder'
      <3>1. Left + Count = cur - 1 /\ Left \in Nat /\ Off(head) = Count
        <4>1. Left \in Nat
          BY LeftIs
        <4>2. Left + Count = cur - 1
          BY <1>2, <2>4 DEF InOrder, WritePublish, Committed
        <4> QED
          BY <4>1, <4>2 DEF Off, Count
      <3>2. ASSUME NEW p \in Slots, Off(p)' < Count'
            PROVE  buffer'[p] = Left' + Off(p)' + 1
        <4>1. CASE Off(p) < Count
          BY <1>2, <2>4, <2>6, <4>1 DEF InOrder, WritePublish
        <4>2. CASE p = head
          BY <1>2, <2>1, <2>4, <2>6, <3>1, <3>2, <4>2
          DEF WritePublish, TypeOK
        <4> QED
          BY <2>3, <2>6, <3>2, <4>1, <4>2
      <3>3. Left' + Count' = Committed'
        BY <2>3, <2>4, <3>1 DEF TypeOK
      <3> QED
        BY <1>2, <3>2, <3>3 DEF WritePublish, InOrder, Busy
    <2>8. Progress' /\ Completed'
      BY <1>2, <2>1 DEF WritePublish, Progress, Completed
    <2>9. Enabled'
      BY <1>2, <2>3, CountIs DEF WritePublish, Enabled, IrqHasData, NoneStranded
    <2>10. Promised'
      BY <1>2, <2>3, TxSizeAssumption DEF WritePublish, Promised, TypeOK, Slots
    <2> QED
      BY <2>5, <2>7, <2>8, <2>9, <2>10
  <1> QED
    BY <1>1, <1>2

LEMMA InterruptStep ==
  ASSUME IInv, UdreInterrupt \/ WritePoll \/ FlushPoll, ~ LineFast
  PROVE  IInv'
  <1> USE DEF IInv, flags, sketch
  <1>1. head # tail /\ udr = NoByte /\ TxUdrEmptyIrq /\ UNCHANGED sketch
    <2>1. CASE UdreInterrupt
      BY <2>1 DEF UdreInterrupt, DataRegisterEmpty, Enabled, IrqHasData
    <2>2. CASE WritePoll
      BY <2>2, CountIs, TxSizeAssumption
         DEF WritePoll, DataRegisterEmpty, Progress
    <2>3. CASE FlushPoll
      BY <2>3 DEF FlushPoll, DataRegisterEmpty, Enabled, IrqHasData
    <2> QED
      BY <2>1, <2>2, <2>3
  <1>2. /\ InOrder' /\ Count' = Count - 1
        /\ udr' \in 1 .. MaxBytes /\ tail' \in Slots
    BY <1>1, IrqMovesOneByte
  <1>3. udrie' \in BOOLEAN /\ drained' \in BOOLEAN /\ txc' = FALSE
    BY <1>1
       DEF UdreInterrupt, WritePoll, FlushPoll, TxUdrEmptyIrq, StaysOn, NewTxc, TypeOK
  <1>4. TypeOK'
    BY <1>1, <1>2, <1>3, MaxBytesAssumption
       DEF TypeOK, TxUdrEmptyIrq, StaysOn, NewTxc
  <1>5. Completed'
    BY <1>2, <1>3 DEF Completed, NoByte
  <1>6. Count > 0 /\ Count \in Nat
    BY <1>1, CountIs
  <1>7. Promised'
    BY <1>1, <1>2, <1>6, TxSizeAssumption DEF Promised, TypeOK, Slots
  <1>8. pc = "publish" => next # tail'
    <2>1. /\ Inc(head) = IF head + 1 = TxSize THEN 0 ELSE head + 1
          /\ Inc(tail) = IF tail + 1 = TxSize THEN 0 ELSE tail + 1
      BY IncIs DEF TypeOK
    <2> QED
      BY <1>1, <2>1 DEF Progress, TxUdrEmptyIrq, StaysOn, NewTxc, TypeOK, Slots
  <1>9. Progress'
    BY <1>1, <1>2, <1>8
       DEF Progress, TxUdrEmptyIrq, StaysOn, NewTxc, Inc, NoByte
  <1>10. Enabled'
    <2>1. udrie' = (udrie /\ head' # tail')
      BY <1>1 DEF TxUdrEmptyIrq, StaysOn, NewTxc
    <2>2. pc # "enable" => udrie
      BY <1>1 DEF Enabled, NoneStranded
    <2>3. pc = "enable" => drained' /\ (udrie /\ ~ drained) /\ Count > 1
      BY DEF UdreInterrupt, WritePoll, FlushPoll, Enabled
    <2>4. pc = "enable" => head' # tail'
      BY <1>1, <1>2, <1>6, <2>3
         DEF Count, TypeOK, Slots, TxUdrEmptyIrq, StaysOn, NewTxc
    <2> QED
      BY <1>1, <2>1, <2>2, <2>3, <2>4 DEF Enabled, IrqHasData, NoneStranded
  <1> QED
    BY <1>2, <1>4, <1>5, <1>7, <1>9, <1>10

LEMMA LineStep ==
  ASSUME IInv, Load \/ ShiftOut, ~ LineFast
  PROVE  IInv'
  <1> USE DEF IInv, flags, sketch, usart, queue
  <1>1. Committed' = Committed /\ Count' = Count
        /\ \A p \in Slots : Off(p)' = Off(p)
    BY DEF Load, ShiftOut, Committed, Count, Off
  <1>2. CASE Load
    <2>1. Left' = Left /\ TypeOK'
      BY <1>2 DEF Load, TypeOK, Left, Busy, NoByte
    <2>2. InOrder'
      BY <1>1, <1>2, <2>1 DEF Load, InOrder, Busy, NoByte, TypeOK
    <2>3. Progress' /\ Enabled' /\ Completed' /\ Promised'
      BY <1>1, <1>2 DEF Load, Progress, Inc, Enabled, IrqHasData, NoneStranded,
                        Completed, Promised
    <2> QED
      BY <2>1, <2>2, <2>3
  <1>3. CASE ShiftOut
    <2>1. shift = Len(wire) + 1 /\ Len(wire) \in Nat
      BY <1>3 DEF ShiftOut, InOrder, TypeOK
    <2>2. /\ Len(wire') = Len(wire) + 1
          /\ \A k \in 1 .. Len(wire') : wire'[k] = k
          /\ wire' \in Seq(Nat)
      BY <1>3, <2>1 DEF ShiftOut, InOrder, TypeOK
    <2>3. Left' = Left /\ Busy(shift') = 0 /\ Busy(shift) = 1
      BY <1>3, <2>1, <2>2, LeftIs DEF ShiftOut, Left, Busy
    <2>4. TypeOK'
      <3>1. txc' \in BOOLEAN
        BY <1>3 DEF ShiftOut, TypeOK
      <3> QED
        BY <1>3, <2>2, <3>1, MaxBytesAssumption DEF ShiftOut, TypeOK, NoByte
    <2>5. InOrder'
      BY <1>1, <1>3, <2>1, <2>2, <2>3 DEF ShiftOut, InOrder
    <2>6. Enabled' /\ Promised'
      BY <1>1, <1>3
      DEF ShiftOut, Enabled, IrqHasData, NoneStranded, Promised
    <2>7. pc = "clear_txc" => udr # NoByte
      <3>1. CASE pc = "clear_txc"
        <4>1. Count = 0 /\ Left = cur /\ shift # cur
          BY <1>3, <3>1, CountIs, LeftIs
          DEF ShiftOut, Progress, InOrder, Committed, TypeOK
        <4>2. Left = Len(wire) + 1 + Busy(udr)
          BY <2>3 DEF Left
        <4> QED
          BY <4>1, <4>2, <2>1 DEF Busy
      <3> QED
        BY <3>1
    <2>8. Progress' /\ Completed'
      BY <1>3, <2>7 DEF ShiftOut, Progress, Completed, Inc, NoByte
    <2> QED
      BY <2>4, <2>5, <2>6, <2>8
  <1> QED
    BY <1>2, <1>3

LEMMA StutterStep ==
  ASSUME IInv, UNCHANGED vars
  PROVE  IInv'
  <1> USE DEF IInv, vars, flags, sketch, usart, queue
  <1>1. TypeOK'
    BY DEF TypeOK
  <1>2. InOrder' /\ Count' = Count
    BY NothingMoves DEF Committed
  <1>3. Progress' /\ Enabled' /\ Completed' /\ Promised'
    BY <1>2 DEF Progress, Inc, Enabled, IrqHasData, NoneStranded, Completed,
                Promised
  <1> QED
    BY <1>1, <1>2, <1>3

(* IInv is an invariant: the queue, the interrupt enable, TXC0 and the      *)
(* promise of availableForWrite() agree after every step.                  *)
THEOREM Inductive == ASSUME ~ LineFast PROVE Spec => []IInv
  <1>1. IInv /\ [Next]_vars => IInv'
    BY SketchStep, DirectStep, QueueStep, InterruptStep, LineStep, StutterStep
    DEF Next, Calls, Running, Spin
  <1> QED
    BY <1>1, InitIInv, PTL DEF Spec

(* TypeOK, for every size of the buffer. *)
THEOREM TypeCorrect == ASSUME ~ LineFast PROVE Spec => []TypeOK
  <1>1. IInv => TypeOK
    BY DEF IInv
  <1> QED
    BY <1>1, Inductive, PTL

(* IrqHasData: the handler never takes a byte from an empty queue; nor does  *)
(* a byte stay in the queue with nobody to send it.                        *)
THEOREM InterruptMatchesQueue ==
  ASSUME ~ LineFast PROVE Spec => [](IrqHasData /\ NoneStranded)
  <1>1. IInv => IrqHasData /\ NoneStranded
    BY DEF IInv, Enabled
  <1> QED
    BY <1>1, Inductive, PTL

(* RoomHonoured: as many writes as availableForWrite() returned do not wait. *)
THEOREM WritesDoNotBlock == ASSUME ~ LineFast PROVE Spec => []RoomHonoured
  <1>1. IInv => RoomHonoured
    <2> SUFFICES ASSUME IInv, pc = "full", room > 0 PROVE next # tail
      BY DEF RoomHonoured
    <2>1. next = Inc(head) /\ room + Count <= TxSize - 1
      BY DEF IInv, Progress, Promised
    <2> QED
      BY <2>1, CountIs, TxSizeAssumption DEF IInv, TypeOK, Slots
  <1> QED
    BY <1>1, Inductive, PTL

(* What flush() can rely on when it waits for TXC0. *)
LEMMA FlushMeans ==
  ASSUME IInv, pc = "flush"
  PROVE  /\ udr = NoByte /\ shift = NoByte /\ head = tail => txc
         /\ ~ udrie /\ txc => Len(wire) = cur
  <1>1. Left + Count = cur /\ cur > 0
    BY DEF IInv, InOrder, Committed, Progress
  <1>2. ASSUME udr = NoByte, shift = NoByte, head = tail
        PROVE  txc /\ Len(wire) = cur
    <2>1. Count = 0 /\ Left = Len(wire)
      BY <1>2, CountIs, LeftIs DEF IInv, Left, Busy
    <2> QED
      BY <1>1, <1>2, <2>1, LeftIs DEF IInv, Completed
  <1>3. ~ udrie /\ txc => head = tail /\ udr = NoByte /\ shift = NoByte
    BY DEF IInv, Enabled, NoneStranded, Completed
  <1> QED
    BY <1>2, <1>3

(* CompletionSeen: flush() does not wait for a TXC0 that was lost. *)
THEOREM FlushNotStuck == ASSUME ~ LineFast PROVE Spec => []CompletionSeen
  <1>1. IInv => CompletionSeen
    BY FlushMeans DEF CompletionSeen
  <1> QED
    BY <1>1, Inductive, PTL

(* FlushSendsAll: when flush() returns, every byte is on the wire. *)
THEOREM FlushComplete == ASSUME ~ LineFast PROVE Spec => FlushSendsAll
  <1>1. IInv /\ [Next]_vars => [pc = "flush" /\ pc' = "idle" => Len(wire) = cur]_vars
    <2> SUFFICES ASSUME IInv, Next, pc = "flush", pc' = "idle"
                 PROVE  Len(wire) = cur
      BY DEF vars
    <2>1. FlushReturn
      BY
         DEF Next, Calls, Running, Spin, vars, WriteCall, Shortcut, AvailableForWrite,
        FlushCall, EndCall, Begin, SetInterrupts, WriteDirect,
        WriteClearTxc, WritePoll, WriteStore, WritePublish, WriteEnable,
        FlushPoll, EndReturn, UdreInterrupt, Load, ShiftOut, flags, sketch
    <2> QED
      BY <2>1, FlushMeans DEF FlushReturn
  <1> QED
    BY <1>1, Inductive, PTL DEF FlushSendsAll, Spec

(* ImplementsChannel: the line is a channel that holds TxSize + 1 bytes and *)
(* delivers each of them once, in the order of the calls of write().       *)
THEOREM Refinement == ASSUME ~ LineFast PROVE Spec => ImplementsChannel
  <1>1. Init => Channel!Init
    BY DEF Init, Channel!Init, Committed
  <1>2. ASSUME IInv, [Next]_vars
        PROVE  [Channel!Next]_<<Committed, wire>>
    <2> USE <1>2 DEF IInv, flags, sketch, usart, queue, Return
    <2>1. CASE WriteDirect
      <3>1. Committed' = Committed + 1 /\ UNCHANGED wire
        BY <2>1 DEF WriteDirect, Committed, TypeOK
      <3>2. Count = 0 /\ Busy(udr) = 0
        BY <2>1, CountIs DEF WriteDirect, Progress, Busy
      <3>3. Committed - Len(wire) < TxSize + 1
        BY <3>2, LeftIs, TxSizeAssumption DEF InOrder, Left
      <3> QED
        BY <3>1, <3>3 DEF Channel!Next, Channel!Accept
    <2>2. CASE WritePublish
      <3>1. Committed' = Committed + 1 /\ UNCHANGED wire
        BY <2>2 DEF WritePublish, Committed, TypeOK
      <3>2. Count \in Nat /\ Count < TxSize - 1
        BY <2>2, CountIs, TxSizeAssumption DEF WritePublish, Progress
      <3>3. Committed - Len(wire) < TxSize + 1
        BY <3>2, LeftIs, TxSizeAssumption DEF InOrder, Left
      <3> QED
        BY <3>1, <3>3 DEF Channel!Next, Channel!Accept
    <2>3. CASE ShiftOut
      <3>1. Committed' = Committed /\ wire' = Append(wire, Len(wire) + 1)
        BY <2>3 DEF ShiftOut, InOrder, Committed
      <3>2. Busy(shift) = 1
        BY <2>3 DEF ShiftOut, Busy
      <3>3. Len(wire) < Committed
        BY <3>2, CountIs, LeftIs, TxSizeAssumption DEF InOrder, Left
      <3> QED
        BY <3>1, <3>3 DEF Channel!Next, Channel!Deliver
    <2>4. CASE WriteCall \/ WriteClearTxc \/ WriteStore
               \/ WriteEnable
      BY <2>4 DEF WriteCall, Shortcut, WriteClearTxc, WriteStore,
                  WriteEnable, Committed, TypeOK
    <2>5. CASE FlushCall \/ FlushReturn \/ EndCall \/ EndReturn \/ Begin
               \/ AvailableForWrite \/ \E on \in BOOLEAN : SetInterrupts(on)
      BY <2>5 DEF FlushCall, FlushReturn, EndCall, EndReturn, Begin,
                  AvailableForWrite, SetInterrupts, Committed
    <2>6. CASE UdreInterrupt \/ WritePoll \/ FlushPoll \/ Load \/ Spin
               \/ UNCHANGED vars
      BY <2>6
         DEF UdreInterrupt, WritePoll, FlushPoll, TxUdrEmptyIrq, StaysOn, NewTxc, Load,
                  Spin, vars, Committed
    <2> QED
      BY <2>1, <2>2, <2>3, <2>4, <2>5, <2>6 DEF Next, Calls, Running
  <1> QED
    BY <1>1, <1>2, Inductive, PTL DEF ImplementsChannel, Channel!Spec, Spec
=============================================================================
