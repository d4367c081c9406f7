------------------------------ MODULE SerialTx ------------------------------
(***************************************************************************)
(* The transmit half of HardwareSerial, on one USART: the sketch calls     *)
(* write(), flush(), availableForWrite(), begin() and end(); the           *)
(* data-register-empty (UDRE) interrupt drains the ring buffer into the    *)
(* data register UDR; the USART moves UDR to its shift register and sends  *)
(* it on the wire.                                                         *)
(*                                                                         *)
(* The sketch is cut at every access to state it shares with the interrupt *)
(* or with the USART.  An interrupt handler runs with interrupts masked,   *)
(* so it is one step.  The k-th byte the sketch writes is the number k.    *)
(***************************************************************************)
EXTENDS Naturals, Sequences

CONSTANTS
  TxSize,    \* SERIAL_TX_BUFFER_SIZE
  MaxBytes,  \* bound of the model: how many bytes the sketch writes
  LineFast   \* can the line send a whole byte, or ask for two, while the
             \* sketch is between two adjacent statements of write()?

(* Up to 256 slots tx_buffer_index_t is of 8 bits, and an access to an     *)
(* index one load or store; beyond it is of 16 bits, and of two.           *)
ASSUME TxSizeAssumption == TxSize \in Nat /\ TxSize > 1 /\ TxSize <= 256
ASSUME MaxBytesAssumption == MaxBytes \in Nat
ASSUME LineFastAssumption == LineFast \in BOOLEAN

VARIABLES
  head, tail, buffer,  \* _tx_buffer_head, _tx_buffer_tail, _tx_buffer
  written,             \* _written
  open,                \* TXEN0: begin() has run, and end() has not since
  udrie, txc,          \* UDRIE0 of UCSRB and TXC0 of UCSRA
  udr, shift,          \* the data register and the shift register
  irqOn,               \* the global interrupt flag, SREG_I
  pc, cur, next,       \* the sketch: where it is, the byte c, the local i
  room,                \* writes that availableForWrite() has promised
  drained,             \* a UDRE interrupt has run since head was published
  wire                 \* the bytes sent, in order

flags == <<room, irqOn, open, written>>
sketch == <<pc, cur, next, flags>>
usart == <<udr, shift, txc, wire>>
queue == <<head, tail, buffer, udrie>>
vars == <<sketch, usart, queue, drained>>

Slots == 0 .. TxSize - 1
NoByte == 0
IncNoWrap(i) == i + 1                        \* mutant: the % forgotten
Inc(i) == (i + 1) % TxSize          \* the index arithmetic of the ring buffer
DataRegisterEmpty == udr = NoByte   \* UDRE0

(* Bytes queued, and free places as availableForWrite() computes them. *)
Count == IF head >= tail THEN head - tail ELSE TxSize + head - tail
RoomOffByOne ==   \* mutant: one place too many
  IF head >= tail THEN TxSize - head + tail ELSE tail - head
Room == IF head >= tail THEN TxSize - 1 - head + tail ELSE tail - head - 1

Init ==
  /\ head = 0 /\ tail = 0
  /\ buffer = [p \in Slots |-> NoByte]
  /\ written = FALSE /\ open = FALSE
  /\ udrie = FALSE /\ txc = FALSE
  /\ udr = NoByte /\ shift = NoByte
  /\ irqOn = TRUE
  /\ pc = "idle" /\ cur = 0 /\ next = 0
  /\ room = 0
  /\ drained = FALSE
  /\ wire = <<>>

-----------------------------------------------------------------------------
(* _tx_udr_empty_irq()                                                     *)

StaysOnAlways == TRUE   \* mutant: the interrupt is not disabled
StaysOnShort ==         \* mutant: disabled before the last byte
  head # Inc(tail) /\ head # Inc(Inc(tail))
StaysOn == head # Inc(tail)

NewTxcKept == txc   \* mutant: TXC0 is not cleared
NewTxc == FALSE

(* The handler: the interrupt calls it, and write() and flush() when the    *)
(* sketch has masked interrupts, all of them with UDR empty.               *)
TxUdrEmptyIrq ==
  /\ udr' = buffer[tail]
  /\ tail' = Inc(tail)
  /\ txc' = NewTxc
  /\ udrie' = (udrie /\ StaysOn)
  /\ UNCHANGED <<head, buffer, shift, wire>>

(* A slow line cannot empty UDR twice while write() is between publishing  *)
(* the head and enabling the interrupt.                                    *)
UdreInterrupt ==
  /\ irqOn /\ udrie /\ DataRegisterEmpty
  /\ pc = "enable" /\ drained => LineFast
  /\ drained' = TRUE
  /\ TxUdrEmptyIrq
  /\ UNCHANGED sketch

-----------------------------------------------------------------------------
(* write(c)                                                                *)

ShortcutRegisterOnly == DataRegisterEmpty   \* mutant: ignores the queue
Shortcut == head = tail /\ DataRegisterEmpty

WriteCall ==
  /\ pc = "idle" /\ open /\ cur < MaxBytes
  /\ cur' = cur + 1 /\ written' = TRUE
  /\ IF Shortcut
       THEN pc' = "direct" /\ next' = next
       ELSE pc' = "full" /\ next' = Inc(head)
  /\ UNCHANGED <<room, irqOn, open, usart, queue, drained>>

WriteDirect ==
  /\ pc = "direct"
  /\ udr' = IF DataRegisterEmpty THEN cur ELSE udr
  /\ pc' = "clear_txc"
  /\ UNCHANGED <<cur, next, flags, shift, txc, wire, queue, drained>>

Return == pc' = "idle" /\ room' = IF room > 0 THEN room - 1 ELSE 0

WriteClearTxc ==
  /\ pc = "clear_txc"
  /\ txc' = FALSE
  /\ Return
  /\ UNCHANGED <<cur, next, irqOn, open, written, udr, shift, wire, queue,
                 drained>>

WritePollInverted ==   \* mutant: polls when the interrupt could run
  /\ pc = "full" /\ next = tail
  /\ irqOn /\ DataRegisterEmpty
  /\ TxUdrEmptyIrq
  /\ UNCHANGED <<sketch, drained>>

(* The buffer is full and interrupts are masked: poll UDRE0 by hand. *)
WritePoll ==
  /\ pc = "full" /\ next = tail
  /\ ~ irqOn /\ DataRegisterEmpty
  /\ TxUdrEmptyIrq
  /\ UNCHANGED <<sketch, drained>>

WriteStore ==
  /\ pc = "full" /\ next # tail
  /\ buffer' = [buffer EXCEPT ![head] = cur]
  /\ pc' = "publish"
  /\ UNCHANGED <<cur, next, flags, usart, head, tail, udrie, drained>>

WritePublish ==
  /\ pc = "publish"
  /\ head' = next
  /\ drained' = FALSE
  /\ pc' = "enable"
  /\ UNCHANGED <<cur, next, flags, usart, tail, buffer, udrie>>

WriteEnable ==
  /\ pc = "enable"
  /\ udrie' = TRUE
  /\ Return
  /\ UNCHANGED <<cur, next, irqOn, open, written, usart, head, tail, buffer,
                 drained>>

-----------------------------------------------------------------------------
(* availableForWrite(), flush(), end(), begin(), noInterrupts() and        *)
(* interrupts()                                                            *)

AvailableForWrite ==
  /\ pc = "idle" /\ open
  /\ room' = Room
  /\ UNCHANGED <<pc, cur, next, irqOn, open, written, usart, queue, drained>>

FlushCallUnwritten ==   \* mutant: the test of _written dropped
  /\ pc = "idle" /\ open
  /\ pc' = "flush"
  /\ UNCHANGED <<cur, next, flags, usart, queue, drained>>

FlushCall ==
  /\ pc = "idle" /\ open /\ written
  /\ pc' = "flush"
  /\ UNCHANGED <<cur, next, flags, usart, queue, drained>>

FlushPoll ==
  /\ pc = "flush"
  /\ ~ irqOn /\ udrie /\ DataRegisterEmpty
  /\ TxUdrEmptyIrq
  /\ UNCHANGED <<sketch, drained>>

FlushReturn ==
  /\ pc = "flush" /\ ~ udrie /\ txc
  /\ pc' = "idle"
  /\ UNCHANGED <<cur, next, flags, usart, queue, drained>>

EndCall ==
  /\ pc = "idle" /\ open
  /\ pc' = "end"
  /\ UNCHANGED <<cur, next, flags, usart, queue, drained>>

(* end() stops once the queue is empty; what UDR and the shift register    *)
(* still hold is sent all the same.                                        *)
EndReturn ==
  /\ pc = "end" /\ head = tail
  /\ open' = FALSE
  /\ udrie' = FALSE
  /\ pc' = "idle"
  /\ UNCHANGED <<cur, next, room, irqOn, written, usart, head, tail, buffer,
                 drained>>

Begin ==
  /\ pc = "idle" /\ ~ open
  /\ open' = TRUE
  /\ written' = FALSE
  /\ udrie' = FALSE
  /\ UNCHANGED <<pc, cur, next, room, irqOn, usart, head, tail, buffer,
                 drained>>

SetInterrupts(on) ==
  /\ pc = "idle" /\ irqOn # on
  /\ irqOn' = on
  /\ UNCHANGED <<pc, cur, next, room, open, written, usart, queue, drained>>

(* The busy-waiting loops of write(), flush() and end().                   *)
Spin ==
  /\ \/ pc = "full" /\ next = tail
     \/ pc = "flush" /\ (udrie \/ ~ txc)
     \/ pc = "end" /\ head # tail
  /\ UNCHANGED vars

-----------------------------------------------------------------------------
(* The USART: UDR moves to the shift register as soon as that is free; a   *)
(* byte shifted out with UDR empty sets TXC0.                              *)

Load ==
  /\ shift = NoByte /\ udr # NoByte
  /\ shift' = udr
  /\ udr' = NoByte
  /\ UNCHANGED <<sketch, txc, wire, queue, drained>>

(* A slow line cannot send the byte just written to UDR before the next    *)
(* statement of write().                                                   *)
ShiftOut ==
  /\ shift # NoByte
  /\ pc = "clear_txc" /\ shift = cur => LineFast
  /\ wire' = Append(wire, shift)
  /\ shift' = NoByte
  /\ txc' = (txc \/ udr = NoByte)
  /\ UNCHANGED <<sketch, udr, queue, drained>>

-----------------------------------------------------------------------------
Running ==   \* the steps of a call that has been made
  \/ WriteDirect \/ WriteClearTxc \/ WritePoll \/ WriteStore
  \/ WritePublish \/ WriteEnable \/ FlushPoll \/ FlushReturn \/ EndReturn

Calls ==
  \/ WriteCall \/ AvailableForWrite \/ FlushCall \/ EndCall \/ Begin
  \/ \E on \in BOOLEAN : SetInterrupts(on)

Next == Calls \/ Running \/ Spin \/ UdreInterrupt \/ Load \/ ShiftOut

Spec == Init /\ [][Next]_vars

(* The CPU executes, a pending interrupt is served, the USART sends.       *)
Fairness ==
  /\ WF_vars(Running)
  /\ WF_vars(UdreInterrupt)
  /\ WF_vars(Load)
  /\ WF_vars(ShiftOut)

FairSpec == Spec /\ Fairness

-----------------------------------------------------------------------------
(* Properties                                                              *)

Busy(register) == IF register = NoByte THEN 0 ELSE 1

(* Bytes the sketch has handed over to the queue or to UDR. *)
Committed == IF pc \in {"direct", "full", "publish"}
             THEN cur - 1 ELSE cur

TypeOK ==
  /\ head \in Slots /\ tail \in Slots /\ next \in Slots
  /\ buffer \in [Slots -> 0 .. MaxBytes]
  /\ cur \in 0 .. MaxBytes
  /\ udr \in 0 .. MaxBytes /\ shift \in 0 .. MaxBytes
  /\ written \in BOOLEAN /\ open \in BOOLEAN /\ irqOn \in BOOLEAN
  /\ udrie \in BOOLEAN /\ txc \in BOOLEAN /\ drained \in BOOLEAN
  /\ pc \in {"idle", "direct", "clear_txc", "full", "publish",
             "enable", "flush", "end"}
  /\ room \in Slots
  /\ wire \in Seq(Nat)

(* Whenever the UDRE interrupt is enabled the queue has a byte for it: the  *)
(* comment of _tx_udr_empty_irq, "If interrupts are enabled, there must be  *)
(* more data in the output buffer".                                         *)
IrqHasData == udrie => head # tail

(* The converse: no byte is left in the queue with the interrupt off, except *)
(* the one write() is about to enable it for.                               *)
NoneStranded == head # tail => udrie \/ pc = "enable"

(* availableForWrite() is a promise: so many writes do not block.           *)
RoomHonoured == pc = "full" /\ room > 0 => next # tail

(* TXC0 is not lost: once everything is sent, flush() sees it set, so that   *)
(* it cannot wait for ever.                                                 *)
CompletionSeen ==
  pc = "flush" /\ udr = NoByte /\ shift = NoByte /\ head = tail => txc

(* flush() returns only when all the bytes written are on the wire.         *)
FlushSendsAll ==
  [][pc = "flush" /\ pc' = "idle" => Len(wire) = cur]_vars

(* The line behaves as a bounded channel: every byte once, in the order of  *)
(* the calls of write(), at most TxSize + 1 of them in flight.              *)
Channel == INSTANCE ByteStream WITH
             Capacity <- TxSize + 1, accepted <- Committed, delivered <- wire
ImplementsChannel == Channel!Spec

(* Every call returns; end() does as well when interrupts are on.           *)
CallsReturn ==
  (pc # "idle" /\ (pc = "end" => irqOn)) ~> (pc = "idle")

(* If the sketch stops masking interrupts, all it has written is sent.      *)
AllSent == <>[]irqOn => \A k \in 1 .. MaxBytes : (cur >= k) ~> (Len(wire) >= k)
=============================================================================
