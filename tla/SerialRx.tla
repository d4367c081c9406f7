------------------------------ MODULE SerialRx ------------------------------
(***************************************************************************)
(* The receive half of HardwareSerial, on one USART: the frames that come  *)
(* in on the line wait in the USART, the receive-complete (RX) interrupt   *)
(* moves them to the ring buffer, and the sketch takes them out with       *)
(* available() and read().                                                 *)
(*                                                                         *)
(* The k-th byte on the line is the number k.  The sketch is cut at every  *)
(* access to state it shares with the interrupt.                           *)
(***************************************************************************)
EXTENDS Naturals, Sequences, FiniteSets

CONSTANTS
  RxSize,    \* SERIAL_RX_BUFFER_SIZE
  MaxBytes,  \* bound of the model: how many bytes come in
  HwDepth    \* frames the USART holds: two in UDR and one being shifted in

(* Up to 256 slots rx_buffer_index_t is of 8 bits, and an access to an     *)
(* index one load or store; beyond it is of 16 bits, and of two.           *)
ASSUME RxSizeAssumption == RxSize \in Nat /\ RxSize > 1 /\ RxSize <= 256
ASSUME LineAssumption == MaxBytes \in Nat /\ HwDepth \in Nat \ {0}

VARIABLES
  head, tail, buffer,  \* _rx_buffer_head, _rx_buffer_tail, _rx_buffer
  enabled, rxcie,      \* RXEN0 and RXCIE0
  fifo,                \* the frames in the USART: their byte and UPE0
  irqOn,               \* SREG_I
  pc, char,            \* the sketch, and the local c of read()
  sent,                \* how many bytes have come in
  got, lost,           \* the bytes read() has returned; those dropped
  promised             \* what available() has last returned

ring == <<head, tail, buffer>>
line == <<fifo, sent>>
sketch == <<pc, char, irqOn, enabled, rxcie>>
answers == <<got, promised>>
vars == <<ring, line, sketch, answers, lost>>

Slots == 0 .. RxSize - 1
IncNoWrap(i) == i + 1   \* mutant: the % forgotten
Inc(i) == (i + 1) % RxSize
Available == (RxSize + head - tail) % RxSize
None == 0

Init ==
  /\ head = 0 /\ tail = 0 /\ buffer = [p \in Slots |-> None]
  /\ enabled = FALSE /\ rxcie = FALSE /\ irqOn = TRUE
  /\ fifo = <<>> /\ sent = 0
  /\ pc = "idle" /\ char = None
  /\ got = <<>> /\ lost = {} /\ promised = 0

-----------------------------------------------------------------------------
(* The line.  When the USART is full the next frame, or the one waiting to  *)
(* enter UDR, is lost (data overrun).                                      *)

Arrive(parityError) ==
  /\ sent < MaxBytes
  /\ sent' = sent + 1
  /\ LET frame == [byte |-> sent', error |-> parityError]
     IN  \/ /\ enabled /\ Len(fifo) < HwDepth
            /\ fifo' = Append(fifo, frame) /\ lost' = lost
         \/ /\ enabled /\ Len(fifo) = HwDepth
            /\ \/ fifo' = fifo /\ lost' = lost \union {sent'}
               \/ /\ fifo' = [fifo EXCEPT ![HwDepth] = frame]
                  /\ lost' = lost \union {fifo[HwDepth].byte}
         \/ /\ ~ enabled
            /\ fifo' = fifo /\ lost' = lost \union {sent'}
  /\ UNCHANGED <<ring, sketch, answers>>

-----------------------------------------------------------------------------
(* _rx_complete_irq()                                                      *)

HasSlotAlways == TRUE   \* mutant: stores even if the ring is full
HasSlot == Inc(head) # tail

RxInterrupt ==
  /\ irqOn /\ rxcie /\ fifo # <<>>
  /\ fifo' = Tail(fifo)
  /\ LET c == Head(fifo).byte
     IN  IF ~ Head(fifo).error /\ HasSlot
           THEN /\ buffer' = [buffer EXCEPT ![head] = c]
                /\ head' = Inc(head)
                /\ UNCHANGED lost
           ELSE /\ lost' = lost \union {c}
                /\ UNCHANGED <<buffer, head>>
  /\ UNCHANGED <<tail, sent, sketch, answers>>

-----------------------------------------------------------------------------
(* The calls of the sketch                                                 *)

AvailableCall ==
  /\ pc = "idle"
  /\ promised' = Available
  /\ UNCHANGED <<ring, line, sketch, got, lost>>

ReadCall ==
  /\ pc = "idle"
  /\ IF head = tail
       THEN pc' = "idle" /\ promised' = 0     \* read() returns -1
       ELSE pc' = "fetch" /\ UNCHANGED promised
  /\ UNCHANGED <<ring, line, char, irqOn, enabled, rxcie, got, lost>>

ReadFetch ==
  /\ pc = "fetch"
  /\ char' = buffer[tail]
  /\ pc' = "advance"
  /\ UNCHANGED <<ring, line, irqOn, enabled, rxcie, answers, lost>>

ReadAdvance ==
  /\ pc = "advance"
  /\ tail' = Inc(tail)
  /\ got' = Append(got, char)
  /\ promised' = IF promised > 0 THEN promised - 1 ELSE 0
  /\ pc' = "idle" /\ char' = None
  /\ UNCHANGED <<head, buffer, line, irqOn, enabled, rxcie, lost>>

(* end(): turning the receiver off empties the USART; then the interrupt is *)
(* disabled; then the ring is emptied.                                     *)
EndReceiver ==
  /\ pc = "idle" /\ enabled
  /\ enabled' = FALSE
  /\ fifo' = <<>>
  /\ lost' = lost \union {fifo[k].byte : k \in 1 .. Len(fifo)}
  /\ pc' = "disable"
  /\ UNCHANGED <<ring, sent, char, irqOn, rxcie, answers>>

EndInterrupt ==
  /\ pc = "disable"
  /\ rxcie' = FALSE
  /\ pc' = "empty"
  /\ UNCHANGED <<ring, line, char, irqOn, enabled, answers, lost>>

InRing ==
  {buffer[p] : p \in {q \in Slots : (q + RxSize - tail) % RxSize < Available}}

EndEmpty ==
  /\ pc = "empty"
  /\ head' = tail
  /\ lost' = lost \union InRing
  /\ promised' = 0
  /\ pc' = "idle"
  /\ UNCHANGED <<tail, buffer, line, char, irqOn, enabled, rxcie, got>>

Begin ==
  /\ pc = "idle" /\ ~ enabled
  /\ enabled' = TRUE /\ rxcie' = TRUE
  /\ UNCHANGED <<ring, line, pc, char, irqOn, answers, lost>>

SetInterrupts(on) ==
  /\ pc = "idle" /\ irqOn # on
  /\ irqOn' = on
  /\ UNCHANGED <<ring, line, pc, char, enabled, rxcie, answers, lost>>

-----------------------------------------------------------------------------
Calls ==
  \/ AvailableCall \/ ReadCall \/ EndReceiver \/ Begin
  \/ \E on \in BOOLEAN : SetInterrupts(on)

Running == ReadFetch \/ ReadAdvance \/ EndInterrupt \/ EndEmpty

Next ==
  \/ Calls \/ Running \/ RxInterrupt
  \/ \E parityError \in BOOLEAN : Arrive(parityError)

Spec == Init /\ [][Next]_vars

-----------------------------------------------------------------------------
(* Properties                                                              *)

TypeOK ==
  /\ head \in Slots /\ tail \in Slots
  /\ buffer \in [Slots -> 0 .. MaxBytes]
  /\ enabled \in BOOLEAN /\ rxcie \in BOOLEAN /\ irqOn \in BOOLEAN
  /\ fifo \in Seq([byte : 1 .. MaxBytes, error : BOOLEAN])
  /\ Len(fifo) <= HwDepth
  /\ pc \in {"idle", "fetch", "advance", "disable", "empty"}
  /\ char \in 0 .. MaxBytes /\ sent \in 0 .. MaxBytes
  /\ got \in Seq(1 .. MaxBytes) /\ lost \subseteq 1 .. MaxBytes
  /\ promised \in 0 .. RxSize - 1

(* read() returns the bytes in the order in which they came in, none twice  *)
(* and none that was overwritten.  A byte that does not reach read() was     *)
(* dropped for a reason the code knows: an overrun, a full ring, a parity    *)
(* error, end().  What available() has promised is never dropped, and once   *)
(* end() has returned nothing is left to read.                             *)
Lossy == INSTANCE LossyStream WITH
  came <- sent,
  delivered <- got,
  open <- enabled \/ pc \in {"disable", "empty"}

ImplementsLossyStream == Lossy!Spec
=============================================================================
