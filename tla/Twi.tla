-------------------------------- MODULE Twi --------------------------------
(***************************************************************************)
(* The Wire library on the two-wire (I2C) bus: TwoWire of Wire.cpp over the *)
(* functions and the interrupt handler of twi.c, as master and as slave.   *)
(* A call of the sketch sets the transfer up and waits until the handler,   *)
(* which the bus drives one event at a time, has left twi_state.           *)
(*                                                                         *)
(* The bus and the TWI hardware are external: role is what the hardware     *)
(* takes part in, status the event it waits with until TWCR is written.    *)
(* Addresses are left out: a transfer has one device at its other end.     *)
(* The bytes tell who sent them: the sketch writes 1, 2 and so on, and so   *)
(* do, from offsets of their own, a device and another master.  The copies *)
(* twi_sendStop, twi_slarw and twi_masterBufferLength of the arguments of a *)
(* call are the arguments, stop, op and Length.                            *)
(***************************************************************************)
EXTENDS Naturals, Sequences, SequencesExt

CONSTANTS
  BufLen   \* TWI_BUFFER_LENGTH and BUFFER_LENGTH

ASSUME TwiAssumption == BufLen \in Nat /\ BufLen > 1

VARIABLES
  state, inRepStart, error,  \* twi_state, twi_inRepStart, twi_error
  mBuffer, mIndex,     \* twi_masterBuffer, twi_masterBufferIndex
  rx,                  \* twi_rxBuffer up to twi_rxBufferIndex
  tIndex, tLength,     \* twi_txBufferIndex, twi_txBufferLength
  role, status,        \* of the hardware: see above
  ea, ie, twdr,        \* TWEA, TWIE, TWDR
  txBuffer, txLength, transmitting,    \* of TwoWire
  inbox,               \* the unread part of TwoWire's rxBuffer
  pc, op, len, stop,   \* the call of the sketch: where it is, its arguments
  asked, sent,         \* what the sketch wrote; what the device has acked
  replied, heard,      \* what a device, another master has sent
  disturbed            \* addressed as a slave since the call began, or
                       \* its address is a stray byte: see SendAddress

twi == <<state, inRepStart, error>>
master == <<mBuffer, mIndex>>
slave == <<rx, tIndex, tLength>>
hw == <<role, status, ea, ie, twdr>>
tx == <<txBuffer, txLength, transmitting>>
call == <<pc, op, len, stop>>
hist == <<asked, sent, replied, heard, disturbed>>
vars == <<twi, master, slave, hw, tx, inbox, call, hist>>

Least(a, b) == IF a < b THEN a ELSE b
Slots == 0 .. BufLen - 1
Bytes == 0 .. 3 * BufLen + 1
Nothing == 0                  \* what the buffers hold at first
DeviceByte(k) == BufLen + k
OtherByte(k) == 2 * BufLen + k
Messages == UNION {[1 .. k -> Bytes] : k \in 0 .. BufLen}

Init ==   \* after begin(address)
  /\ state = "READY" /\ inRepStart = FALSE /\ error = "none"
  /\ mBuffer = [k \in Slots |-> Nothing] /\ mIndex = 0
  /\ rx = <<>> /\ tIndex = 0 /\ tLength = 0
  /\ role = "none" /\ status = "none" /\ ea = TRUE /\ ie = TRUE
  /\ twdr = Nothing
  /\ txBuffer = [k \in 1 .. BufLen |-> Nothing] /\ txLength = 0
  /\ transmitting = FALSE /\ inbox = <<>>
  /\ pc = "idle" /\ op = "MTX" /\ len = 0 /\ stop = TRUE
  /\ asked = <<>> /\ sent = <<>> /\ replied = <<>> /\ heard = <<>>
  /\ disturbed = FALSE

-----------------------------------------------------------------------------
(* TwoWire: what the sketch calls                                          *)

BeginTransmission ==
  /\ pc = "idle"
  /\ transmitting' = TRUE /\ txLength' = 0
  /\ asked' = <<>> /\ disturbed' = FALSE
  /\ UNCHANGED <<twi, master, slave, hw, txBuffer, inbox, call, sent, replied,
                 heard>>

Write ==
  /\ pc = "idle" /\ transmitting /\ txLength < BufLen
  /\ txLength' = txLength + 1
  /\ txBuffer' = [txBuffer EXCEPT ![txLength'] = txLength']
  /\ asked' = IF disturbed THEN asked ELSE Append(asked, txLength')
  /\ UNCHANGED <<twi, master, slave, hw, transmitting, inbox, call, sent,
                 replied, heard, disturbed>>

Call(o, n, s) ==
  /\ pc = "idle"
  /\ pc' = "wait" /\ op' = o /\ len' = n /\ stop' = s
  /\ UNCHANGED <<twi, master, slave, hw, tx, inbox, hist>>

EndTransmission(s) == transmitting /\ Call("MTX", txLength, s)

RequestFrom(quantity, s) == Call("MRX", Least(quantity, BufLen), s)

Read ==
  /\ pc = "idle" /\ inbox # <<>>
  /\ inbox' = Tail(inbox)
  /\ UNCHANGED <<twi, master, slave, hw, tx, call, hist>>

-----------------------------------------------------------------------------
(* twi_writeTo() and twi_readFrom().  Between the test of twi_state, the   *)
(* assignment to it, the write to TWCR and the return the handler can run. *)

Ready ==
  /\ pc = "wait" /\ state = "READY"
  /\ pc' = "claim"
  /\ UNCHANGED <<twi, master, slave, hw, tx, inbox, op, len, stop, hist>>

Claim ==
  /\ pc = "claim"
  /\ state' = op /\ error' = "none" /\ mIndex' = 0
  /\ mBuffer' = [k \in Slots |-> IF op = "MTX" /\ k < len
                                 THEN txBuffer[k + 1] ELSE mBuffer[k]]
  /\ pc' = "start"
  /\ UNCHANGED <<inRepStart, slave, hw, tx, inbox, op, len, stop, hist>>

(* A read refuses its last byte: the length to accept is one less. *)
LengthPlain == len   \* mutant: for reads too
Length == IF op = "MTX" THEN len ELSE len - 1

(* The hardware is told to send a START.  A pending interrupt is served      *)
(* first, and while it is engaged as a slave the order has no effect: the   *)
(* handler's next write to TWCR clears TWSTA again.                        *)
SendStart ==
  /\ ~ inRepStart /\ status = "none"
  /\ role' = IF role = "none" THEN "start" ELSE role
  /\ UNCHANGED <<inRepStart, status, disturbed>>

(* In a repeated start the START has been sent, "we hope", and the address   *)
(* goes out.  If it is still under way TWDR takes no byte, and the START,   *)
(* whose interrupt is now on, makes the handler write the address; if it    *)
(* ends between the writes to TWDR and TWCR what is in TWDR goes out.       *)
SendAddress ==
  /\ inRepStart /\ inRepStart' = FALSE /\ status' = "none"
  /\ \/ status = "START" /\ role' = "sla" /\ UNCHANGED disturbed
     \/ status = "none" /\ role' = role /\ UNCHANGED disturbed
     \/ /\ status = "none" /\ role' = "stray"
        /\ disturbed' = (disturbed \/ op = "MTX")

Start ==
  /\ pc = "start"
  /\ SendStart \/ SendAddress
  /\ ea' = TRUE /\ ie' = TRUE
  /\ pc' = "run"
  /\ UNCHANGED <<state, error, master, slave, twdr, tx, inbox, op, len, stop,
                 asked, sent, replied, heard>>

WriteResult ==
  CASE error = "none" -> 0
    [] error = "MT_SLA_NACK" -> 2
    [] error = "MT_DATA_NACK" -> 3
    [] OTHER -> 4

ReceivedAll ==   \* mutant: without the test of line 166
  [k \in 1 .. len |-> mBuffer[k - 1]]
Received == [k \in 1 .. Least(mIndex, len) |-> mBuffer[k - 1]]

(* One step: its lines take less time than a byte on the bus.  The handler   *)
(* can but begin a transfer as slave among them, which touches nothing they *)
(* read, or end one by a bus error, which makes the result 4.              *)
(* What no later step reads is forgotten.                                  *)
Return ==
  /\ pc = "run" /\ state # op
  /\ pc' = "idle" /\ op' = "MTX" /\ len' = 0 /\ stop' = TRUE
  /\ error' = "none" /\ mIndex' = 0 /\ mBuffer' = [k \in Slots |-> Nothing]
  /\ sent' = <<>> /\ replied' = <<>>
  /\ \/ /\ op = "MTX"
        /\ transmitting' = FALSE /\ txLength' = 0
        /\ txBuffer' = [k \in 1 .. BufLen |-> Nothing]
        /\ asked' = <<>> /\ disturbed' = FALSE /\ inbox' = inbox
     \/ /\ op = "MRX"
        /\ inbox' = Received
        /\ UNCHANGED <<tx, asked, disturbed>>
  /\ UNCHANGED <<state, inRepStart, slave, hw, heard>>

Calls ==
  \/ BeginTransmission \/ Write \/ Read
  \/ \E s \in BOOLEAN : \/ EndTransmission(s)
                        \/ \E n \in 1 .. BufLen + 1 : RequestFrom(n, s)

Sketch == Ready \/ Claim \/ Start \/ Return

-----------------------------------------------------------------------------
(* ISR(TWI_vect), one action per case.  Each writes TWCR, which clears the  *)
(* event, TWSTA and TWSTO and lets the hardware go on as r.                *)

Isr(s) == status = s /\ ie /\ status' = "none"

Go(ack, r) == ea' = ack /\ role' = r /\ UNCHANGED ie
Reply(ack, r) == Go(ack, r) /\ twdr' = Nothing

(* twi_stop() with its wait, or twi_releaseBus() *)
LeaveBusy == Reply(TRUE, "none") /\ state' = state   \* mutant
Leave == Reply(TRUE, "none") /\ state' = "READY"

(* A STOP, or a START whose interrupt the next call will enable. *)
EndTransferAlways ==   \* mutant: inRepStart is set with a STOP too
  /\ inRepStart' = TRUE /\ Leave
EndTransfer ==
  \/ stop /\ Leave /\ UNCHANGED inRepStart
  \/ /\ ~ stop
     /\ inRepStart' = TRUE /\ state' = "READY"
     /\ role' = "restart" /\ ea' = FALSE /\ ie' = FALSE /\ twdr' = Nothing

IsrStart ==
  /\ Isr("START")
  /\ Reply(TRUE, "sla")
  /\ UNCHANGED <<twi, master, slave, tx, inbox, call, hist>>

IsrTransmit ==
  /\ Isr("MT_ACK")
  /\ \/ /\ mIndex < Length
        /\ twdr' = mBuffer[mIndex] /\ mIndex' = mIndex + 1
        /\ Go(TRUE, "mt") /\ UNCHANGED <<state, inRepStart>>
     \/ mIndex >= Length /\ EndTransfer /\ UNCHANGED mIndex
  /\ UNCHANGED <<error, mBuffer, slave, tx, inbox, call, hist>>

NoError == {"MR_SLA_NACK", "ARB_LOST"}   \* mutant
Unrecorded == {"MR_SLA_NACK"}

(* No transfer goes on: what its slave half has left is not read again. *)
IsrFailed(s) ==
  /\ Isr(s)
  /\ Leave
  /\ error' = IF s \in Unrecorded THEN error ELSE s
  /\ rx' = <<>> /\ tIndex' = 0 /\ tLength' = 0 /\ heard' = <<>>
  /\ UNCHANGED <<inRepStart, master, tx, inbox, call, asked, sent, replied,
                 disturbed>>

IsrReceive ==
  /\ \/ Isr("MR_SLA_ACK") /\ UNCHANGED <<mBuffer, mIndex>>
     \/ /\ Isr("MR_DATA_ACK")
        /\ mBuffer' = [mBuffer EXCEPT ![mIndex] = twdr]
        /\ mIndex' = mIndex + 1
  /\ Reply(mIndex' < Length, "mr")
  /\ UNCHANGED <<twi, slave, tx, inbox, call, hist>>

IsrReceiveLast ==
  /\ Isr("MR_DATA_NACK")
  /\ mBuffer' = [mBuffer EXCEPT ![mIndex] = twdr]
  /\ mIndex' = mIndex + 1
  /\ EndTransfer
  /\ UNCHANGED <<error, slave, tx, inbox, call, hist>>

IsrSlaveReceive ==
  /\ \/ /\ Isr("SR_SLA_ACK") /\ state' = "SRX" /\ rx' = <<>>
        /\ Reply(TRUE, "sr")
        /\ disturbed' = (disturbed \/ pc \in {"claim", "start", "run"})
     \/ /\ Isr("SR_DATA_ACK") /\ UNCHANGED <<state, disturbed>>
        /\ IF Len(rx) < BufLen
             THEN rx' = Append(rx, twdr) /\ Reply(TRUE, "sr")
             ELSE rx' = rx /\ Reply(FALSE, "sr")
     \/ /\ Isr("SR_DATA_NACK") /\ UNCHANGED <<state, rx, disturbed>>
        /\ Reply(FALSE, "none")
  /\ UNCHANGED <<inRepStart, error, master, tIndex, tLength, tx, inbox, call,
                 asked, sent, replied, heard>>

onReceiveServiceAlways == inbox' \in {<<>>, rx}   \* mutant: drops nothing

(* Drops the message if the sketch has bytes to read, else calls the        *)
(* sketch's handler, which reads it or leaves it.                          *)
onReceiveService ==
  IF inbox = <<>> THEN inbox' \in {<<>>, rx} ELSE inbox' = inbox

IsrSlaveStop ==
  /\ Isr("SR_STOP")
  /\ onReceiveService
  /\ rx' = <<>> /\ heard' = <<>>
  /\ Leave
  /\ UNCHANGED <<inRepStart, error, master, tIndex, tLength, tx, call, asked,
                 sent, replied, disturbed>>

(* onRequestService(): the sketch's handler writes n bytes, into twi's      *)
(* buffer or, after beginTransmission(), into what it was about to send.   *)
IsrSlaveRequest ==
  /\ Isr("ST_SLA_ACK")
  /\ state' = "STX"
  /\ \E n \in 0 .. BufLen :
       IF transmitting
         THEN /\ txBuffer' = [k \in 1 .. BufLen |->
                                IF k <= n THEN Nothing ELSE txBuffer[k]]
              /\ txLength' = n /\ tLength' = 1
         ELSE /\ txLength' = 0 /\ txBuffer' = txBuffer
              /\ tLength' = IF n = 0 THEN 1 ELSE n
  /\ tIndex' = 1
  /\ Reply(tIndex' < tLength', "st")
  /\ disturbed' = TRUE
  /\ UNCHANGED <<inRepStart, error, master, rx, transmitting, inbox, call,
                 asked, sent, replied, heard>>

IsrSlaveTransmit ==
  /\ \/ /\ Isr("ST_DATA_ACK") /\ state' = state
        /\ tIndex' = tIndex + 1 /\ tLength' = tLength
        /\ Reply(tIndex' < tLength, "st")
     \/ /\ Isr("ST_LAST") /\ state' = "READY"
        /\ tIndex' = 0 /\ tLength' = 0
        /\ Reply(TRUE, "none")
  /\ UNCHANGED <<inRepStart, error, master, rx, tx, inbox, call, hist>>

Handler ==
  \/ IsrStart \/ IsrTransmit \/ IsrReceive \/ IsrReceiveLast
  \/ \E s \in {"MT_SLA_NACK", "MT_DATA_NACK", "ARB_LOST", "MR_SLA_NACK",
               "BUS_ERROR"} : IsrFailed(s)
  \/ IsrSlaveReceive \/ IsrSlaveStop \/ IsrSlaveRequest \/ IsrSlaveTransmit

-----------------------------------------------------------------------------
(* The hardware and the others on the bus (external)                       *)

(* While the sketch runs lines 202-239, some 20 microseconds, another       *)
(* master can address us but not go on to the next byte, which takes 90.    *)
Moves(r) ==
  /\ status = "none" /\ role = r
  /\ role \in {"sr", "st"} => pc \notin {"claim", "start"}

Event(s) == status' = s /\ UNCHANGED <<role, ea, ie>>

Quiet == UNCHANGED <<sent, replied, heard>>

BusStarts ==
  /\ Moves("start") \/ Moves("restart")
  /\ Event("START") /\ Quiet /\ UNCHANGED twdr

(* No device has the address that a stray byte is read as.                  *)
BusAddress ==
  /\ Quiet /\ UNCHANGED twdr
  /\ \/ /\ Moves("sla")
        /\ \E s \in IF op = "MTX" THEN {"MT_ACK", "MT_SLA_NACK", "ARB_LOST"}
                    ELSE {"MR_SLA_ACK", "MR_SLA_NACK", "ARB_LOST"} : Event(s)
     \/ /\ Moves("stray")
        /\ \E s \in {"MT_SLA_NACK", "MR_SLA_NACK", "ARB_LOST"} : Event(s)

BusSends ==
  /\ Moves("mt") /\ UNCHANGED <<twdr, replied, heard>>
  /\ \/ Event("MT_ACK") /\ sent' = Append(sent, twdr)
     \/ \E s \in {"MT_DATA_NACK", "ARB_LOST"} : Event(s) /\ sent' = sent

BusReceives ==
  /\ Moves("mr") /\ UNCHANGED <<sent, heard>>
  /\ \/ /\ Event(IF ea THEN "MR_DATA_ACK" ELSE "MR_DATA_NACK")
        /\ twdr' = DeviceByte(Len(replied) + 1)
        /\ replied' = Append(replied, twdr')
     \/ ~ ea /\ Event("ARB_LOST") /\ UNCHANGED <<twdr, replied>>

BusHears ==
  /\ Moves("sr") /\ UNCHANGED <<sent, replied>>
  /\ \/ /\ ea /\ Event("SR_DATA_ACK")
        /\ twdr' = OtherByte(Len(heard) + 1)
        /\ heard' = Append(heard, twdr')
     \/ ~ ea /\ Event("SR_DATA_NACK") /\ UNCHANGED <<twdr, heard>>
     \/ Event("SR_STOP") /\ UNCHANGED <<twdr, heard>>

BusAsks ==
  /\ Moves("st") /\ Quiet /\ UNCHANGED twdr
  /\ \E s \in {"ST_LAST", IF ea THEN "ST_DATA_ACK" ELSE "ST_LAST"} : Event(s)

BusFails ==
  /\ \E r \in {"sla", "stray", "mt", "mr", "sr", "st"} : Moves(r)
  /\ Event("BUS_ERROR") /\ Quiet /\ UNCHANGED twdr

(* Another master addresses us, perhaps by winning the arbitration. *)
Addressed(r) ==
  /\ \E q \in {"none", "start", "sla", "stray"} : Moves(q)
  /\ ea
  /\ role' = r /\ status' = IF r = "sr" THEN "SR_SLA_ACK" ELSE "ST_SLA_ACK"
  /\ heard' = <<>>
  /\ UNCHANGED <<twi, master, slave, ea, ie, twdr, tx, inbox, call, asked,
                 sent, replied, disturbed>>

Bus ==
  /\ BusStarts \/ BusAddress \/ BusSends \/ BusReceives \/ BusHears
     \/ BusAsks \/ BusFails
  /\ UNCHANGED <<twi, master, slave, tx, inbox, call, asked, disturbed>>

Next ==
  \/ Calls \/ Sketch \/ Handler \/ Bus
  \/ \E r \in {"sr", "st"} : Addressed(r)

Spec == Init /\ [][Next]_vars

(* The handler runs, transfers on the bus go on and end, and the sketch     *)
(* looks at twi_state more often than it changes.                          *)
Fairness ==
  /\ WF_vars(Handler) /\ WF_vars(Bus)
  /\ SF_vars(Ready) /\ WF_vars(Claim \/ Start \/ Return)

FairSpec == Spec /\ Fairness

-----------------------------------------------------------------------------
(* Properties                                                              *)

(* Types; no index leaves its buffer.                                      *)
TypeOK ==
  /\ state \in {"READY", "MRX", "MTX", "SRX", "STX"}
  /\ inRepStart \in BOOLEAN
  /\ error \in {"none", "MT_SLA_NACK", "MT_DATA_NACK", "ARB_LOST", "BUS_ERROR"}
  /\ mBuffer \in [Slots -> Bytes]
  /\ {mIndex, tIndex, tLength, len, txLength} \subseteq 0 .. BufLen
  /\ op \in {"MTX", "MRX"}
  /\ {rx, inbox, asked} \subseteq Messages
  /\ role \in {"none", "start", "restart", "sla", "stray", "mt", "mr"}
       \union {"sr", "st"}
  /\ ea \in BOOLEAN /\ ie \in BOOLEAN /\ twdr \in Bytes
  /\ txBuffer \in [1 .. BufLen -> Bytes] /\ transmitting \in BOOLEAN
  /\ pc \in {"idle", "wait", "claim", "start", "run"} /\ stop \in BOOLEAN
  /\ disturbed \in BOOLEAN

(* What endTransmission() returns is what happened on the bus: 0 says that  *)
(* the device has acknowledged every byte the sketch wrote, 2 that it has   *)
(* taken none, 3 that it has taken those before the one it refused.  Only   *)
(* a call during which another master addresses this one, or whose address  *)
(* was lost to the end of a repeated START, is excepted.                   *)
WriteTruthful ==
  [][pc = "run" /\ pc' = "idle" /\ op = "MTX" /\ ~ disturbed =>
       /\ WriteResult = 0 => sent = asked
       /\ WriteResult = 2 => sent = <<>>
       /\ WriteResult = 3 => IsStrictPrefix(sent, asked)]_vars

(* "Output 0 .. success", without the exception.                           *)
SuccessMeansSent ==
  [][pc = "run" /\ pc' = "idle" /\ op = "MTX" /\ WriteResult = 0 =>
       sent = asked]_vars

(* requestFrom() hands out every byte the device has sent, in order, and no *)
(* other, also if the transfer was cut short.                              *)
ReadTruthful ==
  [][pc = "run" /\ pc' = "idle" /\ op = "MRX" =>
       inbox' = replied]_vars

(* A message from another master reaches the sketch whole, up to BufLen     *)
(* bytes of it, or not at all, and never takes the place of unread bytes.  *)
MessageWhole ==
  [][status = "SR_STOP" /\ status' = "none" /\ inbox' # inbox =>
       /\ inbox = <<>>
       /\ inbox' = SubSeq(heard, 1, Least(Len(heard), BufLen))]_vars

(* Between calls the bus is held exactly if the last transfer has ended with *)
(* a repeated start, and twi_state then lets the next call go on with it.   *)
Mastering == role \in {"start", "restart", "sla", "stray", "mt", "mr"}
BusReleased ==
  pc = "idle" => /\ Mastering <=> inRepStart
                 /\ inRepStart => state = "READY"

(* Every call returns, also one that comes before the START of a repeated   *)
(* start is out, unless another master has sent so much that the hardware   *)
(* was told to refuse it and to answer no more.                            *)
Deaf == role = "none" /\ status = "none" /\ ~ ea
CallsReturn == pc # "idle" ~> (pc = "idle" \/ Deaf)
=============================================================================
