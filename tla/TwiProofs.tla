----------------------------- MODULE TwiProofs -----------------------------
(***************************************************************************)
(* Safety of Twi for buffers of every size: what the calls return is what   *)
(* happened on the bus, no index leaves its buffer, and the bus is held     *)
(* between calls only after a repeated start.                              *)
(***************************************************************************)
EXTENDS Twi, SequenceTheorems, TLAPS

Statuses == {"none", "START", "MT_ACK", "MT_SLA_NACK", "MT_DATA_NACK", "ARB_LOST",
             "MR_SLA_ACK", "MR_SLA_NACK", "MR_DATA_ACK", "MR_DATA_NACK",
             "BUS_ERROR", "SR_SLA_ACK", "SR_DATA_ACK", "SR_DATA_NACK", "SR_STOP",
             "ST_SLA_ACK", "ST_DATA_ACK", "ST_LAST"}

Parts == {"none", "start", "restart", "sla", "stray", "mt", "mr", "sr", "st"}
USE DEF Parts

(* What the hardware takes part in when it reports an event. *)
Roles == [s \in Statuses |->
  CASE s = "START" -> {"start", "restart"}
    [] s = "MT_ACK" -> {"sla", "mt"}
    [] s = "MR_SLA_ACK" -> {"sla"}
    [] s \in {"MT_SLA_NACK", "MR_SLA_NACK"} -> {"sla", "stray"}
    [] s = "MT_DATA_NACK" -> {"mt"}
    [] s = "ARB_LOST" -> {"sla", "stray", "mt", "mr"}
    [] s \in {"MR_DATA_ACK", "MR_DATA_NACK"} -> {"mr"}
    [] s \in {"SR_SLA_ACK", "SR_DATA_ACK", "SR_DATA_NACK", "SR_STOP"} -> {"sr"}
    [] s \in {"ST_SLA_ACK", "ST_DATA_ACK", "ST_LAST"} -> {"st"}
    [] s = "BUS_ERROR" -> {"sla", "stray", "mt", "mr", "sr", "st"}
    [] OTHER -> Parts]

InCall == pc \in {"claim", "start", "run"}
Slaving == role \in {"sr", "st"}
Unserved == status \in {"SR_SLA_ACK", "ST_SLA_ACK"}
AsSlave == state \in {"SRX", "STX"}

ControlTypes ==
  /\ state \in {"READY", "MRX", "MTX", "SRX", "STX"} /\ inRepStart \in BOOLEAN
  /\ error \in {"none", "MT_SLA_NACK", "MT_DATA_NACK", "ARB_LOST", "BUS_ERROR"}
  /\ op \in {"MTX", "MRX"} /\ pc \in {"idle", "wait", "claim", "start", "run"}
  /\ role \in Parts
  /\ status \in Statuses /\ role \in Roles[status]
  /\ ea \in BOOLEAN /\ ie \in BOOLEAN /\ transmitting \in BOOLEAN
  /\ stop \in BOOLEAN /\ disturbed \in BOOLEAN

DataTypes ==
  /\ mBuffer \in [Slots -> Bytes] /\ txBuffer \in [1 .. BufLen -> Bytes]
  /\ twdr \in Bytes
  /\ mIndex \in Nat /\ tIndex \in 0 .. BufLen /\ tLength \in 0 .. BufLen
  /\ len \in 0 .. BufLen /\ txLength \in 0 .. BufLen
  /\ sent \in Seq(Bytes) /\ replied \in Seq(Bytes) /\ heard \in Seq(Bytes)
  /\ rx \in Seq(Bytes) /\ Len(rx) <= BufLen
  /\ inbox \in Seq(Bytes) /\ Len(inbox) <= BufLen
  /\ asked \in Seq(Bytes) /\ Len(asked) <= BufLen

(* The calls and the bus: a transfer of ours goes on only while its call     *)
(* waits for twi_state to change, or it has ended with a START.            *)
Held ==
  /\ ie = ~ inRepStart
  /\ inRepStart => /\ role = "restart" /\ ~ ea
                   /\ state = IF pc = "start" THEN op ELSE "READY"
  /\ Mastering /\ ~ inRepStart => pc = "run" /\ state = op
  /\ role = "mt" \/ status = "MT_ACK" => op = "MTX"
  /\ role = "mr" \/ status = "MR_SLA_ACK" => op = "MRX"
  /\ role = "sla" /\ status = "MT_SLA_NACK" => op = "MTX"
  /\ role = "sla" /\ status = "MR_SLA_NACK" => op = "MRX"
  /\ role = "stray" /\ op = "MTX" => disturbed
  /\ pc \in {"start", "run"} /\ state = op => error = "none"

(* Another master: the test of twi_state can be out of date when a call      *)
(* assigns to it, and then disturbed is set.                               *)
Interrupted == Slaving /\ AsSlave /\ disturbed

Interleaved ==
  /\ pc = "claim" => state = "READY" \/ Interrupted
  /\ pc = "start" => state = op \/ Interrupted
  /\ Slaving /\ ~ Unserved =>
       \/ AsSlave
       \/ pc \in {"start", "run"} /\ state = op /\ disturbed
  /\ Slaving /\ pc \in {"claim", "start"} => Unserved \/ status = "none"
  /\ InCall /\ ~ disturbed => state \in {"READY", op} /\ (Slaving => Unserved)

(* What a transfer as slave has taken and given.                           *)
Begins(s, n, t) == Len(s) = n /\ \A k \in 1 .. n : s[k] = t[k]

Hearing ==
  role = "sr" =>
    /\ status = "SR_SLA_ACK" => heard = <<>>
    /\ status \in {"none", "SR_STOP", "SR_DATA_NACK"} =>
         Begins(rx, Least(Len(heard), BufLen), heard)
    /\ status = "SR_DATA_ACK" =>
         /\ Len(heard) >= 1 /\ twdr = heard[Len(heard)]
         /\ Begins(rx, Least(Len(heard) - 1, BufLen), heard)
    /\ status = "none" /\ ea => Len(heard) <= BufLen
    /\ status = "none" /\ pc \in {"claim", "start"} => heard = <<>>

Answering ==
  role = "st" =>
    /\ status \in {"none", "ST_DATA_ACK"} => tIndex >= 1
    /\ status = "ST_DATA_ACK" \/ (status = "none" /\ ea) =>
         tIndex < tLength \/ tIndex = 1
    /\ status = "none" /\ pc \in {"claim", "start"} => tIndex = 1

(* The call: its bytes in TwoWire's buffer, in twi's, on the bus.           *)
Counted ==
  /\ mIndex <= len /\ (op = "MRX" => len >= 1)
  /\ pc # "run" => mIndex = 0 /\ sent = <<>> /\ replied = <<>>
  /\ role \in {"start", "restart", "sla", "stray"} /\ ~ inRepStart =>
       mIndex = 0 /\ sent = <<>> /\ replied = <<>>

Filled ==
  /\ transmitting /\ ~ disturbed => Begins(asked, txLength, txBuffer)
  /\ pc # "idle" /\ op = "MTX" => transmitting /\ (~ disturbed => txLength = len)
  /\ op = "MTX" /\ pc \in {"start", "run"} /\ ~ disturbed =>
       \A k \in 0 .. len - 1 : mBuffer[k] = asked[k + 1]

Told ==
  CASE error = "none" -> Len(sent) = Len(asked)
    [] error = "MT_SLA_NACK" -> Len(sent) = 0
    [] error = "MT_DATA_NACK" -> Len(sent) < Len(asked)
    [] OTHER -> TRUE

Writing ==
  op = "MTX" /\ pc = "run" /\ ~ disturbed =>
    /\ Len(sent) <= len /\ Begins(sent, Len(sent), asked)
    /\ role = "mt" =>
         IF status = "MT_ACK" THEN Len(sent) = mIndex
         ELSE /\ mIndex >= 1 /\ Len(sent) = mIndex - 1
              /\ status = "none" => twdr = asked[mIndex]
    /\ state # op => Told

Reading ==
  op = "MRX" /\ pc = "run" =>
    /\ \A k \in 0 .. mIndex - 1 : mBuffer[k] = replied[k + 1]
    /\ IF status \in {"MR_DATA_ACK", "MR_DATA_NACK"}
         THEN Len(replied) = mIndex + 1 /\ twdr = replied[mIndex + 1]
         ELSE Len(replied) = mIndex
    /\ role = "mr" /\ status = "none" =>
         mIndex <= len - 1 /\ ea = (mIndex < len - 1)
    /\ status = "MR_DATA_ACK" => mIndex < len - 1
    /\ status = "MR_DATA_NACK" => mIndex = len - 1

IInv ==
  /\ ControlTypes /\ DataTypes /\ Held /\ Interleaved /\ Hearing /\ Answering
  /\ Counted /\ Filled /\ Writing /\ Reading

-----------------------------------------------------------------------------
(* Bytes, roles and sequences.                                             *)

LEMMA BufLenType == BufLen \in Nat /\ BufLen > 1
  BY TwiAssumption DEF TwiAssumption

LEMMA ByteTypes ==
  /\ Nothing \in Bytes /\ 1 .. BufLen \subseteq Bytes
  /\ \A k \in 1 .. BufLen : DeviceByte(k) \in Bytes
  /\ \A k \in 1 .. BufLen + 1 : OtherByte(k) \in Bytes
  BY BufLenType DEF Bytes, Nothing, DeviceByte, OtherByte

(* What requestFrom() takes from twi's buffer. *)
LEMMA ReceivedType ==
  DataTypes /\ mIndex <= len =>
    /\ Received \in Seq(Bytes) /\ Len(Received) = mIndex
    /\ \A k \in 1 .. mIndex : Received[k] = mBuffer[k - 1]
  BY BufLenType DEF DataTypes, Received, Least, Slots

(* When no event is reported the hardware can be anywhere. *)
LEMMA AnyRole ==
  /\ "none" \in Statuses
  /\ Parts = Roles["none"]
  BY DEF Statuses, Roles

(* Appending a byte to a sequence of bytes. *)
LEMMA ByteAppend ==
  \A s \in Seq(Bytes), b \in Bytes :
    /\ Append(s, b) \in Seq(Bytes) /\ Len(Append(s, b)) = Len(s) + 1
    /\ Append(s, b)[Len(s) + 1] = b
    /\ \A k \in 1 .. Len(s) : Append(s, b)[k] = s[k]
  BY AppendProperties

-----------------------------------------------------------------------------
(* The sketch.                                                            *)

(* What was asked for is forgotten, and so is what disturbed it. *)
LEMMA BeginTransmissionStep ==
  ASSUME IInv, BeginTransmission
  PROVE  IInv'
  <1> USE TwiAssumption DEF TwiAssumption, twi, master, slave, hw, tx, call,
          hist, BeginTransmission
  <1>1. ControlTypes'
    <2>1. transmitting' \in BOOLEAN /\ disturbed' \in BOOLEAN
      OBVIOUS
    <2>2. UNCHANGED <<state, inRepStart, error, op, pc, role, status, ea, ie, stop>>
      OBVIOUS
    <2> HIDE DEF BeginTransmission
    <2>3. status' \in Statuses /\ role' \in Roles[status']
      BY <2>2 DEF IInv, ControlTypes
    <2> QED
      BY <2>1, <2>2, <2>3 DEF IInv, ControlTypes
  <1>2. DataTypes'
    BY ByteTypes DEF IInv, DataTypes
  <1>3. Held'
    BY DEF IInv, Held, Mastering
  <1>4. Interleaved'
    BY DEF IInv, Interleaved, InCall, Slaving, Unserved, AsSlave
  <1>5. Hearing'
    BY DEF IInv, Hearing
  <1>6. Answering'
    BY DEF IInv, Answering
  <1>7. Counted'
    BY DEF IInv, Counted
  <1>8. Filled'
    BY DEF IInv, Filled, Begins
  <1>9. Writing'
    BY DEF IInv, Writing
  <1>10. Reading'
    BY DEF IInv, Reading
  <1> QED
    BY <1>1, <1>2, <1>3, <1>4, <1>5, <1>6, <1>7, <1>8, <1>9, <1>10 DEF IInv

(* A byte is asked for and stands in TwoWire's buffer. *)
LEMMA WriteStep ==
  ASSUME IInv, Write
  PROVE  IInv'
  <1> USE TwiAssumption DEF TwiAssumption, twi, master, slave, hw, tx, call,
          hist, Write
  <1>1. ControlTypes'
    BY DEF IInv, ControlTypes
  <1>2. DataTypes'
    <2>1. txLength' \in 1 .. BufLen /\ txLength' \in Bytes
      BY BufLenType, ByteTypes DEF IInv, DataTypes
    <2>2. txBuffer' \in [1 .. BufLen -> Bytes]
      BY <2>1 DEF IInv, DataTypes
    <2>3. asked' \in Seq(Bytes) /\ Len(asked') <= BufLen
      <3>1. ~ disturbed => Len(asked) = txLength
        BY DEF IInv, Filled, Begins
      <3> QED
        BY <2>1, <3>1, BufLenType DEF IInv, DataTypes
    <2> QED
      BY <2>1, <2>2, <2>3 DEF IInv, DataTypes
  <1>3. Held'
    BY DEF IInv, Held, Mastering
  <1>4. Interleaved'
    BY DEF IInv, Interleaved, InCall, Slaving, Unserved, AsSlave
  <1>5. Hearing'
    BY DEF IInv, Hearing
  <1>6. Answering'
    BY DEF IInv, Answering
  <1>7. Counted'
    BY DEF IInv, Counted
  <1>8. Filled'
    BY DEF IInv, DataTypes, Filled, Begins, Slots
  <1>9. Writing'
    BY DEF IInv, Writing
  <1>10. Reading'
    BY DEF IInv, Reading
  <1> QED
    BY <1>1, <1>2, <1>3, <1>4, <1>5, <1>6, <1>7, <1>8, <1>9, <1>10 DEF IInv

(* A call begins: nothing is on the bus for it yet. *)
LEMMA EndTransmissionStep ==
  ASSUME IInv, NEW s \in BOOLEAN, EndTransmission(s)
  PROVE  IInv'
  <1> USE TwiAssumption DEF TwiAssumption, twi, master, slave, hw, tx, call,
          hist, EndTransmission, Call
  <1>1. ControlTypes'
    BY DEF IInv, ControlTypes
  <1>2. DataTypes'
    BY ByteTypes DEF IInv, DataTypes
  <1>3. Held'
    BY DEF IInv, ControlTypes, Held, Mastering, Roles
  <1>4. Interleaved'
    BY DEF IInv, Interleaved, InCall, Slaving, Unserved, AsSlave
  <1>5. Hearing'
    BY DEF IInv, Hearing
  <1>6. Answering'
    BY DEF IInv, Answering
  <1>7. Counted'
    BY DEF IInv, DataTypes, Counted
  <1>8. Filled'
    BY DEF IInv, Filled
  <1>9. Writing'
    BY DEF IInv, Writing
  <1>10. Reading'
    BY DEF IInv, Reading
  <1> QED
    BY <1>1, <1>2, <1>3, <1>4, <1>5, <1>6, <1>7, <1>8, <1>9, <1>10 DEF IInv

(* Likewise; TwoWire has cut the quantity down to the buffer's size. *)
LEMMA RequestFromStep ==
  ASSUME IInv, NEW n \in 1 .. BufLen + 1, NEW s \in BOOLEAN, RequestFrom(n, s)
  PROVE  IInv'
  <1> USE TwiAssumption DEF TwiAssumption, twi, master, slave, hw, tx, call,
          hist, RequestFrom, Call, Least
  <1>1. ControlTypes'
    BY DEF IInv, ControlTypes
  <1>2. DataTypes'
    BY ByteTypes DEF IInv, DataTypes
  <1>3. Held'
    BY DEF IInv, ControlTypes, Held, Mastering, Roles
  <1>4. Interleaved'
    BY DEF IInv, Interleaved, InCall, Slaving, Unserved, AsSlave
  <1>5. Hearing'
    BY DEF IInv, Hearing
  <1>6. Answering'
    BY DEF IInv, Answering
  <1>7. Counted'
    BY DEF IInv, Counted
  <1>8. Filled'
    BY DEF IInv, Filled
  <1>9. Writing'
    BY DEF IInv, Writing
  <1>10. Reading'
    BY DEF IInv, Reading
  <1> QED
    BY <1>1, <1>2, <1>3, <1>4, <1>5, <1>6, <1>7, <1>8, <1>9, <1>10 DEF IInv

(* The sketch reads what it was given. *)
LEMMA ReadStep ==
  ASSUME IInv, Read
  PROVE  IInv'
  <1> USE TwiAssumption DEF TwiAssumption, twi, master, slave, hw, tx, call,
          hist, Read
  <1>1. ControlTypes'
    BY DEF IInv, ControlTypes
  <1>2. DataTypes'
    BY ByteTypes DEF IInv, DataTypes
  <1>3. Held'
    BY DEF IInv, Held, Mastering
  <1>4. Interleaved'
    BY DEF IInv, Interleaved, InCall, Slaving, Unserved, AsSlave
  <1>5. Hearing'
    BY DEF IInv, Hearing
  <1>6. Answering'
    BY DEF IInv, Answering
  <1>7. Counted'
    BY DEF IInv, Counted
  <1>8. Filled'
    BY DEF IInv, Filled
  <1>9. Writing'
    BY DEF IInv, Writing
  <1>10. Reading'
    BY DEF IInv, Reading
  <1> QED
    BY <1>1, <1>2, <1>3, <1>4, <1>5, <1>6, <1>7, <1>8, <1>9, <1>10 DEF IInv

(* The test of twi_state: it may be out of date from here on. *)
LEMMA ReadyStep ==
  ASSUME IInv, Ready
  PROVE  IInv'
  <1> USE TwiAssumption DEF TwiAssumption, twi, master, slave, hw, tx, call,
          hist, Ready
  <1>1. ControlTypes'
    BY DEF IInv, ControlTypes
  <1>2. DataTypes'
    BY ByteTypes DEF IInv, DataTypes
  <1>3. Held'
    BY DEF IInv, Held, Mastering
  <1>4. Interleaved'
    BY DEF IInv, Interleaved, Slaving, Unserved, AsSlave
  <1>5. Hearing'
    BY DEF IInv, Interleaved, Slaving, AsSlave, Unserved, Hearing
  <1>6. Answering'
    BY DEF IInv, Interleaved, Slaving, AsSlave, Unserved, Answering
  <1>7. Counted'
    BY DEF IInv, Counted
  <1>8. Filled'
    BY DEF IInv, Filled
  <1>9. Writing'
    BY DEF IInv, Writing
  <1>10. Reading'
    BY DEF IInv, Reading
  <1> QED
    BY <1>1, <1>2, <1>3, <1>4, <1>5, <1>6, <1>7, <1>8, <1>9, <1>10 DEF IInv

(* The assignment to twi_state, also over what a slave transfer has put there. *)
LEMMA ClaimStep ==
  ASSUME IInv, Claim
  PROVE  IInv'
  <1> USE TwiAssumption DEF TwiAssumption, twi, master, slave, hw, tx, call,
          hist, Claim
  <1>1. ControlTypes'
    BY DEF IInv, ControlTypes
  <1>2. DataTypes'
    <2>1. mBuffer' \in [Slots -> Bytes]
      BY BufLenType DEF IInv, DataTypes, Slots
    <2> QED
      BY <2>1 DEF IInv, DataTypes
  <1>3. Held'
    BY DEF IInv, Held, Mastering
  <1>4. Interleaved'
    BY DEF IInv, Interleaved, InCall, Slaving, Unserved
  <1>5. Hearing'
    BY DEF IInv, Hearing
  <1>6. Answering'
    BY DEF IInv, Answering
  <1>7. Counted'
    BY DEF IInv, Counted
  <1>8. Filled'
    <2>1. op = "MTX" /\ ~ disturbed =>
            \A k \in 0 .. len - 1 : mBuffer'[k] = asked[k + 1]
      <3> SUFFICES ASSUME op = "MTX", ~ disturbed, NEW k \in 0 .. len - 1
                   PROVE  mBuffer'[k] = asked[k + 1]
        OBVIOUS
      <3>1. k \in Slots /\ k < len /\ k + 1 \in 1 .. len
        BY BufLenType DEF IInv, DataTypes, Slots
      <3>2. asked[k + 1] = txBuffer[k + 1]
        BY <3>1 DEF IInv, Filled, Begins
      <3> QED
        BY <3>1, <3>2
    <2> QED
      BY <2>1 DEF IInv, Filled
  <1>9. Writing'
    BY DEF IInv, Writing
  <1>10. Reading'
    BY DEF IInv, Reading
  <1> QED
    BY <1>1, <1>2, <1>3, <1>4, <1>5, <1>6, <1>7, <1>8, <1>9, <1>10 DEF IInv

(* TWCR is written: a transfer of ours begins unless one as slave is under way. *)
LEMMA StartStep ==
  ASSUME IInv, Start
  PROVE  IInv'
  <1> USE TwiAssumption DEF TwiAssumption, twi, master, slave, hw, tx, call,
          hist, Start, SendStart, SendAddress
  <1>0. /\ pc = "start" /\ pc' = "run" /\ ea' = TRUE /\ ie' = TRUE
        /\ status' = "none" /\ inRepStart' = FALSE /\ disturbed' \in BOOLEAN
        /\ UNCHANGED <<state, error, mBuffer, mIndex, rx, tIndex, tLength, twdr,
                       txBuffer, txLength, transmitting, inbox, op, len, stop,
                       asked, sent, replied, heard>>
        /\ (disturbed => disturbed')
    BY DEF IInv, ControlTypes
  <1>1. ControlTypes'
    <2>1. role \in Parts
      BY DEF IInv, ControlTypes
    <2>2. role' \in Parts /\ status' = "none"
      BY <2>1
    <2>3. status' \in Statuses /\ role' \in Roles[status']
      BY <2>2, AnyRole
    <2> HIDE DEF Start, Parts
    <2> QED
      BY <1>0, <2>2, <2>3 DEF IInv, ControlTypes
  <1>2. DataTypes'
    BY <1>0, ByteTypes DEF IInv, DataTypes
  <1>3. Held'
    <2>1. CASE inRepStart
      <3>1. role' \in {"restart", "sla", "stray"} /\ state = op
        BY <2>1 DEF IInv, ControlTypes, Held, Mastering, Statuses, Roles
      <3>2. role' = "stray" /\ op = "MTX" => disturbed'
        BY <2>1 DEF IInv, ControlTypes, Held
      <3>3. error = "none"
        BY <3>1 DEF IInv, Held
      <3> HIDE DEF Start
      <3> QED
        BY <1>0, <3>1, <3>2, <3>3 DEF Held, Mastering
    <2>2. CASE ~ inRepStart
      <3>1. status = "none" /\ status' = "none" /\ inRepStart' = FALSE
        BY <2>2
      <3>2. ~ Mastering /\ role \in {"none", "sr", "st"} /\ error = error'
        BY <2>2 DEF IInv, Held, Mastering, ControlTypes
      <3>3. \/ role = "none" /\ role' = "start" /\ state = op
            \/ role \in {"sr", "st"} /\ role' = role
        BY <2>2, <3>2 DEF IInv, Interleaved, Interrupted, Slaving
      <3>4. /\ pc' = "run" /\ op' = op /\ state' = state /\ ie' = TRUE
            /\ pc = "start"
        OBVIOUS
      <3> HIDE DEF Start
      <3> QED
        BY <2>2, <3>1, <3>2, <3>3, <3>4 DEF IInv, Held, Mastering
    <2> QED
      BY <2>1, <2>2
  <1>4. Interleaved'
    <2>1. Slaving' => Slaving /\ status = "none" /\ disturbed' = disturbed
      BY DEF IInv, Held, Slaving
    <2>2. ~ disturbed' => ~ disturbed
      BY <1>0
    <2>3. ~ Slaving => state = op
      BY DEF IInv, Interleaved, Interrupted
    <2> HIDE DEF Start
    <2> QED
      BY <1>0, <2>1, <2>2, <2>3 DEF IInv, ControlTypes, Interleaved, Interrupted,
         InCall, Unserved, AsSlave
  <1>5. Hearing'
    BY DEF IInv, Held, Hearing
  <1>6. Answering'
    BY DEF IInv, Held, Answering
  <1>7. Counted'
    BY DEF IInv, Counted
  <1>8. Filled'
    <2> HIDE DEF Start
    <2> QED
      BY <1>0 DEF IInv, Filled, Begins
  <1>9. Writing'
    <2>1. /\ mIndex = 0 /\ sent = <<>> /\ role' # "mt" /\ len \in Nat
      BY DEF IInv, Counted, Held, Mastering, DataTypes
    <2>2. ~ disturbed /\ op = "MTX" => state = op
      BY DEF IInv, Interleaved, Interrupted
    <2>3. Len(sent) = 0
      BY <2>1
    <2> HIDE DEF Start
    <2> QED
      BY <1>0, <2>1, <2>2, <2>3 DEF IInv, Writing, Begins
  <1>10. Reading'
    <2>1. /\ mIndex = 0 /\ replied = <<>> /\ mIndex' = 0 /\ replied' = <<>>
          /\ role' # "mr" /\ status' = "none" /\ mBuffer' = mBuffer
      BY DEF IInv, Counted, Held, Mastering
    <2>2. Len(replied') = 0
      BY <2>1
    <2> HIDE DEF Start
    <2> QED
      BY <2>1, <2>2 DEF Reading
  <1> QED
    BY <1>1, <1>2, <1>3, <1>4, <1>5, <1>6, <1>7, <1>8, <1>9, <1>10 DEF IInv

(* What the call found in its buffer is what the sketch is given. *)
LEMMA ReturnStep ==
  ASSUME IInv, Return
  PROVE  IInv'
  <1> USE TwiAssumption DEF TwiAssumption, twi, master, slave, hw, tx, call,
          hist, Return, Received, Least
  <1>1. ControlTypes'
    BY DEF IInv, ControlTypes
  <1>2. DataTypes'
    <2>1. Received \in Seq(Bytes) /\ Len(Received) <= BufLen
      BY ReceivedType DEF IInv, DataTypes, Counted
    <2>2. inbox' \in Seq(Bytes) /\ Len(inbox') <= BufLen
      BY <2>1 DEF IInv, DataTypes
    <2>3. mBuffer' \in [Slots -> Bytes] /\ txBuffer' \in [1 .. BufLen -> Bytes]
      BY ByteTypes DEF IInv, DataTypes
    <2>4. len' \in 0 .. BufLen /\ txLength' \in 0 .. BufLen
      BY BufLenType DEF IInv, DataTypes
    <2>5. asked' \in Seq(Bytes) /\ Len(asked') <= BufLen
      <3>1. asked' = asked \/ asked' = <<>>
        OBVIOUS
      <3>2. asked' = <<>> => asked' \in Seq(Bytes) /\ Len(asked') = 0
        OBVIOUS
      <3>3. asked \in Seq(Bytes) /\ Len(asked) <= BufLen /\ 0 <= BufLen
        BY BufLenType DEF IInv, DataTypes
      <3> HIDE DEF Return
      <3> QED
        BY <3>1, <3>2, <3>3
    <2>6. /\ sent' \in Seq(Bytes) /\ replied' \in Seq(Bytes) /\ mIndex' = 0
          /\ twdr' = twdr /\ tIndex' = tIndex /\ tLength' = tLength
          /\ heard' = heard /\ rx' = rx
      OBVIOUS
    <2> HIDE DEF Return
    <2> QED
      BY <2>1, <2>2, <2>3, <2>4, <2>5, <2>6 DEF IInv, DataTypes
  <1>3. Held'
    BY DEF IInv, ControlTypes, Held, Mastering, Roles
  <1>4. Interleaved'
    BY DEF IInv, Interleaved, InCall, Slaving, Unserved, AsSlave
  <1>5. Hearing'
    BY DEF IInv, Hearing
  <1>6. Answering'
    BY DEF IInv, Answering
  <1>7. Counted'
    BY DEF IInv, Counted
  <1>8. Filled'
    BY DEF IInv, Filled
  <1>9. Writing'
    BY DEF IInv, Writing
  <1>10. Reading'
    BY DEF IInv, Reading
  <1> QED
    BY <1>1, <1>2, <1>3, <1>4, <1>5, <1>6, <1>7, <1>8, <1>9, <1>10 DEF IInv

-----------------------------------------------------------------------------
(* The handler.                                                           *)

(* The START is out; the address follows. *)
LEMMA IsrStartStep ==
  ASSUME IInv, IsrStart
  PROVE  IInv'
  <1> USE TwiAssumption DEF TwiAssumption, twi, master, slave, hw, tx, call,
          hist, IsrStart, Isr, Reply, Go
  <1>1. ControlTypes'
    BY DEF IInv, ControlTypes, Statuses, Roles
  <1>2. DataTypes'
    BY ByteTypes DEF IInv, DataTypes
  <1>3. Held'
    BY DEF IInv, ControlTypes, Held, Mastering, Roles
  <1>4. Interleaved'
    BY DEF IInv, Interleaved, Interrupted, InCall, Slaving, Unserved
  <1>5. Hearing'
    BY DEF IInv, Hearing
  <1>6. Answering'
    BY DEF IInv, Answering
  <1>7. Counted'
    BY DEF IInv, ControlTypes, Counted, Roles
  <1>8. Filled'
    BY DEF IInv, Filled
  <1>9. Writing'
    BY DEF IInv, Writing, Told
  <1>10. Reading'
    BY DEF IInv, Reading
  <1> QED
    BY <1>1, <1>2, <1>3, <1>4, <1>5, <1>6, <1>7, <1>8, <1>9, <1>10 DEF IInv

(* The next byte goes out, or the last one has been acknowledged. *)
LEMMA IsrTransmitStep ==
  ASSUME IInv, IsrTransmit
  PROVE  IInv'
  <1> USE TwiAssumption DEF TwiAssumption, twi, master, slave, hw, tx, call,
          hist, IsrTransmit, Isr, Go, EndTransfer, Leave, Reply, Length
  <1>1. ControlTypes'
    BY DEF IInv, ControlTypes, Statuses, Roles
  <1>2. DataTypes'
    <2>1. mIndex < Length => mIndex \in Slots
      BY BufLenType DEF IInv, ControlTypes, DataTypes, Held, Slots
    <2>2. mIndex' \in Nat
      <3>1. mIndex' = mIndex \/ mIndex' = mIndex + 1
        OBVIOUS
      <3> HIDE DEF IsrTransmit
      <3> QED
        BY <3>1 DEF IInv, DataTypes
    <2>3. twdr' \in Bytes
      <3>1. twdr' = Nothing \/ (mIndex \in Slots /\ twdr' = mBuffer[mIndex])
        BY <2>1
      <3> HIDE DEF IsrTransmit
      <3> QED
        BY <3>1, ByteTypes DEF IInv, DataTypes
    <2>4. UNCHANGED <<mBuffer, txBuffer, tIndex, tLength, len, txLength, sent,
                      replied, heard, rx, inbox, asked>>
      OBVIOUS
    <2> HIDE DEF IsrTransmit
    <2> QED
      BY <2>2, <2>3, <2>4 DEF IInv, DataTypes
  <1>3. Held'
    <2>1. /\ role \in {"sla", "mt"} /\ pc = "run" /\ state = op
          /\ op = "MTX" /\ error = "none" /\ ie = TRUE /\ inRepStart = FALSE
      BY DEF IInv, ControlTypes, Held, Mastering, Statuses, Roles
    <2>2. /\ status' = "none" /\ pc' = pc /\ op' = op /\ error' = error
          /\ \/ role' = "mt" /\ UNCHANGED <<state, inRepStart, ie>>
             \/ role' = "none" /\ state' = "READY" /\ UNCHANGED <<inRepStart, ie>>
             \/ /\ role' = "restart" /\ state' = "READY" /\ inRepStart' = TRUE
                /\ ie' = FALSE /\ ea' = FALSE
      OBVIOUS
    <2>3. /\ op' = "MTX" /\ pc' = "run" /\ error' = "none"
      BY <2>1, <2>2
    <2> HIDE DEF IsrTransmit
    <2>4. CASE role' = "mt"
      BY <2>1, <2>2, <2>3, <2>4 DEF Held, Mastering
    <2>5. CASE role' = "none"
      BY <2>1, <2>2, <2>3, <2>5 DEF Held, Mastering
    <2>6. CASE role' = "restart"
      BY <2>1, <2>2, <2>3, <2>6 DEF Held, Mastering
    <2> QED
      BY <2>2, <2>4, <2>5, <2>6
  <1>4. Interleaved'
    BY DEF IInv, ControlTypes, Held, Mastering, Interleaved, Slaving, Roles
  <1>5. Hearing'
    BY DEF IInv, Hearing
  <1>6. Answering'
    BY DEF IInv, Answering
  <1>7. Counted'
    BY DEF IInv, ControlTypes, DataTypes, Held, Mastering, Counted, Roles
  <1>8. Filled'
    BY DEF IInv, Filled
  <1>9. Writing'
    <2>1. CASE mIndex < Length
      <3>1. /\ role \in {"sla", "mt"} /\ pc = "run" /\ op = "MTX" /\ state = op
            /\ mIndex \in Nat /\ len \in 0 .. BufLen /\ mIndex < len
            /\ status = "MT_ACK" /\ ~ inRepStart
        BY <2>1 DEF IInv, ControlTypes, DataTypes, Held, Mastering, Statuses, Roles
      <3>2. ~ disturbed => Len(sent) = mIndex
        <4>1. CASE role = "sla"
          BY <3>1, <4>1 DEF IInv, Counted
        <4>2. CASE role = "mt"
          <5> HIDE DEF IsrTransmit
          <5> QED
            BY <3>1, <4>2 DEF IInv, Writing
        <4> QED
          BY <3>1, <4>1, <4>2
      <3>3. ~ disturbed => mBuffer[mIndex] = asked[mIndex + 1]
        BY <3>1 DEF IInv, Filled
      <3>4. /\ role' = "mt" /\ status' = "none" /\ mIndex' = mIndex + 1
            /\ twdr' = mBuffer[mIndex] /\ state' = op
            /\ UNCHANGED <<pc, op, len, sent, asked, disturbed>>
        <4>1. ~ (mIndex >= Length)
          BY <2>1, <3>1
        <4> QED
          BY <3>1, <4>1
      <3>5. ~ disturbed => Len(sent) <= len /\ Begins(sent, Len(sent), asked)
        BY <3>1 DEF IInv, Writing
      <3> HIDE DEF IsrTransmit
      <3> QED
        BY <3>1, <3>2, <3>3, <3>4, <3>5 DEF Writing, Begins
    <2>2. CASE ~ mIndex < Length
      BY <2>2 DEF IInv, ControlTypes, DataTypes, Held, Mastering, Counted,
         Filled, Writing, Interleaved, InCall, Slaving, Unserved, AsSlave, Told,
         Begins, Statuses, Roles
    <2> QED
      BY <2>1, <2>2
  <1>10. Reading'
    BY DEF IInv, Held, Reading
  <1> QED
    BY <1>1, <1>2, <1>3, <1>4, <1>5, <1>6, <1>7, <1>8, <1>9, <1>10 DEF IInv

(* The transfer ends, and twi_error says how. *)
LEMMA IsrFailedStep ==
  ASSUME IInv,
         NEW s \in {"MT_SLA_NACK", "MT_DATA_NACK", "ARB_LOST", "MR_SLA_NACK",
                   "BUS_ERROR"},
         IsrFailed(s)
  PROVE  IInv'
  <1> USE TwiAssumption DEF TwiAssumption, twi, master, slave, hw, tx, call,
          hist, IsrFailed, Isr, Leave, Reply, Go, Unrecorded
  <1>1. ControlTypes'
    BY DEF IInv, ControlTypes, Statuses, Roles
  <1>2. DataTypes'
    BY ByteTypes DEF IInv, DataTypes
  <1>3. Held'
    BY DEF IInv, ControlTypes, Held, Mastering
  <1>4. Interleaved'
    BY DEF IInv, ControlTypes, Held, Mastering, Interleaved, Slaving, Unserved,
       Roles
  <1>5. Hearing'
    BY DEF IInv, Hearing
  <1>6. Answering'
    BY DEF IInv, Answering
  <1>7. Counted'
    BY DEF IInv, Counted
  <1>8. Filled'
    BY DEF IInv, Filled
  <1>9. Writing'
    BY DEF IInv, ControlTypes, DataTypes, Held, Counted, Filled, Writing, Told,
       Begins, Roles
  <1>10. Reading'
    BY DEF IInv, Reading
  <1> QED
    BY <1>1, <1>2, <1>3, <1>4, <1>5, <1>6, <1>7, <1>8, <1>9, <1>10 DEF IInv

(* A byte goes into the buffer; TWEA says whether one more is wanted. *)
LEMMA IsrReceiveStep ==
  ASSUME IInv, IsrReceive
  PROVE  IInv'
  <1> USE TwiAssumption DEF TwiAssumption, twi, master, slave, hw, tx, call,
          hist, IsrReceive, Isr, Reply, Go, Length
  <1>1. ControlTypes'
    BY DEF IInv, ControlTypes, Statuses, Roles
  <1>2. DataTypes'
    <2>1. status = "MR_DATA_ACK" => mIndex \in Slots
      BY BufLenType DEF IInv, ControlTypes, DataTypes, Held, Reading, Mastering,
         Slots, Statuses, Roles
    <2>2. mBuffer' \in [Slots -> Bytes] /\ mIndex' \in Nat
      <3>1. \/ mBuffer' = mBuffer /\ mIndex' = mIndex
            \/ /\ mIndex \in Slots /\ mIndex' = mIndex + 1
               /\ mBuffer' = [mBuffer EXCEPT ![mIndex] = twdr]
        BY <2>1
      <3> HIDE DEF IsrReceive
      <3> QED
        <4>1. mBuffer \in [Slots -> Bytes] /\ twdr \in Bytes /\ mIndex \in Nat
          BY DEF IInv, DataTypes
        <4> QED
          BY <3>1, <4>1
    <2> QED
      BY <2>2, ByteTypes DEF IInv, DataTypes
  <1>3. Held'
    BY DEF IInv, ControlTypes, Held, Mastering, Roles
  <1>4. Interleaved'
    BY DEF IInv, Interleaved, Interrupted, InCall, Slaving, Unserved
  <1>5. Hearing'
    BY DEF IInv, Hearing
  <1>6. Answering'
    BY DEF IInv, Answering
  <1>7. Counted'
    <2>1. CASE status = "MR_SLA_ACK"
      BY <2>1 DEF IInv, ControlTypes, DataTypes, Held, Mastering, Counted,
         Reading, Statuses, Roles, Slots
    <2>2. CASE status = "MR_DATA_ACK"
      BY <2>2 DEF IInv, ControlTypes, DataTypes, Held, Mastering, Counted,
         Reading, Statuses, Roles, Slots
    <2> QED
      BY <2>1, <2>2
  <1>8. Filled'
    BY DEF IInv, ControlTypes, Filled, Held, Roles
  <1>9. Writing'
    BY DEF IInv, Writing, Told
  <1>10. Reading'
    <2>1. CASE status = "MR_SLA_ACK"
      BY <2>1 DEF IInv, ControlTypes, DataTypes, Held, Mastering, Counted,
         Reading, Statuses, Roles
    <2>2. CASE status = "MR_DATA_ACK"
      <3>1. /\ op = "MRX" /\ pc = "run" /\ role = "mr" /\ ~ inRepStart /\ ie
            /\ state = op
        BY <2>2 DEF IInv, ControlTypes, Held, Mastering, Statuses, Roles
      <3>2. /\ \A k \in 0 .. mIndex - 1 : mBuffer[k] = replied[k + 1]
            /\ Len(replied) = mIndex + 1 /\ twdr = replied[mIndex + 1]
            /\ mIndex < len - 1 /\ mIndex \in Slots
        BY <2>2, <3>1, BufLenType DEF IInv, Reading, DataTypes, Slots
      <3>3. /\ mIndex' = mIndex + 1 /\ status' = "none"
            /\ mBuffer' = [mBuffer EXCEPT ![mIndex] = twdr]
            /\ UNCHANGED <<op, pc, len, replied>>
        BY <2>2
      <3>4. /\ \A k \in 0 .. mIndex' - 1 : mBuffer'[k] = replied[k + 1]
            /\ Len(replied) = mIndex'
        <4> HIDE DEF IsrReceive
        <4> SUFFICES ASSUME NEW k \in 0 .. mIndex PROVE mBuffer'[k] = replied[k + 1]
          BY <3>2, <3>3 DEF IInv, DataTypes
        <4>1. k \in Slots
          BY <3>2 DEF Slots
        <4>2. mBuffer'[k] = IF k = mIndex THEN twdr ELSE mBuffer[k]
          BY <4>1, <3>2, <3>3 DEF IInv, DataTypes
        <4> QED
          BY <4>2, <3>2 DEF IInv, DataTypes, Slots
      <3>5. role' = "mr" /\ ea' = (mIndex' < len - 1)
        BY <2>2, <3>1
      <3> HIDE DEF IsrReceive
      <3> QED
        BY <3>1, <3>2, <3>3, <3>4, <3>5 DEF IInv, Reading, DataTypes
    <2> QED
      BY <2>1, <2>2
  <1> QED
    BY <1>1, <1>2, <1>3, <1>4, <1>5, <1>6, <1>7, <1>8, <1>9, <1>10 DEF IInv

(* The last byte was refused, as it should be, and is kept all the same. *)
LEMMA IsrReceiveLastStep ==
  ASSUME IInv, IsrReceiveLast
  PROVE  IInv'
  <1> USE TwiAssumption DEF TwiAssumption, twi, master, slave, hw, tx, call,
          hist, IsrReceiveLast, Isr, EndTransfer, Leave, Reply, Go
  <1>1. ControlTypes'
    BY DEF IInv, ControlTypes, Statuses, Roles
  <1>2. DataTypes'
    <2>1. status = "MR_DATA_NACK" => mIndex \in Slots
      BY BufLenType DEF IInv, ControlTypes, DataTypes, Held, Reading, Mastering,
         Slots, Statuses, Roles
    <2>2. mBuffer' \in [Slots -> Bytes] /\ mIndex' \in Nat
      BY <2>1 DEF IInv, DataTypes
    <2> QED
      BY <2>2, ByteTypes DEF IInv, DataTypes
  <1>3. Held'
    <2>1. CASE stop
      BY <2>1 DEF IInv, ControlTypes, Held, Mastering, Interleaved, Interrupted,
         InCall, Slaving, Unserved, AsSlave, Statuses, Roles, Slots
    <2>2. CASE ~ stop
      BY <2>2 DEF IInv, ControlTypes, Held, Mastering, Interleaved, Interrupted,
         InCall, Slaving, Unserved, AsSlave, Statuses, Roles, Slots
    <2> QED
      BY <2>1, <2>2
  <1>4. Interleaved'
    BY DEF IInv, ControlTypes, Held, Mastering, Interleaved, Slaving, Roles
  <1>5. Hearing'
    BY DEF IInv, Hearing
  <1>6. Answering'
    BY DEF IInv, Answering
  <1>7. Counted'
    BY DEF IInv, ControlTypes, DataTypes, Held, Mastering, Counted, Reading, Roles
  <1>8. Filled'
    BY DEF IInv, ControlTypes, Filled, Held, Roles
  <1>9. Writing'
    BY DEF IInv, ControlTypes, Held, Writing, Roles
  <1>10. Reading'
    <2>1. /\ op = "MRX" /\ pc = "run" /\ role = "mr" /\ ~ inRepStart /\ ie
          /\ state = op
      BY DEF IInv, ControlTypes, Held, Mastering, Statuses, Roles
    <2>2. /\ \A k \in 0 .. mIndex - 1 : mBuffer[k] = replied[k + 1]
          /\ Len(replied) = mIndex + 1 /\ twdr = replied[mIndex + 1]
          /\ mIndex = len - 1 /\ mIndex \in Slots
      BY <2>1, BufLenType DEF IInv, Reading, DataTypes, Slots
    <2>3. /\ mIndex' = mIndex + 1 /\ status' = "none"
          /\ mBuffer' = [mBuffer EXCEPT ![mIndex] = twdr]
          /\ UNCHANGED <<op, pc, len, replied>>
      OBVIOUS
    <2>4. /\ \A k \in 0 .. mIndex' - 1 : mBuffer'[k] = replied[k + 1]
          /\ Len(replied) = mIndex'
      <3> HIDE DEF IsrReceiveLast
      <3> SUFFICES ASSUME NEW k \in 0 .. mIndex PROVE mBuffer'[k] = replied[k + 1]
        BY <2>2, <2>3 DEF IInv, DataTypes
      <3>1. k \in Slots
        BY <2>2 DEF Slots
      <3>2. mBuffer'[k] = IF k = mIndex THEN twdr ELSE mBuffer[k]
        BY <3>1, <2>2, <2>3 DEF IInv, DataTypes
      <3> QED
        BY <3>2, <2>2 DEF IInv, DataTypes, Slots
    <2>5. role' # "mr"
      OBVIOUS
    <2> HIDE DEF IsrReceiveLast
    <2> QED
      BY <2>1, <2>2, <2>3, <2>4, <2>5 DEF IInv, Reading, DataTypes
  <1> QED
    BY <1>1, <1>2, <1>3, <1>4, <1>5, <1>6, <1>7, <1>8, <1>9, <1>10 DEF IInv

(* A byte from another master goes into twi_rxBuffer if there is room. *)
LEMMA IsrSlaveReceiveStep ==
  ASSUME IInv, IsrSlaveReceive
  PROVE  IInv'
  <1> USE TwiAssumption DEF TwiAssumption, twi, master, slave, hw, tx, call,
          hist, IsrSlaveReceive, Isr, Reply, Go
  <1>1. ControlTypes'
    <2>1. /\ role' \in Parts
          /\ status' = "none" /\ ea' \in BOOLEAN
      OBVIOUS
    <2>2. state' \in {"READY", "MRX", "MTX", "SRX", "STX"}
      BY DEF IInv, ControlTypes
    <2>3. disturbed' \in BOOLEAN
      BY DEF IInv, ControlTypes
    <2>4. UNCHANGED <<inRepStart, error, op, pc, ie, transmitting, stop>>
      OBVIOUS
    <2> HIDE DEF IsrSlaveReceive
    <2>5. status' \in Statuses /\ role' \in Roles[status']
      BY <2>1, AnyRole
    <2> QED
      BY <2>1, <2>2, <2>3, <2>4, <2>5 DEF IInv, ControlTypes
  <1>2. DataTypes'
    <2>1. rx' \in Seq(Bytes) /\ Len(rx') <= BufLen
      <3>1. \/ rx' = <<>> \/ rx' = rx
            \/ Len(rx) < BufLen /\ rx' = Append(rx, twdr)
        OBVIOUS
      <3> HIDE DEF IsrSlaveReceive
      <3>2. rx \in Seq(Bytes) /\ Len(rx) <= BufLen /\ twdr \in Bytes
        BY DEF IInv, DataTypes
      <3> QED
        <4>1. CASE rx' = <<>>
          BY <4>1, BufLenType
        <4>2. CASE rx' = rx
          BY <4>2, <3>2
        <4>3. CASE Len(rx) < BufLen /\ rx' = Append(rx, twdr)
          BY <4>3, <3>2, ByteAppend, BufLenType
        <4> QED
          BY <3>1, <4>1, <4>2, <4>3
    <2>2. /\ twdr' = Nothing
          /\ UNCHANGED <<mBuffer, mIndex, len, sent, replied, heard, inbox, asked,
                         txBuffer, txLength, tIndex, tLength>>
      OBVIOUS
    <2> HIDE DEF IsrSlaveReceive
    <2> QED
      BY <2>1, <2>2, ByteTypes DEF IInv, DataTypes
  <1>3. Held'
    BY DEF IInv, ControlTypes, Held, Mastering
  <1>4. Interleaved'
    BY DEF IInv, ControlTypes, Interleaved, Interrupted, InCall, Slaving,
       Unserved, AsSlave, Roles
  <1>5. Hearing'
    <2>1. CASE status = "SR_SLA_ACK"
      <3>1. role = "sr" /\ heard = <<>>
        BY <2>1 DEF IInv, ControlTypes, Hearing, Statuses, Roles
      <3>2. rx' = <<>> /\ heard' = <<>> /\ status' = "none"
        BY <2>1, <3>1
      <3>3. Len(rx') = 0 /\ Len(heard') = 0
        BY <3>2
      <3> HIDE DEF IsrSlaveReceive
      <3> QED
        BY <3>2, <3>3, BufLenType DEF Hearing, Begins, Least
    <2>2. CASE status = "SR_DATA_ACK"
      <3>1. /\ role = "sr" /\ Len(heard) >= 1 /\ twdr = heard[Len(heard)]
            /\ Begins(rx, Least(Len(heard) - 1, BufLen), heard)
        BY <2>2 DEF IInv, ControlTypes, Hearing, Statuses, Roles
      <3>2. pc \notin {"claim", "start"}
        BY <2>2, <3>1 DEF IInv, Interleaved, Slaving, Unserved
      <3>3. /\ status' = "none" /\ heard' = heard /\ pc' = pc
            /\ IF Len(rx) < BufLen THEN rx' = Append(rx, twdr)
                                   ELSE rx' = rx /\ ea' = FALSE
        BY <2>2
      <3>4. rx \in Seq(Bytes) /\ heard \in Seq(Bytes) /\ twdr \in Bytes
        BY DEF IInv, DataTypes
      <3> HIDE DEF IsrSlaveReceive
      <3>5. CASE Len(rx) < BufLen
        <4>1. /\ Len(rx) = Len(heard) - 1 /\ Len(heard) <= BufLen
              /\ Least(Len(heard), BufLen) = Len(heard)
          BY <3>1, <3>4, <3>5, BufLenType DEF Begins, Least
        <4>2. /\ rx' = Append(rx, twdr) /\ Len(rx') = Len(heard)
              /\ rx'[Len(heard)] = twdr
              /\ \A k \in 1 .. Len(heard) - 1 : rx'[k] = rx[k]
          BY <3>3, <3>4, <3>5, <4>1
        <4>3. \A k \in 1 .. Len(heard) - 1 : rx[k] = heard[k]
          BY <3>1, <4>1 DEF Begins
        <4>4. \A k \in 1 .. Len(heard) : rx'[k] = heard[k]
          BY <3>1, <3>4, <4>2, <4>3
        <4> QED
          BY <3>2, <3>3, <4>1, <4>2, <4>4 DEF Hearing, Begins
      <3>6. CASE ~ Len(rx) < BufLen
        <4>1. /\ Least(Len(heard) - 1, BufLen) = BufLen
              /\ Least(Len(heard), BufLen) = BufLen
          BY <3>1, <3>4, <3>6, BufLenType DEF Begins, Least
        <4>2. Begins(rx, BufLen, heard) /\ rx' = rx /\ ea' = FALSE
          BY <3>1, <3>3, <3>6, <4>1
        <4> QED
          BY <3>2, <3>3, <4>1, <4>2 DEF Hearing
      <3> QED
        BY <3>5, <3>6
    <2>3. CASE status = "SR_DATA_NACK"
      BY <2>3 DEF Hearing
    <2> QED
      BY <2>1, <2>2, <2>3
  <1>6. Answering'
    BY DEF IInv, Answering
  <1>7. Counted'
    BY DEF IInv, Counted
  <1>8. Filled'
    BY DEF IInv, Filled
  <1>9. Writing'
    BY DEF IInv, Writing, Told
  <1>10. Reading'
    BY DEF IInv, Reading
  <1> QED
    BY <1>1, <1>2, <1>3, <1>4, <1>5, <1>6, <1>7, <1>8, <1>9, <1>10 DEF IInv

(* A message from another master is complete. *)
LEMMA IsrSlaveStopStep ==
  ASSUME IInv, IsrSlaveStop
  PROVE  IInv'
  <1> USE TwiAssumption DEF TwiAssumption, twi, master, slave, hw, tx, call,
          hist, IsrSlaveStop, Isr, Leave, Reply, Go, onReceiveService
  <1>1. ControlTypes'
    BY DEF IInv, ControlTypes, Statuses, Roles
  <1>2. DataTypes'
    BY ByteTypes DEF IInv, DataTypes
  <1>3. Held'
    BY DEF IInv, ControlTypes, Held, Mastering
  <1>4. Interleaved'
    BY DEF IInv, ControlTypes, Interleaved, Slaving, Unserved, Roles
  <1>5. Hearing'
    BY DEF IInv, Hearing
  <1>6. Answering'
    BY DEF IInv, Answering
  <1>7. Counted'
    BY DEF IInv, Counted
  <1>8. Filled'
    BY DEF IInv, Filled
  <1>9. Writing'
    BY DEF IInv, ControlTypes, Writing, Interleaved, InCall, Slaving, Unserved,
       Roles
  <1>10. Reading'
    BY DEF IInv, Reading
  <1> QED
    BY <1>1, <1>2, <1>3, <1>4, <1>5, <1>6, <1>7, <1>8, <1>9, <1>10 DEF IInv

(* Another master asks; the sketch's handler fills a buffer. *)
LEMMA IsrSlaveRequestStep ==
  ASSUME IInv, IsrSlaveRequest
  PROVE  IInv'
  <1> USE TwiAssumption DEF TwiAssumption, twi, master, slave, hw, tx, call,
          hist, IsrSlaveRequest, Isr, Reply, Go
  <1>1. ControlTypes'
    BY DEF IInv, ControlTypes, Statuses, Roles
  <1>2. DataTypes'
    <2>1. PICK n \in 0 .. BufLen :
            IF transmitting
              THEN /\ txBuffer' = [k \in 1 .. BufLen |->
                                     IF k <= n THEN Nothing ELSE txBuffer[k]]
                   /\ txLength' = n /\ tLength' = 1
              ELSE /\ txLength' = 0 /\ txBuffer' = txBuffer
                   /\ tLength' = IF n = 0 THEN 1 ELSE n
      OBVIOUS
    <2>2. txBuffer' \in [1 .. BufLen -> Bytes]
      <3> HIDE DEF IsrSlaveRequest
      <3> QED
        BY <2>1, ByteTypes DEF IInv, DataTypes
    <2>3. /\ txLength' \in 0 .. BufLen /\ tLength' \in 0 .. BufLen
      <3> HIDE DEF IsrSlaveRequest
      <3> QED
        BY <2>1, BufLenType DEF IInv, DataTypes
    <2>4. tIndex' \in 0 .. BufLen /\ twdr' \in Bytes
      BY BufLenType, ByteTypes
    <2>5. UNCHANGED <<mBuffer, mIndex, len, sent, replied, heard, rx, inbox, asked>>
      OBVIOUS
    <2> HIDE DEF IsrSlaveRequest
    <2> QED
      BY <2>2, <2>3, <2>4, <2>5 DEF IInv, DataTypes
  <1>3. Held'
    BY DEF IInv, ControlTypes, Held, Mastering
  <1>4. Interleaved'
    BY DEF IInv, Interleaved, Interrupted, Slaving, AsSlave
  <1>5. Hearing'
    BY DEF IInv, Hearing
  <1>6. Answering'
    BY DEF IInv, Answering
  <1>7. Counted'
    BY DEF IInv, Counted
  <1>8. Filled'
    BY DEF IInv, Filled
  <1>9. Writing'
    BY DEF IInv, Writing
  <1>10. Reading'
    BY DEF IInv, Reading
  <1> QED
    BY <1>1, <1>2, <1>3, <1>4, <1>5, <1>6, <1>7, <1>8, <1>9, <1>10 DEF IInv

(* The next byte for another master, or its last. *)
LEMMA IsrSlaveTransmitStep ==
  ASSUME IInv, IsrSlaveTransmit
  PROVE  IInv'
  <1> USE TwiAssumption DEF TwiAssumption, twi, master, slave, hw, tx, call,
          hist, IsrSlaveTransmit, Isr, Reply, Go
  <1>1. ControlTypes'
    <2>1. /\ role' \in Parts
          /\ status' = "none"
      OBVIOUS
    <2>2. status' \in Statuses /\ role' \in Roles[status']
      BY <2>1, AnyRole
    <2>3. state' \in {"READY", "MRX", "MTX", "SRX", "STX"}
      BY DEF IInv, ControlTypes
    <2>4. ea' \in BOOLEAN
      <3>1. ea' = TRUE \/ ea' = (tIndex' < tLength)
        BY Zenon
      <3> HIDE DEF IsrSlaveTransmit
      <3>2. CASE ea' = TRUE
        BY <3>2
      <3>3. CASE ea' = (tIndex' < tLength)
        BY <3>3
      <3> QED
        BY <3>1, <3>2, <3>3, Zenon
    <2>5. UNCHANGED <<inRepStart, error, op, pc, ie, transmitting, stop, disturbed>>
      OBVIOUS
    <2> HIDE DEF IsrSlaveTransmit
    <2> QED
      BY <2>1, <2>2, <2>3, <2>4, <2>5 DEF IInv, ControlTypes
  <1>2. DataTypes'
    <2>1. CASE status = "ST_DATA_ACK"
      BY <2>1, ByteTypes, BufLenType DEF IInv, ControlTypes, DataTypes,
         Answering, Statuses, Roles
    <2>2. CASE status = "ST_LAST"
      BY <2>2, ByteTypes, BufLenType DEF IInv, ControlTypes, DataTypes,
         Answering, Statuses, Roles
    <2> QED
      BY <2>1, <2>2
  <1>3. Held'
    BY DEF IInv, ControlTypes, Held, Mastering
  <1>4. Interleaved'
    BY DEF IInv, ControlTypes, Interleaved, InCall, Slaving, Unserved, AsSlave,
       Roles
  <1>5. Hearing'
    BY DEF IInv, Hearing
  <1>6. Answering'
    <2>1. CASE status = "ST_DATA_ACK"
      <3>1. /\ role = "st" /\ tIndex >= 1 /\ (tIndex < tLength \/ tIndex = 1)
        BY <2>1 DEF IInv, ControlTypes, Answering, Statuses, Roles
      <3>2. /\ role' = "st" /\ status' = "none" /\ tIndex' = tIndex + 1
            /\ tLength' = tLength /\ ea' = (tIndex' < tLength) /\ pc' = pc
        BY <2>1
      <3>3. pc \notin {"claim", "start"}
        BY <2>1, <3>1 DEF IInv, Interleaved, Slaving, Unserved
      <3> HIDE DEF IsrSlaveTransmit
      <3>4. tIndex' >= 1
        BY <3>1, <3>2 DEF IInv, DataTypes
      <3>5. ea' => tIndex' < tLength'
        BY <3>2, Zenon
      <3> QED
        BY <3>2, <3>3, <3>4, <3>5 DEF Answering
    <2>2. CASE status = "ST_LAST"
      BY <2>2 DEF Answering
    <2> QED
      BY <2>1, <2>2
  <1>7. Counted'
    BY DEF IInv, Counted
  <1>8. Filled'
    BY DEF IInv, Filled
  <1>9. Writing'
    BY DEF IInv, ControlTypes, Writing, Interleaved, InCall, Slaving, Unserved,
       Roles
  <1>10. Reading'
    BY DEF IInv, Reading
  <1> QED
    BY <1>1, <1>2, <1>3, <1>4, <1>5, <1>6, <1>7, <1>8, <1>9, <1>10 DEF IInv

-----------------------------------------------------------------------------
(* The bus.                                                               *)

(* The bus moves: each event comes from what the hardware takes part in. *)
LEMMA BusStartsStep ==
  ASSUME IInv, BusStarts,
         UNCHANGED <<twi, master, slave, tx, inbox, call, asked, disturbed>>
  PROVE  IInv'
  <1> USE TwiAssumption DEF TwiAssumption, twi, master, slave, hw, tx, call,
          hist, BusStarts, Bus, Moves, Event, Quiet
  <1>1. ControlTypes'
    BY DEF IInv, ControlTypes, Statuses, Roles
  <1>2. DataTypes'
    BY ByteTypes DEF IInv, DataTypes
  <1>3. Held'
    BY DEF IInv, Held, Mastering
  <1>4. Interleaved'
    BY DEF IInv, Held, Mastering, Interleaved, Slaving
  <1>5. Hearing'
    BY DEF IInv, Hearing
  <1>6. Answering'
    BY DEF IInv, Answering
  <1>7. Counted'
    BY DEF IInv, Counted
  <1>8. Filled'
    BY DEF IInv, Filled
  <1>9. Writing'
    BY DEF IInv, Writing, Told
  <1>10. Reading'
    BY DEF IInv, Reading
  <1> QED
    BY <1>1, <1>2, <1>3, <1>4, <1>5, <1>6, <1>7, <1>8, <1>9, <1>10 DEF IInv

LEMMA BusAddressStep ==
  ASSUME IInv, BusAddress,
         UNCHANGED <<twi, master, slave, tx, inbox, call, asked, disturbed>>
  PROVE  IInv'
  <1> USE TwiAssumption DEF TwiAssumption, twi, master, slave, hw, tx, call,
          hist, BusAddress, Bus, Moves, Event, Quiet
  <1>1. ControlTypes'
    BY DEF IInv, ControlTypes, Statuses, Roles
  <1>2. DataTypes'
    BY ByteTypes DEF IInv, DataTypes
  <1>3. Held'
    BY DEF IInv, ControlTypes, Held, Mastering
  <1>4. Interleaved'
    BY DEF IInv, Held, Mastering, Interleaved, Slaving
  <1>5. Hearing'
    BY DEF IInv, Hearing
  <1>6. Answering'
    BY DEF IInv, Answering
  <1>7. Counted'
    BY DEF IInv, Counted
  <1>8. Filled'
    BY DEF IInv, Filled
  <1>9. Writing'
    BY DEF IInv, Held, Mastering, Writing
  <1>10. Reading'
    BY DEF IInv, Reading
  <1> QED
    BY <1>1, <1>2, <1>3, <1>4, <1>5, <1>6, <1>7, <1>8, <1>9, <1>10 DEF IInv

(* The device takes a byte or does not. *)
LEMMA BusSendsStep ==
  ASSUME IInv, BusSends,
         UNCHANGED <<twi, master, slave, tx, inbox, call, asked, disturbed>>
  PROVE  IInv'
  <1> USE TwiAssumption DEF TwiAssumption, twi, master, slave, hw, tx, call,
          hist, BusSends, Bus, Moves, Event, Quiet
  <1>1. ControlTypes'
    BY DEF IInv, ControlTypes, Statuses, Roles
  <1>2. DataTypes'
    <2>1. sent' \in Seq(Bytes)
      <3>1. sent' = sent \/ sent' = Append(sent, twdr)
        OBVIOUS
      <3> HIDE DEF BusSends
      <3> QED
        <4>1. sent \in Seq(Bytes) /\ twdr \in Bytes
          BY DEF IInv, DataTypes
        <4>2. Append(sent, twdr) \in Seq(Bytes)
          BY <4>1, ByteAppend
        <4> QED
          BY <3>1, <4>1, <4>2
    <2>2. UNCHANGED <<mBuffer, mIndex, len, twdr, replied, heard, rx, inbox, asked,
                         txBuffer, txLength, tIndex, tLength>>
      OBVIOUS
    <2> HIDE DEF BusSends
    <2> QED
      BY <2>1, <2>2 DEF IInv, DataTypes
  <1>3. Held'
    BY DEF IInv, Held, Mastering
  <1>4. Interleaved'
    BY DEF IInv, Held, Mastering, Interleaved, Slaving
  <1>5. Hearing'
    BY DEF IInv, Hearing
  <1>6. Answering'
    BY DEF IInv, Answering
  <1>7. Counted'
    BY DEF IInv, Held, Mastering, Counted
  <1>8. Filled'
    BY DEF IInv, Filled
  <1>9. Writing'
    BY DEF IInv, ControlTypes, DataTypes, Held, Mastering, Counted, Filled,
       Writing, Told, Begins
  <1>10. Reading'
    BY DEF IInv, Reading
  <1> QED
    BY <1>1, <1>2, <1>3, <1>4, <1>5, <1>6, <1>7, <1>8, <1>9, <1>10 DEF IInv

(* The device sends a byte. *)
LEMMA BusReceivesStep ==
  ASSUME IInv, BusReceives,
         UNCHANGED <<twi, master, slave, tx, inbox, call, asked, disturbed>>
  PROVE  IInv'
  <1> USE TwiAssumption DEF TwiAssumption, twi, master, slave, hw, tx, call,
          hist, BusReceives, Bus, Moves, Event, Quiet
  <1>1. ControlTypes'
    BY DEF IInv, ControlTypes, Statuses, Roles
  <1>2. DataTypes'
    <2>1. Len(replied) + 1 \in 1 .. BufLen
      BY BufLenType DEF IInv, ControlTypes, DataTypes, Held, Mastering, Counted,
         Reading
    <2>2. twdr' \in Bytes /\ replied' \in Seq(Bytes)
      <3>1. \/ twdr' = twdr /\ replied' = replied
            \/ /\ twdr' = DeviceByte(Len(replied) + 1)
               /\ replied' = Append(replied, twdr')
        OBVIOUS
      <3> HIDE DEF BusReceives
      <3>2. twdr' \in Bytes
        BY <2>1, <3>1, ByteTypes DEF IInv, DataTypes
      <3> QED
        <4>1. replied \in Seq(Bytes)
          BY DEF IInv, DataTypes
        <4>2. Append(replied, twdr') \in Seq(Bytes)
          BY <4>1, <3>2, ByteAppend
        <4> QED
          BY <3>1, <3>2, <4>1, <4>2
    <2>3. UNCHANGED <<mBuffer, mIndex, len, sent, heard, rx, inbox, asked,
                         txBuffer, txLength, tIndex, tLength>>
      OBVIOUS
    <2> HIDE DEF BusReceives
    <2> QED
      BY <2>2, <2>3 DEF IInv, DataTypes
  <1>3. Held'
    BY DEF IInv, Held, Mastering
  <1>4. Interleaved'
    BY DEF IInv, Held, Mastering, Interleaved, Slaving
  <1>5. Hearing'
    BY DEF IInv, Hearing
  <1>6. Answering'
    BY DEF IInv, Answering
  <1>7. Counted'
    BY DEF IInv, Held, Mastering, Counted
  <1>8. Filled'
    BY DEF IInv, Filled
  <1>9. Writing'
    BY DEF IInv, Held, Writing
  <1>10. Reading'
    <2>1. CASE status' = "ARB_LOST"
      BY <2>1 DEF IInv, ControlTypes, DataTypes, Held, Mastering, Counted, Reading
    <2>2. CASE status' # "ARB_LOST"
      <3>1. /\ op = "MRX" /\ pc = "run" /\ role = "mr" /\ status = "none"
        BY DEF IInv, ControlTypes, Held, Mastering
      <3>2. /\ \A k \in 0 .. mIndex - 1 : mBuffer[k] = replied[k + 1]
            /\ Len(replied) = mIndex /\ mIndex <= len - 1 /\ ea = (mIndex < len - 1)
        BY <3>1 DEF IInv, Reading
      <3>3. /\ replied' = Append(replied, twdr')
            /\ status' = IF ea THEN "MR_DATA_ACK" ELSE "MR_DATA_NACK"
            /\ UNCHANGED <<op, pc, role, mIndex, mBuffer, len, ea>>
        BY <2>2
      <3>4. replied \in Seq(Bytes) /\ mIndex \in Nat /\ len \in Nat
        BY DEF IInv, DataTypes
      <3> HIDE DEF BusReceives
      <3>5. /\ Len(replied') = mIndex + 1 /\ twdr' = replied'[mIndex + 1]
            /\ \A k \in 1 .. mIndex : replied'[k] = replied[k]
        BY <3>2, <3>3, <3>4
      <3>6. \A k \in 0 .. mIndex - 1 : mBuffer[k] = replied'[k + 1]
        BY <3>2, <3>4, <3>5
      <3> QED
        <4>1. CASE ea
          BY <4>1, <3>1, <3>2, <3>3, <3>5, <3>6 DEF Reading
        <4>2. CASE ~ ea
          <5>1. ~ (mIndex < len - 1)
            BY <4>2, <3>2, Zenon
          <5>2. mIndex = len - 1
            BY <5>1, <3>2, <3>4
          <5> QED
            BY <4>2, <5>2, <3>1, <3>2, <3>3, <3>5, <3>6 DEF Reading
        <4> QED
          BY <4>1, <4>2
    <2> QED
      BY <2>1, <2>2
  <1> QED
    BY <1>1, <1>2, <1>3, <1>4, <1>5, <1>6, <1>7, <1>8, <1>9, <1>10 DEF IInv

(* Another master sends a byte. *)
LEMMA BusHearsStep ==
  ASSUME IInv, BusHears,
         UNCHANGED <<twi, master, slave, tx, inbox, call, asked, disturbed>>
  PROVE  IInv'
  <1> USE TwiAssumption DEF TwiAssumption, twi, master, slave, hw, tx, call,
          hist, BusHears, Bus, Moves, Event, Quiet
  <1>1. ControlTypes'
    BY DEF IInv, ControlTypes, Statuses, Roles
  <1>2. DataTypes'
    <2>1. ea => Len(heard) + 1 \in 1 .. BufLen + 1
      BY BufLenType DEF IInv, DataTypes, Hearing
    <2>2. twdr' \in Bytes /\ heard' \in Seq(Bytes)
      <3>1. \/ twdr' = twdr /\ heard' = heard
            \/ /\ ea /\ twdr' = OtherByte(Len(heard) + 1)
               /\ heard' = Append(heard, twdr')
        OBVIOUS
      <3> HIDE DEF BusHears
      <3>2. twdr' \in Bytes
        BY <2>1, <3>1, ByteTypes DEF IInv, DataTypes
      <3> QED
        <4>1. heard \in Seq(Bytes)
          BY DEF IInv, DataTypes
        <4>2. Append(heard, twdr') \in Seq(Bytes)
          BY <4>1, <3>2, ByteAppend
        <4> QED
          BY <3>1, <3>2, <4>1, <4>2
    <2>3. UNCHANGED <<mBuffer, mIndex, len, sent, replied, rx, inbox, asked,
                         txBuffer, txLength, tIndex, tLength>>
      OBVIOUS
    <2> HIDE DEF BusHears
    <2> QED
      BY <2>2, <2>3 DEF IInv, DataTypes
  <1>3. Held'
    BY DEF IInv, Held, Mastering
  <1>4. Interleaved'
    BY DEF IInv, Interleaved, InCall, Slaving, Unserved, AsSlave
  <1>5. Hearing'
    <2>1. CASE status' = "SR_DATA_ACK"
      BY <2>1 DEF IInv, ControlTypes, DataTypes, Interleaved, Slaving, AsSlave,
         Unserved, Hearing, Begins, Least, Statuses, Roles
    <2>2. CASE status' # "SR_DATA_ACK"
      BY <2>2 DEF IInv, ControlTypes, DataTypes, Interleaved, Slaving, AsSlave,
         Unserved, Hearing, Begins, Least, Statuses, Roles
    <2> QED
      BY <2>1, <2>2
  <1>6. Answering'
    BY DEF IInv, Answering
  <1>7. Counted'
    BY DEF IInv, Counted
  <1>8. Filled'
    BY DEF IInv, Filled
  <1>9. Writing'
    BY DEF IInv, Writing, Interleaved, InCall, Slaving, Unserved
  <1>10. Reading'
    BY DEF IInv, Reading
  <1> QED
    BY <1>1, <1>2, <1>3, <1>4, <1>5, <1>6, <1>7, <1>8, <1>9, <1>10 DEF IInv

LEMMA BusAsksStep ==
  ASSUME IInv, BusAsks,
         UNCHANGED <<twi, master, slave, tx, inbox, call, asked, disturbed>>
  PROVE  IInv'
  <1> USE TwiAssumption DEF TwiAssumption, twi, master, slave, hw, tx, call,
          hist, BusAsks, Bus, Moves, Event, Quiet
  <1>1. ControlTypes'
    BY DEF IInv, ControlTypes, Statuses, Roles
  <1>2. DataTypes'
    BY ByteTypes DEF IInv, DataTypes
  <1>3. Held'
    BY DEF IInv, Held, Mastering
  <1>4. Interleaved'
    BY DEF IInv, Interleaved, InCall, Slaving, Unserved, AsSlave
  <1>5. Hearing'
    BY DEF IInv, Hearing
  <1>6. Answering'
    BY DEF IInv, Answering
  <1>7. Counted'
    BY DEF IInv, Counted
  <1>8. Filled'
    BY DEF IInv, Filled
  <1>9. Writing'
    BY DEF IInv, Writing, Interleaved, InCall, Slaving, Unserved
  <1>10. Reading'
    BY DEF IInv, Reading
  <1> QED
    BY <1>1, <1>2, <1>3, <1>4, <1>5, <1>6, <1>7, <1>8, <1>9, <1>10 DEF IInv

LEMMA BusFailsStep ==
  ASSUME IInv, BusFails,
         UNCHANGED <<twi, master, slave, tx, inbox, call, asked, disturbed>>
  PROVE  IInv'
  <1> USE TwiAssumption DEF TwiAssumption, twi, master, slave, hw, tx, call,
          hist, BusFails, Bus, Moves, Event, Quiet
  <1>1. ControlTypes'
    BY DEF IInv, ControlTypes, Statuses, Roles
  <1>2. DataTypes'
    BY ByteTypes DEF IInv, DataTypes
  <1>3. Held'
    BY DEF IInv, Held, Mastering
  <1>4. Interleaved'
    BY DEF IInv, Held, Mastering, Interleaved, InCall, Slaving, Unserved, AsSlave
  <1>5. Hearing'
    BY DEF IInv, Hearing
  <1>6. Answering'
    BY DEF IInv, Answering
  <1>7. Counted'
    BY DEF IInv, Counted
  <1>8. Filled'
    BY DEF IInv, Filled
  <1>9. Writing'
    BY DEF IInv, Held, Mastering, Writing, Interleaved, InCall, Slaving, Unserved
  <1>10. Reading'
    BY DEF IInv, Reading
  <1> QED
    BY <1>1, <1>2, <1>3, <1>4, <1>5, <1>6, <1>7, <1>8, <1>9, <1>10 DEF IInv

(* Another master addresses us: its transfer begins with nothing heard. *)
LEMMA AddressedStep ==
  ASSUME IInv, NEW r \in {"sr", "st"}, Addressed(r)
  PROVE  IInv'
  <1> USE TwiAssumption DEF TwiAssumption, twi, master, slave, hw, tx, call,
          hist, Addressed, Moves
  <1>1. ControlTypes'
    BY DEF IInv, ControlTypes, Statuses, Roles
  <1>2. DataTypes'
    BY ByteTypes DEF IInv, DataTypes
  <1>3. Held'
    BY DEF IInv, Held, Mastering
  <1>4. Interleaved'
    BY DEF IInv, Interleaved, Interrupted, InCall, Slaving, Unserved
  <1>5. Hearing'
    BY DEF IInv, Hearing
  <1>6. Answering'
    BY DEF IInv, Answering
  <1>7. Counted'
    BY DEF IInv, Counted
  <1>8. Filled'
    BY DEF IInv, Filled
  <1>9. Writing'
    BY DEF IInv, Writing, Told
  <1>10. Reading'
    BY DEF IInv, Reading
  <1> QED
    BY <1>1, <1>2, <1>3, <1>4, <1>5, <1>6, <1>7, <1>8, <1>9, <1>10 DEF IInv
-----------------------------------------------------------------------------
(* In the state after begin(address). *)
LEMMA Starts == Init => IInv
  <1> SUFFICES ASSUME Init PROVE IInv
    OBVIOUS
  <1> USE BufLenType, ByteTypes DEF Init
  <1>1. ControlTypes
    BY DEF ControlTypes, Statuses, Roles
  <1>2. DataTypes
    <2>1. mBuffer \in [Slots -> Bytes] /\ txBuffer \in [1 .. BufLen -> Bytes]
      OBVIOUS
    <2>2. <<>> \in Seq(Bytes) /\ Len(<<>>) = 0
      OBVIOUS
    <2> QED
      BY <2>1, <2>2 DEF DataTypes
  <1>3. Held /\ Interleaved /\ Hearing /\ Answering
    BY DEF Held, Mastering, Interleaved, Slaving, InCall, Hearing, Answering
  <1>4. Counted /\ Filled /\ Writing /\ Reading
    BY DEF Counted, Filled, Writing, Reading
  <1> QED
    BY <1>1, <1>2, <1>3, <1>4 DEF IInv

LEMMA StepKeeps == IInv /\ [Next]_vars => IInv'
  <1> SUFFICES ASSUME IInv, [Next]_vars PROVE IInv'
    OBVIOUS
  <1>1. CASE UNCHANGED vars
    <2>1. UNCHANGED <<state, inRepStart, error, mBuffer, mIndex, rx, tIndex,
                      tLength, role, status, ea, ie, twdr, txBuffer, txLength,
                      transmitting, inbox, pc, op, len, stop, asked, sent,
                      replied, heard, disturbed>>
      BY <1>1 DEF vars, twi, master, slave, hw, tx, call, hist
    <2>2. ControlTypes' /\ DataTypes'
      BY <2>1 DEF IInv, ControlTypes, DataTypes
    <2>3. Held' /\ Interleaved' /\ Hearing' /\ Answering'
      BY <2>1 DEF IInv, Held, Mastering, Interleaved, Interrupted, InCall, Slaving,
                  Unserved, AsSlave, Hearing, Answering, Begins
    <2>4. Counted' /\ Filled'
      BY <2>1 DEF IInv, Counted, Filled, Begins
    <2>5. Writing' /\ Reading'
      BY <2>1 DEF IInv, Writing, Reading, Told, Begins
    <2> QED
      BY <2>2, <2>3, <2>4, <2>5 DEF IInv
  <1>2. CASE Calls
    <2>1. CASE BeginTransmission \/ Write \/ Read
      BY <2>1, BeginTransmissionStep, WriteStep, ReadStep
    <2>2. ASSUME NEW s \in BOOLEAN, EndTransmission(s) PROVE IInv'
      BY <2>2, EndTransmissionStep
    <2>3. ASSUME NEW s \in BOOLEAN, NEW n \in 1 .. BufLen + 1, RequestFrom(n, s)
          PROVE  IInv'
      BY <2>3, RequestFromStep
    <2> QED
      BY <1>2, <2>1, <2>2, <2>3 DEF Calls
  <1>3. CASE Sketch
    BY <1>3, ReadyStep, ClaimStep, StartStep, ReturnStep DEF Sketch
  <1>4. CASE Handler
    <2>1. CASE IsrStart \/ IsrTransmit \/ IsrReceive \/ IsrReceiveLast
      BY <2>1, IsrStartStep, IsrTransmitStep, IsrReceiveStep, IsrReceiveLastStep
    <2>2. ASSUME NEW s \in {"MT_SLA_NACK", "MT_DATA_NACK", "ARB_LOST",
                            "MR_SLA_NACK", "BUS_ERROR"}, IsrFailed(s)
          PROVE  IInv'
      BY <2>2, IsrFailedStep
    <2>3. CASE IsrSlaveReceive \/ IsrSlaveStop \/ IsrSlaveRequest
               \/ IsrSlaveTransmit
      BY <2>3, IsrSlaveReceiveStep, IsrSlaveStopStep, IsrSlaveRequestStep,
         IsrSlaveTransmitStep
    <2> QED
      BY <1>4, <2>1, <2>2, <2>3 DEF Handler
  <1>5. CASE Bus
    BY <1>5, BusStartsStep, BusAddressStep, BusSendsStep, BusReceivesStep,
       BusHearsStep, BusAsksStep, BusFailsStep DEF Bus
  <1>6. ASSUME NEW r \in {"sr", "st"}, Addressed(r) PROVE IInv'
    BY <1>6, AddressedStep
  <1> QED
    BY <1>1, <1>2, <1>3, <1>4, <1>5, <1>6 DEF Next

(* The call and the bus agree in every state.                               *)
THEOREM Inductive == Spec => []IInv
  <1>1. Init => IInv
    BY Starts
  <1>2. IInv /\ [Next]_vars => IInv'
    BY StepKeeps
  <1> QED
    BY <1>1, <1>2, PTL DEF Spec

-----------------------------------------------------------------------------
(* The properties.                                                         *)

LEMMA MessageType ==
  \A s \in Seq(Bytes) : Len(s) <= BufLen => s \in Messages
  <1> TAKE s \in Seq(Bytes)
  <1> HAVE Len(s) <= BufLen
  <1>1. Len(s) \in 0 .. BufLen /\ s \in [1 .. Len(s) -> Bytes]
    BY BufLenType, LenProperties
  <1> QED
    BY <1>1 DEF Messages

LEMMA BeginsIsSubSeq ==
  ASSUME NEW s \in Seq(Bytes), NEW t \in Seq(Bytes), NEW n \in 0 .. Len(t),
         Begins(s, n, t)
  PROVE  s = SubSeq(t, 1, n)
  <1>1. \A k \in 1 .. n : t[k] \in Bytes
    BY ElementOfSeq
  <1>2. /\ SubSeq(t, 1, n) \in Seq(Bytes) /\ Len(SubSeq(t, 1, n)) = n
        /\ \A k \in 1 .. n : SubSeq(t, 1, n)[k] = t[k]
    BY <1>1, SubSeqProperties
  <1>3. Len(s) = n /\ \A k \in 1 .. n : s[k] = t[k]
    BY DEF Begins
  <1> QED
    BY <1>2, <1>3, SeqEqual

(* No index leaves its buffer, neither twi's three nor TwoWire's two.       *)
THEOREM TypeCorrect == Spec => []TypeOK
  <1>1. ASSUME IInv PROVE TypeOK
    <2>1. ControlTypes /\ DataTypes /\ mIndex \in 0 .. BufLen
      BY <1>1, BufLenType DEF IInv, DataTypes, Counted
    <2>2. rx \in Messages /\ inbox \in Messages /\ asked \in Messages
      BY <2>1, MessageType DEF DataTypes
    <2>3. /\ {mIndex, tIndex, tLength, len, txLength} \subseteq 0 .. BufLen
          /\ {rx, inbox, asked} \subseteq Messages
      BY <2>1, <2>2 DEF DataTypes
    <2> QED
      BY <2>1, <2>3 DEF DataTypes, ControlTypes, TypeOK
  <1> QED
    BY <1>1, Inductive, PTL

(* Between calls the bus is held exactly after a repeated start.            *)
THEOREM BusReleasedCorrect == Spec => []BusReleased
  <1>1. IInv => BusReleased
    BY DEF IInv, Held, BusReleased, Mastering
  <1> QED
    BY <1>1, Inductive, PTL

(* A call returns in one way only: twi_state is no longer what it set.      *)
LEMMA OnlyReturn ==
  ASSUME [Next]_vars, pc = "run", pc' = "idle"
  PROVE  Return
  <1>1. pc' # pc
    OBVIOUS
  <1>2. ~ UNCHANGED vars /\ ~ Handler /\ ~ Bus
    BY <1>1 DEF vars, call, Handler, IsrStart, IsrTransmit, IsrReceive,
       IsrReceiveLast,
       IsrFailed, IsrSlaveReceive, IsrSlaveStop, IsrSlaveRequest, IsrSlaveTransmit,
       Bus
  <1>3. ~ Calls
    BY DEF Calls, BeginTransmission, Write, Read, EndTransmission, RequestFrom, Call
  <1>4. ~ \E r \in {"sr", "st"} : Addressed(r)
    BY <1>1 DEF Addressed, call
  <1>5. ~ Ready /\ ~ Claim /\ ~ Start
    BY DEF Ready, Claim, Start
  <1> QED
    BY <1>2, <1>3, <1>4, <1>5 DEF Next, Sketch

(* endTransmission() returns 0, 2 and 3 exactly for what these say of the   *)
(* bytes on the bus, whatever it does meanwhile but for another master.     *)
THEOREM WriteTruthfulCorrect == Spec => WriteTruthful
  <1>1. ASSUME IInv, [Next]_vars,
         pc = "run" /\ pc' = "idle" /\ op = "MTX" /\ ~ disturbed
        PROVE  /\ WriteResult = 0 => sent = asked
               /\ WriteResult = 2 => sent = <<>>
               /\ WriteResult = 3 => IsStrictPrefix(sent, asked)
    <2>1. state # op
      BY <1>1, OnlyReturn DEF Return
    <2>2. Begins(sent, Len(sent), asked) /\ Told
      BY <1>1, <2>1 DEF IInv, Writing
    <2>3. sent \in Seq(Bytes) /\ asked \in Seq(Bytes)
      BY <1>1 DEF IInv, DataTypes
    <2>4. Len(sent) \in Nat /\ Len(asked) \in Nat
      BY <2>3
    <2>5. WriteResult = 0 => sent = asked
      <3> HAVE WriteResult = 0
      <3>1. error = "none"
        BY DEF WriteResult
      <3>2. Len(sent) = Len(asked)
        BY <2>2, <3>1 DEF Told
      <3>3. sent = SubSeq(asked, 1, Len(asked))
        BY <2>2, <2>3, <2>4, <3>2, BeginsIsSubSeq
      <3> QED
        BY <2>3, <3>3, SubSeqFull
    <2>6. WriteResult = 2 => sent = <<>>
      <3> HAVE WriteResult = 2
      <3>1. error = "MT_SLA_NACK"
        BY DEF WriteResult
      <3> QED
        BY <2>2, <2>3, <3>1, EmptySeq DEF Told
    <2>7. WriteResult = 3 => IsStrictPrefix(sent, asked)
      <3> HAVE WriteResult = 3
      <3>1. error = "MT_DATA_NACK"
        BY DEF WriteResult
      <3>2. Len(sent) < Len(asked)
        BY <2>2, <3>1 DEF Told
      <3>3. sent = SubSeq(asked, 1, Len(sent))
        BY <2>2, <2>3, <2>4, <3>2, BeginsIsSubSeq
      <3>4. SubSeq(sent, 1, Len(sent)) = sent
        BY <2>3, SubSeqFull
      <3>5. sent # asked
        BY <2>4, <3>2
      <3> QED
        BY <2>4, <3>2, <3>3, <3>4, <3>5 DEF IsStrictPrefix, IsPrefix
    <2> QED
      BY <2>5, <2>6, <2>7
  <1> QED
    BY <1>1, Inductive, PTL DEF Spec, WriteTruthful

(* requestFrom() hands out what the device has sent, all of it and no other *)
(* byte, also if the transfer failed on the way.                           *)
THEOREM ReadTruthfulCorrect == Spec => ReadTruthful
  <1>1. ASSUME IInv, [Next]_vars, pc = "run" /\ pc' = "idle" /\ op = "MRX"
        PROVE  inbox' = replied
    <2>1. state # op /\ inbox' = Received
      BY <1>1, OnlyReturn DEF Return
    <2>2. /\ Received \in Seq(Bytes) /\ Len(Received) = mIndex
          /\ \A k \in 1 .. mIndex : Received[k] = mBuffer[k - 1]
      BY <1>1, ReceivedType DEF IInv, Counted
    <2>3. status \notin {"MR_DATA_ACK", "MR_DATA_NACK"}
      BY <1>1, <2>1 DEF IInv, ControlTypes, Held, Mastering, Roles, Statuses
    <2>4. /\ Len(replied) = mIndex
          /\ \A k \in 0 .. mIndex - 1 : mBuffer[k] = replied[k + 1]
      BY <1>1, <2>3 DEF IInv, Reading
    <2>5. replied \in Seq(Bytes) /\ mIndex \in Nat
      BY <1>1 DEF IInv, DataTypes
    <2>6. \A k \in 1 .. mIndex : Received[k] = replied[k]
      <3> SUFFICES ASSUME NEW k \in 1 .. mIndex PROVE Received[k] = replied[k]
        OBVIOUS
      <3>1. k - 1 \in 0 .. mIndex - 1 /\ (k - 1) + 1 = k
        BY <2>5
      <3> QED
        BY <2>2, <2>4, <3>1
    <2>7. Received = replied
      BY <2>2, <2>4, <2>5, <2>6, SeqEqual
    <2> QED
      BY <2>1, <2>7
  <1> QED
    BY <1>1, Inductive, PTL DEF Spec, ReadTruthful

(* A message reaches the sketch whole or not at all, and never takes the     *)
(* place of bytes it has not read.                                         *)
THEOREM MessageWholeCorrect == Spec => MessageWhole
  <1>1. ASSUME IInv, [Next]_vars,
               status = "SR_STOP" /\ status' = "none" /\ inbox' # inbox
        PROVE  /\ inbox = <<>>
               /\ inbox' = SubSeq(heard, 1, Least(Len(heard), BufLen))
    <2>1. IsrSlaveStop
      <3>1. ~ UNCHANGED vars /\ ~ Calls /\ ~ Sketch
        BY <1>1 DEF vars, hw, Calls, BeginTransmission, Write, Read,
           EndTransmission,
           RequestFrom, Call, Sketch, Ready, Claim, Start, Return
      <3>2. ~ Bus /\ ~ \E r \in {"sr", "st"} : Addressed(r)
        BY <1>1 DEF Bus, Addressed
      <3>3. Handler => IsrSlaveStop
        BY <1>1 DEF Handler, IsrStart, IsrTransmit, IsrReceive, IsrReceiveLast,
           IsrFailed,
           IsrSlaveReceive, IsrSlaveRequest, IsrSlaveTransmit
      <3> QED
        BY <1>1, <3>1, <3>2, <3>3 DEF Next
    <2>2. inbox = <<>> /\ inbox' = rx
      BY <1>1, <2>1 DEF IsrSlaveStop, onReceiveService
    <2>3. Begins(rx, Least(Len(heard), BufLen), heard)
      BY <1>1 DEF IInv, ControlTypes, Hearing, Roles, Statuses
    <2>4. /\ rx \in Seq(Bytes) /\ heard \in Seq(Bytes)
          /\ Least(Len(heard), BufLen) \in 0 .. Len(heard)
      BY <1>1, BufLenType DEF IInv, DataTypes, Least
    <2> QED
      BY <2>2, <2>3, <2>4, BeginsIsSubSeq
  <1> QED
    BY <1>1, Inductive, PTL DEF Spec, MessageWhole
=============================================================================
