---------------------------- MODULE ServoProofs ----------------------------
(***************************************************************************)
(* Safety of Servo for any number of servos, any widths, any refresh       *)
(* interval and any delays that the assumptions allow; and of ServoAngle,   *)
(* the arithmetic of one object, for any limits and any values.            *)
(***************************************************************************)
EXTENDS Servo, ServoAngle, TLAPS

(* When the pulses before that of channel c have ended, at the latest.      *)
Base(c) == c * (MaxWidth + MaxLate)

(* The timer and the channel agree, unless attach() is resetting them.      *)
Regular == framed \/ pc # "clear"

(* No interrupt in the middle of a store; no servo while the timer restarts. *)
Quiet ==
  /\ pc = "store" => isr = "off" /\ ~ irqOn /\ value \in Widths
  /\ pc = "clear" => \A c \in Servos : ~ active[c]

(* The bytes of ticks are those of one value, except in that store.         *)
Untorn ==
  \A c \in Servos :
    IF pc = "store" /\ c = servo
      THEN ticks[c][1] = Bytes(value)[1]
      ELSE Number(ticks[c]) = wanted[c]

Place ==
  /\ isr = "off" => channel < ServoCount
  /\ isr = "load" => channel >= 0

(* Within the handler the old value of OCRA does not match again.           *)
Loading ==
  isr = "load" =>
    /\ tcnt = read + late /\ late <= IsrLag /\ read <= Base(channel)
    /\ Regular => ~ match /\ (ocr <= read \/ ocr > read + IsrLag)

(* Outside it OCRA is within the turn of the channel, ... *)
Target ==
  isr = "off" =>
    /\ channel >= 0 => ocr <= Base(channel) + MaxWidth
    /\ channel < 0 => /\ ocr > IsrLag /\ REFRESH_INTERVAL <= ocr
                      /\ ocr + MaxLate <= FrameMax

(* ... a match is recent, and in a frame the next one is still to come.     *)
Matched ==
  isr = "off" =>
    /\ match => /\ late <= MaxLate
                /\ Regular => tcnt = ocr + late
                /\ channel >= 0 => tcnt <= Base(channel) + MaxWidth + late
    /\ framed /\ ~ match => tcnt < ocr

Framing == framed => frame = tcnt

(* The age of the pulse and what is left of it make its width.              *)
Timing ==
  \A c \in Servos \ stale : high[c] =>
    /\ due \in Widths
    /\ IF match
         THEN due - IsrLag <= age - late /\ age - late <= due
         ELSE /\ tcnt < ocr
              /\ due - IsrLag <= age + ocr - tcnt /\ age + ocr - tcnt <= due

IInv ==
  /\ TypeOK /\ OnePulse /\ Quiet /\ Untorn /\ Place
  /\ Loading /\ Target /\ Matched /\ Framing /\ Timing

-----------------------------------------------------------------------------
(* What the assumptions say of the constants.                               *)
LEMMA Numbers ==
  /\ ServoCount \in Nat \ {0} /\ REFRESH_INTERVAL \in Nat \ {0}
  /\ MaxLate \in Nat /\ IsrLag \in Nat /\ Margin \in Nat /\ IsrLag < Margin
  /\ \A w \in Widths : w \in Nat /\ w > IsrLag + MaxLate /\ w <= MaxWidth
  /\ MaxWidth \in Widths /\ MaxWidth \in Nat
  <1>1. PICK largest \in Widths : \A v \in Widths : v <= largest
    BY ServoAssumption
  <1>2. MaxWidth \in Widths /\ \A v \in Widths : v <= MaxWidth
    BY <1>1 DEF MaxWidth
  <1>3. Widths \subseteq Nat
    <2>1. \A w \in Widths : w \in 0 .. ByteSize * ByteSize - 1
      BY ServoAssumption
    <2> QED
      BY <2>1
  <1> QED
    BY <1>2, <1>3, ServoAssumption

LEMMA BaseIs ==
  /\ \A c \in Nat : Base(c) \in Nat /\ Base(c + 1) = Base(c) + MaxWidth + MaxLate
  /\ \A c, d \in Nat : c <= d => Base(c) <= Base(d)
  /\ Base(0) = 0
  <1> DEFINE D == MaxWidth + MaxLate
  <1>1. D \in Nat
    BY Numbers
  <1>2. \A c : Base(c) = c * D
    BY DEF Base
  <1>3. D = MaxWidth + MaxLate
    OBVIOUS
  <1> HIDE DEF D
  <1>4. \A c \in Nat : c * D \in Nat /\ (c + 1) * D = c * D + D
    BY <1>1
  <1>5. \A c, d \in Nat : c <= d => c * D <= d * D
    <2> TAKE c, d \in Nat
    <2> HAVE c <= d
    <2>1. d * D = c * D + (d - c) * D
      BY <1>1
    <2>2. (d - c) * D \in Nat
      BY <1>1
    <2> QED
      BY <1>1, <2>1, <2>2
  <1>6. 0 * D = 0
    BY <1>1
  <1>7. \A c \in Nat : Base(c) \in Nat /\ Base(c + 1) = Base(c) + D
    BY <1>1, <1>2, <1>4
  <1>8. ASSUME NEW c \in Nat
        PROVE  Base(c) \in Nat /\ Base(c + 1) = Base(c) + MaxWidth + MaxLate
    BY <1>1, <1>3, <1>7, Numbers
  <1>9. \A c, d \in Nat : c <= d => Base(c) <= Base(d)
    BY <1>2, <1>5
  <1>10. Base(0) = 0
    BY <1>2, <1>6
  <1> QED
    BY <1>8, <1>9, <1>10

(* All the turns, and the rest of the refresh interval, fit the timer.      *)
LEMMA Fits ==
  /\ FrameMax \in Nat /\ Wrap \in Nat /\ FrameMax < Wrap
  /\ REFRESH_INTERVAL + MaxLate <= FrameMax
  /\ \A c \in 0 .. ServoCount :
       Base(c) \in Nat /\ Base(c) + IsrLag + Margin + MaxLate <= FrameMax
  /\ \A c \in 0 .. ServoCount - 1 :
       /\ Base(c + 1) = Base(c) + MaxWidth + MaxLate
       /\ Base(c) + MaxWidth + MaxLate + IsrLag + Margin + MaxLate <= FrameMax
  <1>1. Base(ServoCount) = ServoCount * (MaxWidth + MaxLate)
    BY DEF Base
  <1>2. /\ \A c \in 0 .. ServoCount : Base(c) \in Nat /\ Base(c) <= Base(ServoCount)
        /\ \A c \in 0 .. ServoCount - 1 :
             Base(c + 1) = Base(c) + MaxWidth + MaxLate
        /\ Base(ServoCount) \in Nat
    <2>1. /\ \A c \in 0 .. ServoCount : c \in Nat /\ c <= ServoCount
          /\ \A c \in 0 .. ServoCount - 1 : c \in Nat
          /\ ServoCount \in Nat
      BY Numbers
    <2> QED
      BY <2>1, BaseIs
  <1>3. /\ FrameMax \in Nat
        /\ Base(ServoCount) + IsrLag + Margin + MaxLate <= FrameMax
        /\ REFRESH_INTERVAL + MaxLate <= FrameMax
    BY <1>1, <1>2, Numbers DEF FrameMax
  <1>4. ASSUME NEW c \in 0 .. ServoCount - 1
        PROVE  Base(c) + MaxWidth + MaxLate + IsrLag + Margin + MaxLate <= FrameMax
    <2>1. c + 1 \in 0 .. ServoCount /\ c \in 0 .. ServoCount
      BY Numbers
    <2>2. Base(c + 1) = Base(c) + MaxWidth + MaxLate /\ Base(c) \in Nat
      BY <1>2, <2>1
    <2>3. Base(c + 1) <= Base(ServoCount)
      BY <1>2, <2>1
    <2> QED
      BY <1>2, <1>3, <2>2, <2>3, Numbers
  <1>5. ASSUME NEW c \in 0 .. ServoCount
        PROVE  Base(c) + IsrLag + Margin + MaxLate <= FrameMax
    BY <1>2, <1>3, Numbers
  <1> QED
    BY <1>2, <1>3, <1>4, <1>5, WrapAssumption

(* The timer counts modulo Wrap.                                            *)
LEMMA Modulo ==
  ASSUME NEW n \in Nat
  PROVE  /\ n % Wrap \in 0 .. Wrap - 1 /\ n % Wrap <= n
         /\ n < Wrap => n % Wrap = n
  <1>1. Wrap \in Nat \ {0}
    BY Fits
  <1>2. n = (n \div Wrap) * Wrap + (n % Wrap) /\ n % Wrap \in 0 .. Wrap - 1
        /\ n \div Wrap \in Nat
    BY <1>1
  <1>3. (n \div Wrap) * Wrap \in Nat
    BY <1>1, <1>2
  <1>4. ASSUME n < Wrap PROVE n % Wrap = n
    BY <1>1, <1>4
  <1> QED
    BY <1>2, <1>3, <1>4

(* A width is stored in two bytes and read from them.                       *)
LEMMA BytesOf ==
  ASSUME NEW w \in Widths \union {0}
  PROVE  /\ Bytes(w) \in (0 .. ByteSize - 1) \X (0 .. ByteSize - 1)
         /\ Number(Bytes(w)) = w
  <1> DEFINE q == w \div ByteSize
             r == w % ByteSize
  <1>1. w \in 0 .. ByteSize * ByteSize - 1 /\ ByteSize \in Nat \ {0}
    <2>1. 0 < ByteSize * ByteSize
      BY ServoAssumption
    <2> QED
      BY <2>1, ServoAssumption
  <1>2. w = q * ByteSize + r /\ r \in 0 .. ByteSize - 1 /\ q \in Nat
    BY <1>1
  <1>3. Bytes(w) = <<q, r>>
    BY DEF Bytes
  <1> HIDE DEF q, r
  <1>4. q < ByteSize
    <2>1. SUFFICES ASSUME ByteSize <= q PROVE FALSE
      BY <1>1, <1>2
    <2>2. ByteSize * ByteSize <= q * ByteSize
      BY <1>1, <1>2, <2>1
    <2> QED
      BY <1>1, <1>2, <2>2
  <1> QED
    BY <1>1, <1>2, <1>3, <1>4 DEF Number

(* The numbers in a state.                                                  *)
LEMMA WidthValues ==
  ASSUME TypeOK
  PROVE  /\ tcnt \in Nat /\ tcnt < Wrap /\ ocr \in Nat /\ ocr < Wrap
         /\ read \in Nat /\ read < Wrap /\ late \in Nat /\ age \in Nat
         /\ age <= Wrap /\ frame \in Nat /\ frame <= Wrap /\ due \in Nat
         /\ channel \in -1 .. ServoCount /\ servo \in Servos
  BY Fits DEF TypeOK

(* With interrupts in time, a turn ends before the next.                    *)
LEMMA Turns ==
  ASSUME TypeOK, Place
  PROVE  /\ isr = "off" /\ channel >= 0 =>
              /\ Base(channel) \in Nat
              /\ Base(channel + 1) = Base(channel) + MaxWidth + MaxLate
              /\ Base(channel) + MaxWidth + MaxLate < Wrap
              /\ Base(channel) + MaxWidth + MaxLate <= FrameMax
         /\ isr = "load" => /\ Base(channel) \in Nat
                            /\ Base(channel) + IsrLag + Margin + MaxLate <= FrameMax
  <1>1. ASSUME isr = "off", channel >= 0 PROVE channel \in 0 .. ServoCount - 1
    BY <1>1, Numbers DEF TypeOK, Place
  <1>2. ASSUME isr = "load" PROVE channel \in 0 .. ServoCount
    BY <1>2, Numbers DEF TypeOK, Place
  <1>3. ASSUME isr = "off", channel >= 0
        PROVE  /\ Base(channel) \in Nat
               /\ Base(channel + 1) = Base(channel) + MaxWidth + MaxLate
               /\ Base(channel) + MaxWidth + MaxLate < Wrap
               /\ Base(channel) + MaxWidth + MaxLate <= FrameMax
    <2>1. channel \in 0 .. ServoCount - 1 /\ channel \in 0 .. ServoCount
      BY <1>1, <1>3, Numbers
    <2>2. /\ Base(channel) \in Nat
          /\ Base(channel + 1) = Base(channel) + MaxWidth + MaxLate
          /\ Base(channel) + MaxWidth + MaxLate + IsrLag + Margin + MaxLate <= FrameMax
      BY <2>1, Fits
    <2>3. FrameMax \in Nat /\ Wrap \in Nat /\ FrameMax < Wrap
      BY Fits
    <2> QED
      BY <2>2, <2>3, Numbers
  <1> QED
    BY <1>2, <1>3, Fits

(* A match is served before the timer wraps.                                *)
LEMMA Due ==
  ASSUME TypeOK, Place, Target, isr = "off"
  PROVE  ocr + MaxLate <= FrameMax /\ ocr + MaxLate < Wrap
  <1>1. ocr \in Nat /\ MaxLate \in Nat /\ MaxWidth \in Nat /\ channel \in Int
    BY WidthValues, Numbers
  <1>2. FrameMax \in Nat /\ Wrap \in Nat /\ FrameMax < Wrap
    BY Fits
  <1>3. CASE channel >= 0
    <2>1. /\ Base(channel) \in Nat /\ Base(channel) + MaxWidth + MaxLate <= FrameMax
          /\ ocr <= Base(channel) + MaxWidth
      BY <1>3, Turns DEF Target
    <2> QED
      BY <1>1, <1>2, <2>1
  <1>4. CASE channel < 0
    BY <1>1, <1>2, <1>4 DEF Target
  <1> QED
    BY <1>1, <1>3, <1>4

-----------------------------------------------------------------------------
LEMMA InitIInv == Init => IInv
  <1> SUFFICES ASSUME Init PROVE IInv
    OBVIOUS
  <1>1. /\ Bytes(MaxWidth) \in (0 .. ByteSize - 1) \X (0 .. ByteSize - 1)
        /\ Number(Bytes(MaxWidth)) = MaxWidth /\ MaxWidth \in Widths
    BY Numbers, BytesOf
  <1>2. /\ 0 \in 0 .. Wrap - 1 /\ 0 \in 0 .. Wrap /\ 0 \in Servos
        /\ 0 \in -1 .. ServoCount /\ 0 < ServoCount
    BY Numbers, Fits DEF Servos
  <1>3. TypeOK
    BY <1>1, <1>2 DEF Init, TypeOK
  <1>4. 0 <= Base(0) + MaxWidth
    <2>1. Base(0) = 0
      BY BaseIs
    <2> QED
      BY <2>1, Numbers
  <1>5. Target
    BY <1>4 DEF Init, Target
  <1>6. Untorn
    BY <1>1 DEF Init, Untorn
  <1> QED
    BY <1>2, <1>3, <1>5, <1>6
       DEF Init, IInv, OnePulse, Quiet, Place, Loading, Matched, Framing, Timing

-----------------------------------------------------------------------------
(* A tick of the timer.                                                     *)
LEMMA TickStep ==
  ASSUME IInv, Tick
  PROVE  IInv'
  <1>1. UNCHANGED <<ocr, enabled, channel, isr, read, pc, servo, value, irqOn, active,
                    ticks, wanted, high, due, stale, framed>>
    BY DEF Tick, call, objects
  <1>2. /\ match => late < MaxLate
        /\ isr = "load" => late < IsrLag
        /\ tcnt' = (tcnt + 1) % Wrap
        /\ match' = (match \/ tcnt' = ocr)
        /\ late' = IF match \/ isr = "load" THEN late + 1 ELSE 0
        /\ age' = IF Pulsing THEN Capped(age) ELSE 0
        /\ frame' = IF framed THEN Capped(frame) ELSE 0
    BY DEF Tick
  <1>3. TypeOK /\ match \in BOOLEAN
    BY DEF IInv, TypeOK
  <1>4. /\ tcnt' \in 0 .. Wrap - 1 /\ tcnt' <= tcnt + 1
        /\ tcnt + 1 < Wrap => tcnt' = tcnt + 1
    BY <1>2, <1>3, WidthValues, Modulo
  <1>5. /\ age' \in 0 .. Wrap /\ age' <= age + 1
        /\ Pulsing /\ age < Wrap => age' = age + 1
        /\ frame' \in 0 .. Wrap
        /\ framed /\ frame < Wrap => frame' = frame + 1
    BY <1>2, <1>3, WidthValues, Fits DEF Capped
  <1>6. late' \in Nat
    BY <1>2, <1>3, WidthValues
  <1>7. TypeOK'
    BY <1>1, <1>2, <1>3, <1>4, <1>5, <1>6 DEF TypeOK
  <1>8. OnePulse' /\ Quiet' /\ Untorn' /\ Place' /\ Target'
    BY <1>1 DEF IInv, OnePulse, Quiet, Untorn, Place, Target, Number, Bytes, Base
  <1>9. isr \in {"off", "load"} /\ isr' = isr
    BY <1>1, <1>3 DEF TypeOK
  <1>10. ASSUME isr = "load"
         PROVE  tcnt' = tcnt + 1 /\ Loading'
    <2>1. /\ tcnt = read + late /\ late + 1 <= IsrLag /\ read <= Base(channel)
          /\ Regular => ~ match /\ (ocr <= read \/ ocr > read + IsrLag)
      BY <1>2, <1>3, <1>10, Numbers, WidthValues DEF IInv, Loading
    <2>2. tcnt + 1 < Wrap
      BY <1>3, <1>10, <2>1, Turns, Numbers, WidthValues, Fits DEF IInv
    <2>3. tcnt' = read + late' /\ late' <= IsrLag /\ late' = late + 1
      BY <1>2, <1>3, <1>4, <1>10, <2>1, <2>2, WidthValues
    <2>4. Regular => tcnt' # ocr
      BY <1>3, <2>1, <2>3, Numbers, WidthValues
    <2> QED
      BY <1>1, <1>2, <1>4, <2>1, <2>2, <2>3, <2>4 DEF Loading, Regular, Base
  <1>11. ASSUME isr = "off" PROVE Matched'
    <2>1. ASSUME match
          PROVE  /\ late' = late + 1 /\ late' <= MaxLate
                 /\ Regular => tcnt' = ocr + late'
                 /\ channel >= 0 => tcnt' <= Base(channel) + MaxWidth + late'
      <3>1. late' = late + 1 /\ late' <= MaxLate
        BY <1>2, <1>3, <2>1, WidthValues, Numbers
      <3>2. Regular => tcnt = ocr + late
        BY <1>11, <2>1 DEF IInv, Matched
      <3>3. ocr + MaxLate < Wrap
        BY <1>3, <1>11, Due DEF IInv
      <3>4. Regular => tcnt' = ocr + late'
        BY <1>3, <1>4, <3>1, <3>2, <3>3, WidthValues, Numbers, Fits
      <3>5. channel >= 0 => tcnt' <= Base(channel) + MaxWidth + late'
        <4>1. SUFFICES ASSUME channel >= 0
                       PROVE  tcnt' <= Base(channel) + MaxWidth + late'
          OBVIOUS
        <4>2. tcnt <= Base(channel) + MaxWidth + late /\ Base(channel) \in Nat
          BY <1>3, <1>11, <2>1, <4>1, Turns DEF IInv, Matched
        <4> QED
          BY <1>3, <1>4, <3>1, <4>2, WidthValues, Numbers, Fits
      <3> QED
        BY <3>1, <3>4, <3>5
    <2>2. ASSUME ~ match, match'
          PROVE  /\ late' = 0 /\ tcnt' = ocr
                 /\ channel >= 0 => tcnt' <= Base(channel) + MaxWidth
      BY <1>2, <1>3, <1>11, <2>2 DEF IInv, Target
    <2>3. ASSUME framed, ~ match' PROVE tcnt' < ocr
      <3>1. tcnt < ocr /\ tcnt' # ocr
        BY <1>2, <1>11, <2>3 DEF IInv, Matched
      <3> QED
        BY <1>3, <1>4, <3>1, WidthValues, Fits
    <2>4. channel >= 0 => Base(channel) \in Nat
      BY <1>3, <1>11, Turns DEF IInv
    <2>5. Base(channel)' = Base(channel) /\ (Regular' <=> Regular)
      BY <1>1 DEF Base, Regular
    <2>6. ASSUME match'
          PROVE  /\ late' <= MaxLate
                 /\ Regular => tcnt' = ocr + late'
                 /\ channel >= 0 => tcnt' <= Base(channel) + MaxWidth + late'
      BY <1>3, <2>1, <2>2, <2>4, <2>6, WidthValues, Numbers
    <2> QED
      BY <1>1, <2>3, <2>5, <2>6 DEF Matched, Base
  <1>12. Loading' /\ Matched'
    BY <1>9, <1>10, <1>11 DEF Loading, Matched
  <1>13. Framing'
    <2>1. SUFFICES ASSUME framed PROVE frame' = tcnt'
      BY <1>1 DEF Framing
    <2>2. frame = tcnt
      BY <2>1 DEF IInv, Framing
    <2>3. frame' = tcnt + 1
      BY <1>3, <1>5, <2>1, <2>2, WidthValues, Fits
    <2>4. CASE isr = "load"
      BY <1>10, <2>3, <2>4
    <2>5. CASE isr = "off" /\ ~ match
      BY <1>3, <1>4, <2>1, <2>3, <2>5, WidthValues, Fits DEF IInv, Matched
    <2>6. CASE isr = "off" /\ match
      <3>1. tcnt = ocr + late /\ late < MaxLate
        BY <1>2, <2>1, <2>6 DEF IInv, Matched, Regular
      <3>2. ocr + MaxLate < Wrap
        BY <1>3, <2>6, Due DEF IInv
      <3> QED
        BY <1>3, <1>4, <2>3, <3>1, <3>2, WidthValues, Numbers, Fits
    <2> QED
      BY <1>3, <1>9, <2>4, <2>5, <2>6
  <1>14. Timing'
    <2>1. SUFFICES ASSUME NEW c \in Servos \ stale, high[c]
                   PROVE  /\ due \in Widths
                          /\ IF match'
                               THEN due - IsrLag <= age' - late' /\ age' - late' <= due
                               ELSE /\ tcnt' < ocr
                                    /\ due - IsrLag <= age' + ocr - tcnt'
                                    /\ age' + ocr - tcnt' <= due
      BY <1>1 DEF Timing
    <2>2. Pulsing /\ isr = "off" /\ due \in Widths
      BY <2>1 DEF IInv, OnePulse, Timing, Pulsing
    <2>3. due \in Nat /\ due + MaxLate < Wrap
      BY <1>3, <2>2, Numbers, Fits, WidthValues DEF FrameMax
    <2>4. CASE match
      <3>1. /\ due - IsrLag <= age - late /\ age - late <= due
            /\ late < MaxLate /\ late' = late + 1 /\ match'
        BY <1>2, <2>1, <2>4 DEF IInv, Timing
      <3>2. age' = age + 1
        BY <1>3, <1>5, <2>2, <2>3, <3>1, WidthValues, Numbers, Fits
      <3> QED
        BY <1>3, <2>2, <2>3, <3>1, <3>2, WidthValues, Numbers
    <2>5. CASE ~ match
      <3>1. /\ tcnt < ocr /\ due - IsrLag <= age + ocr - tcnt
            /\ age + ocr - tcnt <= due
        BY <2>1, <2>5 DEF IInv, Timing
      <3>2. age' = age + 1 /\ tcnt' = tcnt + 1
        BY <1>3, <1>4, <1>5, <2>2, <2>3, <3>1, WidthValues, Numbers, Fits
      <3>3. late' = 0 /\ (match' <=> tcnt' = ocr)
        BY <1>2, <2>2, <2>5
      <3> QED
        BY <1>3, <2>2, <2>3, <3>1, <3>2, <3>3, WidthValues, Numbers
    <2> QED
      BY <2>4, <2>5
  <1> QED
    BY <1>7, <1>8, <1>12, <1>13, <1>14 DEF IInv

-----------------------------------------------------------------------------
(* The end of a turn: a pulse that ends has the width it should.            *)
LEMMA FinishStep ==
  ASSUME IInv, Finish
  PROVE  /\ IInv'
         /\ framed /\ channel = -1 => frame \in REFRESH_INTERVAL .. FrameMax
         /\ \A c \in Servos \ stale : high[c] /\ ~ high'[c] =>
              age \in due - IsrLag .. due + MaxLate
  <1>1. /\ match /\ irqOn /\ isr = "off" /\ match' = FALSE /\ isr' = "load"
        /\ late' = 0
        /\ channel' = channel + 1 /\ read' = tcnt'
        /\ UNCHANGED <<ocr, enabled, pc, servo, value, irqOn, active, ticks, wanted,
                       age>>
    BY DEF Finish, call, objects
  <1>2. TypeOK /\ Place /\ channel \in -1 .. ServoCount - 1
    BY <1>1, Numbers DEF IInv, TypeOK, Place
  <1>3. pc # "store" /\ pc' = pc
    BY <1>1 DEF IInv, Quiet
  <1>4. /\ late <= MaxLate
        /\ Regular => tcnt = ocr + late
        /\ channel >= 0 => tcnt <= Base(channel) + MaxWidth + late
    BY <1>1 DEF IInv, Matched
  <1>5. ASSUME channel < 0
        PROVE  /\ tcnt' = 0 /\ frame' = 0 /\ framed' /\ channel' = 0
               /\ UNCHANGED <<high, stale, due>>
    BY <1>1, <1>2, <1>5 DEF Finish
  <1>6. ASSUME channel >= 0
        PROVE  /\ UNCHANGED <<tcnt, frame, framed>>
               /\ channel \in Servos
               /\ IF active[channel]
                    THEN /\ high' = [high EXCEPT ![channel] = FALSE]
                         /\ stale' = stale \ {channel} /\ due' = 0
                    ELSE UNCHANGED <<high, stale, due>>
    BY <1>1, <1>2, <1>6 DEF Finish, LowBy, Servos
  <1>7. TypeOK'
    <2>1. channel + 1 \in -1 .. ServoCount
      BY <1>2, Numbers
    <2>2. CASE channel < 0
      <3>1. 0 \in 0 .. Wrap - 1 /\ 0 \in 0 .. Wrap
        BY Fits
      <3> QED
        BY <1>1, <1>2, <1>5, <2>1, <2>2, <3>1 DEF TypeOK
    <2>3. CASE channel >= 0
      <3>1. high' \in [Servos -> BOOLEAN] /\ stale' \subseteq Servos
        BY <1>2, <1>6, <2>3 DEF TypeOK
      <3>2. due' \in Nat
        BY <1>2, <1>6, <2>3 DEF TypeOK
      <3> QED
        BY <1>1, <1>2, <1>6, <2>1, <2>3, <3>1, <3>2 DEF TypeOK
    <2> QED
      BY <1>2, <2>2, <2>3
  <1>8. ASSUME NEW c \in Servos \ stale', high'[c]
        PROVE  FALSE
    <2>1. CASE channel < 0
      BY <1>1, <1>2, <1>5, <1>8, <2>1 DEF IInv, OnePulse, Servos
    <2>2. CASE channel >= 0 /\ active[channel]
      <3>1. c # channel \/ ~ high'[c]
        BY <1>2, <1>6, <2>2 DEF TypeOK
      <3>2. c # channel /\ c \notin stale /\ high[c]
        BY <1>2, <1>6, <1>8, <2>2, <3>1 DEF TypeOK
      <3> QED
        BY <1>8, <3>2 DEF IInv, OnePulse
    <2>3. CASE channel >= 0 /\ ~ active[channel]
      BY <1>6, <1>8, <2>3 DEF IInv, OnePulse
    <2> QED
      BY <1>2, <2>1, <2>2, <2>3
  <1>9. OnePulse' /\ Timing'
    BY <1>8 DEF OnePulse, Timing
  <1>10. Quiet' /\ Untorn' /\ Place' /\ Target' /\ Matched'
    BY <1>1, <1>2, <1>3
       DEF IInv, Quiet, Untorn, Place, Target, Matched, Number, Bytes
  <1>11. Loading'
    <2>1. read' <= Base(channel')
      <3>1. CASE channel < 0
        BY <1>1, <1>5, <3>1, BaseIs
      <3>2. CASE channel >= 0
        <4>1. /\ tcnt' = tcnt /\ tcnt <= Base(channel) + MaxWidth + late
              /\ Base(channel) \in Nat
              /\ Base(channel + 1) = Base(channel) + MaxWidth + MaxLate
          BY <1>1, <1>2, <1>4, <1>6, <3>2, Turns
        <4> QED
          BY <1>1, <1>2, <1>4, <4>1, WidthValues, Numbers
      <3> QED
        BY <1>2, <3>1, <3>2
    <2>2. ocr <= read' \/ ocr > read' + IsrLag \/ ~ Regular'
      <3>1. CASE channel < 0
        BY <1>1, <1>2, <1>5, <3>1, WidthValues, Numbers DEF IInv, Target
      <3>2. CASE channel >= 0
        <4>1. Regular' => Regular
          BY <1>1, <1>6, <3>2 DEF Regular
        <4> QED
          BY <1>1, <1>2, <1>4, <1>6, <3>2, <4>1, WidthValues
      <3> QED
        BY <1>2, <3>1, <3>2
    <2>3. tcnt' = read' + late' /\ late' <= IsrLag
      <3>1. 0 = 0 + 0 /\ tcnt = tcnt + 0 /\ 0 <= IsrLag
        BY <1>2, Numbers, WidthValues
      <3>2. tcnt' = 0 \/ tcnt' = tcnt
        BY <1>2, <1>5, <1>6
      <3> QED
        BY <1>1, <3>1, <3>2
    <2> QED
      BY <1>1, <2>1, <2>2, <2>3 DEF Loading, Base
  <1>12. Framing'
    <2>1. CASE channel < 0
      BY <1>5, <2>1 DEF Framing
    <2>2. CASE channel >= 0
      BY <1>6, <2>2 DEF IInv, Framing
    <2> QED
      BY <1>2, <2>1, <2>2
  <1>13. ASSUME framed, channel = -1
         PROVE  frame \in REFRESH_INTERVAL .. FrameMax
    <2>1. frame = ocr + late
      BY <1>4, <1>13 DEF IInv, Framing, Regular
    <2>2. REFRESH_INTERVAL <= ocr /\ ocr + MaxLate <= FrameMax
      BY <1>1, <1>13 DEF IInv, Target
    <2> QED
      BY <1>2, <1>4, <2>1, <2>2, WidthValues, Numbers, Fits
  <1>14. ASSUME NEW c \in Servos \ stale, high[c]
         PROVE  age \in due - IsrLag .. due + MaxLate
    <2>1. /\ due \in Nat
          /\ due - IsrLag <= age - late /\ age - late <= due
      BY <1>1, <1>2, <1>14, Numbers DEF IInv, Timing
    <2> QED
      BY <1>2, <1>4, <2>1, WidthValues, Numbers
  <1> QED
    BY <1>7, <1>9, <1>10, <1>11, <1>12, <1>13, <1>14, <1>2 DEF IInv

(* The start of a pulse.                                                    *)
LEMMA StartStep ==
  ASSUME IInv, StartPulse
  PROVE  IInv'
  <1>1. /\ isr = "load" /\ channel < ServoCount /\ isr' = "off" /\ read' = 0
        /\ late' = 0
        /\ ocr' = (read + Number(ticks[channel])) % Wrap
        /\ UNCHANGED <<tcnt, match, enabled, channel, pc, servo, value, irqOn, active,
                       ticks, wanted, stale, frame, framed>>
        /\ IF active[channel]
             THEN /\ high' = [high EXCEPT ![channel] = TRUE]
                  /\ due' = wanted[channel] /\ age' = 0
             ELSE UNCHANGED <<high, due, age>>
    BY DEF StartPulse, call, objects
  <1>2. TypeOK /\ Place /\ channel \in 0 .. ServoCount - 1 /\ channel \in Servos
    <2>1. TypeOK /\ Place
      BY DEF IInv
    <2>2. channel >= 0 /\ channel < ServoCount /\ channel \in -1 .. ServoCount
      BY <1>1, <2>1 DEF Place, TypeOK
    <2>3. channel \in 0 .. ServoCount - 1
      BY <2>2, Numbers
    <2> QED
      BY <2>1, <2>3 DEF Servos
  <1>3. pc # "store"
    BY <1>1 DEF IInv, Quiet
  <1>4. wanted[channel] \in Widths /\ Number(ticks[channel]) = wanted[channel]
    BY <1>2, <1>3 DEF IInv, TypeOK, Untorn
  <1>5. /\ wanted[channel] \in Nat /\ wanted[channel] <= MaxWidth
        /\ wanted[channel] > IsrLag + MaxLate
    BY <1>4, Numbers
  <1>6. /\ tcnt = read + late /\ late <= IsrLag /\ read <= Base(channel)
        /\ Regular => ~ match
    BY <1>1 DEF IInv, Loading
  <1>7. /\ Base(channel) \in Nat
        /\ Base(channel) + MaxWidth + MaxLate + IsrLag + Margin + MaxLate <= FrameMax
    <2>1. channel \in 0 .. ServoCount
      BY <1>2, Numbers
    <2> QED
      BY <1>2, <2>1, Fits
  <1>8. ocr' = read + wanted[channel]
    <2>1. read + wanted[channel] \in Nat /\ read + wanted[channel] < Wrap
      BY <1>2, <1>5, <1>6, <1>7, WidthValues, Numbers, Fits
    <2> QED
      BY <1>1, <1>4, <2>1, Modulo
  <1>9. ocr' <= Base(channel) + MaxWidth /\ tcnt < ocr' /\ ocr' \in 0 .. Wrap - 1
    BY <1>2, <1>5, <1>6, <1>7, <1>8, WidthValues, Numbers, Fits
  <1>10. TypeOK'
    <2>1. 0 \in 0 .. Wrap - 1 /\ 0 \in 0 .. Wrap
      BY Fits
    <2> QED
      BY <1>1, <1>2, <1>5, <1>9, <2>1 DEF TypeOK
  <1>11. ASSUME NEW c \in Servos \ stale, high'[c]
         PROVE  c = channel /\ active[channel]
    <2>1. ~ high[c]
      BY <1>1, <1>11 DEF IInv, OnePulse
    <2> QED
      BY <1>1, <1>2, <1>11, <2>1 DEF TypeOK
  <1>12. OnePulse'
    BY <1>1, <1>11 DEF OnePulse
  <1>13. Quiet' /\ Untorn' /\ Place'
    BY <1>1, <1>3 DEF IInv, Quiet, Untorn, Place, Number, Bytes
  <1>14. Loading' /\ Target'
    BY <1>1, <1>2, <1>9 DEF Loading, Target, Base
  <1>15. Matched'
    <2>1. tcnt <= Base(channel) + MaxWidth + 0
      BY <1>2, <1>6, <1>7, <1>9, WidthValues, Numbers, Fits
    <2> QED
      BY <1>1, <1>6, <1>9, <2>1, Numbers DEF Matched, Base, Regular
  <1>16. Framing'
    BY <1>1 DEF IInv, Framing
  <1>17. Timing'
    <2>1. SUFFICES ASSUME NEW c \in Servos \ stale, high'[c]
                   PROVE  /\ due' \in Widths /\ ~ match
                          /\ tcnt < ocr'
                          /\ due' - IsrLag <= age' + ocr' - tcnt
                          /\ age' + ocr' - tcnt <= due'
      BY <1>1 DEF Timing
    <2>2. active[channel] /\ due' = wanted[channel] /\ age' = 0
      BY <1>1, <1>11, <2>1
    <2>3. pc # "clear"
      BY <1>2, <2>2 DEF IInv, Quiet
    <2>4. ~ match
      BY <1>6, <2>3 DEF Regular
    <2> QED
      BY <1>2, <1>4, <1>5, <1>6, <1>8, <1>9, <2>2, <2>4, WidthValues, Numbers
  <1> QED
    BY <1>10, <1>12, <1>13, <1>14, <1>15, <1>16, <1>17 DEF IInv

(* The wait for the rest of the refresh interval.                           *)
LEMMA RefreshStep ==
  ASSUME IInv, WaitForRefresh
  PROVE  IInv'
  <1>1. /\ isr = "load" /\ channel >= ServoCount /\ isr' = "off" /\ read' = 0
        /\ late' = 0 /\ channel' = -1
        /\ UNCHANGED <<tcnt, match, enabled, pc, servo, value, irqOn, active,
                       ticks, wanted, high, due, age, stale, frame, framed>>
    BY DEF WaitForRefresh, call, objects, pulse
  <1>2. TypeOK /\ Place /\ channel = ServoCount
    BY <1>1, Numbers DEF IInv, TypeOK, Place
  <1>3. /\ tcnt = read + late /\ late <= IsrLag /\ read <= Base(channel)
        /\ Regular => ~ match
    BY <1>1 DEF IInv, Loading
  <1>4. /\ Base(channel) \in Nat
        /\ Base(channel) + IsrLag + Margin + MaxLate <= FrameMax
    BY <1>1, <1>2, Turns
  <1>5. (read + Margin) % Wrap = read + Margin
    <2>1. read + Margin \in Nat /\ read + Margin < Wrap
      BY <1>2, <1>3, <1>4, WidthValues, Numbers, Fits
    <2> QED
      BY <2>1, Modulo
  <1>6. /\ ocr' \in 0 .. FrameMax /\ tcnt < ocr' /\ ocr' > IsrLag /\ REFRESH_INTERVAL <= ocr'
        /\ ocr' + MaxLate <= FrameMax
    <2>1. CASE BeforeRefresh
      <3>1. ocr' = REFRESH_INTERVAL /\ read + Margin < REFRESH_INTERVAL
        BY <1>5, <2>1 DEF WaitForRefresh, BeforeRefresh
      <3> QED
        BY <1>2, <1>3, <3>1, WidthValues, Numbers, Fits
    <2>2. CASE ~ BeforeRefresh
      <3>1. read + Margin >= REFRESH_INTERVAL
        BY <1>2, <1>5, <2>2, WidthValues, Numbers DEF BeforeRefresh
      <3>2. PICK r \in read .. tcnt : ocr' = (r + Margin) % Wrap
        BY <2>2 DEF WaitForRefresh
      <3>3. r + Margin \in Nat /\ r + Margin + MaxLate <= FrameMax /\ r >= read
        BY <1>2, <1>3, <1>4, <3>2, WidthValues, Numbers, Fits
      <3>4. ocr' = r + Margin
        BY <3>2, <3>3, Modulo, Numbers, Fits
      <3>5. /\ r + Margin \in 0 .. FrameMax /\ tcnt < r + Margin
            /\ r + Margin > IsrLag /\ REFRESH_INTERVAL <= r + Margin
        BY <1>2, <1>3, <3>1, <3>2, <3>3, WidthValues, Numbers, Fits
      <3> QED
        BY <3>3, <3>4, <3>5
    <2> QED
      BY <2>1, <2>2
  <1>7. TypeOK'
    <2>1. 0 \in 0 .. Wrap - 1 /\ ocr' \in 0 .. Wrap - 1
      BY <1>6, Fits
    <2>2. -1 \in -1 .. ServoCount
      BY Numbers
    <2> QED
      BY <1>1, <1>2, <2>1, <2>2 DEF TypeOK
  <1>8. OnePulse' /\ Timing'
    BY <1>1 DEF IInv, OnePulse, Timing
  <1>9. Quiet' /\ Untorn' /\ Place'
    BY <1>1, Numbers DEF IInv, Quiet, Untorn, Place, Number, Bytes
  <1>10. Loading' /\ Target' /\ Framing'
    BY <1>1, <1>6 DEF IInv, Loading, Target, Framing
  <1>11. Matched'
    BY <1>1, <1>3, <1>6, Numbers DEF Matched, Regular
  <1> QED
    BY <1>7, <1>8, <1>9, <1>10, <1>11 DEF IInv

-----------------------------------------------------------------------------
(* attach(): the timer restarts only when no pulse is under way.            *)
LEMMA AttachStep ==
  ASSUME IInv, NEW c \in Servos, AttachCall(c)
  PROVE  IInv' /\ UNCHANGED <<high, channel>>
  <1>1. /\ pc = "idle" /\ isr = "off" /\ servo' = c
        /\ UNCHANGED <<value, irqOn, ocr, match, enabled, channel, isr, read, late,
                       active, ticks, wanted, high, due, age, stale, frame>>
    BY DEF AttachCall, Idle, handler, objects
  <1>2. CASE isTimerActive
    <2>1. pc' = "activate" /\ UNCHANGED <<tcnt, framed>>
      BY <1>2 DEF AttachCall
    <2> QED
      BY <1>1, <2>1
         DEF IInv, TypeOK, OnePulse, Quiet, Untorn, Place, Loading, Target, Matched,
             Framing, Timing, Regular, Base, Number, Bytes
  <1>3. CASE ~ isTimerActive
    <2>1. pc' = "clear" /\ tcnt' = 0 /\ framed' = FALSE
      BY <1>3 DEF AttachCall
    <2>2. \A d \in Servos : ~ active[d]
      BY <1>3 DEF isTimerActive
    <2>3. TypeOK'
      <3>1. 0 \in 0 .. Wrap - 1
        BY Fits
      <3> QED
        BY <1>1, <2>1, <3>1 DEF IInv, TypeOK
    <2>4. OnePulse' /\ Quiet' /\ Untorn' /\ Place'
      BY <1>1, <2>1, <2>2
         DEF IInv, OnePulse, Quiet, Untorn, Place, Number, Bytes
    <2>5. Loading' /\ Target' /\ Framing'
      BY <1>1, <2>1 DEF IInv, Loading, Target, Framing, Base
    <2>6. Matched'
      <3>1. channel >= 0 => 0 <= Base(channel) + MaxWidth + late
        <4>1. SUFFICES ASSUME channel >= 0
                       PROVE  0 <= Base(channel) + MaxWidth + late
          OBVIOUS
        <4>2. Base(channel) \in Nat
          BY <1>1, <4>1, Turns DEF IInv
        <4> QED
          BY <4>2, WidthValues, Numbers DEF IInv
      <3> QED
        BY <1>1, <2>1, <3>1 DEF IInv, Matched, Regular, Base
    <2>7. Timing'
      BY <1>1, <2>2 DEF IInv, OnePulse, Timing
    <2> QED
      BY <1>1, <2>3, <2>4, <2>5, <2>6, <2>7 DEF IInv
  <1> QED
    BY <1>2, <1>3

LEMMA ClearStep ==
  ASSUME IInv, InitClear
  PROVE  IInv' /\ UNCHANGED <<high, channel>>
  <1>1. /\ pc = "clear" /\ isr = "off" /\ match' = FALSE /\ enabled' = TRUE
        /\ late' = 0 /\ framed' = FALSE /\ pc' = "activate"
        /\ UNCHANGED <<tcnt, ocr, channel, isr, read, servo, value, irqOn, active,
                       ticks, wanted, high, due, age, stale, frame>>
    BY DEF InitClear, objects
  <1>2. TypeOK'
    BY <1>1 DEF IInv, TypeOK
  <1>3. OnePulse' /\ Quiet' /\ Untorn' /\ Place'
    BY <1>1 DEF IInv, OnePulse, Quiet, Untorn, Place, Number, Bytes
  <1>4. Loading' /\ Target' /\ Matched' /\ Framing'
    BY <1>1 DEF IInv, Loading, Target, Matched, Framing, Base
  <1>5. Timing'
    BY <1>1 DEF IInv, OnePulse, Quiet, Timing
  <1> QED
    BY <1>1, <1>2, <1>3, <1>4, <1>5 DEF IInv

LEMMA ActivateStep ==
  ASSUME IInv, Activate
  PROVE  IInv' /\ UNCHANGED <<high, channel>>
  <1>1. /\ pc = "activate" /\ isr = "off" /\ pc' = "idle" /\ servo' = 0 /\ value' = 0
        /\ active' = [active EXCEPT ![servo] = TRUE]
        /\ UNCHANGED <<irqOn, ticks, wanted, tcnt, ocr, match, enabled, channel, isr,
                       read, late, high, due, age, stale, frame, framed>>
    BY DEF Activate, Return, timer, handler, pulse
  <1>2. /\ active' \in [Servos -> BOOLEAN]
        /\ \A c \in Servos : active[c] => active'[c]
    BY <1>1 DEF IInv, TypeOK
  <1>3. 0 \in Servos
    BY Numbers DEF Servos
  <1>4. TypeOK'
    BY <1>1, <1>2, <1>3 DEF IInv, TypeOK
  <1>5. OnePulse' /\ Quiet' /\ Untorn' /\ Place'
    BY <1>1, <1>2 DEF IInv, OnePulse, Quiet, Untorn, Place, Number, Bytes
  <1>6. Loading' /\ Target' /\ Matched' /\ Framing' /\ Timing'
    BY <1>1 DEF IInv, Loading, Target, Matched, Framing, Timing, Regular, Base
  <1> QED
    BY <1>1, <1>4, <1>5, <1>6 DEF IInv

(* detach(): a pulse under way is no longer accounted for.                  *)
LEMMA DetachStep ==
  ASSUME IInv, NEW c \in Servos, Detach(c)
  PROVE  IInv' /\ UNCHANGED <<high, channel>>
  <1>1. /\ pc = "idle" /\ isr = "off"
        /\ active' = [active EXCEPT ![c] = FALSE]
        /\ stale' = IF high[c] THEN stale \union {c} ELSE stale
        /\ UNCHANGED <<ticks, wanted, tcnt, ocr, match, enabled, channel, isr, read,
                       late, pc, servo, value, irqOn, high, due, age, frame, framed>>
    BY DEF Detach, Idle, timer, handler, call
  <1>2. TypeOK'
    BY <1>1 DEF IInv, TypeOK
  <1>3. \A d \in Servos : ~ active[d] => ~ active'[d]
    BY <1>1 DEF IInv, TypeOK
  <1>4. \A d \in Servos \ stale' : high[d] => d \in Servos \ stale /\ d # c
    BY <1>1
  <1>5. OnePulse'
    BY <1>1, <1>4 DEF IInv, TypeOK, OnePulse
  <1>6. Quiet' /\ Untorn' /\ Place'
    BY <1>1, <1>3 DEF IInv, Quiet, Untorn, Place, Number, Bytes
  <1>7. Loading' /\ Target' /\ Matched' /\ Framing'
    BY <1>1 DEF IInv, Loading, Target, Matched, Framing, Regular, Base
  <1>8. Timing'
    BY <1>1, <1>4 DEF IInv, Timing
  <1> QED
    BY <1>1, <1>2, <1>5, <1>6, <1>7, <1>8 DEF IInv

(* writeMicroseconds(): no interrupt sees the one byte without the other.   *)
LEMMA WriteCallStep ==
  ASSUME IInv, NEW c \in Servos, NEW w \in Widths, WriteCall(c, w)
  PROVE  IInv' /\ UNCHANGED <<high, channel>>
  <1>1. /\ pc = "idle" /\ isr = "off" /\ irqOn' = FALSE
        /\ ticks' = [ticks EXCEPT ![c][1] = Bytes(w)[1]]
        /\ pc' = "store" /\ servo' = c /\ value' = w
        /\ UNCHANGED <<active, wanted, tcnt, ocr, match, enabled, channel, isr, read,
                       late, high, due, age, stale, frame, framed>>
    BY DEF WriteCall, Idle, cli, timer, handler, pulse
  <1>2. Bytes(w) \in (0 .. ByteSize - 1) \X (0 .. ByteSize - 1)
    BY BytesOf
  <1>3. /\ ticks' \in [Servos -> (0 .. ByteSize - 1) \X (0 .. ByteSize - 1)]
        /\ ticks'[c][1] = Bytes(w)[1]
        /\ \A d \in Servos : d # c => ticks'[d] = ticks[d]
    BY <1>1, <1>2 DEF IInv, TypeOK
  <1>4. TypeOK'
    BY <1>1, <1>3 DEF IInv, TypeOK
  <1>5. Untorn'
    BY <1>1, <1>3 DEF IInv, Untorn, Number, Bytes
  <1>6. OnePulse' /\ Quiet' /\ Place'
    BY <1>1 DEF IInv, OnePulse, Quiet, Place
  <1>7. Loading' /\ Target' /\ Matched' /\ Framing' /\ Timing'
    BY <1>1 DEF IInv, Loading, Target, Matched, Framing, Timing, Regular, Base
  <1> QED
    BY <1>1, <1>4, <1>5, <1>6, <1>7 DEF IInv

LEMMA WriteReturnStep ==
  ASSUME IInv, WriteReturn
  PROVE  IInv' /\ UNCHANGED <<high, channel>>
  <1>1. /\ pc = "store" /\ isr = "off" /\ irqOn' = TRUE
        /\ ticks' = [ticks EXCEPT ![servo][2] = Bytes(value)[2]]
        /\ wanted' = [wanted EXCEPT ![servo] = value]
        /\ pc' = "idle" /\ servo' = 0 /\ value' = 0
        /\ UNCHANGED <<active, tcnt, ocr, match, enabled, channel, isr, read, late,
                       high, due, age, stale, frame, framed>>
    BY DEF WriteReturn, Return, timer, handler, pulse
  <1>2. TypeOK /\ value \in Widths /\ servo \in Servos /\ 0 \in Servos
    <2>1. TypeOK /\ value \in Widths
      BY <1>1 DEF IInv, Quiet
    <2>2. servo \in Servos
      BY <2>1 DEF TypeOK
    <2>3. 0 \in Servos
      BY Numbers DEF Servos
    <2> QED
      BY <2>1, <2>2, <2>3
  <1>3. /\ Bytes(value) \in (0 .. ByteSize - 1) \X (0 .. ByteSize - 1)
        /\ Number(Bytes(value)) = value
    BY <1>2, BytesOf
  <1>4. /\ ticks' \in [Servos -> (0 .. ByteSize - 1) \X (0 .. ByteSize - 1)]
        /\ ticks'[servo][1] = ticks[servo][1] /\ ticks'[servo][2] = Bytes(value)[2]
        /\ \A d \in Servos : d # servo => ticks'[d] = ticks[d]
    BY <1>1, <1>2, <1>3 DEF TypeOK
  <1>5. /\ wanted' \in [Servos -> Widths] /\ wanted'[servo] = value
        /\ \A d \in Servos : d # servo => wanted'[d] = wanted[d]
    BY <1>1, <1>2 DEF TypeOK
  <1>6. TypeOK'
    BY <1>1, <1>2, <1>4, <1>5 DEF TypeOK
  <1>7. Untorn'
    <2>1. SUFFICES ASSUME NEW d \in Servos PROVE Number(ticks'[d]) = wanted'[d]
      BY <1>1 DEF Untorn, Number
    <2>2. CASE d = servo
      <3>1. ticks[servo][1] = Bytes(value)[1]
        BY <1>1, <1>2 DEF IInv, Untorn
      <3> QED
        BY <1>3, <1>4, <1>5, <2>2, <3>1 DEF Number
    <2>3. CASE d # servo
      BY <1>1, <1>4, <1>5, <2>3 DEF IInv, Untorn, Number
    <2> QED
      BY <2>2, <2>3
  <1>8. OnePulse' /\ Quiet' /\ Place'
    BY <1>1 DEF IInv, OnePulse, Quiet, Place
  <1>9. Loading' /\ Target' /\ Matched' /\ Framing' /\ Timing'
    BY <1>1 DEF IInv, Loading, Target, Matched, Framing, Timing, Regular, Base
  <1> QED
    BY <1>1, <1>6, <1>7, <1>8, <1>9 DEF IInv

-----------------------------------------------------------------------------
(* Every step keeps the invariant; only the end of a turn lowers a pin.     *)
LEMMA EveryStep ==
  ASSUME IInv, [Next]_vars
  PROVE  /\ IInv'
         /\ framed /\ channel = -1 /\ channel' = 0 =>
              frame \in REFRESH_INTERVAL .. FrameMax
         /\ \A c \in Servos \ stale : high[c] /\ ~ high'[c] =>
              age \in due - IsrLag .. due + MaxLate
  <1>1. CASE Finish
    BY <1>1, FinishStep
  <1>2. CASE StartPulse
    <2>1. \A c \in Servos : high[c] => high'[c]
      BY <1>2 DEF StartPulse, IInv, TypeOK
    <2>2. channel' = channel
      BY <1>2 DEF StartPulse
    <2> QED
      BY <1>2, <2>1, <2>2, StartStep
  <1>3. CASE WaitForRefresh
    <2>1. high' = high /\ channel' # 0
      BY <1>3 DEF WaitForRefresh, pulse
    <2> QED
      BY <1>3, <2>1, RefreshStep
  <1>4. CASE Tick
    <2>1. high' = high /\ channel' = channel
      BY <1>4 DEF Tick
    <2> QED
      BY <1>4, <2>1, TickStep
  <1>5. CASE Calls \/ Running
    <2>1. IInv' /\ UNCHANGED <<high, channel>>
      BY <1>5, AttachStep, DetachStep, WriteCallStep, ClearStep, ActivateStep,
         WriteReturnStep DEF Calls, Running
    <2> QED
      BY <2>1
  <1>6. CASE UNCHANGED vars
    BY <1>6
       DEF vars, timer, handler, call, objects, pulse, IInv, TypeOK, OnePulse, Quiet,
           Untorn, Place, Loading, Target, Matched, Framing, Timing, Regular, Base,
           Number, Bytes
  <1> QED
    BY <1>1, <1>2, <1>3, <1>4, <1>5, <1>6 DEF Next, Interrupt

THEOREM Inductive == Spec => []IInv
  <1>1. IInv /\ [Next]_vars => IInv'
    BY EveryStep
  <1> QED
    BY <1>1, InitIInv, PTL DEF Spec

(* TypeOK: among the rest, the channel is -1 or that of a servo.            *)
THEOREM TypeCorrect == Spec => []TypeOK
  <1>1. IInv => TypeOK
    BY DEF IInv
  <1> QED
    BY <1>1, Inductive, PTL

(* OnePulse: only the channel whose turn it is has its pin HIGH.            *)
THEOREM OnePulseCorrect == Spec => []OnePulse
  <1>1. IInv => OnePulse
    BY DEF IInv
  <1> QED
    BY <1>1, Inductive, PTL

(* PulseWidth: a pulse lasts as long as the last width written before it.   *)
THEOREM PulseWidthCorrect == Spec => PulseWidth
  <1>1. ASSUME IInv, [Next]_vars
        PROVE  \A c \in Servos \ stale : high[c] /\ ~ high'[c] =>
                 age \in due - IsrLag .. due + MaxLate
    BY <1>1, EveryStep
  <1> QED
    BY <1>1, Inductive, PTL DEF Spec, PulseWidth

(* FrameRate: a frame is no shorter than the refresh interval and no longer *)
(* than it or the pulses need.                                             *)
THEOREM FrameRateCorrect == Spec => FrameRate
  <1>1. ASSUME IInv, [Next]_vars
        PROVE  framed /\ channel = -1 /\ channel' = 0 =>
                 frame \in REFRESH_INTERVAL .. FrameMax
    BY <1>1, EveryStep
  <1> QED
    BY <1>1, Inductive, PTL DEF Spec, FrameRate

-----------------------------------------------------------------------------
(* One Servo object: the arithmetic of ServoAngle, for any limits that min  *)
(* and max can hold and any values.                                        *)

Low == SERVO_MIN
High == SERVO_MAX

(* The pulse that write(v) asks for. *)
Wanted(v) ==
  IF v < MIN_PULSE_WIDTH
    THEN map(Between(v, 0, 180), 0, 180, Low, High)
    ELSE v

(* What the fields allow: a range of more than 180 microseconds, within     *)
(* what an unsigned int holds in ticks.                                     *)
Ranged ==
  /\ Low \in Nat /\ High \in Nat
  /\ 36 <= Low /\ Low + 180 < High /\ High <= 2912

(* The fields are those of the last attach(), the ticks those of the last   *)
(* write since.                                                            *)
ObjectInv ==
  /\ limits \in Int \X Int /\ Representable(limits)
  /\ min = Field(MIN_PULSE_WIDTH - limits[1])
  /\ max = Field(MAX_PULSE_WIDTH - limits[2])
  /\ stored \in Nat /\ stored <= 10000
  /\ last \in {"none", "us", "write"} \X Int
  /\ last[1] = "us" => stored = TicksFor(last[2])
  /\ last[1] = "write" => stored = TicksFor(Wanted(last[2]))

(* A quotient by 4 is off by less than 4. *)
LEMMA QuotientByFour ==
  \A n \in Int : /\ Quotient(n, 4) \in Int
                 /\ 4 * Quotient(n, 4) - n \in -3 .. 3
  BY DEF Quotient

(* A byte is enough for the fields. *)
LEMMA FieldKept ==
  ASSUME NEW n \in Int, Quotient(n, 4) \in -128 .. 127
  PROVE  Field(n) = Quotient(n, 4)
  BY DEF Field, Int8

(* The limits kept are those given, up to the resolution of the fields.     *)
LEMMA LimitsKept ==
  ASSUME NEW l \in Int \X Int, Representable(l),
         min = Field(MIN_PULSE_WIDTH - l[1]),
         max = Field(MAX_PULSE_WIDTH - l[2])
  PROVE  /\ min \in -128 .. 127 /\ max \in -128 .. 127
         /\ Ranged
         /\ Low - l[1] \in -3 .. 3 /\ High - l[2] \in -3 .. 3
  <1>1. l[1] \in Int /\ l[2] \in Int
    OBVIOUS
  <1>2. /\ min = Quotient(544 - l[1], 4) /\ min \in -128 .. 127
        /\ max = Quotient(2400 - l[2], 4) /\ max \in -128 .. 127
    BY <1>1, FieldKept
       DEF Representable, MIN_PULSE_WIDTH, MAX_PULSE_WIDTH
  <1>3. 4 * min - (544 - l[1]) \in -3 .. 3 /\ 4 * max - (2400 - l[2]) \in -3 .. 3
    BY <1>1, <1>2, QuotientByFour
  <1> QED
    BY <1>1, <1>2, <1>3
       DEF Ranged, Low, High, SERVO_MIN, SERVO_MAX,
           MIN_PULSE_WIDTH, MAX_PULSE_WIDTH

(* The ticks of a pulse of us microseconds, and back. *)
LEMMA PulseBack ==
  ASSUME NEW us \in Int, 36 <= us, us <= 2912
  PROVE  /\ usToTicks(us - TRIM_DURATION) \in Nat
         /\ usToTicks(us - TRIM_DURATION) <= 10000
         /\ ticksToUs(usToTicks(us - TRIM_DURATION))
              + TRIM_DURATION = us
  <1>1. PICK x \in Nat : x = us - 2 /\ x <= 2910
    OBVIOUS
  <1>2. usToTicks(x) = 2 * x
    BY DEF usToTicks
  <1>3. ticksToUs(2 * x) = x
    <2>1. PICK y \in Nat : y = (2 * x) * 8 /\ y = 16 * x
      OBVIOUS
    <2>2. y < 65536
      BY <1>1, <2>1
    <2>3. y % 65536 = y
      BY <2>2
    <2>4. y \div 16 = x
      BY <2>1
    <2> QED
      BY <2>1, <2>3, <2>4 DEF ticksToUs
  <1> QED
    BY <1>1, <1>2, <1>3 DEF TRIM_DURATION

(* us is lo + a (hi - lo) / 180, rounded down. *)
Rounded(us, a, lo, hi) ==
  180 * (us - lo) <= a * (hi - lo) /\ a * (hi - lo) < 180 * (us - lo) + 180

(* map() of an angle to a pulse. *)
LEMMA MapTo ==
  ASSUME NEW a \in 0 .. 180, NEW lo \in Int, NEW hi \in Int, hi - lo > 180
  PROVE  \E us \in Int : /\ us = map(a, 0, 180, lo, hi)
                         /\ lo <= us /\ us <= hi /\ Rounded(us, a, lo, hi)
  <1>1. PICK R \in Nat \ {0} : R = hi - lo /\ R > 180
    OBVIOUS
  <1>2. PICK p \in Nat : p = a * R
    OBVIOUS
  <1>3. PICK q \in Nat : q = p \div 180 /\ 180 * q <= p /\ p < 180 * q + 180
    OBVIOUS
  <1>4. PICK us \in Int : us = q + lo
    OBVIOUS
  <1>5. us = map(a, 0, 180, lo, hi)
    <2>1. (a - 0) * (hi - lo) = p /\ 180 - 0 = 180 /\ ~ p < 0
      BY <1>1, <1>2
    <2> QED
      BY <1>3, <1>4, <2>1 DEF map, Quotient
  <1>6. q <= R
    BY <1>1, <1>2, <1>3
  <1>7. lo <= us /\ us <= hi
    BY <1>1, <1>4, <1>6
  <1>8. Rounded(us, a, lo, hi)
    BY <1>1, <1>2, <1>3, <1>4 DEF Rounded
  <1> QED
    BY <1>5, <1>7, <1>8

(* map() of the pulse back to the angle: the 1 added makes up for rounding.  *)
LEMMA MapBack ==
  ASSUME NEW a \in Int, 0 <= a, a <= 180, NEW lo \in Int, NEW hi \in Int,
         hi - lo > 180, NEW us \in Int, lo <= us, Rounded(us, a, lo, hi)
  PROVE  map(us + 1, lo, hi, 0, 180) = a
  <1>1. PICK R \in Nat \ {0} : R = hi - lo /\ R > 180
    OBVIOUS
  <1>2. PICK p \in Nat : p = a * R
    OBVIOUS
  <1>3. PICK q \in Nat : q = us - lo /\ 180 * q <= p /\ p < 180 * q + 180
    BY <1>1, <1>2 DEF Rounded
  <1>4. PICK n \in Nat : n = (q + 1) * 180 /\ n = 180 * q + 180
    OBVIOUS
  <1>5. p <= n /\ n < p + R
    BY <1>1, <1>3, <1>4
  <1>6. n \div R = a
    BY <1>1, <1>2, <1>5
  <1>7. (us + 1 - lo) * (180 - 0) = n /\ ~ n < 0 /\ a + 0 = a
    BY <1>3, <1>4
  <1> QED
    BY <1>1, <1>6, <1>7 DEF map, Quotient

(* A width within the limits becomes ticks and is read back. *)
LEMMA WidthBack ==
  ASSUME Ranged, NEW v \in Int
  PROVE  /\ TicksFor(v) \in Nat /\ TicksFor(v) <= 10000
         /\ ticksToUs(TicksFor(v)) + TRIM_DURATION
              = Between(v, Low, High)
         /\ Low <= v /\ v <= High => Between(v, Low, High) = v
  <1>1. PICK us \in Int : us = Between(v, Low, High)
    BY DEF Between, Ranged
  <1>2. 36 <= us /\ us <= 2912
    BY <1>1 DEF Between, Ranged
  <1>3. Low <= v /\ v <= High => us = v
    BY <1>1 DEF Between, Ranged
  <1>4. TicksFor(v) = usToTicks(us - TRIM_DURATION)
    BY <1>1 DEF TicksFor, Low, High
  <1> QED
    BY <1>1, <1>2, <1>3, <1>4, PulseBack

LEMMA WantedType ==
  ASSUME Ranged, NEW v \in Int
  PROVE  Wanted(v) \in Int
  <1>1. CASE v < MIN_PULSE_WIDTH
    <2>1. PICK a \in 0 .. 180 : a = Between(v, 0, 180)
      BY DEF Between
    <2>2. PICK lo, hi \in Int : lo = Low /\ hi = High /\ hi - lo > 180
      BY DEF Ranged
    <2>3. PICK us \in Int :
            /\ us = map(a, 0, 180, lo, hi)
            /\ lo <= us /\ us <= hi /\ Rounded(us, a, lo, hi)
      BY <2>2, MapTo
    <2> QED
      BY <1>1, <2>1, <2>2, <2>3 DEF Wanted
  <1>2. CASE ~ v < MIN_PULSE_WIDTH
    BY <1>2 DEF Wanted
  <1> QED
    BY <1>1, <1>2

LEMMA ObjectBounds ==
  ObjectInv => /\ min \in -128 .. 127 /\ max \in -128 .. 127
               /\ Ranged
               /\ Low - limits[1] \in -3 .. 3 /\ High - limits[2] \in -3 .. 3
  <1> SUFFICES ASSUME ObjectInv
               PROVE  /\ min \in -128 .. 127 /\ max \in -128 .. 127
                      /\ Ranged
                      /\ Low - limits[1] \in -3 .. 3 /\ High - limits[2] \in -3 .. 3
    OBVIOUS
  <1> QED
    BY LimitsKept DEF ObjectInv

LEMMA ObjectStarts == ObjectInit => ObjectInv
  <1> SUFFICES ASSUME ObjectInit PROVE ObjectInv
    OBVIOUS
  <1>1. /\ limits = <<544, 2400>> /\ min = 0 /\ max = 0 /\ last = <<"none", 0>>
        /\ stored = usToTicks(1500)
    BY DEF ObjectInit, MIN_PULSE_WIDTH, MAX_PULSE_WIDTH,
           DEFAULT_PULSE_WIDTH
  <1>2. stored = 3000
    BY <1>1 DEF usToTicks
  <1>3. Quotient(0, 4) = 0 /\ Field(0) = 0
    BY DEF Quotient, Field, Int8
  <1>4. limits[1] = 544 /\ limits[2] = 2400 /\ limits \in Int \X Int
    BY <1>1
  <1> QED
    BY <1>1, <1>2, <1>3, <1>4
       DEF ObjectInv, Representable, MIN_PULSE_WIDTH,
           MAX_PULSE_WIDTH

LEMMA ObjectKeeps ==
  ASSUME ObjectInv, [ObjectNext]_objectVars
  PROVE  ObjectInv'
  <1>1. CASE UNCHANGED objectVars
    <2>1. UNCHANGED <<limits, min, max, stored, last>>
      BY <1>1 DEF objectVars
    <2> QED
      BY <2>1 DEF ObjectInv, Wanted, Low, High, TicksFor, SERVO_MIN,
                  SERVO_MAX
  <1>2. ASSUME NEW l \in Limits, Attach(l) PROVE ObjectInv'
    <2>1. l \in Int \X Int /\ Representable(l)
      BY LimitsAssumption DEF LimitsAssumption
    <2>2. /\ limits' = l /\ last' = <<"none", 0>> /\ stored' = stored
          /\ min' = Field(MIN_PULSE_WIDTH - l[1])
          /\ max' = Field(MAX_PULSE_WIDTH - l[2])
      BY <1>2 DEF Attach
    <2> QED
      BY <2>1, <2>2 DEF ObjectInv, Representable, MIN_PULSE_WIDTH,
                        MAX_PULSE_WIDTH
  <1>3. ASSUME NEW v \in Values, Write(v) \/ WriteMicroseconds(v)
        PROVE  ObjectInv'
    <2>1. v \in Int
      BY LimitsAssumption DEF LimitsAssumption
    <2>2. UNCHANGED <<limits, min, max>>
      BY <1>3 DEF Write, WriteMicroseconds
    <2>3. Ranged /\ Wanted(v) \in Int
      BY <2>1, ObjectBounds, WantedType
    <2>4. /\ TicksFor(v) \in Nat /\ TicksFor(v) <= 10000
          /\ TicksFor(Wanted(v)) \in Nat
          /\ TicksFor(Wanted(v)) <= 10000
      BY <2>1, <2>3, WidthBack
    <2>5. \A x : TicksFor(x)' = TicksFor(x) /\ Wanted(x)' = Wanted(x)
      BY <2>2 DEF TicksFor, SERVO_MIN, SERVO_MAX, Wanted, Low,
                  High
    <2>6. CASE Write(v)
      <3>1. stored' = TicksFor(Wanted(v)) /\ last' = <<"write", v>>
        BY <2>6 DEF Write, Wanted, Low, High
      <3> QED
        BY <2>1, <2>2, <2>4, <2>5, <3>1
           DEF ObjectInv, Representable, MIN_PULSE_WIDTH,
               MAX_PULSE_WIDTH
    <2>7. CASE WriteMicroseconds(v)
      <3>1. stored' = TicksFor(v) /\ last' = <<"us", v>>
        BY <2>7 DEF WriteMicroseconds
      <3> QED
        BY <2>1, <2>2, <2>4, <2>5, <3>1
           DEF ObjectInv, Representable, MIN_PULSE_WIDTH,
               MAX_PULSE_WIDTH
    <2> QED
      BY <1>3, <2>6, <2>7
  <1> QED
    BY <1>1, <1>2, <1>3 DEF ObjectNext

(* The invariant of an object, from its limits and calls being legal.        *)
THEOREM ObjectInductive == ObjectSpec => []ObjectInv
  <1>1. ObjectInit => ObjectInv
    BY ObjectStarts
  <1>2. ObjectInv /\ [ObjectNext]_objectVars => ObjectInv'
    BY ObjectKeeps
  <1> QED
    BY <1>1, <1>2, PTL DEF ObjectSpec

(* The fields of a Servo object hold the limits given and its ticks fit an   *)
(* unsigned int, for any limits that the source says they can hold and any *)
(* values written.                                                         *)
THEOREM ObjectTypeCorrect == ObjectSpec => []ObjectTypeOK
  <1>1. ASSUME ObjectInv PROVE ObjectTypeOK
    <2>1. stored \in Nat /\ \A m \in Nat : 10000 <= m => stored \in 0 .. m
      BY <1>1 DEF ObjectInv
    <2>2. MaxUnsigned \in Nat /\ 10000 <= MaxUnsigned
      BY DEF MaxUnsigned
    <2>3. stored \in 0 .. MaxUnsigned
      BY <2>1, <2>2
    <2>4. min \in -128 .. 127 /\ max \in -128 .. 127
      BY <1>1, ObjectBounds
    <2> QED
      BY <2>3, <2>4 DEF ObjectTypeOK
  <1> QED
    BY <1>1, ObjectInductive, PTL

(* What read() and readMicroseconds() see after a write. *)
LEMMA ReadMicrosecondsIs ==
  ASSUME ObjectInv, last[1] = "us", NEW v \in Int, v = last[2]
  PROVE  ReadMicroseconds = Between(v, Low, High)
  <1>1. Ranged
    BY ObjectBounds
  <1>2. stored = TicksFor(v)
    BY DEF ObjectInv
  <1> QED
    BY <1>1, <1>2, WidthBack DEF ReadMicroseconds

LEMMA ReadIs ==
  ASSUME ObjectInv, last[1] = "write", NEW v \in 0 .. 180, v = last[2]
  PROVE  \E lo, hi, us \in Int :
           /\ lo = Low /\ hi = High /\ Rounded(us, v, lo, hi)
           /\ ReadMicroseconds = us /\ Read = v
  <1>1. PICK lo, hi \in Int : lo = Low /\ hi = High /\ hi - lo > 180
    BY ObjectBounds DEF Ranged
  <1>2. PICK us \in Int : /\ us = map(v, 0, 180, lo, hi)
                          /\ lo <= us /\ us <= hi /\ Rounded(us, v, lo, hi)
    BY <1>1, MapTo
  <1>3. map(us + 1, lo, hi, 0, 180) = v
    <2>1. hi - lo > 180 /\ lo <= us /\ Rounded(us, v, lo, hi) /\ 0 <= v /\ v <= 180
      BY <1>1, <1>2
    <2> QED
      BY <2>1, MapBack
  <1>4. Wanted(v) = us
    BY <1>1, <1>2 DEF Wanted, MIN_PULSE_WIDTH, Between
  <1>5. stored = TicksFor(us)
    BY <1>4 DEF ObjectInv
  <1>6. ReadMicroseconds = us
    BY <1>1, <1>2, <1>5, ObjectBounds, WidthBack DEF ReadMicroseconds
  <1>7. Read = v
    BY <1>1, <1>3, <1>6 DEF Read, Low, High
  <1> QED
    BY <1>1, <1>2, <1>6, <1>7

(* read() returns the angle last written and readMicroseconds() the width,  *)
(* within the limits: the trim, the ticks and map() there and back cancel.  *)
THEOREM ReadBackCorrect == ObjectSpec => []ReadBack
  <1>1. ASSUME ObjectInv PROVE ReadBack
    <2>1. last[2] \in Int
      BY <1>1 DEF ObjectInv
    <2>2. Angle => Read = last[2]
      BY <1>1, ReadIs DEF Angle
    <2>3. last[1] = "us" =>
            ReadMicroseconds = Between(last[2], Low, High)
      BY <1>1, <2>1, ReadMicrosecondsIs
    <2> QED
      BY <2>2, <2>3 DEF ReadBack, Low, High
  <1> QED
    BY <1>1, ObjectInductive, PTL

(* A multiple of a small error. *)
LEMMA SmallMultiple ==
  ASSUME NEW d \in -3 .. 3, NEW k \in Nat
  PROVE  k * d <= 3 * k /\ -3 * k <= k * d /\ k * d \in Int
  <1>1. d \in {-3, -2, -1, 0, 1, 2, 3}
    OBVIOUS
  <1> QED
    BY <1>1

(* The error of a pulse us for the angle a on the line from l to h. *)
Error180(us, a, l, h) == 180 * us - (l * (180 - a) + h * a)

LEMMA OnLine ==
  ASSUME NEW a \in 0 .. 180, NEW lo \in Int, NEW hi \in Int, NEW us \in Int,
         NEW l \in Int, NEW h \in Int, lo - l \in -3 .. 3, hi - h \in -3 .. 3,
         Rounded(us, a, lo, hi)
  PROVE  Error180(us, a, l, h) \in -4 * 180 .. 4 * 180
  <1>1. PICK d \in -3 .. 3 : d = lo - l
    OBVIOUS
  <1>2. PICK e \in -3 .. 3 : e = hi - h
    OBVIOUS
  <1>3. PICK x \in Int : x = a * l
    OBVIOUS
  <1>4. PICK y \in Int : y = a * h
    OBVIOUS
  <1>5. PICK f \in Int : f = a * d /\ f <= 3 * a /\ -3 * a <= f
    BY SmallMultiple
  <1>6. PICK g \in Int : g = a * e /\ g <= 3 * a /\ -3 * a <= g
    BY SmallMultiple
  <1>7. a * (hi - lo) = y + g - x - f
    <2>1. a * (hi - lo) = a * hi - a * lo
      OBVIOUS
    <2>2. a * hi = y + g
      BY <1>2, <1>4, <1>6
    <2>3. a * lo = x + f
      BY <1>1, <1>3, <1>5
    <2> QED
      BY <2>1, <2>2, <2>3
  <1>8. l * (180 - a) + h * a = 180 * l - x + y
    BY <1>3, <1>4
  <1>9. (180 - a) * d <= 3 * (180 - a) /\ -3 * (180 - a) <= (180 - a) * d
    BY SmallMultiple
  <1>10. (180 - a) * d = 180 * d - f
    BY <1>5
  <1> QED
    BY <1>1, <1>5, <1>6, <1>7, <1>8, <1>9, <1>10 DEF Rounded, Error180

(* The pulse for an angle is on the line between the limits, up to 4         *)
(* microseconds.                                                            *)
THEOREM AngleOnLineCorrect == ObjectSpec => []AngleOnLine
  <1>1. ASSUME ObjectInv, Angle PROVE AngleOnLine
    <2>1. PICK v \in 0 .. 180 : v = last[2] /\ last[1] = "write"
      BY <1>1 DEF Angle
    <2>2. PICK lo, hi, us \in Int :
            /\ lo = Low /\ hi = High /\ Rounded(us, v, lo, hi)
            /\ ReadMicroseconds = us
      BY <1>1, <2>1, ReadIs
    <2>3. PICK l, h \in Int : l = limits[1] /\ h = limits[2]
      BY <1>1 DEF ObjectInv
    <2>4. lo - l \in -3 .. 3 /\ hi - h \in -3 .. 3
      BY <1>1, <2>2, <2>3, ObjectBounds
    <2>5. Error180(us, v, l, h) \in -4 * 180 .. 4 * 180
      BY <2>2, <2>4, OnLine
    <2> QED
      BY <2>1, <2>2, <2>3, <2>5 DEF AngleOnLine, Error180
  <1>2. ObjectInv => AngleOnLine
    BY <1>1 DEF AngleOnLine
  <1> QED
    BY <1>2, ObjectInductive, PTL
=============================================================================
