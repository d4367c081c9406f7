------------------------------- MODULE Servo -------------------------------
(***************************************************************************)
(* The Servo library on one timer: attach(), detach() and                  *)
(* writeMicroseconds() in the sketch, handle_interrupts() in the compare   *)
(* interrupt, and the 16-bit timer.  The interrupt gives each channel its  *)
(* pulse in turn and then waits for the refresh interval.                  *)
(*                                                                         *)
(* Time is counted in ticks of the timer.  An interrupt is served at most  *)
(* MaxLate ticks after its compare match, and at most IsrLag ticks pass    *)
(* between the handler's read of TCNT and its write to OCRA.               *)
(***************************************************************************)
EXTENDS Integers

CONSTANTS
  ServoCount,        \* objects on this timer, at most SERVOS_PER_TIMER
  Wrap,              \* the timer counts modulo Wrap (2^16)
  REFRESH_INTERVAL,  \* in ticks
  Widths,            \* the values the sketch writes to ticks
  Margin,            \* "a few ticks to ensure the next OCR1A not missed"
  MaxLate, IsrLag,   \* how late the interrupt and the write to OCRA may be
  ByteSize           \* how many values a byte of ticks has (2^8)

ASSUME ServoAssumption ==
  /\ ServoCount \in Nat \ {0} /\ REFRESH_INTERVAL \in Nat \ {0}
  /\ MaxLate \in Nat /\ IsrLag \in Nat /\ Margin \in Nat /\ IsrLag < Margin
  /\ ByteSize \in Nat \ {0}
  /\ Widths \subseteq 0 .. ByteSize * ByteSize - 1
  /\ \E w \in Widths : \A v \in Widths : v <= w
  /\ \A w \in Widths : w > IsrLag + MaxLate

Servos == 0 .. ServoCount - 1
MaxWidth == CHOOSE w \in Widths : \A v \in Widths : v <= w

(* The longest a frame (a pulse for each servo, then the rest of the        *)
(* refresh interval) can last.                                             *)
FrameMax ==
  LET pulses == ServoCount * (MaxWidth + MaxLate) + IsrLag + Margin
  IN  MaxLate + IF pulses > REFRESH_INTERVAL THEN pulses ELSE REFRESH_INTERVAL

ASSUME WrapAssumption == Wrap \in Nat /\ Wrap > FrameMax

VARIABLES
  tcnt, ocr, match, enabled,  \* TCNT1, OCR1A, OCF1A and OCIE1A
  channel,                    \* Channel[timer]: -1 in the refresh interval
  active, ticks,              \* isActive and the two bytes of ticks
  high,                       \* the level of each servo's pin
  irqOn,                      \* SREG_I
  isr, read,                  \* the handler, and the TCNT it has read
  pc, servo, value,           \* the sketch, and the arguments of its call
  late,                       \* ticks the interrupt or the handler has waited
  \* what the properties refer to:
  wanted, due,       \* the last width written; that of the current pulse
  age,               \* ticks since the last pulse began
  stale,             \* servos detached in the middle of a pulse
  frame, framed      \* ticks since a frame began, if one has since initISR()

timer == <<tcnt, ocr, match, enabled>>
handler == <<channel, isr, read, late>>
call == <<pc, servo, value, irqOn>>
objects == <<active, ticks, wanted>>
pulse == <<high, due, age, stale, frame, framed>>
vars == <<timer, handler, call, objects, pulse>>

BytesPlain(w) == <<w, w % ByteSize>>   \* mutant: the high byte not shifted
Bytes(w) == <<w \div ByteSize, w % ByteSize>>
Number(b) == b[1] * ByteSize + b[2]

Init ==
  /\ tcnt = 0 /\ ocr = 0 /\ match = FALSE /\ enabled = FALSE
  /\ channel = 0 /\ isr = "off" /\ read = 0 /\ late = 0
  /\ pc = "idle" /\ servo = 0 /\ value = 0 /\ irqOn = TRUE
  /\ active = [c \in Servos |-> FALSE]
  /\ wanted = [c \in Servos |-> MaxWidth]   \* DEFAULT_PULSE_WIDTH
  /\ ticks = [c \in Servos |-> Bytes(MaxWidth)]
  /\ high = [c \in Servos |-> FALSE]
  /\ due = 0 /\ age = 0 /\ stale = {} /\ frame = 0 /\ framed = FALSE

-----------------------------------------------------------------------------
(* The timer: a tick that makes TCNT equal to OCRA sets the match flag.    *)

Pulsing == \E c \in Servos \ stale : high[c]
Capped(n) == IF n < Wrap THEN n + 1 ELSE n

Tick ==
  /\ enabled
  /\ match => late < MaxLate
  /\ isr = "load" => late < IsrLag
  /\ tcnt' = (tcnt + 1) % Wrap
  /\ match' = (match \/ tcnt' = ocr)
  /\ late' = IF match \/ isr = "load" THEN late + 1 ELSE 0
  /\ age' = IF Pulsing THEN Capped(age) ELSE 0
  /\ frame' = IF framed THEN Capped(frame) ELSE 0
  /\ UNCHANGED <<ocr, enabled, channel, isr, read, call, objects, high, due,
                 stale, framed>>

-----------------------------------------------------------------------------
(* handle_interrupts(), between whose two halves TCNT goes on              *)

LowByNever(c) == FALSE   \* mutant: the pin is not driven LOW
LowBy(c) == active[c]    \* does the end of a channel's pulse drive the pin?

(* The end of a channel's pulse, or of the refresh interval. *)
Finish ==
  /\ enabled /\ match /\ irqOn /\ isr = "off"
  /\ match' = FALSE /\ isr' = "load" /\ late' = 0
  /\ IF channel < 0
       THEN /\ tcnt' = 0 /\ frame' = 0 /\ framed' = TRUE
            /\ UNCHANGED <<high, stale, due>>
       ELSE /\ IF LowBy(channel)
                 THEN /\ high' = [high EXCEPT ![channel] = FALSE]
                      /\ stale' = stale \ {channel} /\ due' = 0
                 ELSE UNCHANGED <<high, stale, due>>
            /\ UNCHANGED <<tcnt, frame, framed>>
  /\ channel' = channel + 1
  /\ read' = tcnt'
  /\ UNCHANGED <<ocr, enabled, call, objects, age>>

(* The start of the next channel's pulse. *)
StartPulse ==
  /\ isr = "load" /\ channel < ServoCount
  /\ ocr' = (read + Number(ticks[channel])) % Wrap
  /\ IF active[channel]
       THEN /\ high' = [high EXCEPT ![channel] = TRUE]
            /\ due' = wanted[channel] /\ age' = 0
       ELSE UNCHANGED <<high, due, age>>
  /\ isr' = "off" /\ read' = 0 /\ late' = 0
  /\ UNCHANGED <<tcnt, match, enabled, channel, call, objects, stale,
                 frame, framed>>

BeforeRefreshNoMargin == read < REFRESH_INTERVAL   \* mutant: no few ticks
BeforeRefresh == (read + Margin) % Wrap < REFRESH_INTERVAL

(* After the last channel: wait for the rest of the refresh interval.      *)
WaitForRefresh ==
  /\ isr = "load" /\ channel >= ServoCount
  /\ IF BeforeRefresh
       THEN ocr' = REFRESH_INTERVAL
       ELSE \E r \in read .. tcnt : ocr' = (r + Margin) % Wrap  \* read again
  /\ channel' = -1
  /\ isr' = "off" /\ read' = 0 /\ late' = 0
  /\ UNCHANGED <<tcnt, match, enabled, call, objects, pulse>>

-----------------------------------------------------------------------------
(* The sketch                                                              *)

Return == pc' = "idle" /\ servo' = 0 /\ value' = 0

Idle == pc = "idle" /\ isr = "off"

isTimerActiveSet == TRUE   \* mutant: isActive is set before the check
isTimerActive == \E d \in Servos : active[d]

(* attach() starts the timer if no servo was active.                       *)
AttachCall(c) ==
  /\ Idle
  /\ servo' = c
  /\ IF isTimerActive
       THEN pc' = "activate" /\ UNCHANGED <<tcnt, framed>>
       ELSE pc' = "clear" /\ tcnt' = 0 /\ framed' = FALSE
  /\ UNCHANGED <<value, irqOn, ocr, match, enabled, handler, objects, high,
                 due, age, stale, frame>>

InitClear ==
  /\ pc = "clear" /\ isr = "off"
  /\ match' = FALSE /\ enabled' = TRUE /\ late' = 0
  /\ framed' = FALSE
  /\ pc' = "activate"
  /\ UNCHANGED <<tcnt, ocr, channel, isr, read, servo, value, irqOn, objects,
                 high, due, age, stale, frame>>

Activate ==
  /\ pc = "activate" /\ isr = "off"
  /\ active' = [active EXCEPT ![servo] = TRUE]
  /\ Return
  /\ UNCHANGED <<irqOn, ticks, wanted, timer, handler, pulse>>

(* detach(): the timer goes on; finISR() does nothing on this platform.    *)
Detach(c) ==
  /\ Idle
  /\ active' = [active EXCEPT ![c] = FALSE]
  /\ stale' = IF high[c] THEN stale \union {c} ELSE stale
  /\ UNCHANGED <<ticks, wanted, timer, handler, call, high, due, age, frame,
                 framed>>

cliForgotten == UNCHANGED irqOn   \* mutant: interrupts stay on
cli == irqOn' = FALSE

(* writeMicroseconds(): the two bytes of ticks, with interrupts masked.    *)
WriteCall(c, w) ==
  /\ Idle
  /\ cli
  /\ ticks' = [ticks EXCEPT ![c][1] = Bytes(w)[1]]
  /\ pc' = "store" /\ servo' = c /\ value' = w
  /\ UNCHANGED <<active, wanted, timer, handler, pulse>>

WriteReturn ==
  /\ pc = "store" /\ isr = "off"
  /\ ticks' = [ticks EXCEPT ![servo][2] = Bytes(value)[2]]
  /\ irqOn' = TRUE
  /\ wanted' = [wanted EXCEPT ![servo] = value]
  /\ Return
  /\ UNCHANGED <<active, timer, handler, pulse>>

-----------------------------------------------------------------------------
Calls ==
  \/ \E c \in Servos : AttachCall(c) \/ Detach(c)
  \/ \E c \in Servos, w \in Widths : WriteCall(c, w)

Running == InitClear \/ Activate \/ WriteReturn

Interrupt == Finish \/ StartPulse \/ WaitForRefresh

Next == Calls \/ Running \/ Interrupt \/ Tick

Spec == Init /\ [][Next]_vars

(* Time passes, calls run to their end, and a pending interrupt is served   *)
(* when interrupts are on, however often the sketch masks them.            *)
Fairness == WF_vars(Tick) /\ WF_vars(Running) /\ SF_vars(Interrupt)

FairSpec == Spec /\ Fairness

-----------------------------------------------------------------------------
(* Properties                                                              *)

TypeOK ==
  /\ tcnt \in 0 .. Wrap - 1 /\ ocr \in 0 .. Wrap - 1 /\ read \in 0 .. Wrap - 1
  /\ match \in BOOLEAN /\ enabled \in BOOLEAN /\ irqOn \in BOOLEAN
  /\ framed \in BOOLEAN
  /\ channel \in -1 .. ServoCount
  /\ active \in [Servos -> BOOLEAN] /\ high \in [Servos -> BOOLEAN]
  /\ ticks \in [Servos -> (0 .. ByteSize - 1) \X (0 .. ByteSize - 1)]
  /\ wanted \in [Servos -> Widths] /\ value \in Widths \union {0}
  /\ servo \in Servos /\ stale \subseteq Servos
  /\ isr \in {"off", "load"}
  /\ pc \in {"idle", "clear", "activate", "store"}
  /\ due \in Nat /\ late \in Nat /\ age \in 0 .. Wrap /\ frame \in 0 .. Wrap

(* Only the channel whose turn it is has its pin HIGH, and only if it is    *)
(* attached, unless it was detached in the middle of a pulse.              *)
OnePulse ==
  \A c \in Servos \ stale : high[c] => active[c] /\ channel = c /\ isr = "off"

(* A pulse lasts as long as the last width written before it began, up to   *)
(* the delays of the interrupt: no torn value, no missed or early match.   *)
PulseWidth ==
  [][\A c \in Servos \ stale : high[c] /\ ~ high'[c] =>
       age \in due - IsrLag .. due + MaxLate]_vars

(* The frames are as long as REFRESH_INTERVAL or as the pulses need, never  *)
(* shorter or longer: no compare match is missed.                          *)
FrameRate ==
  [][framed /\ channel = -1 /\ channel' = 0 =>
       frame \in REFRESH_INTERVAL .. FrameMax]_vars

(* An attached servo is given pulses, and each of them ends.               *)
KeepsPulsing ==
  \A c \in Servos :
    /\ (active[c] /\ ~ high[c]) ~> (high[c] \/ ~ active[c])
    /\ (active[c] /\ high[c]) ~> (~ high[c] \/ ~ active[c])

(* detach() "Stops an attached servos from pulsing its i/o pin": the pin of  *)
(* a servo that stays detached does not stay HIGH.                         *)
DetachStops == \A c \in Servos : ~ active[c] ~> (~ high[c] \/ active[c])
=============================================================================
