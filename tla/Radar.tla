------------------------------- MODULE Radar -------------------------------
(***************************************************************************)
(* The radar: the sketch Radar.ino with the servo, the sensor and the      *)
(* serial line it drives, in steps of one millisecond.  The Servo library  *)
(* and the line appear as what the modules Servo and SerialTx show of them: *)
(* a pulse of the last width written in every refresh interval, and a      *)
(* channel of bounded capacity that loses nothing.                         *)
(***************************************************************************)
EXTENDS Integers, FiniteSets, Sequences

CONSTANTS
  FirstAngle, LastAngle,  \* the ends of the sweep, 15 and 165 degrees
  Echoes,       \* how long an echo can be, in microseconds
  Timeout,      \* of pulseIn(), in milliseconds, and what interrupts take
  Capacity,     \* characters the line holds before print() blocks
  PulseTimes    \* how long a pulse of the servo can be, in milliseconds

LongestEcho == 554646   \* up to which the float of the sketch is exact
MaxInt == 32767

ASSUME RadarAssumption ==
  /\ FirstAngle \in Nat /\ LastAngle \in Nat /\ FirstAngle + 1 < LastAngle
  /\ Timeout \in Nat \ {0} /\ Capacity \in Nat \ {0}
  /\ Echoes \subseteq Nat \ {0}
  /\ \A e \in Echoes : e <= LongestEcho /\ e < 1000 * Timeout
  /\ PulseTimes \subseteq 1 .. 3

VARIABLES
  pc, up, i,       \* the sketch: where it is, which of its two loops, i
  wait,            \* how long delay() or pulseIn() still takes
  duration, distance,
  commanded,       \* the angle last given to myServo.write()
  phase, timer,    \* of the servo's frame, and when it ends
  pulse,           \* the current pulse: its angle and its length
  position,        \* the angle of the last complete pulse
  queue, queued,   \* what is printed and not sent, in fields and characters
  line,            \* when the next character is sent
  partial, shown,  \* the host: the record coming in, the last complete one
  rising,          \* whether that was sent by the first loop of the sketch
  aim, measured    \* where the servo pointed when each record was measured

loopVars == <<pc, up, i, wait, duration, distance>>
servo == <<commanded, phase, timer, pulse, position>>
serial == <<queue, queued, line, partial, shown, rising>>
history == <<aim, measured>>
vars == <<loopVars, servo, serial, history>>

NoEcho == 0             \* what pulseIn() returns after its timeout
Unknown == -1           \* where the servo was left before the reset
REFRESH_INTERVAL == 20
FirstMatch == 33        \* OCR1A = 0 is matched when TCNT1 has wrapped
SettleShort == 15       \* mutant: the delay of the sketch SweepOTOR
Settle == 30
CharTimesSlow == {9}    \* mutant: 1200 baud
CharTimes == {1, 2}     \* 1.04 ms at 9600 baud, rounded either way

(* The characters print() writes for a number. *)
Digits(n) == 1 + Cardinality({p \in {10, 100, 1000, 10000} : n >= p})

Init ==   \* after setup()
  /\ pc = "write" /\ up = TRUE /\ i = FirstAngle
  /\ wait = 0 /\ duration = 0 /\ distance = 0
  /\ commanded = Unknown /\ phase = "off" /\ timer = FirstMatch
  /\ pulse = [angle |-> Unknown, length |-> 0] /\ position = Unknown
  /\ queue = <<>> /\ queued = 0 /\ line = 0
  /\ partial = <<>> /\ shown = <<>> /\ rising = TRUE
  /\ aim = Unknown /\ measured = <<>>

-----------------------------------------------------------------------------
(* loop()                                                                  *)

WriteServo ==
  /\ pc = "write"
  /\ commanded' = i
  /\ wait' = Settle /\ pc' = "delay"
  /\ UNCHANGED <<up, i, duration, distance, phase, timer, pulse, position,
                 serial, history>>

(* Without an echo the iterations run out after two thirds of the timeout  *)
(* or later (ZeroMeans and TimeoutKept of PulseIn); an echo takes a        *)
(* millisecond or two more, with the wait for it to start.                 *)
PulseInTimes(d) ==
  IF d = NoEcho THEN (2 * Timeout) \div 3 + 1 .. Timeout
                ELSE d \div 1000 + 1 .. d \div 1000 + 2

Trigger ==
  /\ pc = "delay" /\ wait = 0
  /\ duration' \in Echoes \union {NoEcho}
  /\ wait' \in PulseInTimes(duration')
  /\ aim' = position
  /\ pc' = "pulseIn"
  /\ UNCHANGED <<up, i, distance, servo, serial, measured>>

(* duration * 0.034 / 2, converted to int. *)
calculateDistance == (duration * 17) \div 1000

PulseInReturn ==
  /\ pc = "pulseIn" /\ wait = 0
  /\ distance' = calculateDistance
  /\ measured' = Append(measured, [from |-> aim, to |-> position,
                                   distance |-> distance', up |-> up])
  /\ pc' = "angle"
  /\ UNCHANGED <<up, i, wait, duration, servo, serial, aim>>

Chars(p) == CASE p = "angle" -> Digits(i)
              [] p = "distance" -> Digits(distance)
              [] OTHER -> 1
Value(p) == CASE p = "angle" -> i [] p = "distance" -> distance [] OTHER -> 0
After(p) == CASE p = "angle" -> "comma" [] p = "comma" -> "distance"
              [] p = "distance" -> "dot" [] p = "dot" -> "next"

Printing == pc \in {"angle", "comma", "distance", "dot"}

HasRoom == queued + Chars(pc) <= Capacity

(* print(): returns when the line has taken the last character. *)
PrintField ==
  /\ Printing /\ HasRoom
  /\ queue' = Append(queue, [field |-> pc, value |-> Value(pc),
                             chars |-> Chars(pc)])
  /\ queued' = queued + Chars(pc)
  /\ IF queue = <<>> THEN line' \in CharTimes ELSE line' = line
  /\ pc' = After(pc)
  /\ UNCHANGED <<up, i, wait, duration, distance, servo, partial, shown,
                 rising, history>>

UpEndBeyond == LastAngle + 1      \* mutant: one angle too far
UpEnd == LastAngle
DownEndEarly == FirstAngle + 1    \* mutant: one angle too few
DownEnd == FirstAngle

(* The for loops: the first runs through LastAngle, the second begins with  *)
(* LastAngle again and stops before FirstAngle; main() calls loop() again.  *)
NextAngle ==
  /\ pc = "next"
  /\ pc' = "write"
  /\ \/ up /\ i < UpEnd /\ i' = i + 1 /\ up' = TRUE
     \/ up /\ i >= UpEnd /\ i' = LastAngle /\ up' = FALSE
     \/ ~ up /\ i - 1 > DownEnd /\ i' = i - 1 /\ up' = FALSE
     \/ ~ up /\ i - 1 <= DownEnd /\ i' = FirstAngle /\ up' = TRUE
  /\ UNCHANGED <<wait, duration, distance, servo, serial, history>>

-----------------------------------------------------------------------------
(* The servo: the first compare match only begins a refresh interval.      *)

FirstInterrupt ==
  /\ phase = "off" /\ timer = 0
  /\ phase' = "refresh" /\ timer' = REFRESH_INTERVAL
  /\ UNCHANGED <<loopVars, commanded, pulse, position, serial, history>>

StartPulse ==
  /\ phase = "refresh" /\ timer = 0
  /\ timer' \in PulseTimes
  /\ pulse' = [angle |-> commanded, length |-> timer']
  /\ phase' = "pulse"
  /\ UNCHANGED <<loopVars, commanded, position, serial, history>>

EndPulse ==
  /\ phase = "pulse" /\ timer = 0
  /\ position' = pulse.angle
  /\ phase' = "refresh" /\ timer' = REFRESH_INTERVAL - pulse.length
  /\ UNCHANGED <<loopVars, commanded, pulse, serial, history>>

-----------------------------------------------------------------------------
(* The line and the host, which reads <angle> "," <distance> ".".          *)

Sent == Head(queue)

HostReads(token) ==
  \/ /\ token.field = "comma"
     /\ UNCHANGED <<partial, shown, rising, measured>>
  \/ /\ token.field \in {"angle", "distance"}
     /\ partial' = Append(partial, token.value)
     /\ UNCHANGED <<shown, rising, measured>>
  \/ /\ token.field = "dot"
     /\ shown' = partial /\ partial' = <<>>
     /\ rising' = Head(measured).up
     /\ measured' = Tail(measured)

SendChar ==
  /\ queue # <<>> /\ line = 0
  /\ IF Sent.chars > 1
       THEN /\ queue' = [queue EXCEPT ![1].chars = @ - 1]
            /\ UNCHANGED <<partial, shown, rising, measured>>
       ELSE queue' = Tail(queue) /\ HostReads(Sent)
  /\ queued' = queued - 1
  /\ IF queue' = <<>> THEN line' = 0 ELSE line' \in CharTimes
  /\ UNCHANGED <<loopVars, servo, aim>>

-----------------------------------------------------------------------------
(* A millisecond passes while the sketch waits.                            *)
Elapse ==
  /\ wait # 0 \/ (Printing /\ ~ HasRoom)
  /\ timer > 0 /\ (queue # <<>> => line > 0)
  /\ wait' = IF wait > 0 THEN wait - 1 ELSE wait
  /\ timer' = timer - 1
  /\ line' = IF line > 0 THEN line - 1 ELSE 0
  /\ UNCHANGED <<pc, up, i, duration, distance, commanded, phase, pulse,
                 position, queue, queued, partial, shown, rising, history>>

Sketch == WriteServo \/ Trigger \/ PulseInReturn \/ PrintField \/ NextAngle
Interrupts == FirstInterrupt \/ StartPulse \/ EndPulse

Next == Sketch \/ Interrupts \/ SendChar \/ Elapse

(* Time passes and the processor runs. *)
Spec == Init /\ [][Next]_vars /\ WF_vars(Next)

-----------------------------------------------------------------------------
(* Properties                                                              *)

TypeOK ==
  /\ pc \in {"write", "delay", "pulseIn", "angle", "comma", "distance", "dot",
             "next"}
  /\ up \in BOOLEAN /\ i \in FirstAngle .. LastAngle
  /\ wait \in 0 .. Timeout + Settle
  /\ duration \in Echoes \union {NoEcho} /\ distance \in 0 .. MaxInt
  /\ {commanded, position, aim, pulse.angle}
       \subseteq {Unknown} \union FirstAngle .. LastAngle
  /\ phase \in {"off", "refresh", "pulse"} /\ timer \in 0 .. FirstMatch
  /\ queued \in 0 .. Capacity /\ Len(queue) <= queued /\ Len(partial) <= 2
  /\ (shown = <<>> \/ Len(shown) = 2) /\ rising \in BOOLEAN

Received == shown' # shown \/ Len(measured') < Len(measured)

(* A record the host gets says where the servo pointed while the echo was   *)
(* timed, and the distance of that echo.                                   *)
Truthful ==
  LET m == Head(measured)
  IN  shown' = <<m.from, m.distance>> /\ m.from = m.to

(* Every record but the first is truthful: a pulse for the new angle is     *)
(* complete when delay(30) ends, none for another angle begins before the   *)
(* measurement does, and the line keeps records whole and in order.        *)
RecordsTruthful == [][Received /\ shown # <<>> => Truthful]_vars

(* loop() "Calls a function for calculating the distance measured by the    *)
(* Ultrasonic sensor for each degree" and "Sends the current degree": all   *)
(* records are truthful, the first one too.                                *)
EachDegree == [][Received => Truthful]_vars

(* What is printed does not pile up: the last record has left the line when *)
(* the next one is printed, so that print() never blocks the sweep.        *)
UpToDate == pc = "angle" => queue = <<>>

(* The host sees the sweep and nothing else, for ever: records come in the  *)
(* order of the angles, whether or not the sensor answers.                 *)
Swept == INSTANCE Sweep WITH
  angle <- IF shown = <<>> THEN FirstAngle - 1 ELSE shown[1]

ImplementsSweep == Swept!Spec
=============================================================================
