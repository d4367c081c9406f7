----------------------------- MODULE ServoAngle -----------------------------
(***************************************************************************)
(* The arithmetic of one Servo object: from the limits given to attach()   *)
(* and the value given to write() or writeMicroseconds(), to the number of *)
(* timer ticks of the pulse, and back in read() and readMicroseconds().    *)
(* The numbers are the program's own; the board runs at 16 MHz.  What every *)
(* module has, Init and the like, has Object in its name here: the proofs   *)
(* of the library take this module together with Servo.                    *)
(***************************************************************************)
EXTENDS Integers

CONSTANTS
  Limits,  \* the pairs <<min, max>> given to attach(), in microseconds
  Values   \* the values given to write() and writeMicroseconds()

MIN_PULSE_WIDTH == 544
MAX_PULSE_WIDTH == 2400
DEFAULT_PULSE_WIDTH == 1500
TRIM_DURATION == 2
MaxUnsigned == 65535

VARIABLES
  limits,     \* the arguments of the last attach()
  min, max,   \* the object's fields, of type int8_t
  stored,     \* its ticks, of type unsigned int
  last        \* the last call that changed ticks, and its argument

objectVars == <<limits, min, max, stored, last>>

Int8(n) == ((n + 128) % 256) - 128
Quotient(n, d) == IF n < 0 THEN - ((- n) \div d) ELSE n \div d   \* C's n / d

FieldFine(us) == us   \* mutant: the resolution of 4 microseconds forgotten
Field(us) == Int8(Quotient(us, 4))

usToTicks(us) == (16 * us) \div 8
ticksToUs(t) == ((t * 8) % 65536) \div 16

map(x, inMin, inMax, outMin, outMax) ==
  Quotient((x - inMin) * (outMax - outMin), inMax - inMin) + outMin

SERVO_MIN == MIN_PULSE_WIDTH - min * 4
SERVO_MAXPlus == MAX_PULSE_WIDTH + max * 4   \* mutant: the sign of max
SERVO_MAX == MAX_PULSE_WIDTH - max * 4

Between(x, low, up) == IF x < low THEN low ELSE IF x > up THEN up ELSE x

(* Limits that min and max can hold: the source's own remark in attach(),   *)
(* "todo min/max check: abs(min - MIN_PULSE_WIDTH) /4 < 128".              *)
Representable(l) ==
  /\ Quotient(MIN_PULSE_WIDTH - l[1], 4) \in -128 .. 127
  /\ Quotient(MAX_PULSE_WIDTH - l[2], 4) \in -128 .. 127

ASSUME LimitsAssumption ==
  /\ Limits \subseteq Int \X Int /\ \A l \in Limits : Representable(l)
  /\ Values \subseteq Int

ObjectInit ==
  /\ limits = <<MIN_PULSE_WIDTH, MAX_PULSE_WIDTH>>
  /\ min = 0 /\ max = 0
  /\ stored = usToTicks(DEFAULT_PULSE_WIDTH)
  /\ last = <<"none", 0>>

Attach(l) ==
  /\ limits' = l
  /\ min' = Field(MIN_PULSE_WIDTH - l[1])
  /\ max' = Field(MAX_PULSE_WIDTH - l[2])
  /\ last' = <<"none", 0>>
  /\ UNCHANGED stored

TicksFor(us) == usToTicks(Between(us, SERVO_MIN, SERVO_MAX) - TRIM_DURATION)

WriteMicroseconds(us) ==
  /\ stored' = TicksFor(us)
  /\ last' = <<"us", us>>
  /\ UNCHANGED <<limits, min, max>>

(* Below MIN_PULSE_WIDTH the value is an angle. *)
Write(v) ==
  /\ stored' = TicksFor(
                IF v < MIN_PULSE_WIDTH
                  THEN map(Between(v, 0, 180), 0, 180, SERVO_MIN, SERVO_MAX)
                  ELSE v)
  /\ last' = <<"write", v>>
  /\ UNCHANGED <<limits, min, max>>

ReadMicroseconds == ticksToUs(stored) + TRIM_DURATION
ReadTruncated ==   \* mutant: without the + 1
  map(ReadMicroseconds, SERVO_MIN, SERVO_MAX, 0, 180)
Read == map(ReadMicroseconds + 1, SERVO_MIN, SERVO_MAX, 0, 180)

ObjectNext ==
  \/ \E l \in Limits : Attach(l)
  \/ \E v \in Values : Write(v) \/ WriteMicroseconds(v)

ObjectSpec == ObjectInit /\ [][ObjectNext]_objectVars

-----------------------------------------------------------------------------
(* Properties                                                              *)

ObjectTypeOK ==
  /\ min \in -128 .. 127 /\ max \in -128 .. 127
  /\ stored \in 0 .. MaxUnsigned

Angle == last[1] = "write" /\ last[2] \in 0 .. 180

(* What was written is read back: read() returns "the value passed to the   *)
(* last call to write()", and readMicroseconds() what writeMicroseconds()  *)
(* was given, within the limits: the trim, the conversion to ticks and back *)
(* and the truncations of map() cancel out.                                *)
ReadBack ==
  /\ Angle => Read = last[2]
  /\ last[1] = "us" =>
       ReadMicroseconds = Between(last[2], SERVO_MIN, SERVO_MAX)

(* The pulse for an angle lies on the line from the limit for 0 degrees to  *)
(* the limit for 180, up to the 4 microseconds of resolution of min and    *)
(* max and the truncation of map().                                        *)
AngleOnLine ==
  Angle =>
    LET exact180 == limits[1] * (180 - last[2]) + limits[2] * last[2]
        error180 == 180 * ReadMicroseconds - exact180
    IN  error180 \in -4 * 180 .. 4 * 180
=============================================================================
