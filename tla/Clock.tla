------------------------------- MODULE Clock -------------------------------
(***************************************************************************)
(* The clock of the core: timer 0, its overflow interrupt, and the         *)
(* functions millis(), micros() and delay() of the sketch.                 *)
(*                                                                         *)
(* The timer counts modulo Ticks; an overflow sets TOV0, which the         *)
(* interrupt clears.  The sketch is cut at every access to what the timer  *)
(* or the interrupt changes; `now' is the true time, in ticks.             *)
(***************************************************************************)
EXTENDS Integers

CONSTANTS
  Ticks,     \* ticks per overflow, 256
  TickUs,    \* microseconds per tick: 64 cycles, 4 microseconds at 16 MHz
  MsUs,      \* microseconds per millisecond, 1000
  FractUnit, \* timer0_fract counts units of 8 microseconds
  CountMod,  \* the counts of the interrupt are of 32 bits, that is 2^32
  MicrosMod, \* micros() is of 32 bits, that is 2^32
  Uint16,    \* delay() computes modulo 2^16
  HalfMod,   \* millis() is read from memory in parts
  Delays,    \* the arguments of delay()
  MaxLate,   \* ticks an overflow waits for its interrupt
  MaxTurn,   \* ticks between two steps of a call
  MaxNow     \* bound of the model on the time, in ticks

MICROSECONDS_PER_TIMER0_OVERFLOW == Ticks * TickUs
MILLIS_INC == MICROSECONDS_PER_TIMER0_OVERFLOW \div MsUs
FRACT_INC == (MICROSECONDS_PER_TIMER0_OVERFLOW % MsUs) \div FractUnit
FRACT_MAX == MsUs \div FractUnit

ASSUME ClockAssumption ==
  /\ Ticks \in Nat /\ Ticks > 2 /\ TickUs \in Nat \ {0}
  /\ MsUs \in Nat \ {0} /\ FractUnit \in Nat \ {0} /\ HalfMod \in Nat \ {0}
  /\ Delays \subseteq Nat /\ MaxNow \in Nat
  /\ MaxTurn \in Nat \ {0} /\ MaxLate \in Nat
  /\ CountMod \in Nat \ {0} /\ MicrosMod \in Nat \ {0} /\ Uint16 \in Nat \ {0}

(* "for the clock speeds we care about this doesn't lose precision"         *)
ASSUME PrecisionAssumption ==
  /\ MICROSECONDS_PER_TIMER0_OVERFLOW % MsUs = FRACT_INC * FractUnit
  /\ MsUs = FRACT_MAX * FractUnit

(* An overflow is served before TCNT0 shows its last value again; the       *)
(* moduli are those of whole numbers of overflows, and where the count      *)
(* wraps the microseconds made of it do; delay() polls more often *)
(* than the milliseconds pass and than 16 bits wrap.                       *)
ASSUME SpeedAssumption ==
  /\ MaxLate < Ticks - 1
  /\ Uint16 % MICROSECONDS_PER_TIMER0_OVERFLOW = 0 /\ MicrosMod % Uint16 = 0
  /\ (CountMod * MICROSECONDS_PER_TIMER0_OVERFLOW) % MicrosMod = 0
  /\ 4 * MaxTurn * TickUs < MsUs /\ MsUs + 4 * MaxTurn * TickUs < Uint16

VARIABLES
  tcnt, tov,                  \* TCNT0 and TOV0
  overflow_count, millis, fract,  \* timer0_overflow_count, _millis, _fract
  overflows, passed,          \* what the first two would be without wrapping
  irqOn, saved,               \* SREG_I and the oldSREG of the call
  pc, ret,                    \* the sketch, and where micros() returns to
  m, t,                       \* the locals m and t
  us,                         \* what micros() has returned
  left, start,                \* delay(): ms and start
  turn,                       \* ticks since the last step of the call
  now, called, asked          \* the time; when the call was made; its ms

hardware == <<tcnt, tov, now>>
counters == <<overflow_count, millis, fract, overflows, passed>>
locals == <<m, t, us, left, start>>
history == <<called, asked>>
vars == <<hardware, counters, irqOn, saved, pc, ret, locals, turn, history>>

Init ==
  /\ tcnt = 0 /\ tov = FALSE /\ now = 0
  /\ overflow_count = 0 /\ millis = 0 /\ fract = 0
  /\ overflows = 0 /\ passed = 0
  /\ irqOn = TRUE /\ saved = TRUE
  /\ pc = "idle" /\ ret = "idle"
  /\ m = 0 /\ t = 0 /\ us = 0 /\ left = 0 /\ start = 0
  /\ turn = 0 /\ called = 0 /\ asked = 0

-----------------------------------------------------------------------------
(* Timer 0.  Between its reads of TCNT0 and of TOV0 micros() takes less     *)
(* than a tick.                                                            *)

Tick ==
  /\ now < MaxNow
  /\ tov => tcnt < MaxLate
  /\ pc # "idle" => turn < IF pc = "flag" THEN 1 ELSE MaxTurn
  /\ tcnt' = (tcnt + 1) % Ticks
  /\ tov' = (tov \/ tcnt' = 0)
  /\ now' = now + 1
  /\ turn' = IF pc = "idle" THEN 0 ELSE turn + 1
  /\ UNCHANGED <<counters, irqOn, saved, pc, ret, locals, history>>

-----------------------------------------------------------------------------
(* ISR(TIMER0_OVF_vect)                                                    *)

FullLate == fract + FRACT_INC > FRACT_MAX   \* mutant: > for >=
Full == fract + FRACT_INC >= FRACT_MAX      \* a millisecond of fractions

CarriedForgotten == 0                       \* mutant: it is not added
Carried == 1

MsPassed == MILLIS_INC + IF Full THEN Carried ELSE 0

OverflowInterrupt ==
  /\ irqOn /\ tov
  /\ tov' = FALSE
  /\ fract' = fract + FRACT_INC - IF Full THEN FRACT_MAX ELSE 0
  /\ millis' = (millis + MsPassed) % CountMod /\ passed' = passed + MsPassed
  /\ overflow_count' = (overflow_count + 1) % CountMod
  /\ overflows' = overflows + 1
  /\ UNCHANGED <<tcnt, now, irqOn, saved, pc, ret, locals, turn, history>>

-----------------------------------------------------------------------------
(* millis(): the variable is read in parts, with interrupts masked.        *)

cliForgotten == saved' = irqOn /\ irqOn' = irqOn   \* mutant: no cli()
cli == saved' = irqOn /\ irqOn' = FALSE

MillisCall ==
  /\ pc = "idle"
  /\ cli
  /\ pc' = "low" /\ turn' = 0 /\ called' = now
  /\ UNCHANGED <<hardware, counters, ret, locals, asked>>

MillisLow ==
  /\ pc = "low"
  /\ m' = millis % HalfMod
  /\ pc' = "high" /\ turn' = 0
  /\ UNCHANGED <<hardware, counters, irqOn, saved, ret, t, us, left, start,
                 history>>

MillisReturn ==
  /\ pc = "high"
  /\ m' = (millis \div HalfMod) * HalfMod + m
  /\ irqOn' = saved
  /\ pc' = "idle" /\ turn' = 0
  /\ UNCHANGED <<hardware, counters, saved, ret, t, us, left, start,
                 history>>

-----------------------------------------------------------------------------
(* micros(), called by the sketch or by delay(), then at `return'.         *)

StartMicros(return) ==
  /\ saved' = irqOn /\ irqOn' = FALSE
  /\ pc' = "count" /\ ret' = return /\ turn' = 0

MicrosCall ==
  /\ pc = "idle"
  /\ StartMicros("idle")
  /\ called' = now
  /\ UNCHANGED <<hardware, counters, locals, asked>>

MicrosCount ==
  /\ pc = "count"
  /\ m' = overflow_count
  /\ pc' = "tcnt" /\ turn' = 0
  /\ UNCHANGED <<hardware, counters, irqOn, saved, ret, t, us, left, start,
                 history>>

MicrosTcnt ==
  /\ pc = "tcnt"
  /\ t' = tcnt
  /\ pc' = "flag" /\ turn' = 0
  /\ UNCHANGED <<hardware, counters, irqOn, saved, ret, m, us, left, start,
                 history>>

OverflowsAnyT == IF tov THEN (m + 1) % CountMod ELSE m   \* mutant: any t
Overflows == IF tov /\ t < Ticks - 1 THEN (m + 1) % CountMod ELSE m

MicrosReturn ==
  /\ pc = "flag"
  /\ us' = ((Overflows * Ticks + t) * TickUs) % MicrosMod
  /\ irqOn' = saved
  /\ pc' = ret /\ turn' = 0
  /\ UNCHANGED <<hardware, counters, saved, ret, m, t, left, start,
                 history>>

-----------------------------------------------------------------------------
(* delay(ms), with interrupts on.                                          *)

DelayCall(ms) ==
  /\ pc = "idle" /\ irqOn
  /\ left' = ms /\ asked' = ms /\ called' = now
  /\ StartMicros("first")
  /\ UNCHANGED <<hardware, counters, m, t, us, start>>

DelayStart ==
  /\ pc = "first"
  /\ start' = us % Uint16
  /\ \/ left > 0 /\ StartMicros("loop")
     \/ /\ left = 0 /\ pc' = "idle" /\ ret' = "idle" /\ turn' = 0
        /\ UNCHANGED <<irqOn, saved>>
  /\ UNCHANGED <<hardware, counters, m, t, us, left, history>>

PassedSigned == us - start >= MsUs \/ us < start   \* mutant: not modulo 2^16
Passed == ((us % Uint16) - start) % Uint16 >= MsUs

NextStartNow == us % Uint16   \* mutant: start taken anew every millisecond
NextStart == (start + MsUs) % Uint16

DelayTurn ==
  /\ pc = "loop"
  /\ IF Passed
       THEN left' = left - 1 /\ start' = NextStart
       ELSE UNCHANGED <<left, start>>
  /\ \/ left' > 0 /\ StartMicros("loop")
     \/ /\ left' = 0 /\ pc' = "idle" /\ ret' = "idle" /\ turn' = 0
        /\ UNCHANGED <<irqOn, saved>>
  /\ UNCHANGED <<hardware, counters, m, t, us, history>>

SetInterrupts(on) ==
  /\ pc = "idle" /\ irqOn # on
  /\ irqOn' = on
  /\ UNCHANGED <<hardware, counters, saved, pc, ret, locals, turn, history>>

-----------------------------------------------------------------------------
Calls ==
  \/ MillisCall \/ MicrosCall
  \/ \E ms \in Delays : DelayCall(ms)
  \/ \E on \in BOOLEAN : SetInterrupts(on)

Running ==
  \/ MillisLow \/ MillisReturn
  \/ MicrosCount \/ MicrosTcnt \/ MicrosReturn
  \/ DelayStart \/ DelayTurn

Next == Calls \/ Running \/ OverflowInterrupt \/ Tick

Spec == Init /\ [][Next]_vars

-----------------------------------------------------------------------------
(* Properties                                                              *)

Delaying == pc # "idle" /\ ret # "idle"

TypeOK ==
  /\ tcnt \in 0 .. Ticks - 1 /\ tov \in BOOLEAN /\ now \in 0 .. MaxNow
  /\ {overflow_count, millis} \subseteq 0 .. CountMod - 1
  /\ fract \in 0 .. FRACT_MAX - 1 /\ overflows \in Nat /\ passed \in Nat
  /\ irqOn \in BOOLEAN /\ saved \in BOOLEAN
  /\ pc \in {"idle", "low", "high", "count", "tcnt", "flag", "first", "loop"}
  /\ ret \in {"idle", "first", "loop"}
  /\ m \in Nat /\ t \in 0 .. Ticks - 1 /\ us \in 0 .. MicrosMod - 1
  /\ left \in Nat /\ start \in 0 .. Uint16 - 1
  /\ turn \in Nat /\ called \in 0 .. MaxNow /\ asked \in Nat

(* No time is lost: the overflows counted with the pending one and TCNT0    *)
(* make the true time, the milliseconds and their fraction account for the  *)
(* same overflows, so that millis() does not drift from micros(), and the   *)
(* counts are these up to the wrap of 32 bits.                             *)
NoDrift ==
  /\ overflow_count = overflows % CountMod /\ millis = passed % CountMod
  /\ now = (overflows + IF tov THEN 1 ELSE 0) * Ticks + tcnt
  /\ passed * MsUs + fract * FractUnit
       = overflows * MICROSECONDS_PER_TIMER0_OVERFLOW

(* micros() returns a time between its call and its return, whenever the    *)
(* timer overflows, modulo 2^32.                                           *)
MicrosInside ==
  [][pc = "flag" /\ pc' = "idle" =>
       \E time \in called .. now : us' = (time * TickUs) % MicrosMod]_vars

(* millis() returns, modulo 2^32, a number of milliseconds that is never    *)
(* ahead, and behind by less than a millisecond, an overflow and the ticks  *)
(* the interrupt and the call have taken.                                  *)
MillisInside ==
  [][pc = "high" /\ pc' = "idle" =>
       \E ms \in 0 .. now * TickUs :
         /\ m' = ms % CountMod /\ ms * MsUs <= now * TickUs
         /\ called * TickUs - ms * MsUs <
              MsUs + MICROSECONDS_PER_TIMER0_OVERFLOW + MaxLate * TickUs]_vars

(* delay(ms) takes at least ms milliseconds ...                            *)
DelayNotShort ==
  [][Delaying /\ pc' = "idle" => (now - called) * TickUs >= asked * MsUs]_vars

(* ... and not longer, up to the two turns of its loop in which it notices. *)
DelayNotLong ==
  Delaying => (now - called) * TickUs <= asked * MsUs + 8 * MaxTurn * TickUs
=============================================================================
