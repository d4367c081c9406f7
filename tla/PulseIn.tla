------------------------------ MODULE PulseIn ------------------------------
(***************************************************************************)
(* pulseIn() and pulseInLong(), for a HIGH pulse: three waiting loops that  *)
(* share one count of iterations, while the level of the pin changes and   *)
(* interrupts delay the loops.  A loop reads the pin once an iteration.    *)
(* Time is in cycles of the processor, 16 a microsecond; an iteration of a *)
(* waiting loop of countPulseASM() takes fewer of them than one of the     *)
(* counting loop, for which the timeout is converted.                      *)
(***************************************************************************)
EXTENDS Integers

CyclesPerUs == 16    \* clockCyclesPerMicrosecond()
WaitCycles == 11     \* between two reads of the first or of the second loop,
                     \* and from its last one to the first of the third
TurnCycles == 7      \* from the last read of the first loop to the second
LoopCycles == 16     \* between two reads of the third loop
LongCycles == 16     \* between two reads of pulseInLong(), by its comment
MicrosCycles == 64   \* timer 0 counts once in 64 cycles

CONSTANTS
  Requests,      \* the calls: pairs of a function and its timeout in us; in
                 \* the program at most 268 s, whose cycles fit in 32 bits
  Steal,         \* how long interrupts can delay an iteration, and ...
  Delays,        \* ... the delays that are considered
  Spans,         \* after how many cycles the level may change; and at a read
  Phases,        \* the cycles since micros() has changed, at a call
  MaxLength      \* bound of the model: how long a pulse can be

ASSUME PulseAssumption ==
  /\ Requests \subseteq {"pulseIn", "pulseInLong"} \X (Nat \ {0})
  /\ Steal \in Nat /\ Delays \subseteq 0 .. Steal
  /\ Spans \subseteq Nat \ {0} /\ MaxLength \in Nat \ {0}
  /\ Phases \subseteq 0 .. MicrosCycles - 1

VARIABLES
  high, length, gap,  \* the pin; how long the last pulse; how long it is low
  pc, fn, timeout,    \* the function, the loop it is in, its argument
  maxloops, loops,    \* the bound; the iterations of pulseInLong(): numloops
  width, start,       \* what is counted, or the micros() it began at
  left,               \* time to the next read of the pin
  elapsed, stolen,    \* since the call: time, time of interrupts
  phase,              \* of micros() at the call
  began, result       \* a pulse has begun since the call; what was returned

pin == <<high, length, gap>>
call == <<fn, timeout, phase>>
time == <<left, elapsed, stolen>>
vars == <<pin, pc, call, maxloops, loops, width, start, time, began,
                 result>>

NoResult == -1
Longest == LoopCycles + Steal   \* between two reads of the pin

Init ==
  /\ high = FALSE /\ length = 0 /\ gap = Longest + 1
  /\ pc = "idle" /\ fn = "pulseIn" /\ timeout = 0 /\ phase = 0
  /\ maxloops = 0 /\ loops = 0 /\ width = 0 /\ start = 0
  /\ left = 0 /\ elapsed = 0 /\ stolen = 0
  /\ began = FALSE /\ result = NoResult

Capped(n) == IF n > Longest THEN Longest + 1 ELSE n

(* d cycles pass; the level may change at their beginning.  Between two     *)
(* pulses the pin is LOW for longer than an iteration takes.               *)
Level(d) ==
  \/ /\ high /\ length + d <= MaxLength /\ high' = TRUE
     /\ length' = length + d /\ gap' = 0 /\ began' = began
  \/ high /\ high' = FALSE /\ gap' = Capped(d) /\ UNCHANGED <<length, began>>
  \/ /\ ~ high /\ gap > Longest /\ d <= MaxLength /\ high' = TRUE
     /\ length' = d /\ gap' = 0 /\ began' = (pc # "idle")
  \/ ~ high /\ high' = FALSE /\ gap' = Capped(gap + d) /\ UNCHANGED <<length, began>>

Pass(d) ==
  /\ \/ pc = "idle" /\ UNCHANGED <<left, elapsed>>
     \/ /\ pc # "idle" /\ d <= left
        /\ left' = left - d /\ elapsed' = elapsed + d
  /\ d > 0 /\ Level(d)
  /\ UNCHANGED <<pc, call, maxloops, loops, width, start, stolen, result>>

-----------------------------------------------------------------------------
MaxLoopsOfOneLess(f, us) ==   \* mutant: one iteration less
  IF f = "pulseIn" THEN (us * CyclesPerUs) \div LoopCycles - 1
                   ELSE us * CyclesPerUs - 1

(* pulseIn() divides by the cycles of an iteration of the third loop,       *)
(* pulseInLong() does not.                                                 *)
MaxLoopsOf(f, us) ==
  IF f = "pulseIn" THEN (us * CyclesPerUs) \div LoopCycles
                   ELSE us * CyclesPerUs

FirstLoopSkipped == "start"   \* mutant: no waiting for a previous pulse
FirstLoop == "previous"

Call(f, us) ==
  /\ pc = "idle"
  /\ pc' = FirstLoop /\ fn' = f /\ timeout' = us
  /\ maxloops' = MaxLoopsOf(f, us) /\ loops' = 0 /\ width' = 0 /\ start' = 0
  /\ IF f = "pulseIn" THEN phase' = 0 ELSE phase' \in Phases
  /\ left' = 0 /\ elapsed' = 0 /\ stolen' = 0
  /\ began' = FALSE /\ result' = NoResult
  /\ UNCHANGED pin

Return(r) ==
  /\ result' = r
  /\ pc' = "idle"
  /\ UNCHANGED <<time, width, start>>

(* On to the next read, of this loop or of the next one: as many cycles and *)
(* those that interrupts take.                                             *)
Cycles(cycles) == IF fn = "pulseIn" THEN cycles ELSE LongCycles

Iterate(loop, cycles) ==
  /\ pc' = loop
  /\ \E s \in Delays : left' = Cycles(cycles) + s /\ stolen' = stolen + s
  /\ UNCHANGED <<elapsed, result>>

micros == ((phase + elapsed) \div MicrosCycles) * (MicrosCycles \div CyclesPerUs)

(* The counting: --maxloops == 0 and ++width == maxloops in countPulseASM(), *)
(* numloops++ == maxloops in pulseInLong().                                *)
Exhausted ==
  IF fn = "pulseInLong"
    THEN loops = maxloops /\ loops' = loops + 1 /\ UNCHANGED maxloops
    ELSE maxloops = 1 /\ maxloops' = maxloops - 1 /\ UNCHANGED loops
NotExhausted ==
  IF fn = "pulseInLong"
    THEN loops # maxloops /\ loops' = loops + 1 /\ UNCHANGED maxloops
    ELSE maxloops # 1 /\ maxloops' = maxloops - 1 /\ UNCHANGED loops

(* Wait for any previous pulse to end, then for the pulse to start. *)
Waiting == (pc = "previous" /\ high) \/ (pc = "start" /\ ~ high)

Wait ==
  /\ left = 0 /\ Waiting
  /\ \/ Exhausted /\ Return(0)
     \/ NotExhausted /\ Iterate(pc, WaitCycles) /\ UNCHANGED <<width, start>>
  /\ UNCHANGED <<pin, call, began>>

PreviousOver ==
  /\ left = 0 /\ pc = "previous" /\ ~ high
  /\ Iterate("start", TurnCycles)
  /\ UNCHANGED <<pin, call, maxloops, loops, width, start, began>>

Started ==
  /\ left = 0 /\ pc = "start" /\ high
  /\ width' = 0
  /\ start' = micros
  /\ Iterate("stop", WaitCycles)
  /\ UNCHANGED <<pin, call, maxloops, loops, began>>

(* The pulse itself is timed out by the iterations that are left.          *)
TimedOutNever == FALSE                         \* mutant: it is not
TimedOutTwice == 2 * (width + 1) >= maxloops   \* mutant: it counts for two
TimedOut == width + 1 = maxloops

Count ==
  /\ left = 0 /\ pc = "stop" /\ high /\ fn = "pulseIn"
  /\ IF TimedOut
       THEN Return(0)
       ELSE width' = width + 1 /\ Iterate("stop", LoopCycles) /\ UNCHANGED start
  /\ UNCHANGED <<pin, call, maxloops, loops, began>>

CountLong ==
  /\ left = 0 /\ pc = "stop" /\ high /\ fn = "pulseInLong"
  /\ \/ Exhausted /\ Return(0)
     \/ NotExhausted /\ Iterate("stop", LongCycles) /\ UNCHANGED <<width, start>>
  /\ UNCHANGED <<pin, call, began>>

Stopped ==
  /\ left = 0 /\ pc = "stop" /\ ~ high
  /\ Return(IF fn = "pulseInLong" THEN micros - start
            ELSE IF width # 0
                   THEN (width * LoopCycles + LoopCycles) \div CyclesPerUs
                   ELSE 0)
  /\ UNCHANGED <<pin, call, maxloops, loops, began>>

Loops == Wait \/ PreviousOver \/ Started \/ Count \/ CountLong \/ Stopped

Next == \/ \E d \in Spans \union {left} : Pass(d)
        \/ Loops
        \/ \E r \in Requests : Call(r[1], r[2])

Spec == Init /\ [][Next]_vars

-----------------------------------------------------------------------------
(* Properties                                                              *)

TypeOK ==
  /\ high \in BOOLEAN /\ length \in 0 .. MaxLength /\ gap \in 0 .. Longest + 1
  /\ pc \in {"idle", "previous", "start", "stop"}
  /\ fn \in {"pulseIn", "pulseInLong"} /\ timeout \in Nat
  /\ maxloops \in Nat /\ loops \in 0 .. maxloops + 1
  /\ width \in 0 .. MaxLength /\ start \in Nat /\ left \in 0 .. Longest
  /\ elapsed \in Nat /\ stolen \in 0 .. elapsed + Steal
  /\ phase \in 0 .. MicrosCycles - 1 /\ began \in BOOLEAN
  /\ result \in {NoResult} \union Nat

Returns == pc # "idle" /\ pc' = "idle"

(* What is returned, unless 0, is the length of one whole pulse that began  *)
(* after the call: from pulseIn() too long by at most 20 cycles, because    *)
(* the reads may have just missed both edges, or too short by at most 5 and *)
(* what interrupts have taken; from pulseInLong(), which does not lose      *)
(* their time, up to the resolution of micros() and to one iteration at     *)
(* either end.                                                             *)
WholePulse ==
  [][Returns /\ result' # 0 =>
       /\ began /\ ~ high
       /\ LET error == result' * CyclesPerUs - length
          IN  IF fn = "pulseIn"
                THEN error \in -(2 * WaitCycles - LoopCycles - 1 + stolen)
                               .. 2 * LoopCycles - WaitCycles - 1
                ELSE error \in -(Longest + MicrosCycles) .. Longest + MicrosCycles]_vars

(* 0 from pulseIn() means that the iterations ran out, which takes at least *)
(* the time of timeout iterations of a waiting loop and no longer, or that  *)
(* the pulse was over when it was looked at for the second time.  The first *)
(* is 11/16 of the timeout: with no pulse at all, 0 comes that early.       *)
ZeroMeans ==
  [][Returns /\ result' = 0 /\ fn = "pulseIn" =>
       \/ elapsed - stolen >= WaitCycles * (timeout - 1)
       \/ length < 2 * WaitCycles + stolen]_vars

(* A call of pulseIn(), all three loops, takes no more than the timeout, 2  *)
(* cycles and the time of interrupts: the waiting loops are the faster ones. *)
(* pulseInLong() takes as many times its timeout as there are cycles in a   *)
(* microsecond: the comment "convert the timeout from microseconds to a     *)
(* number of times through the initial loop; it takes 16 clock cycles per   *)
(* iteration" is not true of it.                                           *)
TimeoutKept ==
  pc # "idle" =>
    elapsed <= stolen + (IF fn = "pulseIn"
                           THEN CyclesPerUs * timeout + 2
                           ELSE LongCycles * (CyclesPerUs * timeout + 2))
=============================================================================
