--------------------------- MODULE PulseInProofs ---------------------------
(***************************************************************************)
(* Safety of PulseIn for every timeout, every delay by interrupts, every   *)
(* phase of micros(), every length of a pulse and edges at any cycle.      *)
(***************************************************************************)
EXTENDS PulseIn, TLAPS

(* The cycles of the three loops since the call. *)
Spent ==
  IF fn = "pulseIn"
    THEN WaitCycles * (timeout - maxloops)
           + (IF pc = "previous" THEN 0 ELSE TurnCycles)
           + (IF pc = "stop" THEN WaitCycles + LoopCycles * width ELSE 0)
    ELSE LongCycles * (loops + (IF pc = "previous" THEN 0 ELSE 1)
                             + (IF pc = "stop" THEN 1 ELSE 0))

(* Time is that of the loops and that of the interrupts. *)
Accounted ==
  /\ stolen <= elapsed + Steal
  /\ pc # "idle" => elapsed + left = stolen + Spent

(* What is left of the one count that the loops share. *)
Budget ==
  pc # "idle" =>
    /\ timeout > 0
    /\ fn = "pulseIn" => /\ maxloops \in 1 .. timeout /\ loops = 0
                         /\ pc = "stop" => width + 1 <= maxloops
    /\ fn = "pulseInLong" => /\ maxloops = timeout * CyclesPerUs
                             /\ loops <= maxloops

Positive == (high => length > 0) /\ (~ high => gap > 0)

(* A pulse seen by the second loop began after the read before. *)
Rising ==
  pc = "start" =>
    /\ fn = "pulseIn" => left <= WaitCycles + stolen
    /\ high => /\ began /\ length + left <= Longest
               /\ fn = "pulseIn" => length + left <= WaitCycles + stolen

(* The third loop sees the pulse it has begun with, and sees it end. *)
Falling == pc = "stop" => began /\ (~ high => gap + left <= Longest)

(* What pulseIn() has counted of the pulse, ... *)
Counted ==
  pc = "stop" /\ fn = "pulseIn" =>
    /\ LoopCycles * width <= length + 4
    /\ high => /\ LoopCycles * width + 12 <= length + left
               /\ length + left <= LoopCycles * width + 2 * WaitCycles + stolen
    /\ ~ high => length + left < LoopCycles * width + 2 * WaitCycles + stolen

(* ... and what micros() shows to pulseInLong(). *)
Since == phase + elapsed - start * CyclesPerUs

Measured ==
  pc = "stop" /\ fn = "pulseInLong" =>
    /\ \E q \in Nat : start = q * 4
    /\ Since >= 0
    /\ high => -Longest <= Since - length /\ Since - length <= MicrosCycles - 2
    /\ ~ high => /\ gap - Longest <= Since - length
                 /\ Since - length <= gap - 2 + MicrosCycles

IInv ==
  /\ TypeOK /\ Accounted /\ Budget /\ Positive
  /\ Rising /\ Falling /\ Counted /\ Measured

-----------------------------------------------------------------------------
LEMMA Bounds ==
  /\ Steal \in Nat /\ MaxLength \in Nat \ {0} /\ Spans \subseteq Nat \ {0}
  /\ Delays \subseteq 0 .. Steal /\ Longest \in Nat /\ Longest = 16 + Steal
  BY PulseAssumption DEF Longest, LoopCycles

(* micros() is within its resolution of the time. *)
LEMMA MicrosIs ==
  ASSUME TypeOK
  PROVE  /\ micros \in Nat /\ \E q \in Nat : micros = q * 4
         /\ micros * 16 <= phase + elapsed /\ phase + elapsed < micros * 16 + 64
  <1>1. phase + elapsed \in Nat
    BY DEF TypeOK, MicrosCycles
  <1> DEFINE q == (phase + elapsed) \div 64
  <1>2. q \in Nat /\ q * 64 <= phase + elapsed /\ phase + elapsed < q * 64 + 64
    BY <1>1
  <1>3. micros = q * 4
    BY DEF micros, MicrosCycles, CyclesPerUs
  <1> HIDE DEF q
  <1> QED
    BY <1>2, <1>3

-----------------------------------------------------------------------------
(* Some cycles pass. *)
LEMMA PassStep ==
  ASSUME IInv, NEW d \in Spans \union {left}, Pass(d)
  PROVE  IInv'
  <1> USE Bounds DEF IInv
  <1>1. UNCHANGED <<pc, fn, timeout, phase, maxloops, loops, width, start, stolen,
                    result>>
    BY DEF Pass, call
  <1>2. /\ d \in Nat \ {0}
        /\ pc # "idle" => d <= left /\ left' = left - d /\ elapsed' = elapsed + d
        /\ pc = "idle" => left' = left /\ elapsed' = elapsed
    BY DEF Pass, TypeOK
  <1>3. \/ /\ high /\ high' /\ length + d <= MaxLength /\ length' = length + d
           /\ gap' = 0 /\ began' = began
        \/ high /\ ~ high' /\ gap' = Capped(d) /\ length' = length /\ began' = began
        \/ /\ ~ high /\ high' /\ gap > Longest /\ d <= MaxLength /\ length' = d
           /\ gap' = 0 /\ began' = (pc # "idle")
        \/ /\ ~ high /\ ~ high' /\ length' = length /\ began' = began
           /\ gap' = Capped(gap + d)
    BY DEF Pass, Level
  <1>4. high \in BOOLEAN /\ high' \in BOOLEAN /\ length \in 0 .. MaxLength
        /\ gap \in 0 .. Longest + 1 /\ left \in 0 .. Longest /\ stolen \in Nat
        /\ elapsed \in Nat /\ width \in Nat /\ start \in Nat /\ phase \in Nat
        /\ began \in BOOLEAN /\ began' \in BOOLEAN
    <2>1. high' \in BOOLEAN /\ began' \in BOOLEAN
      BY DEF Pass, Level, TypeOK
    <2>2. elapsed \in Nat /\ stolen \in Nat
      BY DEF TypeOK
    <2> QED
      BY <2>1, <2>2 DEF TypeOK
  <1>5. TypeOK'
    <2>1. /\ length' \in 0 .. MaxLength /\ left' \in 0 .. Longest /\ elapsed' \in Nat
          /\ stolen' \in 0 .. elapsed' + Steal
      BY <1>1, <1>2, <1>3, <1>4 DEF TypeOK
    <2>2. gap' \in 0 .. Longest + 1
      BY <1>2, <1>3, <1>4 DEF Capped
    <2> QED
      BY <1>1, <1>4, <2>1, <2>2 DEF TypeOK
  <1>6. Positive'
    BY <1>2, <1>3, <1>4 DEF Positive, Capped
  <1>7. Accounted'
    BY <1>1, <1>2, <1>4 DEF Accounted, Spent, TypeOK
  <1>8. Budget'
    BY <1>1 DEF Budget
  <1>9. Rising'
    <2> SUFFICES ASSUME pc = "start"
                 PROVE  /\ fn = "pulseIn" => left' <= WaitCycles + stolen
                        /\ high' => /\ began' /\ length' + left' <= Longest
                                    /\ fn = "pulseIn" =>
                                         length' + left' <= WaitCycles + stolen
      BY <1>1 DEF Rising
    <2> QED
      BY <1>2, <1>3, <1>4 DEF Rising, WaitCycles
  <1>10. pc = "stop" => /\ ~ (~ high /\ high')
                        /\ ~ high => gap <= Longest /\ gap + d <= Longest
    <2> SUFFICES ASSUME pc = "stop", ~ high
                 PROVE ~ high' /\ gap <= Longest /\ gap + d <= Longest
      OBVIOUS
    <2>1. gap + left <= Longest /\ d <= left
      BY <1>2 DEF Falling
    <2>2. gap + d <= Longest /\ gap <= Longest
      BY <1>2, <1>4, <2>1
    <2> QED
      BY <1>3, <1>4, <2>2
  <1>11. Falling'
    <2> SUFFICES ASSUME pc = "stop"
                 PROVE  began' /\ (~ high' => gap' + left' <= Longest)
      BY <1>1 DEF Falling
    <2>1. began'
      BY <1>3, <1>10 DEF Falling
    <2>2. ASSUME ~ high' PROVE gap' + left' <= Longest
      <3>1. (high /\ gap' = d) \/ (~ high /\ gap' = gap + d)
        <4>1. d <= left /\ left <= Longest
          BY <1>2, <1>4
        <4> QED
          BY <1>2, <1>3, <1>4, <1>10, <2>2, <4>1 DEF Capped
      <3> QED
        BY <1>2, <1>4, <3>1 DEF Falling
    <2> QED
      BY <2>1, <2>2
  <1>12. Counted'
    <2> SUFFICES ASSUME pc = "stop", fn = "pulseIn"
                 PROVE  /\ LoopCycles * width <= length' + 4
                        /\ high' => /\ LoopCycles * width + 12 <= length' + left'
                                    /\ length' + left' <=
                                         LoopCycles * width + 2 * WaitCycles + stolen
                        /\ ~ high' => length' + left' <
                                         LoopCycles * width + 2 * WaitCycles + stolen
      BY <1>1 DEF Counted
    <2> QED
      BY <1>2, <1>3, <1>4, <1>10 DEF Counted, LoopCycles, WaitCycles
  <1>13. pc = "stop" /\ ~ high' => gap' = IF high THEN d ELSE gap + d
    <2>1. pc = "stop" => d <= left /\ left <= Longest
      BY <1>2, <1>4
    <2> QED
      BY <1>2, <1>3, <1>4, <1>10, <2>1 DEF Capped
  <1>14. Measured'
    <2> SUFFICES ASSUME pc = "stop", fn = "pulseInLong"
                 PROVE  /\ Since' >= 0
                        /\ high' => /\ -Longest <= Since' - length'
                                    /\ Since' - length' <= MicrosCycles - 2
                        /\ ~ high' => /\ gap' - Longest <= Since' - length'
                                      /\ Since' - length' <= gap' - 2 + MicrosCycles
      BY <1>1 DEF Measured
    <2>1. Since \in Int /\ Since' = Since + d
      BY <1>1, <1>2, <1>4 DEF Since, CyclesPerUs
    <2> QED
      BY <1>2, <1>3, <1>4, <1>10, <1>13, <2>1 DEF Measured, MicrosCycles
  <1> QED
    BY <1>5, <1>6, <1>7, <1>8, <1>9, <1>11, <1>12, <1>14

(* A call sets the count. *)
LEMMA CallStep ==
  ASSUME IInv, NEW r \in Requests, Call(r[1], r[2])
  PROVE  IInv'
  <1> USE Bounds DEF IInv
  <1>1. r[1] \in {"pulseIn", "pulseInLong"} /\ r[2] \in Nat \ {0}
    BY PulseAssumption
  <1>2. /\ pc' = "previous" /\ fn' = r[1] /\ timeout' = r[2]
        /\ maxloops' = MaxLoopsOf(r[1], r[2]) /\ loops' = 0 /\ width' = 0
        /\ start' = 0 /\ left' = 0 /\ elapsed' = 0 /\ stolen' = 0
        /\ began' = FALSE /\ result' = NoResult
        /\ UNCHANGED <<high, length, gap>>
        /\ phase' \in 0 .. MicrosCycles - 1
    <2>1. phase' = 0 \/ phase' \in Phases
      BY DEF Call
    <2>2. phase' \in 0 .. MicrosCycles - 1
      <3>1. 0 \in 0 .. MicrosCycles - 1
        BY DEF MicrosCycles
      <3> QED
        BY <2>1, <3>1, PulseAssumption
    <2> QED
      BY <2>2 DEF Call, pin, FirstLoop
  <1>3. /\ fn' = "pulseIn" => maxloops' = timeout'
        /\ fn' = "pulseInLong" => maxloops' = timeout' * CyclesPerUs
        /\ maxloops' \in Nat
    BY <1>1, <1>2 DEF MaxLoopsOf, CyclesPerUs, LoopCycles
  <1>4. TypeOK'
    <2>1. /\ high' \in BOOLEAN /\ length' \in 0 .. MaxLength
          /\ gap' \in 0 .. Longest + 1
      BY <1>2 DEF TypeOK
    <2>2. /\ loops' \in 0 .. maxloops' + 1 /\ width' \in 0 .. MaxLength
          /\ left' \in 0 .. Longest /\ stolen' \in 0 .. elapsed' + Steal
          /\ start' \in Nat /\ elapsed' \in Nat /\ timeout' \in Nat
      BY <1>1, <1>2, <1>3
    <2>3. /\ pc' \in {"idle", "previous", "start", "stop"}
          /\ fn' \in {"pulseIn", "pulseInLong"} /\ began' \in BOOLEAN
          /\ result' \in {NoResult} \union Nat
      BY <1>1, <1>2
    <2> QED
      BY <1>2, <1>3, <2>1, <2>2, <2>3 DEF TypeOK
  <1>5. Accounted' /\ Budget'
    <2>1. Spent' = 0
      BY <1>1, <1>2, <1>3 DEF Spent, WaitCycles, LongCycles
    <2>2. timeout' \in Nat \ {0}
      BY <1>1, <1>2
    <2> QED
      BY <1>1, <1>2, <1>3, <2>1, <2>2 DEF Accounted, Budget
  <1> QED
    BY <1>2, <1>4, <1>5 DEF Positive, Rising, Falling, Counted, Measured

(* The next read is so many cycles away. *)
LEMMA IterateStep ==
  ASSUME IInv, left = 0, NEW loop, NEW cycles \in 0 .. LoopCycles,
         Iterate(loop, cycles)
  PROVE  /\ pc' = loop /\ elapsed' = elapsed /\ result' = result
         /\ \E s \in 0 .. Steal :
              /\ left' = (IF fn = "pulseIn" THEN cycles ELSE LongCycles) + s
              /\ stolen' = stolen + s
         /\ left' \in 0 .. Longest
  <1> USE Bounds
  <1>1. PICK s \in 0 .. Steal : left' = Cycles(cycles) + s /\ stolen' = stolen + s
    BY DEF Iterate
  <1>2. left' \in 0 .. Longest
    BY <1>1 DEF Cycles, LongCycles, LoopCycles
  <1> QED
    BY <1>1, <1>2 DEF Iterate, Cycles

(* The first two loops wait. *)
LEMMA WaitStep ==
  ASSUME IInv, Wait
  PROVE  /\ IInv'
         /\ pc' = "idle" =>
              /\ result' = 0
              /\ fn = "pulseIn" => elapsed - stolen >= WaitCycles * (timeout - 1)
  <1> USE Bounds DEF IInv
  <1>1. /\ left = 0 /\ Waiting /\ pc \in {"previous", "start"}
        /\ UNCHANGED <<high, length, gap, fn, timeout, phase, began, elapsed,
                       width, start>>
    BY DEF Wait, Waiting, Return, Iterate, pin, call, time
  <1>2. /\ maxloops \in Nat /\ loops \in Nat /\ elapsed \in Nat
        /\ stolen \in Nat /\ timeout \in Nat
        /\ fn \in {"pulseIn", "pulseInLong"}
    BY DEF TypeOK
  <1>3. CASE Exhausted /\ Return(0)
    <2>1. pc' = "idle" /\ result' = 0 /\ UNCHANGED <<left, stolen>>
      BY <1>3 DEF Return, time
    <2>2. TypeOK'
      <3>1. maxloops' \in Nat /\ loops' \in 0 .. maxloops' + 1
        <4>1. CASE fn = "pulseInLong"
          BY <1>2, <1>3, <4>1 DEF Exhausted
        <4>2. CASE fn = "pulseIn"
          BY <1>1, <1>2, <1>3, <4>2 DEF Exhausted, Budget
        <4> QED
          BY <4>1, <4>2 DEF TypeOK
      <3> QED
        BY <1>1, <2>1, <3>1 DEF TypeOK
    <2>3. fn = "pulseIn" => elapsed - stolen >= WaitCycles * (timeout - 1)
      BY <1>1, <1>2, <1>3 DEF Exhausted, Accounted, Spent, WaitCycles, TurnCycles
    <2> QED
      BY <1>1, <2>1, <2>2, <2>3
         DEF Accounted, Budget, Positive, Rising, Falling, Counted, Measured
  <1>4. CASE NotExhausted /\ Iterate(pc, WaitCycles) /\ UNCHANGED <<width, start>>
    <2>1. /\ pc' = pc /\ result' = result /\ left' \in 0 .. Longest
          /\ \E s \in 0 .. Steal :
               /\ left' = (IF fn = "pulseIn" THEN WaitCycles ELSE LongCycles) + s
               /\ stolen' = stolen + s
      <3>1. WaitCycles \in 0 .. LoopCycles
        BY DEF WaitCycles, LoopCycles
      <3> QED
        BY <1>1, <1>4, <3>1, IterateStep
    <2>2. PICK s \in 0 .. Steal :
               /\ left' = (IF fn = "pulseIn" THEN WaitCycles ELSE LongCycles) + s
               /\ stolen' = stolen + s
      BY <2>1
    <2>3. /\ fn = "pulseIn" => /\ maxloops' = maxloops - 1 /\ loops' = loops
                               /\ maxloops' \in 1 .. timeout
          /\ fn = "pulseInLong" => /\ loops' = loops + 1 /\ maxloops' = maxloops
                                   /\ loops' \in 1 .. maxloops
      BY <1>1, <1>2, <1>4 DEF NotExhausted, Budget
    <2>4. /\ Spent \in Nat
          /\ Spent' = Spent + IF fn = "pulseIn" THEN WaitCycles ELSE LongCycles
      BY <1>1, <1>2, <2>1, <2>3
         DEF Spent, Budget, WaitCycles, LongCycles, TurnCycles
    <2>5. Accounted'
      BY <1>1, <1>2, <2>1, <2>2, <2>4 DEF Accounted, WaitCycles, LongCycles
    <2>6. TypeOK'
      <3>1. maxloops' \in Nat /\ loops' \in 0 .. maxloops' + 1
        BY <1>1, <1>2, <2>3 DEF Budget
      <3>2. stolen' \in 0 .. elapsed' + Steal
        BY <1>1, <1>2, <2>2, <2>5 DEF Accounted
      <3> QED
        BY <1>1, <2>1, <3>1, <3>2 DEF TypeOK
    <2>7. Budget'
      BY <1>1, <2>1, <2>3 DEF Budget
    <2>8. Rising'
      BY <1>1, <1>2, <2>1, <2>2 DEF Rising, Waiting, WaitCycles
    <2> QED
      BY <1>1, <2>1, <2>5, <2>6, <2>7, <2>8
         DEF Positive, Falling, Counted, Measured
  <1> QED
    BY <1>3, <1>4 DEF Wait

LEMMA PreviousOverStep ==
  ASSUME IInv, PreviousOver
  PROVE  IInv'
  <1> USE Bounds DEF IInv
  <1>1. /\ left = 0 /\ pc = "previous" /\ ~ high
        /\ UNCHANGED <<high, length, gap, fn, timeout, phase, maxloops, loops,
                       width, start, began>>
    BY DEF PreviousOver, pin, call
  <1>2. /\ pc' = "start" /\ elapsed' = elapsed /\ result' = result
        /\ left' \in 0 .. Longest
        /\ \E s \in 0 .. Steal :
             /\ left' = (IF fn = "pulseIn" THEN TurnCycles ELSE LongCycles) + s
             /\ stolen' = stolen + s
    <2>1. TurnCycles \in 0 .. LoopCycles
      BY DEF TurnCycles, LoopCycles
    <2> QED
      BY <1>1, <2>1, IterateStep DEF PreviousOver
  <1>3. PICK s \in 0 .. Steal :
             /\ left' = (IF fn = "pulseIn" THEN TurnCycles ELSE LongCycles) + s
             /\ stolen' = stolen + s
    BY <1>2
  <1>4. /\ maxloops \in Nat /\ loops \in Nat /\ elapsed \in Nat
        /\ stolen \in Nat /\ timeout \in Nat
        /\ fn \in {"pulseIn", "pulseInLong"}
    BY DEF TypeOK
  <1>5. /\ Spent \in Nat
        /\ Spent' = Spent + IF fn = "pulseIn" THEN TurnCycles ELSE LongCycles
    BY <1>1, <1>2, <1>4 DEF Spent, Budget, WaitCycles, LongCycles, TurnCycles
  <1>6. Accounted'
    BY <1>1, <1>2, <1>3, <1>4, <1>5 DEF Accounted, TurnCycles, LongCycles
  <1>7. TypeOK'
    <2>1. stolen' \in 0 .. elapsed' + Steal
      BY <1>3, <1>4, <1>6 DEF Accounted
    <2> QED
      BY <1>1, <1>2, <2>1 DEF TypeOK
  <1>8. Budget' /\ Positive'
    BY <1>1, <1>2 DEF Budget, Positive
  <1>9. Rising'
    BY <1>1, <1>2, <1>3, <1>4 DEF Rising, TurnCycles, WaitCycles
  <1> QED
    BY <1>1, <1>2, <1>6, <1>7, <1>8, <1>9 DEF Falling, Counted, Measured

(* The third loop begins within an iteration of the beginning of the pulse. *)
LEMMA StartedStep ==
  ASSUME IInv, Started
  PROVE  IInv'
  <1> USE Bounds DEF IInv
  <1>1. /\ left = 0 /\ pc = "start" /\ high /\ width' = 0 /\ start' = micros
        /\ UNCHANGED <<high, length, gap, fn, timeout, phase, maxloops, loops,
                       began>>
    BY DEF Started, pin, call
  <1>2. /\ pc' = "stop" /\ elapsed' = elapsed /\ result' = result
        /\ left' \in 0 .. Longest
        /\ \E s \in 0 .. Steal :
             /\ left' = (IF fn = "pulseIn" THEN WaitCycles ELSE LongCycles) + s
             /\ stolen' = stolen + s
    <2>1. WaitCycles \in 0 .. LoopCycles
      BY DEF WaitCycles, LoopCycles
    <2> QED
      BY <1>1, <2>1, IterateStep DEF Started
  <1>3. PICK s \in 0 .. Steal :
             /\ left' = (IF fn = "pulseIn" THEN WaitCycles ELSE LongCycles) + s
             /\ stolen' = stolen + s
    BY <1>2
  <1>4. /\ length \in Nat /\ length > 0 /\ elapsed \in Nat /\ stolen \in Nat
        /\ maxloops \in Nat /\ loops \in Nat /\ phase \in Nat /\ timeout \in Nat
        /\ fn \in {"pulseIn", "pulseInLong"}
    BY <1>1 DEF TypeOK, Positive
  <1>5. /\ Spent \in Nat
        /\ Spent' = Spent + IF fn = "pulseIn" THEN WaitCycles ELSE LongCycles
    BY <1>1, <1>2, <1>4
       DEF Spent, Budget, WaitCycles, LongCycles, TurnCycles, LoopCycles
  <1>6. Accounted'
    BY <1>1, <1>2, <1>3, <1>4, <1>5 DEF Accounted, WaitCycles, LongCycles
  <1>7. Budget' /\ Positive'
    BY <1>1, <1>2, <1>4 DEF Budget, Positive
  <1>8. TypeOK'
    <2>1. stolen' \in 0 .. elapsed' + Steal
      BY <1>3, <1>4, <1>6 DEF Accounted
    <2>2. start' \in Nat /\ width' \in 0 .. MaxLength
      BY <1>1, MicrosIs
    <2> QED
      BY <1>1, <1>2, <2>1, <2>2 DEF TypeOK
  <1>9. /\ began /\ length <= Longest
        /\ fn = "pulseIn" => length <= WaitCycles + stolen
    BY <1>1, <1>4 DEF Rising, WaitCycles
  <1>10. Falling' /\ Counted'
    BY <1>1, <1>2, <1>3, <1>4, <1>9 DEF Falling, Counted, WaitCycles, LoopCycles
  <1>11. Measured'
    <2>1. /\ micros \in Nat /\ micros * 16 <= phase + elapsed
          /\ phase + elapsed < micros * 16 + 64 /\ \E q \in Nat : micros = q * 4
      BY MicrosIs
    <2>2. Since' = phase + elapsed - micros * 16
      BY <1>1, <1>2 DEF Since, CyclesPerUs
    <2> QED
      BY <1>1, <1>4, <1>9, <2>1, <2>2 DEF Measured, MicrosCycles
  <1> QED
    BY <1>1, <1>2, <1>6, <1>7, <1>8, <1>10, <1>11 DEF Rising

(* The third loop goes on, or has used up the count. *)
LEMMA CountStep ==
  ASSUME IInv, Count
  PROVE  /\ IInv'
         /\ pc' = "idle" =>
              result' = 0 /\ elapsed - stolen >= WaitCycles * (timeout - 1)
  <1> USE Bounds DEF IInv
  <1>1. /\ left = 0 /\ pc = "stop" /\ high /\ fn = "pulseIn"
        /\ UNCHANGED <<high, length, gap, fn, timeout, phase, maxloops, loops,
                       start, elapsed, began>>
    BY DEF Count, pin, call, Return, Iterate, time
  <1>2. /\ length \in 0 .. MaxLength /\ elapsed \in Nat /\ stolen \in Nat
        /\ maxloops \in Nat /\ timeout \in Nat /\ width \in Nat
    BY DEF TypeOK
  <1>3. /\ elapsed = stolen + 11 * (timeout - maxloops) + 18 + 16 * width
        /\ width + 1 <= maxloops /\ maxloops <= timeout
    BY <1>1, <1>2
       DEF Accounted, Spent, Budget, WaitCycles, TurnCycles, LoopCycles
  <1>4. CASE TimedOut
    <2>1. pc' = "idle" /\ result' = 0 /\ UNCHANGED <<left, stolen, width>>
      BY <1>4 DEF Count, Return, time
    <2>2. TypeOK'
      BY <1>1, <2>1 DEF TypeOK
    <2>3. elapsed - stolen >= WaitCycles * (timeout - 1)
      BY <1>2, <1>3, <1>4 DEF TimedOut, WaitCycles
    <2> QED
      BY <1>1, <2>1, <2>2, <2>3
         DEF Accounted, Budget, Positive, Rising, Falling, Counted, Measured
  <1>5. CASE ~ TimedOut
    <2>1. /\ width' = width + 1 /\ pc' = "stop" /\ result' = result
          /\ left' \in 0 .. Longest
          /\ \E s \in 0 .. Steal : left' = 16 + s /\ stolen' = stolen + s
      <3>1. width' = width + 1 /\ Iterate("stop", LoopCycles)
        BY <1>5 DEF Count
      <3>2. LoopCycles \in 0 .. LoopCycles
        BY DEF LoopCycles
      <3> QED
        BY <1>1, <3>1, <3>2, IterateStep DEF LoopCycles
    <2>2. PICK s \in 0 .. Steal : left' = 16 + s /\ stolen' = stolen + s
      BY <2>1
    <2>3. width + 2 <= maxloops
      BY <1>2, <1>3, <1>5 DEF TimedOut
    <2>4. 16 * width + 12 <= length /\ length <= 16 * width + 22 + stolen
      BY <1>1, <1>2 DEF Counted, LoopCycles, WaitCycles
    <2>5. Accounted'
      BY <1>1, <1>2, <1>3, <2>1, <2>2
         DEF Accounted, Spent, WaitCycles, TurnCycles, LoopCycles
    <2>6. TypeOK'
      <3>1. stolen' \in 0 .. elapsed' + Steal
        BY <1>1, <1>2, <2>2, <2>5 DEF Accounted
      <3>2. width' \in 0 .. MaxLength
        BY <1>2, <2>1, <2>4
      <3> QED
        BY <1>1, <2>1, <3>1, <3>2 DEF TypeOK
    <2>7. Budget' /\ Positive'
      BY <1>1, <1>2, <2>1, <2>3 DEF Budget, Positive
    <2>8. Falling' /\ Counted'
      BY <1>1, <1>2, <2>1, <2>2, <2>4 DEF Falling, Counted, LoopCycles, WaitCycles
    <2> QED
      BY <1>1, <2>1, <2>5, <2>6, <2>7, <2>8 DEF Rising, Measured
  <1> QED
    BY <1>4, <1>5

LEMMA CountLongStep ==
  ASSUME IInv, CountLong
  PROVE  IInv' /\ (pc' = "idle" => result' = 0)
  <1> USE Bounds DEF IInv
  <1>1. /\ left = 0 /\ pc = "stop" /\ high /\ fn = "pulseInLong"
        /\ UNCHANGED <<high, length, gap, fn, timeout, phase, start, elapsed,
                       width, began, maxloops>>
    BY DEF CountLong, pin, call, Return, Iterate, time, Exhausted, NotExhausted
  <1>2. /\ length \in Nat /\ elapsed \in Nat /\ stolen \in Nat
        /\ maxloops \in Nat /\ timeout \in Nat /\ loops \in Nat
    BY DEF TypeOK
  <1>3. elapsed = stolen + 16 * (loops + 2) /\ loops <= maxloops
    BY <1>1, <1>2 DEF Accounted, Spent, Budget, LongCycles
  <1>4. CASE Exhausted /\ Return(0)
    <2>1. pc' = "idle" /\ result' = 0 /\ UNCHANGED <<left, stolen>>
      BY <1>4 DEF Return, time
    <2>2. TypeOK'
      BY <1>1, <1>2, <1>4, <2>1 DEF TypeOK, Exhausted
    <2> QED
      BY <1>1, <2>1, <2>2
         DEF Accounted, Positive, Budget, Rising, Falling, Counted, Measured
  <1>5. CASE NotExhausted /\ Iterate("stop", LongCycles) /\ UNCHANGED <<width, start>>
    <2>1. /\ pc' = "stop" /\ result' = result /\ left' \in 0 .. Longest
          /\ \E s \in 0 .. Steal : left' = 16 + s /\ stolen' = stolen + s
      <3>1. LongCycles \in 0 .. LoopCycles
        BY DEF LoopCycles, LongCycles
      <3> QED
        BY <1>1, <1>5, <3>1, IterateStep DEF LongCycles
    <2>2. PICK s \in 0 .. Steal : left' = 16 + s /\ stolen' = stolen + s
      BY <2>1
    <2>3. loops' = loops + 1 /\ loops' <= maxloops
      BY <1>1, <1>2, <1>3, <1>5 DEF NotExhausted
    <2>4. Accounted'
      BY <1>1, <1>2, <1>3, <2>1, <2>2, <2>3 DEF Accounted, Spent, LongCycles
    <2>5. TypeOK'
      <3>1. stolen' \in 0 .. elapsed' + Steal
        BY <1>1, <1>2, <2>2, <2>4 DEF Accounted
      <3>2. loops' \in 0 .. maxloops' + 1
        BY <1>1, <1>2, <2>3
      <3> QED
        BY <1>1, <2>1, <3>1, <3>2 DEF TypeOK
    <2>6. Budget' /\ Positive'
      BY <1>1, <1>2, <2>1, <2>3 DEF Budget, Positive
    <2>7. Falling' /\ Measured'
      BY <1>1, <1>2, <2>1, <2>2 DEF Falling, Measured, Since
    <2> QED
      BY <1>1, <2>1, <2>4, <2>5, <2>6, <2>7 DEF Rising, Counted
  <1> QED
    BY <1>4, <1>5 DEF CountLong

(* How far a result, in cycles, can be from the length of the pulse. *)
Truthful(r) ==
  IF fn = "pulseIn"
    THEN r * CyclesPerUs - length \in -(2 * WaitCycles - LoopCycles - 1 + stolen)
                                      .. 2 * LoopCycles - WaitCycles - 1
    ELSE r * CyclesPerUs - length \in -(Longest + MicrosCycles)
                                      .. Longest + MicrosCycles

(* The pulse has ended. *)
LEMMA StoppedStep ==
  ASSUME IInv, Stopped
  PROVE  /\ IInv' /\ pc' = "idle" /\ began /\ ~ high
         /\ fn = "pulseIn" /\ result' = 0 => length < 2 * WaitCycles + stolen
         /\ result' # 0 => Truthful(result')
  <1> USE Bounds DEF IInv
  <1>1. /\ left = 0 /\ pc = "stop" /\ ~ high /\ pc' = "idle" /\ began
        /\ UNCHANGED <<high, length, gap, fn, timeout, phase, maxloops, loops,
                       width, start, left, elapsed, stolen, began>>
    BY DEF Stopped, pin, call, Return, time, Falling
  <1>2. /\ length \in Nat /\ stolen \in Nat /\ width \in Nat /\ gap \in Nat
        /\ gap > 0 /\ gap <= Longest /\ start \in Nat /\ phase \in Nat /\ elapsed \in Nat
        /\ fn \in {"pulseIn", "pulseInLong"}
    <2>1. gap \in Nat /\ stolen \in Nat /\ length \in Nat /\ width \in Nat
          /\ start \in Nat /\ phase \in Nat /\ elapsed \in Nat
      BY DEF TypeOK
    <2>2. gap + left <= Longest
      BY <1>1 DEF Falling
    <2> QED
      BY <1>1, <2>1, <2>2 DEF TypeOK, Positive
  <1>3. ASSUME fn = "pulseIn"
        PROVE  /\ result' \in Nat
               /\ result' = 0 => length < 2 * WaitCycles + stolen
               /\ result' # 0 => Truthful(result')
    <2>1. 16 * width <= length + 4 /\ length < 16 * width + 22 + stolen
      BY <1>1, <1>2, <1>3 DEF Counted, LoopCycles, WaitCycles
    <2>2. (width * LoopCycles + LoopCycles) \div CyclesPerUs = width + 1
      BY <1>2 DEF LoopCycles, CyclesPerUs
    <2>3. result' = IF width # 0 THEN width + 1 ELSE 0
      BY <1>3, <2>2 DEF Stopped, Return
    <2> QED
      BY <1>2, <1>3, <2>1, <2>3 DEF Truthful, WaitCycles, LoopCycles, CyclesPerUs
  <1>4. ASSUME fn = "pulseInLong"
        PROVE  result' \in Nat /\ Truthful(result')
    <2>1. result' = micros - start
      BY <1>4 DEF Stopped, Return
    <2>2. /\ start * 16 <= phase + elapsed /\ \E q \in Nat : start = q * 4
          /\ gap - Longest <= phase + elapsed - start * 16 - length
          /\ phase + elapsed - start * 16 - length <= gap + 62
      <3>1. /\ Since >= 0 /\ gap - Longest <= Since - length
            /\ Since - length <= gap - 2 + MicrosCycles
            /\ \E q \in Nat : start = q * 4
        BY <1>1, <1>4 DEF Measured
      <3> QED
        BY <1>2, <3>1 DEF Since, MicrosCycles, CyclesPerUs
    <2>3. /\ micros \in Nat /\ micros * 16 <= phase + elapsed
          /\ phase + elapsed < micros * 16 + 64 /\ \E q \in Nat : micros = q * 4
      BY MicrosIs
    <2>4. start <= micros
      <3>1. PICK q \in Nat : start = q * 4
        BY <2>2
      <3>2. PICK n \in Nat : micros = n * 4
        BY <2>3
      <3> QED
        BY <1>2, <2>2, <2>3, <3>1, <3>2
    <2> HIDE DEF micros
    <2>5. result' \in Nat
      BY <1>2, <2>1, <2>3, <2>4
    <2>6. /\ result' * 16 - length <= Longest + 64
          /\ -(Longest + 64) <= result' * 16 - length
      BY <1>2, <2>1, <2>2, <2>3
    <2>7. result' * 16 - length \in -(Longest + 64) .. Longest + 64
      <3>1. /\ Longest + 64 \in Int /\ -(Longest + 64) \in Int
            /\ result' * 16 - length \in Int
        BY <1>2, <2>5
      <3> QED
        BY <2>6, <3>1
    <2>8. fn # "pulseIn"
      BY <1>4
    <2> QED
      BY <2>5, <2>7, <2>8 DEF Truthful, MicrosCycles, CyclesPerUs
  <1>5. TypeOK'
    BY <1>1, <1>2, <1>3, <1>4 DEF TypeOK
  <1> QED
    BY <1>1, <1>2, <1>3, <1>4, <1>5
       DEF Accounted, Positive, Budget, Rising, Falling, Counted, Measured
-----------------------------------------------------------------------------
THEOREM Inductive == Spec => []IInv
  <1>1. Init => IInv
    <2> SUFFICES ASSUME Init PROVE IInv
      OBVIOUS
    <2>1. TypeOK
      <3>1. /\ 0 \in 0 .. MaxLength /\ Longest + 1 \in 0 .. Longest + 1
            /\ 0 \in 0 .. 0 + Steal /\ 0 \in 0 .. MicrosCycles - 1
            /\ 0 \in 0 .. Longest /\ 0 \in 0 .. 0 + 1
        BY Bounds DEF MicrosCycles
      <3> QED
        BY <3>1 DEF Init, TypeOK, NoResult
    <2> QED
      BY <2>1, Bounds
         DEF Init, IInv, Accounted, Positive, Budget, Rising, Falling, Counted, Measured
  <1>2. ASSUME IInv, [Next]_vars PROVE IInv'
    <2>1. CASE UNCHANGED vars
      BY <1>2, <2>1
         DEF vars, pin, call, time, IInv, TypeOK, Accounted, Spent, Positive,
             Budget, Rising, Falling, Counted, Measured, Since
    <2> QED
      BY <1>2, <2>1, PassStep, CallStep, WaitStep, PreviousOverStep, StartedStep,
         CountStep, CountLongStep, StoppedStep DEF Next, Loops
  <1> QED
    BY <1>1, <1>2, PTL DEF Spec

(* TypeOK: in particular no loop makes an iteration that it may not.        *)
THEOREM TypeCorrect == Spec => []TypeOK
  <1>1. IInv => TypeOK
    BY DEF IInv
  <1> QED
    BY <1>1, Inductive, PTL

(* TimeoutKept: the time of a call is bounded by its timeout and the time   *)
(* that interrupts take.                                                   *)
THEOREM TimeoutCorrect == Spec => []TimeoutKept
  <1>1. ASSUME IInv PROVE TimeoutKept
    <2> SUFFICES ASSUME pc # "idle"
                 PROVE  elapsed <= stolen + (IF fn = "pulseIn"
                                     THEN CyclesPerUs * timeout + 2
                                     ELSE LongCycles * (CyclesPerUs * timeout + 2))
      BY DEF TimeoutKept
    <2>1. /\ elapsed \in Nat /\ stolen \in Nat /\ left \in Nat /\ width \in Nat
          /\ timeout \in Nat /\ maxloops \in Nat /\ loops \in Nat
          /\ fn \in {"pulseIn", "pulseInLong"}
      BY <1>1, Bounds DEF IInv, TypeOK
    <2>2. CASE fn = "pulseIn"
      BY <1>1, <2>1, <2>2
         DEF IInv, Accounted, Spent, Budget, WaitCycles, TurnCycles, LoopCycles,
             CyclesPerUs
    <2>3. CASE fn = "pulseInLong"
      BY <1>1, <2>1, <2>3 DEF IInv, Accounted, Spent, Budget, LongCycles, CyclesPerUs
    <2> QED
      BY <2>1, <2>2, <2>3
  <1> QED
    BY <1>1, Inductive, PTL

(* Only four steps return. *)
LEMMA ReturnsWhen ==
  ASSUME [Next]_vars, Returns
  PROVE  Wait \/ Count \/ CountLong \/ Stopped
  BY DEF Returns, Next, Loops, Pass, Call, FirstLoop, PreviousOver, Started, Iterate,
         vars

(* WholePulse: what is returned is the length of one whole pulse.           *)
THEOREM WholePulseCorrect == Spec => WholePulse
  <1>1. ASSUME IInv, [Next]_vars, Returns, result' # 0
        PROVE  began /\ ~ high /\ Truthful(result')
    <2>1. Stopped
      BY <1>1, ReturnsWhen, WaitStep, CountStep, CountLongStep DEF Returns
    <2> QED
      BY <1>1, <2>1, StoppedStep
  <1> QED
    BY <1>1, Inductive, PTL DEF Spec, WholePulse, Truthful

(* ZeroMeans: 0 is returned for one of two reasons: the time of timeout     *)
(* iterations of a waiting loop has been spent, or the pulse was too short. *)
THEOREM ZeroMeansCorrect == Spec => ZeroMeans
  <1>1. ASSUME IInv, [Next]_vars, Returns, result' = 0, fn = "pulseIn"
        PROVE  \/ elapsed - stolen >= WaitCycles * (timeout - 1)
               \/ length < 2 * WaitCycles + stolen
    <2>1. ~ CountLong
      BY <1>1 DEF CountLong
    <2>2. CASE Wait
      BY <1>1, <2>2, WaitStep DEF Returns
    <2>3. CASE Count
      BY <1>1, <2>3, CountStep DEF Returns
    <2>4. CASE Stopped
      BY <1>1, <2>4, StoppedStep
    <2> QED
      BY <1>1, <2>1, <2>2, <2>3, <2>4, ReturnsWhen
  <1> QED
    BY <1>1, Inductive, PTL DEF Spec, ZeroMeans
=============================================================================
