---------------------------- MODULE ClockProofs ----------------------------
(***************************************************************************)
(* Safety of Clock for every speed of the timer, every width of the        *)
(* counters and every delay of the interrupt below an overflow: first the   *)
(* two clocks, then delay(), whose arithmetic modulo 2^16 with the times    *)
(* micros() returns modulo 2^32 makes it neither short nor long.           *)
(***************************************************************************)
EXTENDS Clock, TLAPS

Pending == IF tov THEN 1 ELSE 0

(* A pending overflow is served before TCNT0 can be mistaken. *)
Served == tov => tcnt <= MaxLate

Masked == pc \in {"low", "high", "count", "tcnt", "flag"} => ~ irqOn

(* What micros() has read: the overflows counted, modulo 2^32, then TCNT0,  *)
(* of which the time turn ticks ago is made.                               *)
Reading ==
  /\ pc # "idle" => called <= now - turn
  /\ pc \in {"tcnt", "flag"} => m = overflow_count
  /\ pc = "flag" =>
       /\ turn <= 1
       /\ \E n \in Nat : Overflows = n % CountMod /\ now - turn = n * Ticks + t
  /\ pc = "flag" /\ turn = 0 => t = tcnt
  /\ pc = "high" => m = millis % HalfMod

(* Where micros() returns to, and the loop of delay(). *)
Returning ==
  /\ pc \in {"idle", "low", "high"} => ret = "idle"
  /\ pc \in {"first", "loop"} => ret = pc
  /\ ret = "loop" => left > 0

IInv == TypeOK /\ NoDrift /\ Served /\ Masked /\ Reading /\ Returning

-----------------------------------------------------------------------------
(* The constants of the interrupt: what it adds is exactly an overflow. *)
LEMMA Increments ==
  /\ MICROSECONDS_PER_TIMER0_OVERFLOW \in Nat
  /\ MILLIS_INC \in Nat /\ FRACT_INC \in Nat /\ FRACT_MAX \in Nat \ {0}
  /\ FRACT_INC < FRACT_MAX
  /\ MICROSECONDS_PER_TIMER0_OVERFLOW = MILLIS_INC * MsUs + FRACT_INC * FractUnit
  <1> DEFINE M == MICROSECONDS_PER_TIMER0_OVERFLOW
  <1>1. M \in Nat
    BY ClockAssumption DEF MICROSECONDS_PER_TIMER0_OVERFLOW
  <1> HIDE DEF M
  <1>2. M % MsUs \in 0 .. MsUs - 1 /\ M \div MsUs \in Nat
    BY <1>1, ClockAssumption
  <1>3. M = (M \div MsUs) * MsUs + (M % MsUs)
    BY <1>1, ClockAssumption
  <1>4. M % MsUs = FRACT_INC * FractUnit /\ MsUs = FRACT_MAX * FractUnit
    BY PrecisionAssumption DEF M
  <1>5. FRACT_INC \in Nat /\ FRACT_MAX \in Nat
    BY <1>2, ClockAssumption DEF FRACT_INC, FRACT_MAX, M
  <1>6. FRACT_MAX # 0
    BY <1>4, ClockAssumption
  <1>7. FRACT_INC < FRACT_MAX
    <2>1. SUFFICES ASSUME FRACT_INC >= FRACT_MAX PROVE FALSE
      BY <1>5
    <2>2. FRACT_INC * FractUnit >= FRACT_MAX * FractUnit
      BY <2>1, <1>5, ClockAssumption
    <2> QED
      BY <2>2, <1>2, <1>4, ClockAssumption
  <1> QED
    BY <1>1, <1>2, <1>3, <1>4, <1>5, <1>6, <1>7 DEF MILLIS_INC, M

LEMMA Numbers ==
  /\ MICROSECONDS_PER_TIMER0_OVERFLOW \in Nat
  /\ MILLIS_INC \in Nat /\ FRACT_INC \in Nat /\ FRACT_MAX \in Nat \ {0}
  /\ FRACT_INC < FRACT_MAX
  BY Increments

LEMMA Bounds ==
  /\ Ticks \in Nat /\ Ticks > 2 /\ TickUs \in Nat \ {0} /\ MsUs \in Nat \ {0}
  /\ CountMod \in Nat \ {0}
  /\ MaxLate \in Nat /\ MaxLate < Ticks - 1 /\ MaxNow \in Nat
  /\ MicrosMod \in Nat \ {0} /\ Uint16 \in Nat \ {0} /\ HalfMod \in Nat \ {0}
  /\ Delays \subseteq Nat
  BY ClockAssumption, SpeedAssumption

(* Remainders.                                                              *)
LEMMA DivMod ==
  ASSUME NEW n \in Int, NEW d \in Nat \ {0}
  PROVE  n = (n \div d) * d + (n % d) /\ n % d \in 0 .. d - 1 /\ n \div d \in Int
  OBVIOUS

LEMMA Unique ==
  ASSUME NEW n \in Int, NEW d \in Nat \ {0}, NEW q \in Int, NEW r \in 0 .. d - 1,
         n = q * d + r
  PROVE  n % d = r
  <1> DEFINE p == n \div d
             s == n % d
  <1>1. n = p * d + s /\ s \in 0 .. d - 1 /\ p \in Int
    BY DivMod
  <1> HIDE DEF p, s
  <1>2. p * d \in Int /\ q * d \in Int /\ p * d - q * d = r - s
    BY <1>1
  <1>3. ~ (p < q)
    <2>1. SUFFICES ASSUME p < q PROVE FALSE
      OBVIOUS
    <2>2. p + 1 <= q
      BY <1>1, <2>1
    <2>3. (p + 1) * d <= q * d
      BY <1>1, <2>2
    <2>4. (p + 1) * d = p * d + d
      BY <1>1
    <2> QED
      BY <1>1, <1>2, <2>3, <2>4
  <1>4. ~ (q < p)
    <2>1. SUFFICES ASSUME q < p PROVE FALSE
      OBVIOUS
    <2>2. q + 1 <= p
      BY <1>1, <2>1
    <2>3. (q + 1) * d <= p * d
      BY <1>1, <2>2
    <2>4. (q + 1) * d = q * d + d
      OBVIOUS
    <2> QED
      BY <1>1, <1>2, <2>3, <2>4
  <1>5. p = q
    BY <1>1, <1>3, <1>4
  <1> QED
    BY <1>1, <1>5 DEF s

LEMMA ModOfMod ==
  ASSUME NEW n \in Nat, NEW M \in Nat \ {0}, NEW d \in Nat \ {0}, M % d = 0
  PROVE  (n % M) % d = n % d
  <1> DEFINE q == n \div M
             s == n % M
             k == M \div d
             e == s \div d
             r == s % d
  <1>1. n = q * M + s /\ s \in Nat /\ q \in Int
    BY DivMod
  <1>2. M = k * d + 0 /\ k \in Int
    BY DivMod
  <1>3. s = e * d + r /\ r \in 0 .. d - 1 /\ e \in Int
    BY <1>1, DivMod
  <1> HIDE DEF q, s, k, e, r
  <1>4. n = (q * k + e) * d + r
    <2>1. q * M = (q * k) * d
      BY <1>1, <1>2
    <2>2. (q * k + e) * d = (q * k) * d + e * d
      BY <1>1, <1>2, <1>3
    <2> QED
      BY <1>1, <1>2, <1>3, <2>1, <2>2
  <1>5. n % d = r
    BY <1>1, <1>2, <1>3, <1>4, Unique
  <1> QED
    BY <1>5 DEF s, r

LEMMA ModDifference ==
  ASSUME NEW a \in Nat, NEW b \in Nat, NEW d \in Nat \ {0}, b <= a, a - b < d
  PROVE  ((a % d) - (b % d)) % d = a - b
  <1> DEFINE p == a \div d
             r == a % d
             q == b \div d
             s == b % d
  <1>1. a = p * d + r /\ r \in Int /\ p \in Int
    BY DivMod
  <1>2. b = q * d + s /\ s \in Int /\ q \in Int
    BY DivMod
  <1> HIDE DEF p, r, q, s
  <1>3. r - s = (q - p) * d + (a - b)
    <2>1. (q - p) * d = q * d - p * d
      BY <1>1, <1>2
    <2> QED
      BY <1>1, <1>2, <2>1
  <1>4. (r - s) % d = a - b
    <2>1. a - b \in 0 .. d - 1 /\ q - p \in Int /\ r - s \in Int
      BY <1>1, <1>2
    <2> QED
      BY <1>3, <2>1, Unique
  <1> QED
    BY <1>4 DEF r, s

LEMMA ModSum ==
  ASSUME NEW a \in Nat, NEW c \in Nat, NEW d \in Nat \ {0}
  PROVE  ((a % d) + c) % d = (a + c) % d
  <1> DEFINE p == a \div d
             r == a % d
             q == (r + c) \div d
             s == (r + c) % d
  <1>1. a = p * d + r /\ r \in Int /\ p \in Int
    BY DivMod
  <1> HIDE DEF r, p
  <1>2. r + c = q * d + s /\ s \in 0 .. d - 1 /\ q \in Int
    <2>1. r + c \in Int
      BY <1>1
    <2> QED
      BY <2>1, DivMod
  <1> HIDE DEF q, s
  <1>3. a + c = (p + q) * d + s
    <2>1. (p + q) * d = p * d + q * d
      BY <1>1, <1>2
    <2> QED
      BY <1>1, <1>2, <2>1
  <1>4. (a + c) % d = s
    <2>1. a + c \in Int /\ p + q \in Int
      BY <1>1, <1>2
    <2> QED
      BY <1>2, <1>3, <2>1, Unique
  <1> QED
    BY <1>4 DEF s, r

(* Where the count wraps, the microseconds made of it do. *)
LEMMA MicrosWraps ==
  ASSUME NEW n \in Nat, NEW u \in Nat
  PROVE  (((n % CountMod) * Ticks + u) * TickUs) % MicrosMod
           = ((n * Ticks + u) * TickUs) % MicrosMod
  <1> DEFINE q == n \div CountMod
             k == n % CountMod
             M == MICROSECONDS_PER_TIMER0_OVERFLOW
             j == (CountMod * M) \div MicrosMod
             x == (k * Ticks + u) * TickUs
             p == x \div MicrosMod
             w == x % MicrosMod
  <1>1. n = q * CountMod + k /\ k \in Nat /\ q \in Int
    BY Bounds, DivMod
  <1>2. M = Ticks * TickUs /\ M \in Nat /\ CountMod * M = j * MicrosMod /\ j \in Int
    <2>1. M \in Nat /\ (CountMod * M) % MicrosMod = 0
      BY Numbers, Bounds, SpeedAssumption
    <2>2. M = Ticks * TickUs
      BY DEF MICROSECONDS_PER_TIMER0_OVERFLOW
    <2> HIDE DEF M
    <2>3. CountMod * M \in Int
      BY <2>1, Bounds
    <2> DEFINE c == CountMod * M
    <2>4. c \in Int /\ c % MicrosMod = 0 /\ j = c \div MicrosMod
      BY <2>1, <2>3
    <2> HIDE DEF c, j
    <2>5. c = (c \div MicrosMod) * MicrosMod + (c % MicrosMod) /\ c \div MicrosMod \in Int
      BY <2>4, Bounds, DivMod
    <2>6. (c \div MicrosMod) * MicrosMod \in Int
      BY <2>5, Bounds
    <2>7. c = j * MicrosMod /\ j \in Int
      BY <2>4, <2>5, <2>6
    <2> QED
      BY <2>1, <2>2, <2>7 DEF c
  <1> HIDE DEF q, k, M, j
  <1>3. x \in Int /\ x = p * MicrosMod + w /\ w \in 0 .. MicrosMod - 1 /\ p \in Int
    <2>1. x \in Int
      BY <1>1, Bounds
    <2> HIDE DEF x
    <2> QED
      BY <2>1, Bounds, DivMod
  <1>4. (n * Ticks + u) * TickUs = q * (CountMod * M) + x
    <2>1. n * Ticks = (q * CountMod) * Ticks + k * Ticks
      BY <1>1, Bounds
    <2>2. /\ (q * CountMod) * Ticks \in Int /\ k * Ticks \in Int
          /\ ((q * CountMod) * Ticks) * TickUs = q * (CountMod * M)
      BY <1>1, <1>2, Bounds
    <2>3. ((q * CountMod) * Ticks + (k * Ticks + u)) * TickUs
            = ((q * CountMod) * Ticks) * TickUs + x
      BY <1>1, <2>2, Bounds
    <2> QED
      BY <1>1, <2>1, <2>2, <2>3
  <1> HIDE DEF x, p, w
  <1>5. (n * Ticks + u) * TickUs = (q * j + p) * MicrosMod + w
    <2>1. q * (CountMod * M) = (q * j) * MicrosMod
      BY <1>1, <1>2, Bounds
    <2>2. (q * j + p) * MicrosMod = (q * j) * MicrosMod + p * MicrosMod
      BY <1>1, <1>2, <1>3, Bounds
    <2>3. /\ (q * j) * MicrosMod \in Int /\ p * MicrosMod \in Int
      BY <1>1, <1>2, <1>3, Bounds
    <2> QED
      BY <1>3, <1>4, <2>1, <2>2, <2>3
  <1>6. ((n * Ticks + u) * TickUs) % MicrosMod = w
    <2>1. (n * Ticks + u) * TickUs \in Int /\ q * j + p \in Int
      BY <1>1, <1>2, <1>3, Bounds
    <2> QED
      BY <1>3, <1>5, <2>1, Bounds, Unique
  <1> QED
    BY <1>6 DEF w, x, k

LEMMA InitIInv == Init => IInv
  <1> SUFFICES ASSUME Init PROVE IInv
    OBVIOUS
  <1>1. TypeOK
    <2>1. 0 \in 0 .. FRACT_MAX - 1
      BY Numbers
    <2>2. 0 \in 0 .. Ticks - 1 /\ 0 \in 0 .. MaxNow /\ 0 \in 0 .. MicrosMod - 1
          /\ 0 \in 0 .. Uint16 - 1 /\ 0 \in Nat /\ 0 \in 0 .. CountMod - 1
      BY Bounds
    <2> QED
      BY <2>1, <2>2 DEF Init, TypeOK
  <1>2. NoDrift
    <2>1. \A x \in Nat : 0 * x = 0 /\ (0 + 0) * x = 0
      OBVIOUS
    <2>2. FractUnit \in Nat /\ 0 % CountMod = 0
      BY ClockAssumption
    <2> QED
      BY <2>1, <2>2, Numbers, Bounds DEF Init, NoDrift
  <1> QED
    BY <1>1, <1>2 DEF Init, IInv, Served, Masked, Reading, Returning

(* A tick that wraps TCNT0 makes an overflow pending, and none was. *)
LEMMA TickStep == IInv /\ Tick => IInv'
  <1> SUFFICES ASSUME IInv, Tick PROVE IInv'
    OBVIOUS
  <1> USE Bounds DEF IInv
  <1>1. tcnt' = IF tcnt + 1 = Ticks THEN 0 ELSE tcnt + 1
    BY DEF Tick, TypeOK
  <1>2. TypeOK'
    BY <1>1 DEF Tick, TypeOK, counters, locals, history
  <1>3. tcnt + 1 = Ticks => ~ tov /\ tov'
    <2>1. tov => tcnt + 1 # Ticks
      BY DEF Tick, TypeOK
    <2> QED
      BY <1>1, <2>1 DEF Tick
  <1>4. tcnt + 1 # Ticks => tov' = tov /\ tcnt' = tcnt + 1
    BY <1>1 DEF Tick, TypeOK
  <1>5. NoDrift'
    <2>1. overflows \in Nat /\ (overflows + 1) * Ticks = overflows * Ticks + Ticks
      BY DEF TypeOK
    <2>2. now' = now + 1
          /\ UNCHANGED <<overflow_count, millis, fract, overflows, passed>>
      BY DEF Tick, counters
    <2>3. now' = (overflows' + IF tov' THEN 1 ELSE 0) * Ticks + tcnt'
      <3>1. CASE tcnt + 1 = Ticks
        BY <3>1, <1>1, <1>3, <2>1, <2>2 DEF NoDrift, TypeOK
      <3>2. CASE tcnt + 1 # Ticks
        BY <3>2, <1>4, <2>1, <2>2 DEF NoDrift, TypeOK
      <3> QED
        BY <3>1, <3>2
    <2> QED
      BY <2>2, <2>3 DEF NoDrift
  <1>6. Served'
    BY <1>1 DEF Tick, Served, TypeOK
  <1>7. Masked'
    BY DEF Tick, Masked
  <1>8. Reading'
    <2>1. UNCHANGED <<pc, m, t, overflow_count, millis, called>> /\ now' = now + 1
      BY DEF Tick, counters, locals, history
    <2>2. pc # "idle" => turn' = turn + 1
      BY DEF Tick
    <2>3. pc = "flag" => turn = 0 /\ turn' = 1
      BY <2>2 DEF Tick, TypeOK
    <2>4. pc = "flag" => Overflows' = Overflows
      <3>1. CASE pc = "flag" /\ tcnt + 1 = Ticks
        <4>1. t = Ticks - 1
          BY <3>1, <2>3 DEF Reading, TypeOK
        <4> QED
          BY <4>1, <2>1 DEF Overflows
      <3>2. CASE pc = "flag" /\ tcnt + 1 # Ticks
        BY <3>2, <1>4, <2>1 DEF Overflows
      <3> QED
        BY <3>1, <3>2
    <2>5. (pc # "idle" => called <= now - turn)'
      BY <2>1, <2>2 DEF Reading, TypeOK
    <2>6. pc = "flag" => \E n \in Nat : /\ Overflows' = n % CountMod
                                       /\ now' - turn' = n * Ticks + t'
      <3> HAVE pc = "flag"
      <3>1. PICK n \in Nat : Overflows = n % CountMod /\ now - turn = n * Ticks + t
        BY DEF Reading
      <3>2. now' - turn' = now - turn
        BY <2>1, <2>3 DEF TypeOK
      <3> QED
        BY <2>1, <2>4, <3>1, <3>2
    <2>7. /\ pc \in {"tcnt", "flag"} => m = overflow_count
          /\ pc = "high" => m = millis % HalfMod
      BY DEF Reading
    <2>8. /\ pc' \in {"tcnt", "flag"} => m' = overflow_count'
          /\ pc' = "high" => m' = millis' % HalfMod
          /\ pc' = "flag" => turn' <= 1 /\ turn' # 0
      BY <2>1, <2>3, <2>7
    <2> QED
      BY <2>1, <2>5, <2>6, <2>8 DEF Reading
  <1>9. Returning'
    BY DEF Tick, Returning, locals
  <1> QED
    BY <1>2, <1>5, <1>6, <1>7, <1>8, <1>9

(* The interrupt adds an overflow to the count and to the milliseconds. *)
LEMMA InterruptStep == IInv /\ OverflowInterrupt => IInv'
  <1> SUFFICES ASSUME IInv, OverflowInterrupt PROVE IInv'
    OBVIOUS
  <1> USE DEF IInv
  <1>1. /\ fract' \in 0 .. FRACT_MAX - 1 /\ MsPassed \in Nat
        /\ \/ fract' = fract + FRACT_INC /\ MsPassed = MILLIS_INC
           \/ fract' = fract + FRACT_INC - FRACT_MAX /\ MsPassed = MILLIS_INC + 1
    BY Numbers DEF OverflowInterrupt, MsPassed, Full, Carried, TypeOK
  <1>2. pc \in {"idle", "first", "loop"}
    BY DEF OverflowInterrupt, Masked, TypeOK
  <1>3. TypeOK'
    <2>1. /\ overflow_count' \in 0 .. CountMod - 1 /\ millis' \in 0 .. CountMod - 1
          /\ overflows' \in Nat /\ passed' \in Nat /\ tov' \in BOOLEAN
      <3>1. /\ overflow_count' \in 0 .. CountMod - 1 /\ millis' \in 0 .. CountMod - 1
            /\ overflows' \in Nat /\ passed' \in Nat
        <4>1. /\ overflow_count + 1 \in Int /\ millis + MsPassed \in Int
              /\ overflows \in Nat /\ passed \in Nat
          BY <1>1, Bounds DEF TypeOK
        <4> HIDE DEF MsPassed
        <4> QED
          BY <1>1, <4>1, Bounds DEF OverflowInterrupt
      <3>2. tov' = FALSE
        BY DEF OverflowInterrupt
      <3>3. tov' \in BOOLEAN
        BY <3>2
      <3> QED
        BY <3>1, <3>3
    <2>2. UNCHANGED <<tcnt, now, irqOn, saved, pc, ret, m, t, us, left, start,
                      turn, called, asked>>
      BY DEF OverflowInterrupt, locals, history
    <2> QED
      BY <1>1, <2>1, <2>2 DEF TypeOK
  <1>4. NoDrift'
    <2> DEFINE M == MICROSECONDS_PER_TIMER0_OVERFLOW
    <2>1. overflows' = overflows + 1 /\ tov /\ ~ tov' /\ passed' = passed + MsPassed
          /\ UNCHANGED <<tcnt, now>>
      BY DEF OverflowInterrupt
    <2>2. now' = (overflows' + IF tov' THEN 1 ELSE 0) * Ticks + tcnt'
      BY <2>1, Bounds DEF NoDrift, TypeOK
    <2>3. M \in Nat /\ MILLIS_INC \in Nat /\ FRACT_INC \in Nat /\ FRACT_MAX \in Nat
          /\ FractUnit \in Nat /\ MsUs \in Nat
          /\ M = MILLIS_INC * MsUs + FRACT_INC * FractUnit
          /\ MsUs = FRACT_MAX * FractUnit
      BY Increments, Bounds, ClockAssumption, PrecisionAssumption
    <2>4. overflows \in Nat /\ passed \in Nat /\ fract \in Nat
          /\ passed * MsUs + fract * FractUnit = overflows * M
      BY DEF NoDrift, TypeOK
    <2> HIDE DEF M
    <2>5. (overflows + 1) * M = overflows * M + M
      BY <2>3, <2>4
    <2>6. overflow_count' = overflows' % CountMod /\ millis' = passed' % CountMod
      <3>1. /\ overflow_count' = ((overflows % CountMod) + 1) % CountMod
            /\ millis' = ((passed % CountMod) + MsPassed) % CountMod
        BY DEF OverflowInterrupt, NoDrift
      <3>2. ((overflows % CountMod) + 1) % CountMod = (overflows + 1) % CountMod
        BY <2>4, Bounds, ModSum
      <3>3. \A k \in Nat : ((passed % CountMod) + k) % CountMod = (passed + k) % CountMod
        BY <2>4, Bounds, ModSum
      <3>4. ((passed % CountMod) + MsPassed) % CountMod = (passed + MsPassed) % CountMod
        BY <1>1, <3>3
      <3> QED
        BY <2>1, <3>1, <3>2, <3>4
    <2>7. passed' * MsUs + fract' * FractUnit = overflows' * M
      <3>1. CASE fract' = fract + FRACT_INC /\ MsPassed = MILLIS_INC
        <4>1. (passed + MILLIS_INC) * MsUs = passed * MsUs + MILLIS_INC * MsUs
          BY <2>3, <2>4
        <4>2. (fract + FRACT_INC) * FractUnit = fract * FractUnit + FRACT_INC * FractUnit
          BY <2>3, <2>4
        <4> QED
          BY <2>1, <2>3, <2>4, <2>5, <3>1, <4>1, <4>2
      <3>2. CASE fract' = fract + FRACT_INC - FRACT_MAX /\ MsPassed = MILLIS_INC + 1
        <4>1. (passed + (MILLIS_INC + 1)) * MsUs = passed * MsUs + MILLIS_INC * MsUs + MsUs
          BY <2>3, <2>4
        <4>2. (fract + FRACT_INC - FRACT_MAX) * FractUnit
                = fract * FractUnit + FRACT_INC * FractUnit - FRACT_MAX * FractUnit
          BY <2>3, <2>4
        <4> QED
          BY <2>1, <2>3, <2>4, <2>5, <3>2, <4>1, <4>2
      <3> QED
        BY <1>1, <3>1, <3>2
    <2> QED
      BY <2>2, <2>6, <2>7 DEF NoDrift, M
  <1>5. Served' /\ Masked' /\ Reading' /\ Returning'
    BY <1>2 DEF OverflowInterrupt, Served, Masked, Reading, Returning, locals,
                history
  <1> QED
    BY <1>3, <1>4, <1>5

LEMMA MicrosReads ==
  ASSUME IInv, MicrosTcnt
  PROVE  \E n \in Nat : /\ Overflows' = n % CountMod
                        /\ now' - turn' = n * Ticks + t'
  <1>1. UNCHANGED <<now, m, tov, tcnt>> /\ turn' = 0 /\ t' = tcnt /\ m = overflow_count
    BY DEF MicrosTcnt, IInv, Reading, hardware
  <1>2. tov => tcnt < Ticks - 1
    BY Bounds DEF IInv, Served, TypeOK
  <1>3. overflows \in Nat /\ Pending \in 0 .. 1 /\ now \in Nat
        /\ overflow_count = overflows % CountMod
        /\ now = (overflows + Pending) * Ticks + tcnt
    BY Bounds DEF IInv, TypeOK, NoDrift, Pending
  <1>4. Overflows' = (overflows + Pending) % CountMod
    <2>1. CASE tov
      <3>1. Overflows' = ((overflows % CountMod) + 1) % CountMod
        BY <1>1, <1>2, <1>3, <2>1 DEF Overflows
      <3> QED
        BY <1>3, <2>1, <3>1, Bounds, ModSum DEF Pending
    <2>2. CASE ~ tov
      BY <1>1, <1>3, <2>2 DEF Overflows, Pending
    <2> QED
      BY <2>1, <2>2
  <1>5. now' - turn' = (overflows + Pending) * Ticks + t'
    BY <1>1, <1>3
  <1>6. overflows + Pending \in Nat
    BY <1>3
  <1> QED
    BY <1>4, <1>5, <1>6

(* What micros() returns is the time of its reading.                        *)
LEMMA MicrosTime ==
  ASSUME IInv, MicrosReturn
  PROVE  us' = ((now - turn) * TickUs) % MicrosMod
  <1>1. PICK n \in Nat : Overflows = n % CountMod /\ now - turn = n * Ticks + t
    BY DEF IInv, Reading, MicrosReturn
  <1>2. us' = (((n % CountMod) * Ticks + t) * TickUs) % MicrosMod
    BY <1>1 DEF MicrosReturn
  <1>3. t \in Nat
    BY Bounds DEF IInv, TypeOK
  <1> QED
    BY <1>1, <1>2, <1>3, MicrosWraps

(* The steps of the sketch change neither the timer nor the counters.       *)
LEMMA SketchStep == IInv /\ (Calls \/ Running) => IInv'
  <1> SUFFICES ASSUME IInv, Calls \/ Running PROVE IInv'
    OBVIOUS
  <1> USE DEF IInv, StartMicros
  <1>1. UNCHANGED <<tcnt, tov, now, overflow_count, millis, fract, overflows, passed>>
    BY DEF Calls, Running, MillisCall, cli, MicrosCall, DelayCall, SetInterrupts,
           MillisLow, MillisReturn, MicrosCount, MicrosTcnt, MicrosReturn,
           DelayStart, DelayTurn, NextStart, hardware, counters
  <1>2. NoDrift' /\ Served'
    BY <1>1 DEF NoDrift, Served
  <1>3. irqOn' \in BOOLEAN /\ saved' \in BOOLEAN
    <2>1. irqOn \in BOOLEAN /\ saved \in BOOLEAN
      BY DEF TypeOK
    <2>2. /\ irqOn' = FALSE \/ irqOn' = irqOn \/ irqOn' = saved \/ irqOn' \in BOOLEAN
          /\ saved' = saved \/ saved' = irqOn
      BY DEF Calls, Running, MillisCall, cli, MicrosCall, DelayCall, SetInterrupts,
             MillisLow, MillisReturn, MicrosCount, MicrosTcnt, MicrosReturn,
             DelayStart, DelayTurn, NextStart
    <2> QED
      BY <2>1, <2>2
  <1>4. CASE MillisCall
    BY <1>1, <1>2, <1>3, <1>4, Bounds
       DEF MillisCall, cli, TypeOK, Masked, Reading, Returning, locals
  <1>5. CASE MicrosCall
    BY <1>1, <1>2, <1>3, <1>5, Bounds
       DEF MicrosCall, TypeOK, Masked, Reading, Returning, locals
  <1>6. CASE \E ms \in Delays : DelayCall(ms)
    BY <1>1, <1>2, <1>3, <1>6, Bounds
       DEF DelayCall, TypeOK, Masked, Reading, Returning
  <1>7. CASE \E on \in BOOLEAN : SetInterrupts(on)
    BY <1>1, <1>2, <1>3, <1>7
       DEF SetInterrupts, TypeOK, Masked, Reading, Returning, locals, history
  <1>8. CASE MillisLow
    BY <1>1, <1>2, <1>3, <1>8, Bounds
       DEF MillisLow, TypeOK, Masked, Reading, Returning, history
  <1>9. CASE MillisReturn
    BY <1>1, <1>2, <1>3, <1>9, Bounds
       DEF MillisReturn, TypeOK, Masked, Reading, Returning, history
  <1>10. CASE MicrosCount
    BY <1>1, <1>2, <1>3, <1>10
       DEF MicrosCount, TypeOK, Masked, Reading, Returning, history
  <1>11. CASE MicrosTcnt
    BY <1>1, <1>2, <1>3, <1>11, MicrosReads
       DEF MicrosTcnt, TypeOK, Masked, Reading, Returning, history
  <1>12. CASE MicrosReturn
    <2>1. us' \in 0 .. MicrosMod - 1
      <3>1. (Overflows * Ticks + t) * TickUs \in Int
        BY Bounds DEF TypeOK, Overflows
      <3> QED
        BY <1>12, <3>1, Bounds DEF MicrosReturn
    <2> QED
      BY <1>1, <1>2, <1>3, <1>12, <2>1
         DEF MicrosReturn, TypeOK, Masked, Reading, Returning, history
  <1>13. CASE DelayStart
    <2>1. start' \in 0 .. Uint16 - 1
      BY <1>13, Bounds DEF DelayStart, TypeOK
    <2> QED
      BY <1>1, <1>2, <1>3, <1>13, <2>1
         DEF DelayStart, TypeOK, Masked, Reading, Returning, history
  <1>14. CASE DelayTurn
    <2>1. start' \in 0 .. Uint16 - 1
      BY <1>14, Bounds DEF DelayTurn, NextStart, TypeOK
    <2> QED
      BY <1>1, <1>2, <1>3, <1>14, <2>1
         DEF DelayTurn, NextStart, TypeOK, Masked, Reading, Returning, history
  <1> QED
    BY <1>4, <1>5, <1>6, <1>7, <1>8, <1>9, <1>10, <1>11, <1>12, <1>13, <1>14
    DEF Calls, Running

-----------------------------------------------------------------------------
(* The inductive invariant holds in every reachable state. *)
THEOREM Inductive == Spec => []IInv
  <1>1. IInv /\ [Next]_vars => IInv'
    <2>1. IInv /\ UNCHANGED vars => IInv'
      BY DEF IInv, TypeOK, NoDrift, Served, Masked, Reading, Returning,
             Overflows, vars, hardware, counters, locals, history
    <2> QED
      BY <2>1, TickStep, InterruptStep, SketchStep DEF Next
  <1> QED
    BY <1>1, InitIInv, PTL DEF Spec

(* TypeOK: in particular timer0_fract stays below FRACT_MAX. *)
THEOREM TypeCorrect == Spec => []TypeOK
  BY Inductive, PTL DEF IInv

(* NoDrift: no time is lost, and millis() never drifts from micros(),       *)
(* whatever the speed of the timer, as long as each overflow is served     *)
(* before the next.                                                        *)
THEOREM ClocksAgree == Spec => []NoDrift
  BY Inductive, PTL DEF IInv

(* MicrosInside: micros() returns a time between its call and its return,   *)
(* wherever the overflow falls among its three reads.                      *)
THEOREM MicrosCorrect == Spec => MicrosInside
  <1>1. ASSUME IInv, [Next]_vars, pc = "flag", pc' = "idle"
        PROVE  \E time \in called .. now : us' = (time * TickUs) % MicrosMod
    <2>1. MicrosReturn
      BY <1>1 DEF Next, Calls, Running, MillisCall, cli, MicrosCall, DelayCall,
         SetInterrupts, MillisLow, MillisReturn, MicrosCount, MicrosTcnt,
         DelayStart, DelayTurn, NextStart, OverflowInterrupt, Tick, vars
    <2>2. called <= now - turn
      BY <1>1 DEF IInv, Reading
    <2>3. now - turn \in called .. now
      BY <1>1, <2>2 DEF IInv, TypeOK
    <2>4. us' = ((now - turn) * TickUs) % MicrosMod
      BY <1>1, <2>1, MicrosTime
    <2> QED
      BY <2>3, <2>4
  <1> QED
    BY <1>1, Inductive, PTL DEF MicrosInside, Spec

(* MillisInside: millis() is never ahead of the time, and behind by less    *)
(* than a millisecond, an overflow and the delay of the interrupt.         *)
THEOREM MillisCorrect == Spec => MillisInside
  <1> DEFINE M == MICROSECONDS_PER_TIMER0_OVERFLOW
  <1>1. ASSUME IInv, [Next]_vars, pc = "high", pc' = "idle"
        PROVE  \E ms \in 0 .. now * TickUs :
                 /\ m' = ms % CountMod /\ ms * MsUs <= now * TickUs
                 /\ called * TickUs - ms * MsUs < MsUs + M + MaxLate * TickUs
    <2>1. MillisReturn
      BY <1>1 DEF Next, Calls, Running, MillisCall, cli, MicrosCall, DelayCall,
         SetInterrupts, MillisLow, MicrosReturn, MicrosCount, MicrosTcnt,
         DelayStart, DelayTurn, NextStart, OverflowInterrupt, Tick, vars
    <2>2. m' = passed % CountMod
      <3>1. m = millis % HalfMod /\ millis \in Nat
        BY <1>1 DEF IInv, Reading, TypeOK
      <3>2. (millis \div HalfMod) * HalfMod + (millis % HalfMod) = millis
        BY <3>1, Bounds
      <3> QED
        BY <1>1, <2>1, <3>1, <3>2 DEF MillisReturn, IInv, NoDrift
    <2>3. /\ overflows \in Nat /\ passed \in Nat /\ tcnt \in 0 .. Ticks - 1
          /\ fract \in 0 .. FRACT_MAX - 1 /\ now \in Nat /\ called \in Nat
          /\ turn \in Nat /\ called <= now - turn /\ Pending \in 0 .. 1
          /\ Pending = 1 => tcnt <= MaxLate
      BY <1>1, Bounds DEF IInv, TypeOK, Reading, Served, Pending
    <2>4. now = (overflows + Pending) * Ticks + tcnt
          /\ passed * MsUs + fract * FractUnit = overflows * M
      BY <1>1 DEF IInv, NoDrift, Pending
    <2>5. M = Ticks * TickUs /\ FractUnit \in Nat \ {0} /\ FRACT_MAX \in Nat
          /\ MsUs = FRACT_MAX * FractUnit
      BY Numbers, ClockAssumption, PrecisionAssumption
         DEF MICROSECONDS_PER_TIMER0_OVERFLOW
    <2>6. now * TickUs = overflows * M + Pending * M + tcnt * TickUs
      <3>1. now * TickUs
              = ((overflows + Pending) * Ticks) * TickUs + tcnt * TickUs
        BY <2>3, <2>4, Bounds
      <3>2. ((overflows + Pending) * Ticks) * TickUs
              = overflows * (Ticks * TickUs) + Pending * (Ticks * TickUs)
        BY <2>3, Bounds
      <3> QED
        BY <2>5, <3>1, <3>2
    <2>7. fract * FractUnit >= 0 /\ fract * FractUnit < MsUs
      BY <2>3, <2>5
    <2>8. tcnt * TickUs >= 0 /\ tcnt * TickUs < M
          /\ (Pending = 1 => tcnt * TickUs <= MaxLate * TickUs)
      BY <2>3, <2>5, Bounds
    <2>9. called * TickUs <= now * TickUs
      BY <2>3, Bounds
    <2>10. M \in Nat /\ Pending * M = IF Pending = 1 THEN M ELSE 0
      BY <2>3, Numbers
    <2>11. /\ overflows * M \in Int /\ tcnt * TickUs \in Int
           /\ MaxLate * TickUs \in Nat /\ now * TickUs \in Int
           /\ called * TickUs \in Int /\ passed * MsUs \in Int
           /\ fract * FractUnit \in Int /\ MsUs \in Int
      BY <2>3, <2>5, Numbers, Bounds
    <2> HIDE DEF M
    <2>12. passed * MsUs = overflows * M - fract * FractUnit
      BY <2>4, <2>11
    <2>13. passed * MsUs <= now * TickUs
      BY <2>6, <2>7, <2>8, <2>10, <2>11, <2>12
    <2>14. called * TickUs - passed * MsUs
             <= Pending * M + tcnt * TickUs + fract * FractUnit
      BY <2>6, <2>9, <2>10, <2>11, <2>12
    <2>15. Pending * M + tcnt * TickUs <= M + MaxLate * TickUs
      BY <2>3, <2>8, <2>10, <2>11
    <2>16. called * TickUs - passed * MsUs < MsUs + M + MaxLate * TickUs
      BY <2>7, <2>10, <2>11, <2>14, <2>15
    <2>17. passed \in 0 .. now * TickUs
      <3>1. passed <= passed * MsUs
        BY <2>3, Bounds
      <3> QED
        BY <2>3, <2>11, <2>13, <3>1
    <2> QED
      BY <2>2, <2>13, <2>16, <2>17
  <1> QED
    BY <1>1, Inductive, PTL DEF MillisInside, Spec

-----------------------------------------------------------------------------
(* delay(). *)

(* A time in microseconds, and that of the last step of the call.           *)
Us(time) == time * TickUs
Last == now - turn

(* The milliseconds counted so far, in microseconds.                        *)
CountedUs == (asked - left) * MsUs

(* The steps from the last reading of the timer, each at most MaxTurn.      *)
StepsSince ==
  CASE pc = "count" -> 1 [] pc = "tcnt" -> 2 [] OTHER -> 3

(* The first call of micros(), which sets start.                            *)
Starting ==
  /\ left = asked
  /\ pc = "count" => Last <= called
  /\ pc = "tcnt" => Last <= called + MaxTurn
  /\ pc = "flag" => Last <= called + 2 * MaxTurn
  /\ pc = "first" =>
       /\ Last <= called + 2 * MaxTurn + 1
       /\ \E time \in called .. now :
            /\ us = Us(time) % MicrosMod /\ time <= Last
            /\ time <= called + 2 * MaxTurn

(* start is a time S, modulo 2^16, that follows the first reading by the    *)
(* milliseconds counted; the last reading is after it, and not by more than *)
(* a millisecond and the steps since.                                      *)
LoopFrom(S) ==
  /\ start = S % Uint16
  /\ Us(called) + CountedUs <= S
  /\ S <= Us(called) + CountedUs + 2 * Us(MaxTurn)
  /\ pc \in {"count", "tcnt", "flag"} =>
       /\ S <= Us(Last)
       /\ Us(Last) < S + MsUs + TickUs + StepsSince * Us(MaxTurn)
  /\ pc = "loop" =>
       \E time \in called .. now :
         /\ us = Us(time) % MicrosMod /\ time <= Last /\ Last <= time + 1
         /\ S <= Us(time)
         /\ Us(time) < S + MsUs + TickUs + 3 * Us(MaxTurn)

Looping == left \in 1 .. asked /\ \E S \in 0 .. Us(now) : LoopFrom(S)

DelayInv ==
  /\ IInv
  /\ pc # "idle" => turn <= MaxTurn
  /\ pc # "idle" /\ ret = "first" => Starting
  /\ pc # "idle" /\ ret = "loop" => Looping

-----------------------------------------------------------------------------
(* Times in microseconds.                                                   *)
LEMMA UsIs ==
  /\ \A a \in Nat : Us(a) \in Nat
  /\ \A a, b \in Nat : a <= b => Us(a) <= Us(b)
  /\ \A a, b \in Nat : Us(a + b) = Us(a) + Us(b)
  /\ Us(1) = TickUs
  <1>1. TickUs \in Nat
    BY Bounds
  <1>2. \A a \in Nat : a * TickUs \in Nat
    BY <1>1
  <1>3. \A a, b \in Nat : (a + b) * TickUs = a * TickUs + b * TickUs
    BY <1>1
  <1>4. \A a, b \in Nat : a <= b => a * TickUs <= b * TickUs
    <2> TAKE a, b \in Nat
    <2> HAVE a <= b
    <2>1. b - a \in Nat /\ b = a + (b - a)
      OBVIOUS
    <2>2. b * TickUs = a * TickUs + (b - a) * TickUs
      BY <1>3, <2>1
    <2>3. (b - a) * TickUs \in Nat
      BY <1>2, <2>1
    <2> QED
      BY <1>2, <2>2, <2>3
  <1>5. 1 * TickUs = TickUs
    BY <1>1
  <1> QED
    BY <1>2, <1>3, <1>4, <1>5 DEF Us

LEMMA Speeds ==
  /\ MaxTurn \in Nat /\ MaxTurn >= 1 /\ Us(MaxTurn) \in Nat /\ TickUs \in Nat
  /\ TickUs <= Us(MaxTurn)
  /\ MsUs \in Nat /\ Uint16 \in Nat \ {0} /\ MicrosMod \in Nat \ {0}
  /\ MicrosMod % Uint16 = 0
  /\ 4 * Us(MaxTurn) < MsUs /\ MsUs + 4 * Us(MaxTurn) < Uint16
  <1>1. MaxTurn \in Nat /\ MaxTurn >= 1 /\ TickUs \in Nat
    BY ClockAssumption
  <1>2. Us(MaxTurn) \in Nat /\ TickUs <= Us(MaxTurn)
    <2>1. Us(1) <= Us(MaxTurn) /\ Us(MaxTurn) \in Nat /\ Us(1) = TickUs
      BY <1>1, UsIs
    <2> QED
      BY <2>1
  <1>3. 4 * MaxTurn * TickUs = 4 * Us(MaxTurn)
    BY <1>1 DEF Us
  <1> QED
    BY <1>1, <1>2, <1>3, Bounds, SpeedAssumption

LEMMA UsTurns ==
  /\ 2 * MaxTurn \in Nat /\ Us(2 * MaxTurn) = 2 * Us(MaxTurn)
  /\ 3 * MaxTurn \in Nat /\ Us(3 * MaxTurn) = 3 * Us(MaxTurn)
  BY Speeds, Bounds DEF Us

(* The numbers in a state, and what a step adds to the time of the last.    *)
LEMMA Times ==
  ASSUME DelayInv
  PROVE  /\ now \in Nat /\ turn \in Nat /\ called \in Nat
         /\ left \in Nat /\ asked \in Nat
         /\ Us(now) \in Nat /\ Us(called) \in Nat
         /\ pc # "idle" => /\ Last \in Nat /\ called <= Last /\ Last <= now
                           /\ now <= Last + MaxTurn
                           /\ Us(Last) \in Nat /\ Us(Last) <= Us(now)
                           /\ Us(now) <= Us(Last) + Us(MaxTurn)
                           /\ Us(called) <= Us(Last)
  <1>1. /\ now \in Nat /\ turn \in Nat /\ called \in Nat
        /\ left \in Nat /\ asked \in Nat
    BY Bounds DEF DelayInv, IInv, TypeOK
  <1>2. Us(now) \in Nat /\ Us(called) \in Nat
    BY <1>1, UsIs
  <1>3. ASSUME pc # "idle"
        PROVE  /\ Last \in Nat /\ called <= Last /\ Last <= now
               /\ now <= Last + MaxTurn
    <2>1. turn <= MaxTurn /\ called <= now - turn
      BY <1>3 DEF DelayInv, IInv, Reading
    <2> QED
      BY <1>1, <2>1, Speeds DEF Last
  <1>4. ASSUME pc # "idle"
        PROVE  /\ Us(Last) \in Nat /\ Us(Last) <= Us(now) /\ Us(called) <= Us(Last)
               /\ Us(now) <= Us(Last) + Us(MaxTurn)
    <2>1. /\ Last \in Nat /\ called <= Last /\ Last <= now /\ now <= Last + MaxTurn
          /\ Last + MaxTurn \in Nat
      BY <1>3, <1>4, Speeds
    <2>2. Us(now) <= Us(Last + MaxTurn) /\ Us(Last + MaxTurn) = Us(Last) + Us(MaxTurn)
      BY <1>1, <2>1, UsIs, Speeds
    <2> QED
      BY <1>1, <2>1, <2>2, UsIs
  <1> QED
    BY <1>1, <1>2, <1>3, <1>4

(* The lead of delay() over its start, as it is computed.                   *)
LEMMA PassedIs ==
  ASSUME NEW S \in Nat, NEW time \in Nat, start = S % Uint16,
         us = Us(time) % MicrosMod, S <= Us(time), Us(time) < S + Uint16
  PROVE  Passed <=> Us(time) >= S + MsUs
  <1>1. Us(time) \in Nat
    BY UsIs
  <1>2. us % Uint16 = Us(time) % Uint16
    BY <1>1, Speeds, ModOfMod
  <1>3. ((us % Uint16) - start) % Uint16 = Us(time) - S
    <2>1. Us(time) - S < Uint16
      BY <1>1, Speeds
    <2> QED
      BY <1>1, <1>2, <2>1, Speeds, ModDifference
  <1> QED
    BY <1>1, <1>3, Speeds DEF Passed

-----------------------------------------------------------------------------
LEMMA DelayTick ==
  ASSUME DelayInv, Tick, IInv'
  PROVE  DelayInv'
  <1>1. UNCHANGED <<pc, ret, m, t, us, left, start, called, asked>>
    BY DEF Tick, locals, history
  <1>2. now' = now + 1
    BY DEF Tick
  <1>3. ASSUME pc # "idle"
        PROVE  turn' = turn + 1 /\ turn < MaxTurn /\ Last' = Last
    <2>1. turn' = turn + 1 /\ turn < MaxTurn
      BY <1>3, Times, Speeds DEF Tick
    <2> QED
      BY <1>2, <2>1, Times DEF Last
  <1>4. \A time \in called .. now : time \in called .. now + 1
    BY Times
  <1>5. \A S \in 0 .. Us(now) : S \in 0 .. Us(now + 1)
    <2>1. Us(now + 1) = Us(now) + TickUs
      BY Times, UsIs
    <2> QED
      BY <2>1, Times, Speeds
  <1>6. ASSUME pc # "idle" PROVE turn' <= MaxTurn
    BY <1>3, <1>6, Times, Speeds
  <1>7. ASSUME pc # "idle", ret = "first" PROVE Starting'
    <2>1. Starting
      BY <1>7 DEF DelayInv
    <2> QED
      BY <1>1, <1>2, <1>3, <1>4, <1>7, <2>1 DEF Starting, Us
  <1>8. ASSUME pc # "idle", ret = "loop" PROVE Looping'
    <2>1. PICK S \in 0 .. Us(now) : LoopFrom(S)
      BY <1>8 DEF DelayInv, Looping
    <2>2. LoopFrom(S)'
      BY <1>1, <1>2, <1>3, <1>4, <1>8, <2>1
         DEF LoopFrom, CountedUs, StepsSince, Us
    <2>3. S \in 0 .. Us(now + 1)
      BY <1>5, <2>1
    <2>4. left \in 1 .. asked
      BY <1>8 DEF DelayInv, Looping
    <2> QED
      BY <1>1, <1>2, <2>2, <2>3, <2>4 DEF Looping, Us
  <1> QED
    BY <1>1, <1>6, <1>7, <1>8 DEF DelayInv

(* Nothing of delay() changes.                                              *)
LEMMA DelaySame ==
  ASSUME DelayInv, IInv',
         UNCHANGED <<pc, ret, us, left, start, turn, now, called, asked>>
  PROVE  DelayInv'
  <1>1. Starting => Starting'
    BY DEF Starting, Last, Us
  <1>2. Looping => Looping'
    BY DEF Looping, LoopFrom, CountedUs, StepsSince, Last, Us
  <1> QED
    BY <1>1, <1>2 DEF DelayInv

(* The calls outside delay().                                               *)
LEMMA DelayOutside ==
  ASSUME DelayInv, IInv', turn' = 0, ret' = "idle" \/ pc' = "idle"
  PROVE  DelayInv'
  BY Speeds DEF DelayInv, IInv, Returning

(* A step of the call takes at most MaxTurn.                                *)
LEMMA StepTime ==
  ASSUME turn' = 0, now' = now, now \in Nat
  PROVE  Last' = now
  BY DEF Last

-----------------------------------------------------------------------------
LEMMA DelayCallStep ==
  ASSUME DelayInv, NEW ms \in Delays, DelayCall(ms), IInv'
  PROVE  DelayInv'
  <1>1. /\ pc' = "count" /\ ret' = "first" /\ turn' = 0 /\ left' = ms /\ asked' = ms
        /\ called' = now /\ now' = now
    BY DEF DelayCall, StartMicros, hardware
  <1>2. Last' = now
    BY <1>1, Times, StepTime
  <1>3. Starting'
    BY <1>1, <1>2, Times DEF Starting
  <1> QED
    BY <1>1, <1>3, Speeds DEF DelayInv

(* The steps of micros() towards its reading.                               *)
LEMMA DelayReadStep ==
  ASSUME DelayInv, MicrosCount \/ MicrosTcnt, IInv'
  PROVE  DelayInv'
  <1>1. /\ pc \in {"count", "tcnt"}
        /\ pc' = IF pc = "count" THEN "tcnt" ELSE "flag"
        /\ turn' = 0 /\ UNCHANGED <<ret, us, left, start, now, called, asked>>
    BY DEF MicrosCount, MicrosTcnt, hardware, history
  <1>2. Last' = now
    BY <1>1, Times, StepTime
  <1>3. /\ Us(Last') = Us(now) /\ Us(called)' = Us(called) /\ CountedUs' = CountedUs
        /\ Us(now)' = Us(now)
    BY <1>1, <1>2 DEF Us, CountedUs
  <1>4. ASSUME ret = "first" PROVE Starting'
    <2>1. Starting
      BY <1>1, <1>4 DEF DelayInv
    <2>2. CASE pc = "count"
      BY <1>1, <1>2, <2>1, <2>2, Times, Speeds DEF Starting
    <2>3. CASE pc = "tcnt"
      BY <1>1, <1>2, <2>1, <2>3, Times, Speeds DEF Starting
    <2> QED
      BY <1>1, <2>2, <2>3
  <1>5. ASSUME ret = "loop" PROVE Looping'
    <2>1. PICK S \in 0 .. Us(now) : LoopFrom(S)
      BY <1>1, <1>5 DEF DelayInv, Looping
    <2>2. left \in 1 .. asked
      BY <1>1, <1>5 DEF DelayInv, Looping
    <2>3. S <= Us(Last) /\ Us(Last) < S + MsUs + TickUs + StepsSince * Us(MaxTurn)
      BY <1>1, <2>1 DEF LoopFrom
    <2>4. StepsSince' = StepsSince + 1 /\ StepsSince \in 1 .. 2
      BY <1>1 DEF StepsSince
    <2>5. S <= Us(now) /\ Us(now) < S + MsUs + TickUs + StepsSince' * Us(MaxTurn)
      <3>1. CASE StepsSince = 1
        BY <1>1, <2>1, <2>3, <2>4, <3>1, Times, Speeds
      <3>2. CASE StepsSince = 2
        BY <1>1, <2>1, <2>3, <2>4, <3>2, Times, Speeds
      <3> QED
        BY <2>4, <3>1, <3>2
    <2>6. LoopFrom(S)'
      BY <1>1, <1>2, <1>3, <2>1, <2>5 DEF LoopFrom, Us
    <2> QED
      BY <1>1, <1>3, <2>1, <2>2, <2>6 DEF Looping
  <1> QED
    BY <1>1, <1>4, <1>5, Speeds DEF DelayInv

(* micros() returns the time of its reading.                                *)
LEMMA DelayReturnStep ==
  ASSUME DelayInv, MicrosReturn, IInv'
  PROVE  DelayInv'
  <1>1. /\ pc = "flag" /\ pc' = ret /\ turn' = 0
        /\ us' = ((now - turn) * TickUs) % MicrosMod
        /\ UNCHANGED <<ret, left, start, now, called, asked>>
    BY MicrosTime DEF DelayInv, MicrosReturn, hardware, history
  <1>2. Last' = now
    BY <1>1, Times, StepTime
  <1>3. us' = Us(Last) % MicrosMod /\ now <= Last + 1
    <2>1. turn <= 1
      BY <1>1 DEF DelayInv, IInv, Reading
    <2> QED
      BY <1>1, <2>1, Times DEF Last, Us
  <1>4. Last \in called .. now
    BY <1>1, Times
  <1>5. /\ \A n : Us(n)' = Us(n)
        /\ CountedUs' = CountedUs
    BY <1>1 DEF Us, CountedUs
  <1>6. ASSUME ret = "first" PROVE Starting'
    <2>1. Starting
      BY <1>1, <1>6 DEF DelayInv
    <2>2. left = asked /\ Last <= called + 2 * MaxTurn
      BY <1>1, <2>1 DEF Starting
    <2>3. now <= called + 2 * MaxTurn + 1
      BY <1>1, <1>3, <2>2, Times, Speeds
    <2>4. \E time \in called .. now :
            /\ us' = Us(time) % MicrosMod /\ time <= now
            /\ time <= called + 2 * MaxTurn
      BY <1>1, <1>3, <1>4, <2>2, Times
    <2> QED
      BY <1>1, <1>2, <1>6, <2>2, <2>3, <2>4 DEF Starting, Us
  <1>7. ASSUME ret = "loop" PROVE Looping'
    <2>1. PICK S \in 0 .. Us(now) : LoopFrom(S)
      BY <1>1, <1>7 DEF DelayInv, Looping
    <2>2. left \in 1 .. asked
      BY <1>1, <1>7 DEF DelayInv, Looping
    <2>3. S <= Us(Last) /\ Us(Last) < S + MsUs + TickUs + 3 * Us(MaxTurn)
      BY <1>1, <2>1 DEF LoopFrom, StepsSince
    <2>4. \E time \in called .. now :
            /\ us' = Us(time) % MicrosMod /\ time <= now /\ now <= time + 1
            /\ S <= Us(time) /\ Us(time) < S + MsUs + TickUs + 3 * Us(MaxTurn)
      BY <1>1, <1>3, <1>4, <2>3, Times
    <2>5. LoopFrom(S)'
      BY <1>1, <1>2, <1>5, <1>7, <2>1, <2>4 DEF LoopFrom, Us
    <2> QED
      BY <1>1, <1>5, <2>1, <2>2, <2>5 DEF Looping, Us
  <1>8. CASE ret = "idle"
    BY <1>1, <1>8, DelayOutside
  <1>9. ret \in {"idle", "first", "loop"}
    BY DEF DelayInv, IInv, TypeOK
  <1> QED
    BY <1>1, <1>6, <1>7, <1>8, <1>9, Speeds DEF DelayInv

(* delay() takes its first reading as its start.                            *)
LEMMA DelayStartStep ==
  ASSUME DelayInv, DelayStart, IInv'
  PROVE  /\ DelayInv'
         /\ pc' = "idle" => Us(now) >= Us(called) + asked * MsUs
  <1>1. /\ pc = "first" /\ start' = us % Uint16 /\ turn' = 0
        /\ UNCHANGED <<us, left, now, called, asked>>
        /\ \/ left > 0 /\ pc' = "count" /\ ret' = "loop"
           \/ left = 0 /\ pc' = "idle" /\ ret' = "idle"
    BY DEF DelayStart, StartMicros, hardware, history
  <1>2. Last' = now
    BY <1>1, Times, StepTime
  <1>3. Starting
    BY <1>1 DEF DelayInv, IInv, Returning
  <1>4. CASE left = 0
    <2>1. asked * MsUs = 0
      BY <1>3, <1>4, Speeds DEF Starting
    <2>2. Us(called) <= Us(now)
      BY <1>1, Times
    <2>3. pc' = "idle"
      BY <1>1, <1>4
    <2> QED
      BY <1>1, <2>1, <2>2, <2>3, DelayOutside, Times
  <1>5. CASE left > 0
    <2>1. left = asked /\ Last <= called + 2 * MaxTurn + 1
      BY <1>1, <1>3 DEF Starting
    <2>2. PICK time \in called .. now :
            /\ us = Us(time) % MicrosMod /\ time <= Last
            /\ time <= called + 2 * MaxTurn
      BY <1>1, <1>3 DEF Starting
    <2>3. time \in Nat /\ called <= time /\ time <= now
      BY <2>2, Times
    <2>4. /\ Us(time) \in Nat /\ Us(called) <= Us(time) /\ Us(time) <= Us(now)
          /\ Us(time) <= Us(called) + 2 * Us(MaxTurn)
      <3>1. Us(called + 2 * MaxTurn) = Us(called) + 2 * Us(MaxTurn)
        BY Times, UsTurns, UsIs
      <3>2. called + 2 * MaxTurn \in Nat
        BY Times, Speeds
      <3> QED
        BY <2>2, <2>3, <3>1, <3>2, Times, UsIs
    <2>5. Us(now) < Us(time) + MsUs + TickUs + Us(MaxTurn)
      <3>1. Us(called + 3 * MaxTurn + 1) = Us(called) + 3 * Us(MaxTurn) + TickUs
        <4>1. 3 * MaxTurn + 1 \in Nat /\ 3 * MaxTurn \in Nat /\ 1 \in Nat
          BY Speeds
        <4>2. Us(called + (3 * MaxTurn + 1)) = Us(called) + Us(3 * MaxTurn + 1)
          BY <4>1, Times, UsIs
        <4>3. Us(3 * MaxTurn + 1) = Us(3 * MaxTurn) + Us(1)
          BY <4>1, UsIs
        <4>4. called + 3 * MaxTurn + 1 = called + (3 * MaxTurn + 1)
          BY <4>1, Times
        <4> QED
          BY <4>2, <4>3, <4>4, Times, Speeds, UsIs, UsTurns
      <3>2. now <= called + 3 * MaxTurn + 1 /\ called + 3 * MaxTurn + 1 \in Nat
        BY <1>1, <2>1, Times, Speeds
      <3>3. Us(now) <= Us(called) + 3 * Us(MaxTurn) + TickUs
        BY <3>1, <3>2, Times, UsIs
      <3> QED
        BY <2>4, <3>3, Times, Speeds
    <2>6. start' = Us(time) % Uint16
      BY <1>1, <2>2, <2>4, Speeds, ModOfMod
    <2>7. CountedUs' = 0
      <3>1. (asked - left) * MsUs = 0
        BY <2>1, Times, Speeds
      <3> QED
        BY <1>1, <3>1 DEF CountedUs
    <2>8. LoopFrom(Us(time))'
      <3>1. /\ pc' = "count" /\ StepsSince' = 1 /\ Us(called)' = Us(called)
            /\ Us(Last)' = Us(now) /\ Us(MaxTurn)' = Us(MaxTurn) /\ Us(time)' = Us(time)
        BY <1>1, <1>2, <1>5, Times DEF StepsSince, Us
      <3>2. /\ start' = Us(time) % Uint16
            /\ Us(called) + 0 <= Us(time)
            /\ Us(time) <= Us(called) + 0 + 2 * Us(MaxTurn)
            /\ Us(time) <= Us(now)
            /\ Us(now) < Us(time) + MsUs + TickUs + 1 * Us(MaxTurn)
        BY <2>4, <2>5, <2>6, Times, Speeds
      <3> QED
        BY <2>7, <3>1, <3>2 DEF LoopFrom
    <2>9. Looping'
      <3>1. left \in 1 .. asked
        BY <1>5, <2>1, Times
      <3>2. Us(time) \in 0 .. Us(now)
        BY <2>4, Times
      <3>3. \E S \in 0 .. Us(now) : LoopFrom(S)'
        BY <2>8, <3>2
      <3> QED
        BY <1>1, <3>1, <3>3 DEF Looping, Us
    <2> QED
      BY <1>1, <1>5, <2>9, Times, Speeds DEF DelayInv
  <1> QED
    BY <1>1, <1>4, <1>5, Times

(* A turn of the loop, in which a millisecond may have passed.              *)
LEMMA DelayTurnStep ==
  ASSUME DelayInv, DelayTurn, IInv'
  PROVE  /\ DelayInv'
         /\ pc' = "idle" => Us(now) >= Us(called) + asked * MsUs
  <1>1. /\ pc = "loop" /\ turn' = 0 /\ UNCHANGED <<us, now, called, asked>>
        /\ IF Passed
             THEN left' = left - 1 /\ start' = (start + MsUs) % Uint16
             ELSE left' = left /\ start' = start
        /\ \/ left' > 0 /\ pc' = "count" /\ ret' = "loop"
           \/ left' = 0 /\ pc' = "idle" /\ ret' = "idle"
    BY DEF DelayTurn, NextStart, StartMicros, hardware, history
  <1>2. Last' = now
    BY <1>1, Times, StepTime
  <1>3. Looping
    BY <1>1 DEF DelayInv, IInv, Returning
  <1>4. left \in Nat /\ left \in 1 .. asked /\ asked \in Nat
    BY <1>3, Times DEF Looping
  <1>5. PICK S \in 0 .. Us(now) : LoopFrom(S)
    BY <1>3 DEF Looping
  <1>6. S \in Nat /\ start = S % Uint16
    BY <1>5, Times DEF LoopFrom
  <1>7. PICK time \in called .. now :
          /\ us = Us(time) % MicrosMod /\ time <= Last /\ Last <= time + 1
          /\ S <= Us(time)
          /\ Us(time) < S + MsUs + TickUs + 3 * Us(MaxTurn)
    BY <1>1, <1>5 DEF LoopFrom
  <1>8. time \in Nat /\ Us(time) \in Nat /\ Us(time) <= Us(now)
    BY <1>7, Times, UsIs
  <1>9. Us(now) <= Us(time) + TickUs + Us(MaxTurn)
    <2>1. now <= time + (1 + MaxTurn) /\ 1 + MaxTurn \in Nat
          /\ time + (1 + MaxTurn) \in Nat
      BY <1>1, <1>7, <1>8, Times, Speeds
    <2>2. Us(1 + MaxTurn) = Us(1) + Us(MaxTurn)
      BY Speeds, UsIs
    <2>3. Us(time + (1 + MaxTurn)) = Us(time) + Us(1 + MaxTurn)
      BY <1>8, <2>1, UsIs
    <2>4. Us(now) <= Us(time + (1 + MaxTurn))
      BY <2>1, Times, UsIs
    <2> QED
      BY <1>8, <2>2, <2>3, <2>4, Speeds, UsIs
  <1>10. Passed <=> Us(time) >= S + MsUs
    <2>1. Us(time) < S + Uint16
      BY <1>6, <1>7, <1>8, Speeds
    <2> QED
      BY <1>6, <1>7, <1>8, <2>1, PassedIs
  <1> DEFINE C == (asked - left) * MsUs
             Now == Us(now)
             Called == Us(called)
             Turn == Us(MaxTurn)
             Read == Us(time)
  <1>11. Called + C <= S /\ S <= Called + C + 2 * Turn
    BY <1>5 DEF LoopFrom, CountedUs
  <1>12. C \in Nat /\ (asked - (left - 1)) * MsUs = C + MsUs
    <2>1. asked - left \in Nat /\ asked - (left - 1) = (asked - left) + 1
      BY <1>4
    <2>2. ((asked - left) + 1) * MsUs = (asked - left) * MsUs + MsUs
      BY <2>1, Speeds
    <2>3. (asked - left) * MsUs \in Nat
      BY <2>1, Speeds
    <2> QED
      BY <2>1, <2>2, <2>3
  <1>13. /\ Now \in Nat /\ Called \in Nat /\ Turn \in Nat /\ Read \in Nat
         /\ S <= Read /\ Read < S + MsUs + TickUs + 3 * Turn /\ Read <= Now
         /\ Now <= Read + TickUs + Turn
    BY <1>7, <1>8, <1>9, Times, Speeds
  <1>14. /\ \A n : Us(n)' = Us(n)
    BY DEF Us
  <1>15. Us(now)' = Now /\ Us(called)' = Called /\ Us(MaxTurn)' = Turn
         /\ Us(Last)' = Now
    BY <1>1, <1>2 DEF Us
  <1> HIDE DEF C, Now, Called, Turn, Read
  <1>16. CASE ~ Passed
    <2>1. left' = left /\ start' = start /\ pc' = "count" /\ ret' = "loop"
      BY <1>1, <1>4, <1>16
    <2>2. Read < S + MsUs
      BY <1>6, <1>10, <1>13, <1>16, Speeds DEF Read
    <2>3. CountedUs' = C /\ StepsSince' = 1
      BY <1>1, <2>1 DEF CountedUs, C, StepsSince
    <2>4. S <= Now /\ Now < S + MsUs + TickUs + 1 * Turn
      BY <1>6, <1>13, <2>2, Speeds
    <2>5. LoopFrom(S)'
      BY <1>6, <1>11, <1>15, <2>1, <2>3, <2>4 DEF LoopFrom
    <2>6. Looping'
      <3>1. \E s \in 0 .. Now : LoopFrom(s)'
        BY <1>6, <1>13, <2>4, <2>5
      <3> QED
        BY <1>1, <1>4, <1>15, <2>1, <3>1 DEF Looping
    <2> QED
      BY <1>1, <2>1, <2>6, Speeds DEF DelayInv
  <1>17. CASE Passed
    <2>1. left' = left - 1 /\ start' = (start + MsUs) % Uint16
      BY <1>1, <1>17
    <2>2. S + MsUs <= Read /\ S + MsUs \in Nat
      BY <1>6, <1>10, <1>13, <1>17, Speeds DEF Read
    <2>3. start' = (S + MsUs) % Uint16
      BY <1>6, <2>1, Speeds, ModSum
    <2>4. CountedUs' = C + MsUs
      BY <1>1, <1>12, <2>1 DEF CountedUs
    <2>5. CASE left = 1
      <3>1. asked * MsUs = C + MsUs
        <4>1. asked - (left - 1) = asked
          BY <1>4, <2>5
        <4> QED
          BY <1>12, <4>1
      <3>2. Now >= Called + (C + MsUs)
        BY <1>6, <1>11, <1>12, <1>13, <2>2, Speeds
      <3>3. left' = 0
        BY <1>4, <2>1, <2>5
      <3>4. pc' = "idle" /\ ret' = "idle"
        BY <1>1, <3>3
      <3> QED
        BY <1>1, <3>1, <3>2, <3>4, DelayOutside DEF Now, Called
    <2>6. CASE left > 1
      <3>1. left - 1 \in 1 .. asked /\ left - 1 > 0
        BY <1>4, <2>6
      <3>2. pc' = "count" /\ ret' = "loop"
        BY <1>1, <2>1, <3>1
      <3>3. StepsSince' = 1
        BY <3>2 DEF StepsSince
      <3>4. /\ S + MsUs <= Now
            /\ Now < (S + MsUs) + MsUs + TickUs + 1 * Turn
            /\ Called + (C + MsUs) <= S + MsUs
            /\ S + MsUs <= Called + (C + MsUs) + 2 * Turn
        <4>1. TickUs + 3 * Turn <= MsUs
          BY Speeds DEF Turn
        <4> QED
          BY <1>6, <1>11, <1>12, <1>13, <2>2, <4>1, Speeds
      <3>5. LoopFrom(S + MsUs)'
        BY <1>15, <2>3, <2>4, <3>2, <3>3, <3>4 DEF LoopFrom
      <3>6. Looping'
        <4>1. S + MsUs \in 0 .. Now
          BY <1>13, <2>2, <3>4
        <4>2. \E s \in 0 .. Now : LoopFrom(s)'
          BY <3>5, <4>1
        <4> QED
          BY <1>1, <1>15, <2>1, <3>1, <4>2 DEF Looping
      <3> QED
        BY <1>1, <3>2, <3>6, Speeds DEF DelayInv
    <2> QED
      BY <1>4, <2>5, <2>6
  <1> QED
    BY <1>16, <1>17

-----------------------------------------------------------------------------
LEMMA DelayStep ==
  ASSUME DelayInv, [Next]_vars, IInv'
  PROVE  DelayInv'
  <1>1. CASE MillisCall \/ MillisLow \/ MillisReturn \/ MicrosCall
    <2>1. turn' = 0 /\ (ret' = "idle" \/ pc' = "idle")
      BY <1>1 DEF DelayInv, IInv, Returning, MillisCall, MillisLow, MillisReturn,
                  MicrosCall, StartMicros
    <2> QED
      BY <2>1, DelayOutside
  <1>2. CASE \E on \in BOOLEAN : SetInterrupts(on)
    BY <1>2, DelaySame DEF SetInterrupts, hardware, locals, history
  <1>3. CASE OverflowInterrupt
    BY <1>3, DelaySame DEF OverflowInterrupt, locals, history
  <1>4. CASE UNCHANGED vars
    BY <1>4, DelaySame DEF vars, hardware, locals, history
  <1>5. CASE \E ms \in Delays : DelayCall(ms)
    BY <1>5, DelayCallStep
  <1> QED
    BY <1>1, <1>2, <1>3, <1>4, <1>5, DelayTick, DelayReadStep, DelayReturnStep,
       DelayStartStep, DelayTurnStep DEF Next, Calls, Running

THEOREM DelayInductive == Spec => []DelayInv
  <1>1. Init /\ IInv => DelayInv
    BY DEF Init, DelayInv
  <1>2. DelayInv /\ [Next]_vars /\ IInv' => DelayInv'
    BY DelayStep
  <1> QED
    BY <1>1, <1>2, Inductive, PTL DEF Spec

(* DelayNotShort: delay(ms) takes at least ms milliseconds, although it     *)
(* computes modulo 2^16 and counts from its first reading.                 *)
THEOREM DelayNotShortCorrect == Spec => DelayNotShort
  <1>1. ASSUME DelayInv, IInv', [Next]_vars, Delaying, pc' = "idle"
        PROVE  (now - called) * TickUs >= asked * MsUs
    <2>1. DelayStart \/ DelayTurn
      BY <1>1 DEF Delaying, DelayInv, IInv, Returning, Next, Calls, Running,
         MillisCall, cli, MicrosCall, DelayCall, StartMicros, SetInterrupts,
         MillisLow, MillisReturn, MicrosCount, MicrosTcnt, MicrosReturn,
         OverflowInterrupt, Tick, vars
    <2>2. Us(now) >= Us(called) + asked * MsUs
      BY <1>1, <2>1, DelayStartStep, DelayTurnStep
    <2>3. asked * MsUs \in Nat
      BY <1>1, Times, Speeds
    <2>4. (now - called) * TickUs = Us(now) - Us(called)
      BY <1>1, Times, Speeds DEF Us
    <2> QED
      BY <1>1, <2>2, <2>3, <2>4, Times
  <1> QED
    BY <1>1, Inductive, DelayInductive, PTL DEF Spec, DelayNotShort

(* DelayNotLong: nor longer, up to two turns of its loop.                   *)
THEOREM DelayNotLongCorrect == Spec => []DelayNotLong
  <1>1. ASSUME DelayInv, Delaying
        PROVE  (now - called) * TickUs <= asked * MsUs + 8 * MaxTurn * TickUs
    <2> DEFINE A == asked * MsUs
    <2>1. pc # "idle" /\ ret \in {"first", "loop"}
      BY <1>1 DEF Delaying, DelayInv, IInv, TypeOK
    <2>2. /\ (now - called) * TickUs = Us(now) - Us(called)
          /\ 8 * MaxTurn * TickUs = 8 * Us(MaxTurn)
      BY <1>1, Times, Speeds DEF Us
    <2>3. A \in Nat
      BY <1>1, Times, Speeds
    <2>4. Us(now) <= Us(Last) + Us(MaxTurn) /\ Us(Last) \in Nat
      BY <1>1, <2>1, Times
    <2>5. pc \in {"count", "tcnt", "flag", "first", "loop"}
      BY <1>1, <2>1 DEF DelayInv, IInv, TypeOK, Returning
    <2>6. CASE ret = "first"
      <3>1. Starting
        BY <1>1, <2>1, <2>6 DEF DelayInv
      <3>2. Last <= called + (2 * MaxTurn + 1)
        <4>1. pc # "loop"
          BY <1>1, <2>6 DEF DelayInv, IInv, Returning
        <4> QED
          BY <1>1, <2>1, <2>5, <3>1, <4>1, Times, Speeds DEF Starting
      <3>3. Us(called + (2 * MaxTurn + 1)) = Us(called) + 2 * Us(MaxTurn) + TickUs
        <4>1. 2 * MaxTurn + 1 \in Nat /\ 1 \in Nat
          BY UsTurns
        <4>2. Us(2 * MaxTurn + 1) = Us(2 * MaxTurn) + Us(1)
          BY <4>1, UsTurns, UsIs
        <4> QED
          BY <1>1, <4>1, <4>2, Times, UsIs, UsTurns, Speeds
      <3>4. Us(Last) <= Us(called) + 2 * Us(MaxTurn) + TickUs
        BY <1>1, <2>1, <3>2, <3>3, Times, UsIs, UsTurns
      <3> HIDE DEF A
      <3>5. Us(now) - Us(called) <= A + 8 * Us(MaxTurn)
        BY <1>1, <2>3, <2>4, <3>4, Times, Speeds
      <3> QED
        BY <2>2, <3>5 DEF A
    <2>7. CASE ret = "loop"
      <3>1. Looping
        BY <1>1, <2>1, <2>7 DEF DelayInv
      <3>2. PICK S \in 0 .. Us(now) : LoopFrom(S)
        BY <3>1 DEF Looping
      <3>3. S \in Nat /\ left \in 1 .. asked
        BY <1>1, <3>1, <3>2, Times DEF Looping
      <3>4. CountedUs \in Nat /\ CountedUs + MsUs <= A
        <4>1. asked - left \in Nat /\ left - 1 \in Nat /\ asked \in Nat
          BY <1>1, <3>3, Times
        <4>2. asked * MsUs = (asked - left) * MsUs + (left - 1) * MsUs + MsUs
          BY <4>1, <3>3, Speeds
        <4>3. (asked - left) * MsUs \in Nat /\ (left - 1) * MsUs \in Nat
          BY <4>1, Speeds
        <4> QED
          BY <4>2, <4>3, Speeds DEF CountedUs
      <3>5. S <= Us(called) + CountedUs + 2 * Us(MaxTurn)
        BY <3>2 DEF LoopFrom
      <3>6. Us(Last) < S + MsUs + 2 * TickUs + 3 * Us(MaxTurn)
        <4>1. CASE pc = "loop"
          <5>1. PICK time \in called .. now :
                  /\ Last <= time + 1 /\ S <= Us(time)
                  /\ Us(time) < S + MsUs + TickUs + 3 * Us(MaxTurn)
            BY <3>2, <4>1 DEF LoopFrom
          <5>2. time \in Nat /\ time + 1 \in Nat /\ Us(time) \in Nat
            BY <1>1, <5>1, Times, UsIs
          <5>3. Us(Last) <= Us(time + 1) /\ Us(time + 1) = Us(time) + TickUs
            BY <1>1, <2>1, <5>1, <5>2, Times, UsIs
          <5> QED
            BY <2>4, <3>3, <5>1, <5>2, <5>3, Speeds
        <4>2. CASE pc \in {"count", "tcnt", "flag"}
          <5>1. Us(Last) < S + MsUs + TickUs + StepsSince * Us(MaxTurn)
            BY <3>2, <4>2 DEF LoopFrom
          <5>2. StepsSince = 1 \/ StepsSince = 2 \/ StepsSince = 3
            BY DEF StepsSince
          <5>3. CASE StepsSince = 1
            BY <2>4, <3>3, <5>1, <5>3, Speeds
          <5>4. CASE StepsSince = 2
            BY <2>4, <3>3, <5>1, <5>4, Speeds
          <5>5. CASE StepsSince = 3
            BY <2>4, <3>3, <5>1, <5>5, Speeds
          <5> QED
            BY <5>2, <5>3, <5>4, <5>5
        <4>3. pc # "first"
          BY <1>1, <2>7 DEF DelayInv, IInv, Returning
        <4> QED
          BY <2>5, <4>1, <4>2, <4>3
      <3> HIDE DEF A
      <3>7. Us(now) - Us(called) <= A + 8 * Us(MaxTurn)
        BY <1>1, <2>3, <2>4, <3>3, <3>4, <3>5, <3>6, Times, Speeds
      <3> QED
        BY <2>2, <3>7 DEF A
    <2> QED
      BY <2>1, <2>6, <2>7
  <1>2. DelayInv => DelayNotLong
    BY <1>1 DEF DelayNotLong
  <1> QED
    BY <1>2, DelayInductive, PTL
=============================================================================
