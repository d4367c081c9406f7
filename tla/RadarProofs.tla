---------------------------- MODULE RadarProofs ----------------------------
(***************************************************************************)
(* Safety of Radar for every sweep, every echo, every timeout and every     *)
(* capacity of the line: the records are truthful, and follow the sweep.    *)
(***************************************************************************)
EXTENDS Radar, FiniteSetTheorems, SequenceTheorems, TLAPS

Angles == FirstAngle .. LastAngle
Tokens == [field : {"angle", "comma", "distance", "dot"}, value : Int, chars : Int]
Records == [from : Int, to : Int, distance : Int, up : BOOLEAN]

ServoTypes ==
  /\ wait \in Nat /\ commanded \in Int /\ position \in Int /\ aim \in Int
  /\ pulse \in [angle : Int, length : 0 .. 3]
  /\ phase \in {"off", "refresh", "pulse"} /\ timer \in 0 .. 33

StreamTypes ==
  /\ pc \in {"write", "delay", "pulseIn", "angle", "comma", "distance", "dot",
             "next"}
  /\ up \in BOOLEAN /\ i \in Angles /\ (i = FirstAngle => up)
  /\ duration \in Nat /\ distance \in Int
  /\ queue \in Seq(Tokens) /\ measured \in Seq(Records)
  /\ partial \in Seq(Int) /\ shown \in Seq(Int) /\ rising \in BOOLEAN

-----------------------------------------------------------------------------
(* The stream.  A record is four fields; Printed of them have left print()  *)
(* for the last measurement, and Read of them have reached the host for the *)
(* first one it does not have yet.                                         *)

Printed(p) == CASE p = "angle" -> 0 [] p = "comma" -> 1 [] p = "distance" -> 2
                [] p = "dot" -> 3 [] OTHER -> 4

Read == 4 * (Len(measured) - 1) + Printed(pc) - Len(queue)

Field == <<"angle", "comma", "distance", "dot">>

(* Where field f, counted from 0, of measurement k is in the queue. *)
Place(k, f) == 4 * (k - 1) + f - Read + 1

(* The angle and the direction of measurement k; 0 is what the host has.    *)
(* The first one of all was taken before the servo knew its angle.         *)
Angle(k) ==
  IF k = 0 THEN IF shown = <<>> THEN FirstAngle - 1 ELSE shown[1]
  ELSE IF k = 1 /\ shown = <<>> THEN FirstAngle ELSE measured[k].from

Rise(k) == IF k = 0 THEN rising ELSE measured[k].up

Queue ==
  \A k \in 1 .. Len(measured), f \in 0 .. 3 :
    Place(k, f) \in 1 .. Len(queue) =>
      LET token == queue[Place(k, f)]
      IN  /\ token.field = Field[f + 1]
          /\ f = 0 => token.value = Angle(k)
          /\ f = 2 => token.value = measured[k].distance

Partial ==
  /\ Read \in 0 .. 3
  /\ partial = CASE Read = 0 -> <<>>
                 [] Read \in {1, 2} -> <<Angle(1)>>
                 [] OTHER -> <<Angle(1), measured[1].distance>>

-----------------------------------------------------------------------------
(* The sweep: each measurement follows the one before it.                  *)

Follows(a, u, b, v) ==
  \/ u /\ a < LastAngle /\ b = a + 1 /\ v
  \/ u /\ a = LastAngle /\ b = a /\ ~ v
  \/ ~ u /\ b = a - 1 /\ (v <=> b = FirstAngle)

Chain ==
  \A k \in 1 .. Len(measured) :
    Follows(Angle(k - 1), Rise(k - 1), Angle(k), Rise(k))

Moving == pc \in {"write", "delay", "pulseIn"}

Latest ==
  LET n == Len(measured)
  IN  /\ shown = <<>> => rising
      /\ IF Moving THEN Follows(Angle(n), Rise(n), i, up)
                   ELSE i = Angle(n) /\ up = Rise(n)
      /\ Printing => distance = measured[n].distance

-----------------------------------------------------------------------------
(* The servo.                                                              *)

FirstMove == shown = <<>> /\ measured = <<>>

Settled == position = i /\ (phase = "pulse" => pulse.angle = i)

(* How long it takes at most until a pulse for i is complete. *)
Settling ==
  CASE phase = "off" -> timer + REFRESH_INTERVAL + 3
    [] phase = "refresh" -> timer + 3
    [] OTHER -> IF pulse.angle = i THEN timer
                          ELSE timer + REFRESH_INTERVAL - pulse.length + 3

Frame ==
  /\ phase = "refresh" => timer <= REFRESH_INTERVAL
  /\ phase = "pulse" => timer <= pulse.length /\ pulse.length >= 1
  /\ phase = "off" =>
       timer <= IF ~ FirstMove THEN 2
                ELSE CASE pc = "write" -> FirstMatch
                       [] pc = "delay" -> wait + 3
                       [] OTHER -> wait + 2

Pointed ==
  /\ FirstMove => Moving
  /\ pc \in {"delay", "pulseIn"} => commanded = i
  /\ pc = "delay" /\ ~ FirstMove => Settled \/ Settling < wait
  /\ pc = "pulseIn" /\ ~ FirstMove => Settled /\ aim = i

Aimed ==
  \A k \in 1 .. Len(measured) :
    (k = 1 /\ shown = <<>>) \/ measured[k].from = measured[k].to

Stream == Partial /\ Queue /\ Chain /\ Latest /\ Aimed

IInv == ServoTypes /\ StreamTypes /\ Stream /\ Frame /\ Pointed

-----------------------------------------------------------------------------
(* Numbers and settings.                                                   *)

(* An element more. *)
LEMMA OneMore ==
  ASSUME NEW T, IsFiniteSet(T), NEW x
  PROVE  /\ IsFiniteSet(T \union {x}) /\ Cardinality(T) \in Nat
         /\ Cardinality(T \union {x}) \in Nat
         /\ Cardinality(T \union {x}) <= Cardinality(T) + 1
  <1>1. Cardinality(T) \in Nat
    BY FS_CardinalityType
  <1>2. /\ IsFiniteSet(T \union {x})
        /\ Cardinality(T \union {x}) = IF x \in T THEN Cardinality(T)
                                       ELSE Cardinality(T) + 1
    BY FS_AddElement
  <1> QED
    BY <1>1, <1>2

(* print() writes at most five characters for an int. *)
LEMMA DigitsType == \A n \in Int : Digits(n) \in 1 .. 5
  <1> SUFFICES ASSUME NEW n \in Int PROVE Digits(n) \in 1 .. 5
    OBVIOUS
  <1> DEFINE S == {10, 100, 1000, 10000}
  <1>1. IsFiniteSet(S) /\ Cardinality(S) <= 4
    <2> DEFINE A == {} \union {10}  B == A \union {100}  C == B \union {1000}
               D == C \union {10000}
    <2>1. IsFiniteSet({}) /\ Cardinality({}) = 0
      BY FS_EmptySet
    <2>2. /\ IsFiniteSet(A) /\ Cardinality(A) \in Nat
          /\ Cardinality(A) <= Cardinality({}) + 1
      BY <2>1, OneMore
    <2>3. /\ IsFiniteSet(B) /\ Cardinality(B) \in Nat
          /\ Cardinality(B) <= Cardinality(A) + 1
      BY <2>2, OneMore
    <2>4. /\ IsFiniteSet(C) /\ Cardinality(C) \in Nat
          /\ Cardinality(C) <= Cardinality(B) + 1
      BY <2>3, OneMore
    <2>5. /\ IsFiniteSet(D) /\ Cardinality(D) \in Nat
          /\ Cardinality(D) <= Cardinality(C) + 1
      BY <2>4, OneMore
    <2>6. S = D
      OBVIOUS
    <2> HIDE DEF A, B, C, D
    <2> QED
      BY <2>1, <2>2, <2>3, <2>4, <2>5, <2>6
  <1>2. {p \in S : n >= p} \subseteq S
    OBVIOUS
  <1>3. /\ Cardinality({p \in S : n >= p}) \in Nat
        /\ Cardinality({p \in S : n >= p}) <= Cardinality(S)
        /\ Cardinality(S) \in Nat
    BY <1>1, <1>2, FS_Subset, FS_CardinalityType
  <1>4. Cardinality({p \in S : n >= p}) \in 0 .. 4
    BY <1>1, <1>3
  <1> QED
    BY <1>4 DEF Digits

LEMMA Settings ==
  /\ FirstAngle \in Nat /\ LastAngle \in Nat /\ FirstAngle + 1 < LastAngle
  /\ Timeout \in Nat \ {0} /\ Settle = 30 /\ REFRESH_INTERVAL = 20
  /\ FirstMatch = 33 /\ NoEcho = 0 /\ UpEnd = LastAngle /\ DownEnd = FirstAngle
  /\ PulseTimes \subseteq 1 .. 3
  /\ \A d \in Echoes \union {NoEcho} :
       d \in Nat /\ PulseInTimes(d) \subseteq Nat \ {0}
  <1>1. \A d \in Echoes \union {NoEcho} : d \in Nat /\ (d = NoEcho \/ d >= 1)
    BY RadarAssumption DEF RadarAssumption, NoEcho
  <1>2. \A d \in Nat : d \div 1000 + 1 .. d \div 1000 + 2 \subseteq Nat \ {0}
    OBVIOUS
  <1>3. \A d \in Echoes \union {NoEcho} : PulseInTimes(d) \subseteq Nat \ {0}
    <2>1. (2 * Timeout) \div 3 + 1 .. Timeout \subseteq Nat \ {0}
      BY RadarAssumption DEF RadarAssumption
    <2> QED
      BY <1>1, <1>2, <2>1 DEF PulseInTimes
  <1>4. /\ FirstAngle \in Nat /\ LastAngle \in Nat /\ FirstAngle + 1 < LastAngle
        /\ Timeout \in Nat \ {0} /\ PulseTimes \subseteq 1 .. 3
    BY RadarAssumption DEF RadarAssumption
  <1> QED
    BY <1>1, <1>3, <1>4
       DEF Settle, REFRESH_INTERVAL, FirstMatch, NoEcho, UpEnd, DownEnd

LEMMA CharTimesType == CharTimes \subseteq Int
  BY DEF CharTimes

LEMMA AngleType == Angles \subseteq Int
  BY Settings DEF Angles

(* The start. *)
LEMMA Starts == Init => IInv
  <1> SUFFICES ASSUME Init PROVE IInv
    OBVIOUS
  <1>1. ServoTypes /\ StreamTypes
    BY Settings DEF Init, ServoTypes, StreamTypes, Angles, Unknown
  <1>2. measured = <<>> /\ Len(measured) = 0 /\ Len(queue) = 0 /\ Printed(pc) = 4
    BY DEF Init, Printed
  <1>3. Read = 0
    BY <1>2 DEF Read
  <1>4. Partial
    BY <1>3 DEF Init, Partial
  <1>5. Queue /\ Chain /\ Aimed
    BY <1>2 DEF Queue, Chain, Aimed
  <1>6. Latest
    BY <1>2, Settings DEF Init, Latest, Moving, Printing, Follows, Angle, Rise
  <1>7. Frame /\ Pointed
    BY Settings DEF Init, Frame, Pointed, FirstMove, Moving
  <1> QED
    BY <1>1, <1>4, <1>5, <1>6, <1>7 DEF IInv, Stream

-----------------------------------------------------------------------------
(* Steps of the servo and of time leave the stream alone.                  *)

LEMMA SameStream ==
  ASSUME Stream, UNCHANGED <<queue, measured, partial, shown, rising, i, up>>,
         Printed(pc') = Printed(pc), Moving' = Moving, distance' = distance,
         Printing' => Printing
  PROVE  Stream'
  <1>1. Read' = Read
    BY DEF Read
  <1>2. \A k, f : Place(k, f)' = Place(k, f)
    BY <1>1 DEF Place
  <1>3. \A k : Angle(k)' = Angle(k) /\ Rise(k)' = Rise(k)
    BY DEF Angle, Rise
  <1>4. Partial'
    BY <1>1, <1>3 DEF Stream, Partial
  <1>5. Queue'
    BY <1>2, <1>3 DEF Stream, Queue
  <1>6. Chain' /\ Aimed'
    BY <1>3 DEF Stream, Chain, Aimed
  <1>7. Latest'
    BY <1>3 DEF Stream, Latest
  <1> QED
    BY <1>4, <1>5, <1>6, <1>7 DEF Stream

LEMMA SettlingType ==
  ServoTypes /\ Frame => Settling \in Int /\ Settling >= 0
  BY Settings DEF ServoTypes, Frame, Settling

LEMMA WriteServoStep == IInv /\ WriteServo => IInv'
  <1> SUFFICES ASSUME IInv, WriteServo PROVE IInv'
    OBVIOUS
  <1> USE DEF serial, history
  <1>1. ServoTypes' /\ StreamTypes'
    BY Settings, AngleType
       DEF IInv, WriteServo, ServoTypes, StreamTypes
  <1>2. Stream'
    <2>1. /\ UNCHANGED <<queue, measured, partial, shown, rising, i, up>>
          /\ Printed(pc') = Printed(pc) /\ Moving' = Moving
          /\ distance' = distance /\ ~ Printing'
      BY DEF WriteServo, Printed, Moving, Printing
    <2> QED
      BY <2>1, SameStream DEF IInv
  <1>3. FirstMove' = FirstMove /\ Moving'
    BY DEF WriteServo, FirstMove, Moving
  <1>4. /\ UNCHANGED <<phase, timer, pulse, i>>
        /\ pc = "write" /\ pc' = "delay" /\ commanded' = i' /\ wait' = 30
    BY Settings DEF WriteServo
  <1>5. Frame'
    BY <1>3, <1>4, Settings DEF IInv, ServoTypes, Frame
  <1>6. ~ FirstMove => Settling' < wait'
    BY <1>4, Settings DEF IInv, ServoTypes, Frame, Settling
  <1>7. Pointed'
    BY <1>3, <1>4, <1>6 DEF Pointed
  <1> QED
    BY <1>1, <1>2, <1>5, <1>7 DEF IInv

LEMMA TriggerStep == IInv /\ Trigger => IInv'
  <1> SUFFICES ASSUME IInv, Trigger PROVE IInv'
    OBVIOUS
  <1> USE DEF servo, serial
  <1>1. ServoTypes' /\ StreamTypes'
    BY Settings DEF IInv, Trigger, ServoTypes, StreamTypes
  <1>2. Stream'
    <2>1. /\ UNCHANGED <<queue, measured, partial, shown, rising, i, up>>
          /\ Printed(pc') = Printed(pc) /\ Moving' = Moving
          /\ distance' = distance /\ ~ Printing'
      BY DEF Trigger, Printed, Moving, Printing
    <2> QED
      BY <2>1, SameStream DEF IInv
  <1>3. /\ UNCHANGED <<i, commanded, phase, timer, pulse, position>>
        /\ pc = "delay" /\ pc' = "pulseIn" /\ wait = 0 /\ aim' = position
        /\ FirstMove' = FirstMove
    BY DEF Trigger, FirstMove
  <1>4. wait' \in Nat \ {0}
    BY Settings DEF Trigger
  <1>5. Frame'
    BY <1>3, <1>4, Settings DEF IInv, ServoTypes, Frame
  <1>6. Pointed'
    <2>1. ~ FirstMove => Settled
      BY <1>3, SettlingType DEF IInv, Pointed
    <2>2. Settled' = Settled
      BY <1>3 DEF Settled
    <2> QED
      BY <1>3, <2>1, <2>2 DEF IInv, Pointed, Moving, Settled
  <1> QED
    BY <1>1, <1>2, <1>5, <1>6 DEF IInv

LEMMA InterruptStep == IInv /\ Interrupts => IInv'
  <1> SUFFICES ASSUME IInv, Interrupts PROVE IInv'
    OBVIOUS
  <1> USE DEF Interrupts, loopVars, serial, history
  <1>1. UNCHANGED <<loopVars, serial, history, commanded>>
    BY DEF FirstInterrupt, StartPulse, EndPulse
  <1>2. StreamTypes' /\ FirstMove' = FirstMove /\ Moving' = Moving
    BY <1>1 DEF IInv, StreamTypes, FirstMove, Moving
  <1>3. Stream'
    <2>1. Printed(pc') = Printed(pc) /\ Printing' = Printing
      BY <1>1 DEF Printed, Printing
    <2> QED
      BY <1>1, <1>2, <2>1, SameStream DEF IInv
  <1>4. ServoTypes'
    BY <1>1, Settings
       DEF IInv, ServoTypes, FirstInterrupt, StartPulse, EndPulse, Frame
  <1>5. Frame'
    BY <1>1, <1>2, Settings
       DEF IInv, ServoTypes, FirstInterrupt, StartPulse, EndPulse, Frame
  <1>6. Pointed'
    <2>1. ASSUME commanded = i, Settled PROVE Settled'
      BY <1>1, <2>1 DEF FirstInterrupt, StartPulse, EndPulse, Settled
    <2>2. ASSUME commanded = i, ~ Settled PROVE Settled' \/ Settling' <= Settling
      <3>1. CASE FirstInterrupt
        BY <1>1, <3>1, Settings DEF FirstInterrupt, Settling
      <3>2. CASE StartPulse
        BY <1>1, <2>2, <3>2, Settings
           DEF IInv, ServoTypes, StartPulse, Settling
      <3>3. CASE EndPulse
        BY <1>1, <2>2, <3>3, Settings
           DEF IInv, ServoTypes, EndPulse, Settling, Settled
      <3> QED
        BY <3>1, <3>2, <3>3
    <2>3. Settling \in Int /\ Settling' \in Int
      <3>1. Settling \in Int
        BY SettlingType DEF IInv
      <3>2. Settling' \in Int
        BY <1>4, <1>5, Settings DEF ServoTypes, Frame, Settling
      <3> QED
        BY <3>1, <3>2
    <2> QED
      BY <1>1, <1>2, <2>1, <2>2, <2>3 DEF IInv, Pointed, ServoTypes
  <1> QED
    BY <1>2, <1>3, <1>4, <1>5, <1>6 DEF IInv

LEMMA ElapseStep == IInv /\ Elapse => IInv'
  <1> SUFFICES ASSUME IInv, Elapse PROVE IInv'
    OBVIOUS
  <1> USE DEF history
  <1>1. /\ UNCHANGED <<pc, up, i, duration, distance, commanded, phase, pulse,
                       position, queue, partial, shown, rising, aim, measured>>
        /\ timer > 0 /\ timer' = timer - 1
        /\ wait' = (IF wait > 0 THEN wait - 1 ELSE wait)
    BY DEF Elapse
  <1>2. FirstMove' = FirstMove /\ Moving' = Moving /\ Settled' = Settled
    BY <1>1 DEF FirstMove, Moving, Settled
  <1>3. ServoTypes' /\ StreamTypes'
    BY <1>1 DEF IInv, ServoTypes, StreamTypes
  <1>4. Stream'
    <2>1. Printed(pc') = Printed(pc) /\ Printing' = Printing
      BY <1>1 DEF Printed, Printing
    <2> QED
      BY <1>1, <1>2, <2>1, SameStream DEF IInv
  <1>5. Moving => wait > 0 /\ wait' = wait - 1
    BY <1>1 DEF IInv, ServoTypes, Elapse, Moving, Printing
  <1>6. FirstMove => Moving
    BY DEF IInv, Pointed
  <1>7. Frame'
    <2>1. timer \in Int /\ wait \in Int /\ pulse.length \in Int
      BY DEF IInv, ServoTypes
    <2>2. Frame
      BY DEF IInv
    <2>3. FirstMove => wait' + 3 = wait + 2 /\ wait' + 2 = wait + 1
      BY <1>5, <1>6, <2>1
    <2>4. phase = "off" /\ ~ FirstMove => timer' <= 2
      BY <1>1, <2>1, <2>2 DEF Frame
    <2>5. phase = "off" /\ FirstMove =>
            timer' <= CASE pc = "write" -> FirstMatch
                        [] pc = "delay" -> wait' + 3
                        [] OTHER -> wait' + 2
      BY <1>1, <2>1, <2>2, <2>3, Settings DEF Frame
    <2>6. phase = "refresh" => timer' <= REFRESH_INTERVAL
      BY <1>1, <2>1, <2>2, Settings DEF Frame
    <2>7. phase = "pulse" => timer' <= pulse.length /\ pulse.length >= 1
      BY <1>1, <2>1, <2>2 DEF Frame
    <2>8. UNCHANGED <<phase, pulse, pc, FirstMove>>
      BY <1>1, <1>2
    <2>9. CASE FirstMove
      BY <2>5, <2>6, <2>7, <2>8, <2>9 DEF Frame
    <2>10. CASE ~ FirstMove
      BY <2>4, <2>6, <2>7, <2>8, <2>10 DEF Frame
    <2> QED
      BY <2>9, <2>10
  <1>8. Pointed'
    <2>1. Settling' = Settling - 1 /\ Settling \in Int
      BY <1>1, SettlingType, Settings DEF IInv, ServoTypes, Settling
    <2> QED
      BY <1>1, <1>2, <1>5, <2>1 DEF IInv, ServoTypes, Pointed, Moving
  <1> QED
    BY <1>3, <1>4, <1>7, <1>8 DEF IInv

-----------------------------------------------------------------------------
(* Steps of the stream.                                                    *)

LEMMA Lengths ==
  IInv => /\ Len(measured) \in Nat /\ Len(queue) \in Nat
          /\ Printed(pc) \in 0 .. 4 /\ (Printing <=> Printed(pc) < 4)
          /\ Read \in 0 .. 3 /\ (FirstMove => Len(measured) = 0)
  BY DEF IInv, StreamTypes, Stream, Partial, Printed, Printing, FirstMove

(* What is printed is of a measurement.                                    *)
LEMMA Measured ==
  IInv /\ (Printing \/ queue # <<>>) => Len(measured) >= 1 /\ ~ FirstMove
  <1> SUFFICES ASSUME IInv, Printing \/ queue # <<>>
               PROVE  Len(measured) >= 1
    BY Lengths
  <1>1. queue # <<>> => Len(queue) >= 1
    BY DEF IInv, StreamTypes
  <1> QED
    BY <1>1, Lengths DEF Read

(* The servo does not move while the stream does. *)
LEMMA SameServo ==
  ASSUME IInv, UNCHANGED servo, UNCHANGED wait, ~ FirstMove, ~ FirstMove',
         \/ pc' \notin {"delay", "pulseIn"}
         \/ UNCHANGED <<pc, i, aim>>
  PROVE  Frame' /\ Pointed'
  <1> USE DEF servo
  <1>1. Frame'
    BY DEF IInv, Frame
  <1>2. CASE pc' \notin {"delay", "pulseIn"}
    BY <1>1, <1>2 DEF Pointed
  <1>3. CASE UNCHANGED <<pc, i, aim>>
    <2>1. Settled' = Settled /\ Settling' = Settling
      BY <1>3 DEF Settled, Settling
    <2> QED
      BY <1>1, <1>3, <2>1 DEF IInv, Pointed
  <1> QED
    BY <1>1, <1>2, <1>3

LEMMA PulseInReturnStep == IInv /\ PulseInReturn => IInv'
  <1> SUFFICES ASSUME IInv, PulseInReturn PROVE IInv'
    OBVIOUS
  <1>0. PICK n \in Nat : n = Len(measured)
    BY Lengths
  <1> DEFINE m == [from |-> aim, to |-> position, distance |-> distance', up |-> up]
  <1>1. /\ UNCHANGED <<up, i, wait, duration, servo, queue, partial, shown,
                       rising, aim>>
        /\ pc = "pulseIn" /\ wait = 0 /\ pc' = "angle"
        /\ distance' = calculateDistance /\ measured' = Append(measured, m)
    BY DEF PulseInReturn, serial
  <1>2. distance' \in Int
    BY <1>1 DEF IInv, StreamTypes, calculateDistance
  <1>3. m \in Records
    BY <1>2 DEF IInv, ServoTypes, StreamTypes, Records
  <1>4. ServoTypes' /\ StreamTypes'
    BY <1>1, <1>2, <1>3 DEF IInv, ServoTypes, StreamTypes, servo
  <1>5. /\ n \in Nat /\ Len(measured') = n + 1 /\ measured'[n + 1] = m
        /\ \A k \in 1 .. n : measured'[k] = measured[k]
    BY <1>0, <1>1, <1>3, AppendProperties DEF IInv, StreamTypes
  <1>6. Read' = Read
    BY <1>0, <1>1, <1>5, Lengths DEF Read, Printed
  <1>7. \A k \in 0 .. n : Angle(k)' = Angle(k) /\ Rise(k)' = Rise(k)
    BY <1>1, <1>5 DEF Angle, Rise
  <1>8. shown = <<>> /\ n = 0 <=> FirstMove
    BY <1>0 DEF IInv, StreamTypes, FirstMove
  <1>9. ~ FirstMove => aim = i /\ position = i
    BY <1>1 DEF IInv, Pointed, Settled
  <1>10. Follows(Angle(n), Rise(n), i, up) /\ (shown = <<>> => rising)
    BY <1>0, <1>1 DEF IInv, Stream, Latest, Moving
  <1>11. Angle(n + 1)' = i /\ Rise(n + 1)' = up
    <2>1. CASE FirstMove
      <3>1. Follows(FirstAngle - 1, rising, i, up) /\ rising
        BY <1>8, <1>10, <2>1 DEF Angle, Rise
      <3>2. i = FirstAngle
        BY <3>1, Settings DEF Follows, IInv, StreamTypes, Angles
      <3> QED
        BY <1>1, <1>5, <1>8, <2>1, <3>2 DEF Angle, Rise
    <2>2. CASE ~ FirstMove
      BY <1>1, <1>5, <1>8, <1>9, <2>2 DEF Angle, Rise
    <2> QED
      BY <2>1, <2>2
  <1>12. Partial'
    <2>1. Read # 0 => n >= 1
      BY <1>0, <1>1, <1>5, Lengths DEF Read, Printed
    <2>2. Read # 0 => Angle(1)' = Angle(1) /\ measured'[1] = measured[1]
      BY <2>1, <1>5, <1>7
    <2> QED
      BY <1>1, <1>6, <2>2 DEF IInv, Stream, Partial
  <1>13. Queue'
    <2> SUFFICES ASSUME NEW k \in 1 .. Len(measured'), NEW f \in 0 .. 3,
                        Place(k, f)' \in 1 .. Len(queue)
                 PROVE  LET token == queue[Place(k, f)]
                        IN  /\ Place(k, f)' = Place(k, f)
                            /\ token.field = Field[f + 1]
                            /\ f = 0 => token.value = Angle(k)'
                            /\ f = 2 => token.value = measured'[k].distance
      BY <1>1 DEF Queue
    <2>1. Place(k, f)' = Place(k, f)
      BY <1>6 DEF Place
    <2>2. Read = 4 * n - Len(queue)
      BY <1>0, <1>1, <1>5, Lengths DEF Read, Printed
    <2>3. 4 * (k - 1) + f < 4 * n /\ k \in 1 .. n + 1
      <3>1. Len(queue) \in Nat /\ Place(k, f) <= Len(queue)
        BY <2>1, Lengths
      <3> QED
        BY <1>5, <2>2, <3>1 DEF Place
    <2>4. k \in 1 .. n
      BY <1>5, <2>3
    <2> QED
      BY <1>0, <1>5, <1>7, <2>1, <2>4 DEF IInv, Stream, Queue
  <1>14. Chain'
    <2> SUFFICES ASSUME NEW k \in 1 .. n + 1
                 PROVE  Follows(Angle(k - 1)', Rise(k - 1)', Angle(k)', Rise(k)')
      BY <1>5 DEF Chain
    <2>1. CASE k \in 1 .. n
      <3>1. k - 1 \in 0 .. n /\ k \in 0 .. n
        BY <1>5, <2>1
      <3> QED
        BY <1>0, <1>7, <2>1, <3>1 DEF IInv, Stream, Chain
    <2>2. CASE k = n + 1
      <3>1. k - 1 = n /\ n \in 0 .. n
        BY <1>5, <2>2
      <3> QED
        BY <1>7, <1>10, <1>11, <2>2, <3>1
    <2> QED
      BY <1>5, <2>1, <2>2
  <1>15. Latest'
    BY <1>1, <1>5, <1>10, <1>11 DEF Latest, Moving
  <1>16. Aimed'
    <2> SUFFICES ASSUME NEW k \in 1 .. n + 1
                 PROVE  \/ k = 1 /\ shown = <<>>
                        \/ measured'[k].from = measured'[k].to
      BY <1>1, <1>5 DEF Aimed
    <2>1. CASE k \in 1 .. n
      BY <1>0, <1>5, <2>1 DEF IInv, Stream, Aimed
    <2>2. CASE k = n + 1
      BY <1>5, <1>8, <1>9, <2>2
    <2> QED
      BY <1>5, <2>1, <2>2
  <1>17. ~ FirstMove'
    BY <1>5, Lengths DEF FirstMove
  <1>18. Frame'
    BY <1>1, <1>17, Settings DEF IInv, ServoTypes, Frame, servo
  <1>19. Pointed'
    BY <1>1, <1>17 DEF Pointed
  <1> QED
    BY <1>4, <1>12, <1>13, <1>14, <1>15, <1>16, <1>18, <1>19 DEF IInv, Stream

LEMMA NextAngleStep == IInv /\ NextAngle => IInv'
  <1> SUFFICES ASSUME IInv, NextAngle PROVE IInv'
    OBVIOUS
  <1> USE DEF serial, history
  <1>1. /\ UNCHANGED <<wait, duration, distance, servo, serial, history>>
        /\ pc = "next" /\ pc' = "write"
    BY DEF NextAngle
  <1>2. ServoTypes'
    BY <1>1 DEF IInv, ServoTypes, servo
  <1>3. Follows(i, up, i', up') /\ i' \in Angles /\ up' \in BOOLEAN
        /\ (i' = FirstAngle => up')
    <2>1. i \in Angles /\ up \in BOOLEAN /\ (i = FirstAngle => up)
      BY DEF IInv, StreamTypes
    <2>2. CASE up /\ i < UpEnd /\ i' = i + 1 /\ up' = TRUE
      BY <2>1, <2>2, Settings DEF Angles, Follows
    <2>3. CASE up /\ i >= UpEnd /\ i' = LastAngle /\ up' = FALSE
      <3>1. i = LastAngle /\ LastAngle \in Angles /\ LastAngle # FirstAngle
        BY <2>1, <2>3, Settings DEF Angles
      <3> QED
        BY <2>3, <3>1 DEF Follows
    <2>4. CASE ~ up /\ i - 1 > DownEnd /\ i' = i - 1 /\ up' = FALSE
      <3>1. i - 1 \in Angles /\ i - 1 # FirstAngle
        BY <2>1, <2>4, Settings DEF Angles
      <3> QED
        BY <2>4, <3>1 DEF Follows
    <2>5. CASE ~ up /\ i - 1 <= DownEnd /\ i' = FirstAngle /\ up' = TRUE
      <3>1. i - 1 = FirstAngle /\ FirstAngle \in Angles
        BY <2>1, <2>5, Settings DEF Angles
      <3> QED
        BY <2>5, <3>1 DEF Follows
    <2> QED
      BY <2>2, <2>3, <2>4, <2>5 DEF NextAngle
  <1>4. StreamTypes'
    BY <1>1, <1>3 DEF IInv, StreamTypes
  <1>5. Read' = Read
    BY <1>1 DEF Read, Printed
  <1>6. \A k, f : Place(k, f)' = Place(k, f)
    BY <1>5 DEF Place
  <1>7. \A k : Angle(k)' = Angle(k) /\ Rise(k)' = Rise(k)
    BY <1>1 DEF Angle, Rise
  <1>8. Partial' /\ Queue' /\ Chain' /\ Aimed'
    BY <1>1, <1>5, <1>6, <1>7 DEF IInv, Stream, Partial, Queue, Chain, Aimed
  <1>9. Latest'
    <2>1. PICK n : n = Len(measured) /\ n = Len(measured')
      BY <1>1
    <2>2. i = Angle(n) /\ up = Rise(n) /\ (shown = <<>> => rising)
      BY <1>1, <2>1 DEF IInv, Stream, Latest, Moving
    <2>3. Follows(Angle(n)', Rise(n)', i', up')
      BY <1>3, <1>7, <2>2
    <2> QED
      BY <1>1, <2>1, <2>2, <2>3 DEF Latest, Moving, Printing
  <1>10. ~ FirstMove /\ ~ FirstMove'
    BY <1>1 DEF IInv, Pointed, Moving, FirstMove
  <1> QED
    BY <1>1, <1>2, <1>4, <1>8, <1>9, <1>10, SameServo DEF IInv, Stream

LEMMA PrintFieldStep == IInv /\ PrintField => IInv'
  <1> SUFFICES ASSUME IInv, PrintField PROVE IInv'
    OBVIOUS
  <1> USE DEF history
  <1> DEFINE token == [field |-> pc, value |-> Value(pc), chars |-> Chars(pc)]
  <1>0. PICK n \in Nat : n = Len(measured)
    BY Lengths
  <1>1. PICK q \in Nat : q = Len(queue)
    BY Lengths
  <1>2. /\ UNCHANGED <<up, i, wait, duration, distance, servo, partial, shown,
                       rising, history>>
        /\ Printing /\ queue' = Append(queue, token) /\ pc' = After(pc)
    BY DEF PrintField
  <1>3. token \in Tokens
    <2>1. \A d \in Int : Digits(d) \in Int
      BY DigitsType
    <2> QED
      BY <1>2, <2>1
       DEF IInv, StreamTypes, Angles, Tokens, Printing, Value, Chars
  <1>4. ServoTypes' /\ StreamTypes'
    BY <1>2, <1>3 DEF IInv, ServoTypes, StreamTypes, servo, After, Printing
  <1>5. /\ Len(queue') = q + 1 /\ queue'[q + 1] = token
        /\ \A j \in 1 .. q : queue'[j] = queue[j]
    BY <1>1, <1>2, <1>3, AppendProperties DEF IInv, StreamTypes
  <1>6. Printed(pc') = Printed(pc) + 1 /\ ~ Moving /\ ~ Moving'
    BY <1>2 DEF Printed, After, Printing, Moving
  <1>7. Read' = Read /\ Read = 4 * (n - 1) + Printed(pc) - q
    BY <1>0, <1>1, <1>2, <1>5, <1>6, Lengths DEF Read
  <1>8. \A k, f : Place(k, f)' = Place(k, f)
    BY <1>7 DEF Place
  <1>9. \A k : Angle(k)' = Angle(k) /\ Rise(k)' = Rise(k)
    BY <1>2 DEF Angle, Rise
  <1>10. Partial' /\ Chain' /\ Aimed'
    BY <1>2, <1>7, <1>9 DEF IInv, Stream, Partial, Chain, Aimed
  <1>11. n >= 1 /\ ~ FirstMove /\ ~ FirstMove'
    BY <1>0, <1>2, Measured DEF FirstMove
  <1>12. i = Angle(n) /\ distance = measured[n].distance
    BY <1>0, <1>2, <1>6 DEF IInv, Stream, Latest
  <1>13. Queue'
    <2> SUFFICES ASSUME NEW k \in 1 .. n, NEW f \in 0 .. 3,
                        Place(k, f) \in 1 .. q + 1
                 PROVE  /\ queue'[Place(k, f)].field = Field[f + 1]
                        /\ f = 0 => queue'[Place(k, f)].value = Angle(k)
                        /\ f = 2 => queue'[Place(k, f)].value = measured[k].distance
      BY <1>0, <1>2, <1>5, <1>8, <1>9 DEF Queue
    <2>1. CASE Place(k, f) \in 1 .. q
      BY <1>0, <1>1, <1>5, <2>1 DEF IInv, Stream, Queue
    <2>2. CASE Place(k, f) = q + 1
      <3>1. k = n /\ f = Printed(pc)
        <4>1. Printed(pc) \in 0 .. 3 /\ Read \in Int
          BY <1>2, Lengths
        <4>2. 4 * (k - 1) + f = 4 * (n - 1) + Printed(pc)
          BY <1>7, <2>2, <4>1 DEF Place
        <4> QED
          BY <4>1, <4>2
      <3>2. token.field = Field[f + 1]
        BY <1>2, <3>1 DEF Printing, Printed, Field
      <3>3. f = 0 => token.value = i
        BY <1>2, <3>1 DEF Printing, Printed, Value
      <3>4. f = 2 => token.value = distance
        BY <1>2, <3>1 DEF Printing, Printed, Value
      <3> QED
        BY <1>5, <1>12, <2>2, <3>1, <3>2, <3>3, <3>4
    <2> QED
      BY <1>1, <2>1, <2>2
  <1>14. Latest'
    BY <1>0, <1>2, <1>6, <1>9 DEF IInv, Stream, Latest
  <1>15. Frame' /\ Pointed'
    BY <1>2, <1>6, <1>11, SameServo DEF Moving
  <1> QED
    BY <1>4, <1>10, <1>13, <1>14, <1>15 DEF IInv, Stream

(* What is sent next is the field the host reads next. *)
LEMMA HeadToken ==
  IInv /\ queue # <<>> =>
    /\ Head(queue) \in Tokens /\ Head(queue) = queue[1] /\ Len(queue) >= 1
    /\ Head(queue).field = Field[Read + 1]
    /\ Read = 0 => Head(queue).value = Angle(1)
    /\ Read = 2 => Head(queue).value = measured[1].distance
  <1> SUFFICES ASSUME IInv, queue # <<>>
               PROVE  /\ Head(queue) \in Tokens /\ Head(queue) = queue[1]
                      /\ Len(queue) >= 1
                      /\ Head(queue).field = Field[Read + 1]
                      /\ Read = 0 => Head(queue).value = Angle(1)
                      /\ Read = 2 => Head(queue).value = measured[1].distance
    OBVIOUS
  <1>1. Head(queue) \in Tokens /\ Head(queue) = queue[1] /\ Len(queue) >= 1
    BY DEF IInv, StreamTypes
  <1>2. 1 \in 1 .. Len(measured) /\ Read \in 0 .. 3 /\ 1 \in 1 .. Len(queue)
    BY <1>1, Lengths, Measured
  <1>3. Place(1, Read) = 1
    BY <1>2 DEF Place
  <1> QED
    BY <1>1, <1>2, <1>3 DEF IInv, Stream, Queue

LEMMA PairIs == \A a, b \in Int : Append(<<a>>, b) = <<a, b>>
  <1> SUFFICES ASSUME NEW a \in Int, NEW b \in Int
               PROVE  Append(<<a>>, b) = <<a, b>>
    OBVIOUS
  <1> DEFINE s == Append(<<a>>, b)
             t == <<a, b>>
  <1>1. <<a>> \in Seq(Int) /\ Len(<<a>>) = 1 /\ <<a>>[1] = a
    OBVIOUS
  <1>2. s \in Seq(Int) /\ Len(s) = 2 /\ s[1] = a /\ s[2] = b
    BY <1>1, AppendProperties
  <1>3. t \in Seq(Int) /\ Len(t) = 2 /\ t[1] = a /\ t[2] = b
    OBVIOUS
  <1>4. \A j \in 1 .. Len(s) : s[j] = t[j]
    BY <1>2, <1>3
  <1> HIDE DEF s, t
  <1>5. s = t
    BY <1>2, <1>3, <1>4, SeqEqual
  <1> QED
    BY <1>5 DEF s, t

LEMMA FirstMeasured ==
  IInv /\ queue # <<>> => Angle(1) \in Int /\ measured[1] \in Records
  <1> SUFFICES ASSUME IInv, queue # <<>>
               PROVE  Angle(1) \in Int /\ measured[1] \in Records
    OBVIOUS
  <1>1. measured[1] \in Records
    BY Measured DEF IInv, StreamTypes
  <1> QED
    BY <1>1, Settings DEF Angle, Records

LEMMA SendPartStep ==
  ASSUME IInv, SendChar, Sent.chars > 1
  PROVE  IInv'
  <1> USE DEF loopVars, servo, serial, history
  <1>1. /\ UNCHANGED <<loopVars, servo, aim, partial, shown, rising, measured>>
        /\ queue # <<>> /\ queue' = [queue EXCEPT ![1].chars = @ - 1]
    BY DEF SendChar
  <1>2. queue \in Seq(Tokens) /\ 1 \in 1 .. Len(queue)
    BY <1>1, HeadToken DEF IInv, StreamTypes
  <1>3. /\ queue' \in Seq(Tokens) /\ Len(queue') = Len(queue)
        /\ \A j \in 1 .. Len(queue) : /\ queue'[j].field = queue[j].field
                                      /\ queue'[j].value = queue[j].value
    <2> DEFINE t == [queue[1] EXCEPT !.chars = @ - 1]
    <2>1. queue[1] \in Tokens
      BY <1>2
    <2>2. t \in Tokens /\ t.field = queue[1].field /\ t.value = queue[1].value
      BY <2>1 DEF Tokens
    <2>3. queue' = [queue EXCEPT ![1] = t]
      BY <1>1
    <2>4. /\ queue' \in Seq(Tokens) /\ Len(queue') = Len(queue)
          /\ queue'[1] = t
          /\ \A j \in 1 .. Len(queue) : j # 1 => queue'[j] = queue[j]
      <3> HIDE DEF t
      <3> QED
        BY <1>2, <2>2, <2>3
    <2> QED
      BY <1>2, <2>2, <2>4
  <1>4. ServoTypes' /\ StreamTypes'
    BY <1>1, <1>3 DEF IInv, ServoTypes, StreamTypes
  <1>5. Read' = Read
    BY <1>1, <1>3 DEF Read
  <1>6. \A k, f : Place(k, f)' = Place(k, f)
    BY <1>5 DEF Place
  <1>7. \A k : Angle(k)' = Angle(k) /\ Rise(k)' = Rise(k)
    BY <1>1 DEF Angle, Rise
  <1>8. Partial' /\ Chain' /\ Aimed'
    BY <1>1, <1>5, <1>7 DEF IInv, Stream, Partial, Chain, Aimed
  <1>9. Queue'
    BY <1>1, <1>3, <1>6, <1>7 DEF IInv, Stream, Queue
  <1>10. Latest'
    BY <1>1, <1>7 DEF IInv, Stream, Latest, Moving, Printing
  <1>11. ~ FirstMove /\ ~ FirstMove'
    BY <1>1, Measured DEF FirstMove
  <1> QED
    BY <1>1, <1>4, <1>8, <1>9, <1>10, <1>11, SameServo DEF IInv, Stream

(* The last character of a field other than the dot. *)
LEMMA SendFieldStep ==
  ASSUME IInv, SendChar, ~ Sent.chars > 1, Sent.field # "dot"
  PROVE  IInv' /\ UNCHANGED <<shown, rising, measured>>
  <1> USE DEF loopVars, servo, serial, history
  <1>1. /\ UNCHANGED <<loopVars, servo, aim, shown, rising, measured>>
        /\ queue # <<>> /\ queue' = Tail(queue)
        /\ partial' = IF Sent.field = "comma" THEN partial
                      ELSE Append(partial, Sent.value)
    BY DEF SendChar, HostReads
  <1>2. PICK q \in Nat : q = Len(queue)
    BY Lengths
  <1>3. /\ q >= 1 /\ queue' \in Seq(Tokens) /\ Len(queue') = q - 1
        /\ \A j \in 1 .. q - 1 : queue'[j] = queue[j + 1]
    BY <1>1, <1>2, HeadToken, HeadTailProperties DEF IInv, StreamTypes
  <1>4. /\ Sent \in Tokens /\ Sent.field = Field[Read + 1]
        /\ Read = 0 => Sent.value = Angle(1)
        /\ Read = 2 => Sent.value = measured[1].distance
    BY <1>1, HeadToken DEF Sent
  <1>5. Read \in 0 .. 2 /\ (Sent.field = "comma" <=> Read = 1)
    BY <1>4, Lengths DEF Field
  <1>6. Read' = Read + 1
    BY <1>1, <1>2, <1>3, Lengths DEF Read
  <1>7. \A k : Angle(k)' = Angle(k) /\ Rise(k)' = Rise(k)
    BY <1>1 DEF Angle, Rise
  <1>8. ServoTypes' /\ StreamTypes'
    <2>1. partial' \in Seq(Int)
      BY <1>1, <1>4, AppendProperties DEF IInv, StreamTypes, Tokens
    <2> QED
      BY <1>1, <1>3, <2>1 DEF IInv, ServoTypes, StreamTypes
  <1>9. Partial'
    <2>1. partial = CASE Read = 0 -> <<>>
                      [] Read \in {1, 2} -> <<Angle(1)>>
                      [] OTHER -> <<Angle(1), measured[1].distance>>
      BY DEF IInv, Stream, Partial
    <2>2. CASE Read = 0
      BY <1>1, <1>4, <1>5, <1>6, <1>7, <2>1, <2>2 DEF Partial
    <2>3. CASE Read = 1
      BY <1>1, <1>5, <1>6, <1>7, <2>1, <2>3 DEF Partial
    <2>4. CASE Read = 2
      <3>1. partial = <<Angle(1)>> /\ Sent.field # "comma"
        BY <1>5, <2>1, <2>4
      <3>2. partial' = <<Angle(1), measured[1].distance>>
        <4>1. partial' = Append(partial, measured[1].distance)
          BY <1>1, <1>4, <2>4, <3>1
        <4>3. Angle(1) \in Int /\ measured[1].distance \in Int
          BY <1>1, FirstMeasured DEF Records
        <4> QED
          BY <3>1, <4>1, <4>3, PairIs
      <3>3. Read' = 3
        BY <1>6, <2>4
      <3>4. Angle(1)' = Angle(1) /\ measured' = measured
        BY <1>1, <1>7
      <3> QED
        BY <3>2, <3>3, <3>4 DEF Partial
    <2> QED
      BY <1>5, <2>2, <2>3, <2>4
  <1>10. Queue'
    <2> SUFFICES ASSUME NEW k \in 1 .. Len(measured), NEW f \in 0 .. 3,
                        Place(k, f)' \in 1 .. q - 1
                 PROVE  LET token == queue'[Place(k, f)']
                        IN  /\ token.field = Field[f + 1]
                            /\ f = 0 => token.value = Angle(k)
                            /\ f = 2 => token.value = measured[k].distance
      BY <1>1, <1>3, <1>7 DEF Queue
    <2>1. Place(k, f) = Place(k, f)' + 1 /\ Place(k, f) \in 1 .. q
      BY <1>2, <1>5, <1>6, Lengths DEF Place
    <2>2. queue'[Place(k, f)'] = queue[Place(k, f)]
      BY <1>3, <2>1
    <2> QED
      BY <1>2, <2>1, <2>2 DEF IInv, Stream, Queue
  <1>11. Chain' /\ Aimed'
    BY <1>1, <1>7 DEF IInv, Stream, Chain, Aimed
  <1>12. Latest'
    BY <1>1, <1>7 DEF IInv, Stream, Latest, Moving, Printing
  <1>13. ~ FirstMove /\ ~ FirstMove'
    BY <1>1, Measured DEF FirstMove
  <1> QED
    BY <1>1, <1>8, <1>9, <1>10, <1>11, <1>12, <1>13, SameServo DEF IInv, Stream

(* The dot, with which the host has a report: that of the first measurement *)
(* it did not have.                                                        *)
LEMMA Reported ==
  ASSUME IInv, SendChar, ~ Sent.chars > 1, Sent.field = "dot"
  PROVE  /\ UNCHANGED <<loopVars, servo, aim>>
         /\ queue # <<>> /\ queue' = Tail(queue) /\ Len(measured) >= 1
         /\ Read = 3 /\ partial' = <<>>
         /\ shown' = <<Angle(1), measured[1].distance>>
         /\ rising' = measured[1].up /\ measured' = Tail(measured)
  <1>1. /\ UNCHANGED <<loopVars, servo, aim>>
        /\ queue # <<>> /\ queue' = Tail(queue)
        /\ shown' = partial /\ partial' = <<>>
        /\ rising' = Head(measured).up /\ measured' = Tail(measured)
    BY DEF SendChar, HostReads
  <1>2. Sent.field = Field[Read + 1]
    BY <1>1, HeadToken DEF Sent
  <1>3. Read = 3
    BY <1>2, Lengths DEF Field
  <1>4. partial = <<Angle(1), measured[1].distance>>
    BY <1>3 DEF IInv, Stream, Partial
  <1>5. Len(measured) >= 1 /\ Head(measured) = measured[1]
    BY <1>1, Measured DEF IInv, StreamTypes
  <1> QED
    BY <1>1, <1>3, <1>4, <1>5

LEMMA SendDotStep ==
  ASSUME IInv, SendChar, ~ Sent.chars > 1, Sent.field = "dot"
  PROVE  IInv'
  <1> USE DEF loopVars, servo
  <1>1. /\ UNCHANGED <<loopVars, servo, aim>>
        /\ queue # <<>> /\ queue' = Tail(queue) /\ Len(measured) >= 1
        /\ Read = 3 /\ partial' = <<>>
        /\ shown' = <<Angle(1), measured[1].distance>>
        /\ rising' = measured[1].up /\ measured' = Tail(measured)
    BY Reported
  <1>2. PICK q \in Nat : q = Len(queue)
    BY Lengths
  <1>3. PICK n \in Nat : n = Len(measured)
    BY Lengths
  <1>4. /\ q >= 1 /\ queue' \in Seq(Tokens) /\ Len(queue') = q - 1
        /\ \A j \in 1 .. q - 1 : queue'[j] = queue[j + 1]
    BY <1>1, <1>2, HeadToken, HeadTailProperties DEF IInv, StreamTypes
  <1>5. /\ n >= 1 /\ measured' \in Seq(Records) /\ Len(measured') = n - 1
        /\ \A k \in 1 .. n - 1 : measured'[k] = measured[k + 1]
    <2>1. measured # <<>> /\ measured \in Seq(Records)
      BY <1>1 DEF IInv, StreamTypes
    <2> QED
      BY <1>1, <1>3, <2>1, HeadTailProperties
  <1>6. Angle(1) \in Int /\ measured[1] \in Records
    BY <1>1, FirstMeasured
  <1>7. ServoTypes' /\ StreamTypes'
    <2>1. shown' \in Seq(Int) /\ rising' \in BOOLEAN
      BY <1>1, <1>6 DEF Records
    <2> QED
      BY <1>1, <1>4, <1>5, <2>1 DEF IInv, ServoTypes, StreamTypes
  <1>8. \A k \in 0 .. n - 1 : Angle(k)' = Angle(k + 1) /\ Rise(k)' = Rise(k + 1)
    <2> SUFFICES ASSUME NEW k \in 0 .. n - 1
                 PROVE  Angle(k)' = Angle(k + 1) /\ Rise(k)' = Rise(k + 1)
      OBVIOUS
    <2>1. CASE k = 0
      BY <1>1, <2>1 DEF Angle, Rise
    <2>2. CASE k \in 1 .. n - 1
      BY <1>1, <1>3, <1>5, <2>2 DEF Angle, Rise
    <2> QED
      BY <1>3, <2>1, <2>2
  <1>9. Read' = 0
    <2>1. Printed(pc) \in Int /\ Printed(pc') = Printed(pc)
      BY <1>1, Lengths
    <2>2. 3 = 4 * (n - 1) + Printed(pc) - q
      BY <1>1, <1>2, <1>3 DEF Read
    <2>3. Read' = 4 * ((n - 1) - 1) + Printed(pc) - (q - 1)
      BY <1>4, <1>5, <2>1 DEF Read
    <2> QED
      BY <1>2, <1>3, <2>1, <2>2, <2>3
  <1>10. Partial'
    BY <1>1, <1>9 DEF Partial
  <1>11. Queue'
    <2> SUFFICES ASSUME NEW k \in 1 .. n - 1, NEW f \in 0 .. 3,
                        Place(k, f)' \in 1 .. q - 1
                 PROVE  LET token == queue'[Place(k, f)']
                        IN  /\ token.field = Field[f + 1]
                            /\ f = 0 => token.value = Angle(k)'
                            /\ f = 2 => token.value = measured'[k].distance
      BY <1>4, <1>5 DEF Queue
    <2>1. /\ Place(k + 1, f) = Place(k, f)' + 1 /\ Place(k + 1, f) \in 1 .. q
          /\ k + 1 \in 1 .. n /\ k \in 0 .. n - 1
      BY <1>1, <1>2, <1>3, <1>9 DEF Place
    <2>2. queue'[Place(k, f)'] = queue[Place(k + 1, f)]
      BY <1>4, <2>1
    <2>3. Angle(k)' = Angle(k + 1) /\ measured'[k] = measured[k + 1]
      BY <1>5, <1>8, <2>1
    <2> QED
      BY <1>2, <1>3, <2>1, <2>2, <2>3 DEF IInv, Stream, Queue
  <1>12. Chain'
    <2> SUFFICES ASSUME NEW k \in 1 .. n - 1
                 PROVE  Follows(Angle(k - 1)', Rise(k - 1)', Angle(k)', Rise(k)')
      BY <1>5 DEF Chain
    <2>1. k - 1 \in 0 .. n - 1 /\ k \in 0 .. n - 1 /\ k + 1 \in 1 .. n
          /\ (k - 1) + 1 = k /\ (k + 1) - 1 = k
      BY <1>3
    <2>2. Follows(Angle(k), Rise(k), Angle(k + 1), Rise(k + 1))
      BY <1>3, <2>1 DEF IInv, Stream, Chain
    <2>3. /\ Angle(k - 1)' = Angle(k) /\ Rise(k - 1)' = Rise(k)
          /\ Angle(k)' = Angle(k + 1) /\ Rise(k)' = Rise(k + 1)
      BY <1>8, <2>1
    <2> QED
      BY <2>2, <2>3
  <1>13. Aimed'
    <2> SUFFICES ASSUME NEW k \in 1 .. n - 1
                 PROVE  measured'[k].from = measured'[k].to
      BY <1>5 DEF Aimed
    <2>1. k + 1 \in 1 .. n /\ k + 1 # 1
      BY <1>3
    <2> QED
      BY <1>3, <1>5, <2>1 DEF IInv, Stream, Aimed
  <1>14. Latest'
    <2>1. n - 1 \in 0 .. n - 1 /\ (n - 1) + 1 = n
      BY <1>3, <1>5
    <2>2. Angle(n - 1)' = Angle(n) /\ Rise(n - 1)' = Rise(n)
      BY <1>8, <2>1
    <2>3. shown' # <<>>
      BY <1>1
    <2>4. Printing => n - 1 >= 1
      BY <1>1, <1>2, <1>3, <1>4, Lengths DEF Read
    <2>5. Printing => measured'[n - 1].distance = measured[n].distance
      BY <1>3, <1>5, <2>1, <2>4
    <2> QED
      BY <1>1, <1>3, <1>5, <2>2, <2>3, <2>5
         DEF IInv, Stream, Latest, Moving, Printing
  <1>15. ~ FirstMove /\ ~ FirstMove'
    BY <1>1, Measured DEF FirstMove
  <1> QED
    BY <1>1, <1>7, <1>10, <1>11, <1>12, <1>13, <1>14, <1>15, SameServo
       DEF IInv, Stream

-----------------------------------------------------------------------------
(* The theorems.                                                           *)

LEMMA StepKeeps == IInv /\ [Next]_vars => IInv'
  <1> SUFFICES ASSUME IInv, [Next]_vars PROVE IInv'
    OBVIOUS
  <1>1. CASE Sketch
    BY <1>1, WriteServoStep, TriggerStep, PulseInReturnStep, PrintFieldStep,
       NextAngleStep DEF Sketch
  <1>2. CASE Interrupts
    BY <1>2, InterruptStep
  <1>3. CASE SendChar
    BY <1>3, SendPartStep, SendFieldStep, SendDotStep
  <1>4. CASE Elapse
    BY <1>4, ElapseStep
  <1>5. CASE UNCHANGED vars
    <2>1. UNCHANGED <<pc, up, i, wait, duration, distance, commanded, phase, timer,
                      pulse, position, queue, queued, line, partial, shown,
                      rising, aim, measured>>
      BY <1>5 DEF vars, loopVars, servo, serial, history
    <2>2. ServoTypes' /\ StreamTypes' /\ FirstMove' = FirstMove
          /\ Moving' = Moving /\ Printing' = Printing /\ Printed(pc') = Printed(pc)
      BY <2>1
         DEF IInv, ServoTypes, StreamTypes, FirstMove, Moving, Printing, Printed
    <2>3. Stream'
      BY <2>1, <2>2, SameStream DEF IInv
    <2>4. Settled' = Settled /\ Settling' = Settling
      BY <2>1 DEF Settled, Settling
    <2>5. Frame' /\ Pointed'
      BY <2>1, <2>2, <2>4 DEF IInv, Frame, Pointed
    <2> QED
      BY <2>2, <2>3, <2>5 DEF IInv
  <1> QED
    BY <1>1, <1>2, <1>3, <1>4, <1>5 DEF Next

(* IInv holds in every reachable state. *)
THEOREM Inductive == Spec => []IInv
  BY Starts, StepKeeps, PTL DEF Spec

(* Only the dot of a record changes what the host has.                     *)
LEMMA OnlyDots ==
  ASSUME IInv, [Next]_vars,
         ~ UNCHANGED <<shown, rising>> \/ Len(measured') < Len(measured)
  PROVE  SendChar /\ ~ Sent.chars > 1 /\ Sent.field = "dot"
  <1> USE DEF serial, history, loopVars, servo
  <1>1. CASE PulseInReturn
    BY <1>1, AppendProperties DEF IInv, ServoTypes, StreamTypes, PulseInReturn
  <1>2. CASE WriteServo \/ Trigger \/ PrintField \/ NextAngle \/ Interrupts
             \/ Elapse \/ UNCHANGED vars
    BY <1>2 DEF WriteServo, Trigger, PrintField, NextAngle, Interrupts,
                FirstInterrupt, StartPulse, EndPulse, Elapse, vars
  <1>3. CASE SendChar
    <2>1. CASE Sent.chars > 1
      BY <1>3, <2>1, Lengths DEF SendChar
    <2>2. CASE ~ Sent.chars > 1 /\ Sent.field # "dot"
      BY <1>3, <2>2, SendFieldStep, Lengths
    <2> QED
      BY <1>3, <2>1, <2>2
  <1> QED
    BY <1>1, <1>2, <1>3 DEF Next, Sketch

(* Every report but the first has the angle at which the servo pointed while *)
(* its echo was timed, and the distance of that echo, whatever the angles,   *)
(* the echoes, the timeout and the capacity of the line are.                *)
THEOREM RecordsTruthfulCorrect == Spec => RecordsTruthful
  <1>1. IInv /\ [Next]_vars => [Received /\ shown # <<>> => Truthful]_vars
    <2> SUFFICES ASSUME IInv, [Next]_vars, Received, shown # <<>>
                 PROVE  Truthful
      OBVIOUS
    <2>1. SendChar /\ ~ Sent.chars > 1 /\ Sent.field = "dot"
      BY OnlyDots DEF Received
    <2>2. /\ Len(measured) >= 1
          /\ shown' = <<Angle(1), measured[1].distance>>
      BY <2>1, Reported
    <2>3. Head(measured) = measured[1] /\ 1 \in 1 .. Len(measured)
      BY <2>2 DEF IInv, StreamTypes
    <2>4. measured[1].from = measured[1].to
      BY <2>3 DEF IInv, Stream, Aimed
    <2>5. Angle(1) = measured[1].from
      BY DEF Angle
    <2> QED
      BY <2>2, <2>3, <2>4, <2>5 DEF Truthful
  <1> QED
    BY <1>1, Inductive, PTL DEF RecordsTruthful, Spec

(* What the host is shown is a sweep: the angles and directions of the       *)
(* reports are a behaviour of Sweep, its fairness apart.                    *)
THEOREM SweepSafety ==
  Spec => Swept!Init /\ [][Swept!Up \/ Swept!Turn \/ Swept!Down]_(Swept!vars)
  <1>1. Init => Swept!Init
    BY DEF Init, Swept!Init
  <1>2. IInv /\ [Next]_vars =>
          [Swept!Up \/ Swept!Turn \/ Swept!Down]_(Swept!vars)
    <2> SUFFICES ASSUME IInv, [Next]_vars, ~ UNCHANGED <<shown, rising>>
                 PROVE  Swept!Up \/ Swept!Turn \/ Swept!Down
      BY DEF Swept!vars
    <2>1. SendChar /\ ~ Sent.chars > 1 /\ Sent.field = "dot"
      BY OnlyDots
    <2>2. /\ Len(measured) >= 1 /\ rising' = measured[1].up
          /\ shown' = <<Angle(1), measured[1].distance>>
      BY <2>1, Reported
    <2>3. Follows(Angle(0), Rise(0), Angle(1), Rise(1))
      BY <2>2, Lengths DEF IInv, Stream, Chain
    <2>4. rising' \in BOOLEAN /\ rising \in BOOLEAN
      BY <2>1, StepKeeps DEF IInv, StreamTypes
    <2>5. Follows(IF shown = <<>> THEN FirstAngle - 1 ELSE shown[1], rising,
                  shown'[1], rising')
      BY <2>2, <2>3 DEF Angle, Rise
    <2>6. shown' # <<>>
      BY <2>2
    <2> QED
      BY <2>4, <2>5, <2>6 DEF Follows, Swept!Up, Swept!Turn, Swept!Down
  <1> QED
    BY <1>1, <1>2, Inductive, PTL DEF Spec

-----------------------------------------------------------------------------
(* The line: the characters of at most one record, which leave it within    *)
(* the delay before the next one.                                          *)

Left(k) == IF k <= Len(queue) THEN queue[k].chars ELSE 0

MostQueued ==
  CASE pc = "angle" -> 0 [] pc = "comma" -> 5 [] pc = "distance" -> 6
    [] pc = "dot" -> 11 [] OTHER -> 12

(* How long it takes at most until the line is empty. *)
Backlog == line + 2 * (queued - 1)

Characters ==
  /\ line \in 0 .. 2 /\ queued \in Int /\ queued <= MostQueued
  /\ Len(queue) <= Printed(pc)
  /\ queued = Left(1) + Left(2) + Left(3) + Left(4)
  /\ \A k \in 1 .. Len(queue) : queue[k].chars >= 1

Drained ==
  /\ pc = "delay" => queue = <<>> \/ Backlog < wait
  /\ pc \in {"pulseIn", "angle"} => queue = <<>>

Known == {Unknown} \union Angles

Bounded ==
  /\ commanded \in Known /\ position \in Known /\ aim \in Known
  /\ pulse.angle \in Known
  /\ wait <= Timeout + Settle
  /\ duration \in Echoes \union {NoEcho}
  /\ distance \in 0 .. MaxInt
  /\ queued <= Capacity /\ (shown = <<>> \/ Len(shown) = 2)

LineInv == Characters /\ Drained /\ Bounded

LEMMA TokensType ==
  IInv => /\ queue \in Seq(Tokens)
          /\ \A k \in 1 .. Len(queue) :
               queue[k] \in Tokens /\ queue[k].chars \in Int
  <1> SUFFICES ASSUME IInv
               PROVE  /\ queue \in Seq(Tokens)
                      /\ \A k \in 1 .. Len(queue) :
                           queue[k] \in Tokens /\ queue[k].chars \in Int
    OBVIOUS
  <1>1. queue \in Seq(Tokens)
    BY DEF IInv, StreamTypes
  <1>2. \A k \in 1 .. Len(queue) : queue[k] \in Tokens
    BY <1>1, ElementOfSeq
  <1>3. \A t \in Tokens : t.chars \in Int
    BY DEF Tokens
  <1> QED
    BY <1>1, <1>2, <1>3

LEMMA QueuedType ==
  IInv /\ Characters =>
    /\ Len(queue) \in 0 .. 4 /\ Len(queue) <= queued
    /\ queue = <<>> => queued = 0
  <1> SUFFICES ASSUME IInv, Characters
               PROVE  /\ Len(queue) \in 0 .. 4 /\ Len(queue) <= queued
                      /\ queue = <<>> => queued = 0
    OBVIOUS
  <1>1. PICK n \in Nat : n = Len(queue)
    BY Lengths
  <1>2. /\ n \in 0 .. 4
        /\ \A k \in 1 .. n : queue[k].chars \in Int /\ queue[k].chars >= 1
    <2>1. n <= Printed(pc) /\ Printed(pc) \in 0 .. 4
      BY <1>1, Lengths DEF Characters
    <2>2. \A k \in 1 .. n : queue[k].chars \in Int
      BY <1>1, TokensType
    <2>3. \A k \in 1 .. n : queue[k].chars >= 1
      BY <1>1 DEF Characters
    <2> QED
      BY <2>1, <2>2, <2>3
  <1>3. \A k \in 1 .. 4 : Left(k) \in Int /\ Left(k) >= IF k <= n THEN 1 ELSE 0
    BY <1>1, <1>2 DEF Left
  <1>4. n <= queued
    BY <1>2, <1>3 DEF Characters
  <1>5. queue = <<>> => queued = 0
    BY <1>1 DEF Characters, Left
  <1> QED
    BY <1>1, <1>2, <1>4, <1>5

LEMMA LineStarts == Init => LineInv
  <1> SUFFICES ASSUME Init PROVE LineInv
    OBVIOUS
  <1>1. queue = <<>> /\ Len(queue) = 0 /\ queued = 0 /\ line = 0 /\ pc = "write"
    BY DEF Init
  <1>2. Characters /\ Drained
    BY <1>1 DEF Characters, Drained, Left, MostQueued, Printed
  <1>3. MaxInt \in Nat
    BY DEF MaxInt
  <1>4. Bounded
    BY <1>1, <1>3, RadarAssumption
       DEF Init, Bounded, RadarAssumption, Settle, NoEcho, Known, Angles, Unknown
  <1> QED
    BY <1>2, <1>4 DEF LineInv

(* calculateDistance() of an echo that pulseIn() can give fits an int. *)
LEMMA DistanceFits ==
  \A d \in Echoes \union {NoEcho} :
    /\ (d * 17) \div 1000 \in 0 .. MaxInt
    /\ \A w \in PulseInTimes(d) : w \in Nat /\ w <= Timeout + 1
  <1> TAKE d \in Echoes \union {NoEcho}
  <1>1. /\ d \in Nat /\ d <= 554646 /\ Timeout \in Nat
        /\ (d = NoEcho \/ d < 1000 * Timeout)
    BY RadarAssumption DEF RadarAssumption, LongestEcho, NoEcho
  <1>2. (d * 17) \div 1000 \in 0 .. MaxInt
    <2>1. PICK p \in Nat : p = d * 17
      BY <1>1
    <2>2. p <= 9428982
      BY <1>1, <2>1
    <2>3. p \div 1000 \in Nat /\ p \div 1000 <= 32767
      BY <2>2
    <2>4. \A m \in Nat : p \div 1000 <= m => p \div 1000 \in 0 .. m
      BY <2>3
    <2>5. MaxInt \in Nat /\ p \div 1000 <= MaxInt
      BY <2>3 DEF MaxInt
    <2> QED
      BY <2>1, <2>4, <2>5
  <1>3. ASSUME NEW w \in PulseInTimes(d) PROVE w \in Nat /\ w <= Timeout + 1
    <2>1. CASE d = NoEcho
      BY <1>1, <1>3, <2>1 DEF PulseInTimes
    <2>2. CASE d # NoEcho
      <3>1. w \in d \div 1000 + 1 .. d \div 1000 + 2
        BY <1>3, <2>2 DEF PulseInTimes
      <3>2. d \div 1000 + 2 <= Timeout + 1
        BY <1>1, <2>2
      <3> QED
        BY <1>1, <3>1, <3>2
    <2> QED
      BY <2>1, <2>2
  <1> QED
    BY <1>2, <1>3

(* Steps that leave the line alone. *)
LEMMA SameCharacters ==
  ASSUME IInv, Characters, UNCHANGED <<queue, queued, line>>,
         MostQueued <= MostQueued', Printed(pc) <= Printed(pc')
  PROVE  Characters'
  <1>1. \A k : Left(k)' = Left(k)
    BY DEF Left
  <1>2. Len(queue)' <= Printed(pc')
    <2>1. Printed(pc) \in Int /\ Printed(pc') \in Int /\ Len(queue) \in Int
      BY Lengths DEF Printed
    <2> QED
      BY <2>1 DEF Characters
  <1>3. queued' <= MostQueued'
    <2>1. MostQueued \in Int /\ MostQueued' \in Int
      BY DEF MostQueued
    <2> QED
      BY <2>1 DEF Characters
  <1> QED
    BY <1>1, <1>2, <1>3 DEF Characters

LEMMA LineSketchStep ==
  ASSUME IInv, LineInv, WriteServo \/ Trigger \/ PulseInReturn \/ NextAngle
  PROVE  LineInv'
  <1>1. UNCHANGED <<queue, queued, line, shown>>
    BY DEF WriteServo, Trigger, PulseInReturn, NextAngle, serial
  <1>2. Characters /\ Drained /\ Bounded
    BY DEF LineInv
  <1>3. /\ Len(queue) \in 0 .. 4 /\ Len(queue) <= queued
        /\ queue = <<>> => queued = 0
    BY <1>2, QueuedType
  <1>4. CASE WriteServo
    <2>1. pc = "write" /\ pc' = "delay" /\ wait' = Settle
      BY <1>4 DEF WriteServo
    <2>2. Characters'
      BY <1>1, <1>2, <2>1, SameCharacters DEF MostQueued, Printed
    <2>3. Backlog' <= 24 /\ Settle = 30
      BY <1>1, <1>2, <2>1 DEF Backlog, Characters, MostQueued, Settle
    <2>4. Drained'
      BY <1>1, <1>2, <2>1, <2>3 DEF Drained, Backlog, Characters
    <2>5. Bounded'
      <3>1. commanded' \in Known /\ wait' <= Timeout + Settle
        BY <1>4, <2>1, Settings DEF WriteServo, Known, IInv, StreamTypes
      <3>2. UNCHANGED <<duration, distance, position, aim, pulse>>
        BY <1>4 DEF WriteServo, history
      <3> QED
        BY <1>1, <1>2, <3>1, <3>2
           DEF Bounded, Known, Angles, Unknown, Settle, NoEcho
    <2> QED
      BY <2>2, <2>4, <2>5 DEF LineInv
  <1>5. CASE Trigger
    <2>1. pc = "delay" /\ pc' = "pulseIn" /\ wait = 0 /\ aim' = position
      BY <1>5 DEF Trigger
    <2>2. Characters'
      BY <1>1, <1>2, <2>1, SameCharacters DEF MostQueued, Printed
    <2>3. Drained'
      BY <1>1, <1>2, <1>3, <2>1 DEF Drained, Backlog, Characters
    <2>4. duration' \in Echoes \union {NoEcho} /\ wait' <= Timeout + Settle
      <3>1. duration' \in Echoes \union {NoEcho} /\ wait' \in PulseInTimes(duration')
        BY <1>5 DEF Trigger
      <3>2. wait' <= Timeout + 1 /\ wait' \in Nat
        BY <3>1, DistanceFits, Settings
      <3> QED
        BY <3>1, <3>2, Settings
    <2>5. Bounded'
      <3>1. UNCHANGED <<distance, commanded, position, pulse>>
        BY <1>5 DEF Trigger, servo
      <3> QED
        BY <1>1, <1>2, <2>1, <2>4, <3>1
           DEF Bounded, Known, Angles, Unknown, Settle, NoEcho
    <2> QED
      BY <2>2, <2>3, <2>5 DEF LineInv
  <1>6. CASE PulseInReturn
    <2>1. /\ pc = "pulseIn" /\ pc' = "angle"
          /\ UNCHANGED <<wait, duration, commanded, position, aim, pulse>>
      BY <1>6 DEF PulseInReturn, servo
    <2>2. queue = <<>> /\ queued = 0 /\ Len(queue) = 0
      BY <1>2, <1>3, <2>1 DEF Drained
    <2>3. Characters'
      BY <1>1, <1>2, <2>1, <2>2 DEF Characters, MostQueued, Printed, Left
    <2>4. Drained'
      BY <1>1, <2>1, <2>2 DEF Drained
    <2>5. distance' \in 0 .. MaxInt
      <3>1. distance' = (duration * 17) \div 1000
        BY <1>6 DEF PulseInReturn, calculateDistance
      <3>2. duration \in Echoes \union {NoEcho}
        BY <1>2 DEF Bounded, Known, Angles, Unknown, Settle, NoEcho
      <3> QED
        BY <3>1, <3>2, DistanceFits
    <2>6. Bounded'
      BY <1>1, <1>2, <2>1, <2>5 DEF Bounded, Known, Angles, Unknown, Settle, NoEcho
    <2> QED
      BY <2>3, <2>4, <2>6 DEF LineInv
  <1>7. CASE NextAngle
    <2>1. /\ pc = "next" /\ pc' = "write"
          /\ UNCHANGED <<wait, duration, distance, commanded, position, aim, pulse>>
      BY <1>7 DEF NextAngle, servo, history
    <2>2. Characters'
      BY <1>1, <1>2, <2>1, SameCharacters DEF MostQueued, Printed
    <2>3. Drained' /\ Bounded'
      BY <1>1, <1>2, <2>1
         DEF Drained, Bounded, Known, Angles, Unknown, Settle, NoEcho
    <2> QED
      BY <2>2, <2>3 DEF LineInv
  <1> QED
    BY <1>4, <1>5, <1>6, <1>7

(* A field joins the line, if there is room for it. *)
LEMMA LinePrintStep ==
  ASSUME IInv, LineInv, PrintField
  PROVE  LineInv'
  <1> DEFINE token == [field |-> pc, value |-> Value(pc), chars |-> Chars(pc)]
  <1>1. PICK n \in Nat : n = Len(queue)
    BY Lengths
  <1>2. /\ Printing /\ queue' = Append(queue, token) /\ pc' = After(pc)
        /\ queued' = queued + Chars(pc) /\ queued + Chars(pc) <= Capacity
        /\ UNCHANGED <<wait, duration, distance, commanded, position, aim, pulse,
                       shown>>
        /\ line' \in CharTimes \/ line' = line
    BY DEF PrintField, HasRoom, servo, history
  <1>3. Chars(pc) \in Int /\ Chars(pc) >= 1
        /\ Chars(pc) <= IF pc \in {"angle", "distance"} THEN 5 ELSE 1
    <2>1. i \in Int /\ distance \in Int
      BY AngleType DEF IInv, StreamTypes
    <2>2. Digits(i) \in 1 .. 5 /\ Digits(distance) \in 1 .. 5
      BY <2>1, DigitsType
    <2> QED
      BY <1>2, <2>2 DEF Chars, Printing
  <1>4. Characters /\ Drained /\ Bounded
    BY DEF LineInv
  <1>5. n <= Printed(pc) /\ n \in 0 .. 3 /\ Printed(pc') = Printed(pc) + 1
    BY <1>1, <1>2, <1>4 DEF Characters, Printed, Printing, After
  <1>6. /\ Len(queue') = n + 1 /\ queue'[n + 1].chars = Chars(pc)
        /\ \A k \in 1 .. n : queue'[k] = queue[k]
    <2>1. queue \in Seq(Tokens) /\ token \in Tokens
      <3>1. Value(pc) \in Int
        BY AngleType DEF Value, IInv, StreamTypes
      <3> QED
        BY <1>2, <1>3, <3>1 DEF IInv, StreamTypes, Tokens, Printing
    <2>2. token.chars = Chars(pc)
      OBVIOUS
    <2> HIDE DEF token
    <2> QED
      BY <1>1, <1>2, <2>1, <2>2, AppendProperties
  <1>7. \A k \in 1 .. 4 : Left(k)' = IF k = n + 1 THEN Chars(pc) ELSE Left(k)
    BY <1>1, <1>5, <1>6 DEF Left
  <1>8. Left(n + 1) = 0 /\ \A k \in 1 .. 4 : Left(k) \in Int
    BY <1>1, <1>5, TokensType DEF Left
  <1>9. Characters'
    <2>1. queued' = Left(1)' + Left(2)' + Left(3)' + Left(4)'
      <3>1. queued = Left(1) + Left(2) + Left(3) + Left(4)
        BY <1>4 DEF Characters
      <3>2. Left(n + 1)' = Left(n + 1) + Chars(pc)
        BY <1>3, <1>5, <1>7, <1>8
      <3>3. \A k \in 1 .. 4 : k # n + 1 => Left(k)' = Left(k)
        BY <1>7
      <3>4. /\ Left(1) \in Int /\ Left(2) \in Int /\ Left(3) \in Int
            /\ Left(4) \in Int /\ queued' = queued + Chars(pc)
        BY <1>2, <1>8
      <3>5. CASE n = 0
        BY <1>3, <3>1, <3>2, <3>3, <3>4, <3>5
      <3>6. CASE n = 1
        BY <1>3, <3>1, <3>2, <3>3, <3>4, <3>6
      <3>7. CASE n = 2
        BY <1>3, <3>1, <3>2, <3>3, <3>4, <3>7
      <3>8. CASE n = 3
        BY <1>3, <3>1, <3>2, <3>3, <3>4, <3>8
      <3> QED
        BY <1>5, <3>5, <3>6, <3>7, <3>8
    <2>2. \A k \in 1 .. Len(queue') : queue'[k].chars >= 1
      BY <1>1, <1>3, <1>4, <1>6 DEF Characters
    <2>3. queued' \in Int /\ queued' <= MostQueued'
      BY <1>2, <1>3, <1>4 DEF Characters, MostQueued, Printing, After
    <2>4. line' \in 0 .. 2
      BY <1>2, <1>4 DEF Characters, CharTimes
    <2>5. Len(queue') <= Printed(pc')
      BY <1>5, <1>6, Lengths
    <2> QED
      BY <2>1, <2>2, <2>3, <2>4, <2>5 DEF Characters
  <1>10. Drained'
    BY <1>2 DEF Drained, Printing, After
  <1>11. Bounded'
    BY <1>2, <1>4 DEF Bounded, Known, Angles, Unknown, Settle, NoEcho
  <1> QED
    BY <1>9, <1>10, <1>11 DEF LineInv

LEMMA LineServoStep ==
  ASSUME IInv, LineInv, Interrupts
  PROVE  LineInv'
  <1>1. UNCHANGED <<pc, wait, duration, distance, commanded, aim, queue, queued,
                    line, shown>>
    BY DEF Interrupts, FirstInterrupt, StartPulse, EndPulse, loopVars, serial,
           history
  <1>2. Characters'
    BY <1>1 DEF LineInv, Characters, Left, MostQueued, Printed
  <1>3. Drained'
    BY <1>1 DEF LineInv, Drained, Backlog
  <1>4. Bounded'
    <2>1. Bounded
      BY DEF LineInv
    <2>2. pulse'.angle \in Known /\ position' \in Known
      <3>1. CASE FirstInterrupt
        BY <2>1, <3>1
           DEF FirstInterrupt, Bounded, Known, Angles, Unknown,
               Settle, NoEcho
      <3>2. CASE StartPulse
        BY <2>1, <3>2
           DEF StartPulse, Bounded, Known, Angles, Unknown, Settle,
               NoEcho
      <3>3. CASE EndPulse
        BY <2>1, <3>3 DEF EndPulse, Bounded, Known, Angles, Unknown, Settle, NoEcho
      <3> QED
        BY <3>1, <3>2, <3>3 DEF Interrupts
    <2> QED
      BY <1>1, <2>1, <2>2 DEF Bounded, Known, Angles, Unknown, Settle, NoEcho
  <1> QED
    BY <1>2, <1>3, <1>4 DEF LineInv

(* A character leaves the line. *)
LEMMA LineSendStep ==
  ASSUME IInv, LineInv, SendChar
  PROVE  LineInv'
  <1>1. PICK n \in Nat : n = Len(queue)
    BY Lengths
  <1>2. /\ queue # <<>> /\ line = 0 /\ queued' = queued - 1
        /\ line' = 0 \/ line' \in CharTimes
        /\ UNCHANGED <<pc, wait, duration, distance, commanded, position, aim,
                       pulse>>
    BY DEF SendChar, loopVars, servo
  <1>3. Characters /\ Drained /\ Bounded
    BY DEF LineInv
  <1>4. /\ n \in 1 .. 4 /\ n <= queued /\ queue \in Seq(Tokens)
        /\ \A k \in 1 .. n : queue[k].chars \in Int /\ queue[k].chars >= 1
    BY <1>1, <1>2, <1>3, QueuedType, TokensType DEF Characters
  <1>5. Sent = queue[1]
    BY <1>1, <1>4 DEF Sent
  <1>6. queued = Left(1) + Left(2) + Left(3) + Left(4)
        /\ \A k \in 1 .. 4 : Left(k) = IF k <= n THEN queue[k].chars ELSE 0
    BY <1>1, <1>3 DEF Characters, Left
  <1>7. /\ Len(queue') <= n
        /\ \A k \in 1 .. Len(queue') : queue'[k].chars >= 1
        /\ queued' = Left(1)' + Left(2)' + Left(3)' + Left(4)'
    <2>1. CASE Sent.chars > 1
      <3>1. queue' = [queue EXCEPT ![1].chars = @ - 1]
        BY <2>1 DEF SendChar
      <3>2. /\ Len(queue') = n
            /\ \A k \in 1 .. n :
                 queue'[k].chars =
                   IF k = 1 THEN queue[k].chars - 1 ELSE queue[k].chars
        BY <1>1, <1>4, <3>1 DEF Tokens
      <3>3. \A k \in 1 .. 4 : Left(k)' = IF k = 1 THEN Left(k) - 1 ELSE Left(k)
        BY <1>4, <1>6, <3>2 DEF Left
      <3>4. \A k \in 1 .. 4 : Left(k) \in Int
        BY <1>4, <1>6
      <3>5. queued' = Left(1)' + Left(2)' + Left(3)' + Left(4)'
        BY <1>2, <1>6, <3>3, <3>4
      <3>6. \A k \in 1 .. n : queue'[k].chars >= 1
        BY <1>4, <1>5, <2>1, <3>2
      <3> QED
        BY <1>1, <3>2, <3>5, <3>6
    <2>2. CASE ~ Sent.chars > 1
      <3>1. queue' = Tail(queue)
        BY <2>2 DEF SendChar
      <3>2. Len(queue') = n - 1 /\ \A k \in 1 .. n - 1 : queue'[k] = queue[k + 1]
        BY <1>1, <1>2, <1>4, <3>1, HeadTailProperties
      <3>3. Left(1) = 1 /\ \A k \in 1 .. 4 : Left(k) \in Int
        BY <1>4, <1>5, <1>6, <2>2
      <3>4. /\ \A k \in 1 .. 3 : Left(k)' = Left(k + 1)
            /\ Left(4)' = 0
        BY <1>4, <1>6, <3>2 DEF Left
      <3>5. queued' = Left(1)' + Left(2)' + Left(3)' + Left(4)'
        BY <1>2, <1>6, <3>3, <3>4
      <3>6. \A k \in 1 .. Len(queue') : queue'[k].chars >= 1
        BY <1>4, <3>2
      <3> QED
        BY <1>1, <3>2, <3>5, <3>6
    <2> QED
      BY <2>1, <2>2
  <1>8. Characters'
    <2>1. MostQueued' = MostQueued /\ Printed(pc)' = Printed(pc)
      BY <1>2 DEF MostQueued, Printed
    <2>2. Len(queue') <= Printed(pc)
      <3>1. Len(queue') \in Int /\ Printed(pc) \in Int /\ n <= Printed(pc)
        BY <1>1, <1>3, Lengths, StepKeeps DEF Characters, Next, IInv, StreamTypes
      <3> QED
        BY <1>7, <3>1
    <2>3. line' \in 0 .. 2 /\ queued' \in Int /\ queued' <= MostQueued'
      BY <1>2, <1>3, <2>1 DEF Characters, CharTimes, MostQueued
    <2> QED
      BY <1>7, <2>1, <2>2, <2>3 DEF Characters
  <1>9. Drained'
    <2>1. pc \notin {"pulseIn", "angle"}
      BY <1>2, <1>3 DEF Drained
    <2>2. pc = "delay" => Backlog' < wait'
      <3>1. pc = "delay" => line + 2 * (queued - 1) < wait
        BY <1>2, <1>3 DEF Drained, Backlog
      <3>2. line' <= 2 /\ line' \in Int /\ queued \in Int /\ wait \in Int
        BY <1>2, <1>3 DEF CharTimes, Characters, IInv, ServoTypes
      <3>3. queued' = queued - 1 /\ wait' = wait /\ pc' = pc /\ line = 0
        BY <1>2
      <3>4. pc = "delay" => line' + 2 * (queued' - 1) < wait'
        <4>1. SUFFICES ASSUME pc = "delay" PROVE line' + 2 * (queued' - 1) < wait'
          OBVIOUS
        <4>2. PICK a \in Int : a = 2 * (queued - 1)
          BY <3>2
        <4>3. a < wait
          BY <3>1, <3>3, <4>1, <4>2
        <4>4. 2 * (queued' - 1) = a - 2
          BY <3>2, <3>3, <4>2
        <4>5. \A l, w \in Int : l <= 2 /\ a < w => l + (a - 2) < w
          OBVIOUS
        <4> QED
          BY <3>2, <3>3, <4>3, <4>4, <4>5
      <3> QED
        BY <3>4 DEF Backlog
    <2> QED
      BY <1>2, <2>1, <2>2 DEF Drained
  <1>10. Bounded'
    <2>1. shown' = <<>> \/ Len(shown') = 2
      <3>1. CASE ~ Sent.chars > 1 /\ Sent.field = "dot"
        BY <3>1, Reported
      <3>2. CASE Sent.chars > 1 \/ Sent.field # "dot"
        BY <1>3, <3>2
           DEF SendChar, HostReads, Bounded, Known, Angles, Unknown,
               Settle, NoEcho
      <3> QED
        BY <3>1, <3>2
    <2>2. queued' <= Capacity
      BY <1>2, <1>3, RadarAssumption
         DEF Bounded, Known, Angles, Unknown, Settle, NoEcho,
             Characters, RadarAssumption
    <2> QED
      BY <1>2, <1>3, <2>1, <2>2 DEF Bounded, Known, Angles, Unknown, Settle, NoEcho
  <1> QED
    BY <1>8, <1>9, <1>10 DEF LineInv

(* While the sketch waits a millisecond, so does the character on the line. *)
LEMMA LineElapseStep ==
  ASSUME IInv, LineInv, Elapse
  PROVE  LineInv'
  <1>1. /\ UNCHANGED <<pc, duration, distance, commanded, position, aim, pulse,
                       queue, queued, shown>>
        /\ queue # <<>> => line > 0
        /\ wait' = (IF wait > 0 THEN wait - 1 ELSE wait)
        /\ line' = (IF line > 0 THEN line - 1 ELSE 0)
        /\ wait # 0 \/ Printing
    BY DEF Elapse, history
  <1>2. Characters /\ Drained /\ Bounded /\ wait \in Nat
    BY DEF LineInv, IInv, ServoTypes
  <1>3. Characters'
    <2>1. \A k : Left(k)' = Left(k)
      BY <1>1 DEF Left
    <2> QED
      BY <1>1, <1>2, <2>1 DEF Characters, MostQueued, Printed
  <1>4. Drained'
    <2>1. ASSUME pc = "delay", queue # <<>> PROVE Backlog' < wait'
      <3>1. wait > 0 /\ wait' = wait - 1
        BY <1>1, <1>2, <2>1 DEF Printing
      <3>2. Backlog < wait /\ line' = line - 1
        BY <1>1, <1>2, <2>1 DEF Drained
      <3> QED
        BY <1>1, <1>2, <3>1, <3>2 DEF Backlog, Characters
    <2> QED
      BY <1>1, <1>2, <2>1 DEF Drained
  <1>5. Bounded'
    <2>1. wait' <= Timeout + Settle
      BY <1>1, <1>2, Settings DEF Bounded, Known, Angles, Unknown, Settle, NoEcho
    <2> QED
      BY <1>1, <1>2, <2>1 DEF Bounded, Known, Angles, Unknown, Settle, NoEcho
  <1> QED
    BY <1>3, <1>4, <1>5 DEF LineInv

LEMMA LineKeeps == IInv /\ LineInv /\ [Next]_vars => LineInv'
  <1> SUFFICES ASSUME IInv, LineInv, [Next]_vars PROVE LineInv'
    OBVIOUS
  <1>1. CASE UNCHANGED vars
    <2>1. UNCHANGED <<pc, wait, duration, distance, commanded, position, aim, pulse,
                      queue, queued, line, shown>>
      BY <1>1 DEF vars, loopVars, servo, serial, history
    <2>2. Characters' /\ Drained'
      BY <2>1 DEF LineInv, Characters, Left, MostQueued, Printed, Drained, Backlog
    <2>3. Bounded'
      BY <2>1 DEF LineInv, Bounded, Known, Angles, Unknown, Settle, NoEcho
    <2> QED
      BY <2>2, <2>3 DEF LineInv
  <1> QED
    BY <1>1, LineSketchStep, LinePrintStep, LineServoStep, LineSendStep,
       LineElapseStep
       DEF Next, Sketch

(* The line never holds more than a record.                                *)
THEOREM LineInductive == Spec => []LineInv
  <1>1. Init => LineInv
    BY LineStarts
  <1>2. IInv /\ LineInv /\ [Next]_vars => LineInv'
    BY LineKeeps
  <1> QED
    BY <1>1, <1>2, Inductive, PTL DEF Spec

(* When a record is printed the one before it has left the line.           *)
THEOREM UpToDateCorrect == Spec => []UpToDate
  <1>1. LineInv => UpToDate
    BY DEF LineInv, Drained, UpToDate
  <1> QED
    BY <1>1, LineInductive, PTL

(* Angles stay in the sweep, distances in an int, waits and characters        *)
(* within their bounds.                                                     *)
THEOREM TypeCorrect == Spec => []TypeOK
  <1>1. ASSUME IInv, LineInv PROVE TypeOK
    <2>1. Len(partial) <= 2
      BY <1>1 DEF IInv, Stream, Partial
    <2>2. /\ Len(queue) \in 0 .. 4 /\ Len(queue) <= queued
          /\ queued \in 0 .. Capacity
      BY <1>1, QueuedType
         DEF LineInv, Bounded, Known, Angles, Unknown, Settle, NoEcho,
             Characters
    <2>3. wait \in 0 .. Timeout + Settle
      BY <1>1, Settings DEF LineInv, Bounded, IInv, ServoTypes
    <2>4. /\ duration \in Echoes \union {NoEcho} /\ distance \in 0 .. MaxInt
          /\ {commanded, position, aim, pulse.angle}
               \subseteq {Unknown} \union FirstAngle .. LastAngle
          /\ (shown = <<>> \/ Len(shown) = 2)
      BY <1>1 DEF LineInv, Bounded, Known, Angles
    <2>5. /\ pc \in {"write", "delay", "pulseIn", "angle", "comma", "distance",
                      "dot", "next"}
          /\ up \in BOOLEAN /\ i \in FirstAngle .. LastAngle /\ rising \in BOOLEAN
          /\ phase \in {"off", "refresh", "pulse"} /\ timer \in 0 .. FirstMatch
      BY <1>1 DEF IInv, ServoTypes, StreamTypes, Angles, FirstMatch
    <2> QED
      BY <2>1, <2>2, <2>3, <2>4, <2>5 DEF TypeOK
  <1> QED
    BY <1>1, Inductive, LineInductive, PTL
=============================================================================
