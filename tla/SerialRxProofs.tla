--------------------------- MODULE SerialRxProofs ---------------------------
(***************************************************************************)
(* Safety of SerialRx for every size of the ring, every depth of the USART *)
(* and every number of bytes: it implements LossyStream.                   *)
(***************************************************************************)
EXTENDS SerialRx, FiniteSetTheorems, FunctionTheorems, TLAPS

(* The distance of place p of the ring from the tail; the places in use.   *)
Off(p) == IF p >= tail THEN p - tail ELSE RxSize + p - tail
Count == IF head >= tail THEN head - tail ELSE RxSize + head - tail
Used == {p \in Slots : Off(p) < Count}

(* The bytes waiting in the ring and in the USART. *)
Ringed == {buffer[p] : p \in Used}
Framed == {fifo[k].byte : k \in 1 .. Len(fifo)}

(* Every byte that has come in waits in the ring or in the USART, or is     *)
(* lost or delivered, and no byte that has not come in is.                  *)
Delivered == {got[k] : k \in 1 .. Len(got)}
Waiting == (1 .. sent) \ (lost \union Delivered)

Accounted ==
  /\ lost \subseteq 1 .. sent /\ Delivered \subseteq 1 .. sent
  /\ Waiting = Ringed \union Framed

(* The bytes in the ring, then those in the USART, are in the order in      *)
(* which they came in.                                                     *)
Ordered ==
  /\ \A p, q \in Used : Off(p) < Off(q) => buffer[p] < buffer[q]
  /\ \A p \in Used, k \in 1 .. Len(fifo) : buffer[p] < fifo[k].byte
  /\ \A j, k \in 1 .. Len(fifo) : j < k => fifo[j].byte < fifo[k].byte

(* What each place of the sketch has already established. *)
Progress ==
  /\ ~ enabled => fifo = <<>>
  /\ pc \in {"disable", "empty"} => ~ enabled
  /\ enabled \/ head = tail \/ pc \in {"disable", "empty"}
  /\ pc \in {"fetch", "advance"} => head # tail
  /\ pc = "advance" => char = buffer[tail]

IInv == TypeOK /\ Accounted /\ Ordered /\ Progress /\ promised <= Count

-----------------------------------------------------------------------------
(* The index arithmetic of the ring buffer. *)
LEMMA IncIs ==
  ASSUME NEW i \in Slots
  PROVE  /\ Inc(i) \in Slots
         /\ Inc(i) = IF i + 1 = RxSize THEN 0 ELSE i + 1
  BY RxSizeAssumption DEF Inc, Slots

(* The modulus in available() and in end() counts from the tail. *)
LEMMA AvailableIs ==
  ASSUME TypeOK
  PROVE  /\ Available = Count
         /\ \A p \in Slots : (p + RxSize - tail) % RxSize = Off(p)
  <1>1. RxSize \in Nat /\ RxSize > 1 /\ head \in 0 .. RxSize - 1
        /\ tail \in 0 .. RxSize - 1
    BY RxSizeAssumption DEF TypeOK, Slots
  <1>2. ASSUME NEW n \in 0 .. RxSize - 1
        PROVE  (n + RxSize - tail) % RxSize
                 = IF n >= tail THEN n - tail ELSE RxSize + n - tail
    <2>1. CASE n >= tail
      <3>1. n + RxSize - tail = 1 * RxSize + (n - tail)
        BY <1>1
      <3> QED
        BY <1>1, <2>1, <3>1
    <2>2. CASE n < tail
      BY <1>1, <2>2
    <2> QED
      BY <1>1, <2>1, <2>2
  <1>3. RxSize + head - tail = head + RxSize - tail
    BY <1>1
  <1> QED
    BY <1>1, <1>2, <1>3 DEF Available, Count, Off, Slots

LEMMA CountIs ==
  ASSUME TypeOK
  PROVE  /\ Count \in 0 .. RxSize - 1
         /\ Count = 0 <=> head = tail
         /\ HasSlot <=> Count < RxSize - 1
         /\ \A p \in Slots : Off(p) \in 0 .. RxSize - 1
         /\ \A p, q \in Slots : Off(p) = Off(q) => p = q
         /\ \A n \in 0 .. RxSize - 1 : \E p \in Slots : Off(p) = n
  <1> USE RxSizeAssumption
  <1>1. Inc(head) = IF head + 1 = RxSize THEN 0 ELSE head + 1
    BY IncIs DEF TypeOK
  <1>2. ASSUME NEW n \in 0 .. RxSize - 1 PROVE \E p \in Slots : Off(p) = n
    <2>1. CASE tail + n < RxSize
      <3>1. tail + n \in Slots /\ Off(tail + n) = n
        BY <2>1 DEF TypeOK, Slots, Off
      <3> QED
        BY <3>1
    <2>2. CASE tail + n >= RxSize
      <3>1. tail + n - RxSize \in Slots /\ Off(tail + n - RxSize) = n
        BY <2>2 DEF TypeOK, Slots, Off
      <3> QED
        BY <3>1
    <2> QED
      BY <2>1, <2>2 DEF TypeOK, Slots
  <1>3. /\ RxSize \in Nat \ {0, 1}
        /\ head \in 0 .. RxSize - 1 /\ tail \in 0 .. RxSize - 1
    BY DEF TypeOK, Slots
  <1>4. /\ Count \in 0 .. RxSize - 1
        /\ Count = 0 <=> head = tail
        /\ HasSlot <=> Count < RxSize - 1
    BY <1>1, <1>3 DEF Count, HasSlot
  <1>5. /\ \A p \in Slots : Off(p) \in 0 .. RxSize - 1
        /\ \A p, q \in Slots : Off(p) = Off(q) => p = q
    BY <1>3 DEF Slots, Off
  <1> QED
    BY <1>2, <1>4, <1>5

(* The ring holds Count different bytes. *)
LEMMA RingedCount ==
  ASSUME TypeOK, Ordered
  PROVE  IsFiniteSet(Ringed) /\ Cardinality(Ringed) = Count
  <1>1. IsFiniteSet(0 .. Count - 1) /\ Cardinality(0 .. Count - 1) = Count
    <2>1. Count \in Nat /\ 0 \in Int /\ Count - 1 \in Int
      BY CountIs, RxSizeAssumption
    <2>2. /\ IsFiniteSet(0 .. Count - 1)
          /\ Cardinality(0 .. Count - 1)
               = IF 0 > Count - 1 THEN 0 ELSE (Count - 1) - 0 + 1
      BY <2>1, FS_Interval
    <2> QED
      BY <2>1, <2>2
  <1> DEFINE at(n) == CHOOSE p \in Slots : Off(p) = n
             f == [n \in 0 .. Count - 1 |-> buffer[at(n)]]
  <1>2. \A n \in 0 .. Count - 1 : at(n) \in Used /\ Off(at(n)) = n
    BY CountIs, RxSizeAssumption DEF Used
  <1>3. f \in Injection(0 .. Count - 1, Ringed)
    <2>1. f \in [0 .. Count - 1 -> Ringed]
      BY <1>2 DEF Ringed
    <2>2. \A m, n \in 0 .. Count - 1 : m < n => f[m] < f[n]
      BY <1>2 DEF Ordered
    <2>3. \A p \in Used : buffer[p] \in Nat
      BY DEF Used, TypeOK
    <2>4. \A m, n \in 0 .. Count - 1 : f[m] = f[n] => m = n
      BY <1>2, <2>2, <2>3, CountIs, RxSizeAssumption
    <2> QED
      BY <2>1, <2>4, Fun_IsInj
  <1>4. f \in Surjection(0 .. Count - 1, Ringed)
    <2>1. \A p \in Used : Off(p) \in 0 .. Count - 1 /\ at(Off(p)) = p
      BY CountIs DEF Used
    <2> QED
      BY <1>3, <2>1 DEF Ringed, Surjection, Injection
  <1>5. ExistsBijection(0 .. Count - 1, Ringed)
    BY <1>3, <1>4 DEF ExistsBijection, Bijection
  <1> QED
    BY <1>1, <1>5, FS_Bijection
(* What storing a byte, taking one and emptying the ring do to it. *)
LEMMA Stored ==
  ASSUME TypeOK, HasSlot, head' = Inc(head), tail' = tail,
         buffer' = [buffer EXCEPT ![head] = Head(fifo).byte]
  PROVE  /\ Count' = Count + 1
         /\ \A p \in Slots : Off(p)' = Off(p)
         /\ head \notin Used /\ Off(head) = Count
         /\ Used' = Used \union {head}
         /\ Ringed' = Ringed \union {Head(fifo).byte}
  <1> USE RxSizeAssumption
  <1>1. Inc(head) = IF head + 1 = RxSize THEN 0 ELSE head + 1
    BY IncIs DEF TypeOK
  <1>2. Count' = Count + 1 /\ \A p \in Slots : Off(p)' = Off(p)
    BY <1>1 DEF TypeOK, Slots, Count, HasSlot, Off
  <1>3. head \in Slots /\ Off(head) = Count /\ head \notin Used
    BY DEF TypeOK, Slots, Count, Off, Used
  <1>4. Used' = Used \union {head}
    BY <1>2, <1>3, CountIs DEF Used
  <1>5. \A p \in Used : buffer'[p] = buffer[p]
    BY <1>3 DEF Used, TypeOK
  <1>6. buffer'[head] = Head(fifo).byte
    BY DEF TypeOK
  <1> QED
    BY <1>2, <1>3, <1>4, <1>5, <1>6 DEF Ringed

LEMMA Taken ==
  ASSUME TypeOK, Ordered, head # tail, tail' = Inc(tail),
         UNCHANGED <<head, buffer>>
  PROVE  /\ Count' = Count - 1
         /\ tail \in Used /\ Off(tail) = 0
         /\ Used' = Used \ {tail}
         /\ \A p \in Used' : Off(p)' = Off(p) - 1
         /\ Ringed' = Ringed \ {buffer[tail]}
  <1> USE RxSizeAssumption
  <1>1. Inc(tail) = IF tail + 1 = RxSize THEN 0 ELSE tail + 1
    BY IncIs DEF TypeOK
  <1>2. Count' = Count - 1
    BY <1>1 DEF TypeOK, Slots, Count
  <1>3. tail \in Used /\ Off(tail) = 0
    BY DEF TypeOK, Slots, Count, Off, Used
  <1>4. \A p \in Slots : /\ p # tail => Off(p)' = Off(p) - 1
                         /\ p = tail => Off(p)' = RxSize - 1
    BY <1>1 DEF TypeOK, Slots, Off
  <1>5. Used' = Used \ {tail}
    BY <1>2, <1>4, CountIs DEF Used
  <1>6. \A p \in Used \ {tail} : buffer[p] # buffer[tail]
    <2>1. \A p \in Used \ {tail} : Off(tail) < Off(p)
      BY <1>3, CountIs DEF Used, TypeOK
    <2> QED
      BY <1>3, <2>1 DEF Ordered, TypeOK, Used
  <1> QED
    BY <1>2, <1>3, <1>4, <1>5, <1>6 DEF Ringed, Used

LEMMA Emptied ==
  ASSUME TypeOK, head = tail
  PROVE  Count = 0 /\ Used = {} /\ Ringed = {}
  BY CountIs DEF Used, Ringed

(* Every frame in the USART holds a byte. *)
LEMMA FrameBytes ==
  ASSUME TypeOK
  PROVE  /\ Len(fifo) \in Nat
         /\ \A k \in 1 .. Len(fifo) : fifo[k].byte \in 1 .. MaxBytes
         /\ \A k \in 1 .. Len(fifo) : fifo[k].byte \in Nat
  <1> DEFINE Frame == [byte : 1 .. MaxBytes, error : BOOLEAN]
  <1>1. fifo \in Seq(Frame)
    BY DEF TypeOK
  <1> HIDE DEF Frame
  <1>2. Len(fifo) \in Nat /\ \A k \in 1 .. Len(fifo) : fifo[k] \in Frame
    BY <1>1
  <1>3. \A f \in Frame : f.byte \in 1 .. MaxBytes
    BY DEF Frame
  <1> QED
    BY <1>2, <1>3

(* The interrupt takes the oldest frame out of the USART. *)
LEMMA Popped ==
  ASSUME TypeOK, Ordered, fifo # <<>>, fifo' = Tail(fifo)
  PROVE  /\ Len(fifo) \in Nat /\ Len(fifo') = Len(fifo) - 1
         /\ Head(fifo) = fifo[1] /\ 1 \in 1 .. Len(fifo)
         /\ \A k \in 1 .. Len(fifo') : fifo'[k] = fifo[k + 1]
         /\ Head(fifo).byte \in Framed
         /\ Framed' = Framed \ {Head(fifo).byte}
  <1>1. /\ Len(fifo) \in Nat /\ Len(fifo') = Len(fifo) - 1
        /\ Head(fifo) = fifo[1] /\ 1 \in 1 .. Len(fifo)
        /\ \A k \in 1 .. Len(fifo') : fifo'[k] = fifo[k + 1]
    BY DEF TypeOK
  <1>2. \A k \in 1 .. Len(fifo) : k # 1 => fifo[k].byte # fifo[1].byte
    <2>1. \A k \in 1 .. Len(fifo) : fifo[k].byte \in Nat
      BY FrameBytes
    <2>2. \A k \in 1 .. Len(fifo) : k # 1 => fifo[1].byte < fifo[k].byte
      BY <1>1 DEF Ordered
    <2> QED
      BY <1>1, <2>1, <2>2
  <1>3. \A k \in 1 .. Len(fifo) : k # 1 => k - 1 \in 1 .. Len(fifo')
    BY <1>1
  <1>4. \A k \in 1 .. Len(fifo') : k + 1 \in 1 .. Len(fifo) /\ k + 1 # 1
    BY <1>1
  <1>5. Framed' \subseteq Framed \ {fifo[1].byte}
    BY <1>1, <1>2, <1>4 DEF Framed
  <1>6. \A k \in 1 .. Len(fifo) : k # 1 => fifo[k] = fifo'[k - 1]
    BY <1>1, <1>3
  <1>7. Framed \ {fifo[1].byte} \subseteq Framed'
    BY <1>3, <1>6 DEF Framed
  <1> QED
    BY <1>1, <1>5, <1>7 DEF Framed

(* read() returns one byte more. *)
LEMMA Appended ==
  ASSUME TypeOK, got' = Append(got, char)
  PROVE  Delivered' = Delivered \union {char}
  <1>1. /\ Len(got) \in Nat /\ Len(got') = Len(got) + 1
        /\ \A k \in 1 .. Len(got) : got'[k] = got[k]
        /\ got'[Len(got) + 1] = char
    BY DEF TypeOK
  <1>2. 1 .. Len(got') = (1 .. Len(got)) \union {Len(got) + 1}
    BY <1>1
  <1> QED
    BY <1>1, <1>2 DEF Delivered

(* What the bytes that wait are worth. *)
LEMMA WaitingBytes ==
  ASSUME IInv
  PROVE  /\ Ringed \subseteq 1 .. sent /\ Framed \subseteq 1 .. sent
         /\ \A r \in Ringed, f \in Framed : r < f
         /\ \A p \in Used : buffer[p] \in Ringed
         /\ \A k \in 1 .. Len(fifo) : fifo[k].byte \in Framed
  BY DEF IInv, Accounted, Waiting, Ordered, Ringed, Framed

-----------------------------------------------------------------------------
(* The invariant is inductive: one lemma for each step that moves a byte.  *)

(* A frame comes in: it enters the USART, replaces the last one there, or   *)
(* is lost.                                                                *)
LEMMA ArriveStep ==
  ASSUME IInv, NEW e \in BOOLEAN, Arrive(e)
  PROVE  IInv'
  <1> DEFINE frame == [byte |-> sent + 1, error |-> e]
  <1>1. /\ UNCHANGED <<ring, sketch, answers>> /\ sent' = sent + 1
        /\ sent \in Nat /\ sent + 1 \in 1 .. MaxBytes
        /\ frame \in [byte : 1 .. MaxBytes, error : BOOLEAN]
    BY LineAssumption DEF Arrive, IInv, TypeOK
  <1>2. /\ Count' = Count /\ Used' = Used /\ Ringed' = Ringed
        /\ Delivered' = Delivered /\ \A p \in Slots : Off(p)' = Off(p)
    BY <1>1 DEF Count, Used, Ringed, Off, Delivered, ring, answers
  <1>3. Len(fifo) \in Nat /\ \A k \in 1 .. Len(fifo) : fifo[k].byte \in 1 .. sent
    BY WaitingBytes DEF IInv, TypeOK
  <1>4. \A p \in Used : buffer[p] \in 1 .. sent
    BY WaitingBytes
  <1>5. CASE enabled /\ Len(fifo) < HwDepth /\ fifo' = Append(fifo, frame)
             /\ lost' = lost
    <2>1. /\ Len(fifo') = Len(fifo) + 1
          /\ fifo' \in Seq([byte : 1 .. MaxBytes, error : BOOLEAN])
          /\ \A k \in 1 .. Len(fifo) : fifo'[k] = fifo[k]
          /\ fifo'[Len(fifo) + 1].byte = sent + 1
      BY <1>1, <1>5 DEF IInv, TypeOK
    <2>2. 1 .. Len(fifo') = (1 .. Len(fifo)) \union {Len(fifo) + 1}
      BY <1>3, <2>1
    <2>3. Framed' = Framed \union {sent + 1}
      BY <2>1, <2>2 DEF Framed
    <2>4. Accounted'
      BY <1>1, <1>2, <1>5, <2>3 DEF IInv, Accounted, Waiting
    <2>5. Ordered'
      <3>1. \A p \in Used, k \in 1 .. Len(fifo') : buffer[p] < fifo'[k].byte
        BY <1>1, <1>4, <2>1, <2>2 DEF IInv, Ordered
      <3>2. \A j, k \in 1 .. Len(fifo') : j < k => fifo'[j].byte < fifo'[k].byte
        <4> SUFFICES ASSUME NEW j \in 1 .. Len(fifo'),
                            NEW k \in 1 .. Len(fifo'), j < k
                     PROVE  fifo'[j].byte < fifo'[k].byte
          OBVIOUS
        <4>1. j \in 1 .. Len(fifo) /\ fifo'[j].byte = fifo[j].byte
          BY <1>3, <2>1
        <4>2. CASE k = Len(fifo) + 1
          BY <1>1, <1>3, <2>1, <4>1, <4>2
        <4>3. CASE k \in 1 .. Len(fifo)
          BY <2>1, <4>1, <4>3 DEF IInv, Ordered
        <4> QED
          BY <2>2, <4>2, <4>3
      <3>3. \A p \in Used : p \in Slots
        BY DEF Used
      <3> QED
        BY <1>1, <1>2, <3>1, <3>2, <3>3 DEF IInv, Ordered, ring
    <2>6. TypeOK'
      BY <1>1, <1>5, <2>1, LineAssumption
         DEF IInv, TypeOK, ring, sketch, answers
    <2> QED
      BY <1>1, <1>2, <1>5, <2>4, <2>5, <2>6
         DEF IInv, Progress, ring, sketch, answers
  <1>6. CASE enabled /\ Len(fifo) = HwDepth
             /\ fifo' = [fifo EXCEPT ![HwDepth] = frame]
             /\ lost' = lost \union {fifo[HwDepth].byte}
    <2>1. /\ Len(fifo') = Len(fifo) /\ HwDepth \in 1 .. Len(fifo)
          /\ fifo' \in Seq([byte : 1 .. MaxBytes, error : BOOLEAN])
          /\ \A k \in 1 .. Len(fifo) : k # HwDepth => fifo'[k] = fifo[k]
          /\ fifo'[HwDepth].byte = sent + 1
      BY <1>1, <1>6, LineAssumption DEF IInv, TypeOK
    <2>2. \A k \in 1 .. Len(fifo) : k # HwDepth
                                      => fifo[k].byte # fifo[HwDepth].byte
      BY <1>3, <1>6, <2>1 DEF IInv, Ordered
    <2>3. Framed' = (Framed \ {fifo[HwDepth].byte}) \union {sent + 1}
      BY <2>1, <2>2 DEF Framed
    <2>4. /\ fifo[HwDepth].byte \in Framed \ Ringed
          /\ fifo[HwDepth].byte \in 1 .. sent
      BY <1>3, <1>4, <2>1, WaitingBytes
    <2>5. Accounted'
      <3>1. /\ 1 .. sent + 1 = (1 .. sent) \union {sent + 1}
            /\ sent + 1 \notin 1 .. sent
        BY <1>1
      <3>2. lost' \subseteq 1 .. sent' /\ Delivered' \subseteq 1 .. sent'
        BY <1>1, <1>2, <1>6, <2>4, <3>1 DEF IInv, Accounted
      <3>3. /\ sent + 1 \notin lost' /\ sent + 1 \notin Delivered'
            /\ sent + 1 \notin Ringed /\ sent + 1 \notin Framed
        BY <1>2, <1>6, <2>4, <3>1, WaitingBytes DEF IInv, Accounted
      <3>4. Waiting' = (Waiting \ {fifo[HwDepth].byte}) \union {sent + 1}
        BY <1>1, <1>2, <1>6, <2>4, <3>1, <3>3 DEF Waiting
      <3>5. Waiting' = Ringed' \union Framed'
        BY <1>2, <2>3, <2>4, <3>4 DEF IInv, Accounted
      <3> QED
        BY <3>2, <3>5 DEF Accounted
    <2>6. Ordered'
      BY <1>1, <1>2, <1>3, <1>4, <1>6, <2>1 DEF IInv, Ordered, ring, Used
    <2>7. TypeOK'
      <3>1. lost' \subseteq 1 .. MaxBytes
        BY <1>6, <2>1, FrameBytes DEF IInv, TypeOK
      <3> QED
        BY <1>1, <1>6, <2>1, <3>1, LineAssumption
           DEF IInv, TypeOK, ring, sketch, answers
    <2> QED
      BY <1>1, <1>2, <1>6, <2>5, <2>6, <2>7
         DEF IInv, Progress, ring, sketch, answers
  <1>7. CASE fifo' = fifo /\ lost' = lost \union {sent + 1}
    <2>1. Framed' = Framed
      BY <1>7 DEF Framed
    <2>2. Accounted'
      BY <1>1, <1>2, <1>7, <2>1 DEF IInv, Accounted, Waiting
    <2>3. TypeOK'
      BY <1>1, <1>7 DEF IInv, TypeOK, ring, sketch, answers
    <2> QED
      BY <1>1, <1>2, <1>7, <2>2, <2>3
         DEF IInv, Progress, Ordered, ring, sketch, answers, Used
  <1> QED
    BY <1>1, <1>5, <1>6, <1>7 DEF Arrive

(* The interrupt stores the oldest frame, or drops it. *)
LEMMA InterruptStep ==
  ASSUME IInv, RxInterrupt
  PROVE  IInv'
  <1> DEFINE c == Head(fifo).byte
  <1>1. /\ UNCHANGED <<tail, sent, sketch, answers>>
        /\ fifo # <<>> /\ fifo' = Tail(fifo)
    BY DEF RxInterrupt
  <1>2. /\ Len(fifo) \in Nat /\ Len(fifo') = Len(fifo) - 1
        /\ c = fifo[1].byte /\ 1 \in 1 .. Len(fifo)
        /\ \A k \in 1 .. Len(fifo') : fifo'[k] = fifo[k + 1]
        /\ c \in Framed /\ Framed' = Framed \ {c}
    BY <1>1, Popped DEF IInv
  <1>3. /\ c \in 1 .. sent /\ c \notin Ringed /\ c \notin Delivered
        /\ \A p \in Used : buffer[p] < c
        /\ \A k \in 1 .. Len(fifo') : c < fifo'[k].byte
    <2>1. \A k \in 1 .. Len(fifo') : k + 1 \in 1 .. Len(fifo) /\ 1 < k + 1
      BY <1>2
    <2>2. \A k \in 1 .. Len(fifo') : c < fifo'[k].byte
      BY <1>2, <2>1 DEF IInv, Ordered
    <2>3. \A p \in Used : buffer[p] < c
      BY <1>2 DEF IInv, Ordered
    <2>4. c \in 1 .. sent /\ c \in Waiting
      BY <1>2, WaitingBytes DEF IInv, Accounted
    <2>5. \A r \in Ringed : r < c /\ r \in Nat
      BY <1>2, WaitingBytes
    <2> QED
      BY <2>2, <2>3, <2>4, <2>5 DEF Waiting
  <1>4. /\ Delivered' = Delivered /\ sent' = sent
        /\ \A j, k \in 1 .. Len(fifo') : j < k => fifo'[j].byte < fifo'[k].byte
    <2>1. \A k \in 1 .. Len(fifo') : k + 1 \in 1 .. Len(fifo)
      BY <1>2
    <2>2. \A j, k \in 1 .. Len(fifo') : j < k => j + 1 < k + 1
      BY <1>2
    <2> QED
      BY <1>1, <1>2, <2>1, <2>2 DEF IInv, Ordered, Delivered, answers
  <1>5. /\ fifo' \in Seq([byte : 1 .. MaxBytes, error : BOOLEAN])
        /\ Len(fifo') <= HwDepth /\ c \in 1 .. MaxBytes
    <2>1. c \in 1 .. MaxBytes
      BY <1>2, FrameBytes DEF IInv
    <2> QED
      BY <1>1, <1>2, <2>1, LineAssumption DEF IInv, TypeOK
  <1>6. enabled /\ pc \notin {"disable", "empty"}
    BY <1>1 DEF IInv, Progress
  <1>7. CASE /\ HasSlot /\ buffer' = [buffer EXCEPT ![head] = c]
             /\ head' = Inc(head) /\ lost' = lost
    <2>1. /\ Count' = Count + 1
          /\ \A p \in Slots : Off(p)' = Off(p)
          /\ head \notin Used /\ Off(head) = Count
          /\ Used' = Used \union {head}
          /\ Ringed' = Ringed \union {c}
      BY <1>1, <1>7, Stored DEF IInv
    <2>2. /\ buffer'[head] = c /\ head \in Slots
          /\ \A p \in Used : buffer'[p] = buffer[p] /\ Off(p) < Count
          /\ Count \in Nat
      BY <1>7, <2>1, CountIs, RxSizeAssumption DEF IInv, TypeOK, Used
    <2>3. Accounted'
      BY <1>2, <1>4, <1>7, <2>1 DEF IInv, Accounted, Waiting
    <2>4. Ordered'
      <3>1. \A p \in Used : Off(p) \in Nat /\ p \in Slots
        BY CountIs, RxSizeAssumption DEF IInv, Used
      <3>2. \A p, q \in Used' : Off(p)' < Off(q)' => buffer'[p] < buffer'[q]
        BY <1>3, <2>1, <2>2, <3>1 DEF IInv, Ordered
      <3>3. \A p \in Used', k \in 1 .. Len(fifo') : buffer'[p] < fifo'[k].byte
        <4>1. \A p \in Used, k \in 1 .. Len(fifo') : buffer[p] < fifo'[k].byte
          BY <1>2 DEF IInv, Ordered
        <4> QED
          BY <1>3, <2>1, <2>2, <4>1
      <3> QED
        BY <1>4, <3>2, <3>3 DEF Ordered
    <2>5. TypeOK'
      BY <1>1, <1>5, <1>7, IncIs DEF IInv, TypeOK, sketch, answers
    <2>6. Progress' /\ promised' <= Count'
      BY <1>1, <1>6, <1>7, <2>1, <2>2, CountIs, RxSizeAssumption
         DEF IInv, Progress, TypeOK, HasSlot, sketch, answers
    <2> QED
      BY <2>3, <2>4, <2>5, <2>6 DEF IInv
  <1>8. CASE UNCHANGED <<buffer, head>> /\ lost' = lost \union {c}
    <2>1. /\ Count' = Count /\ Used' = Used /\ Ringed' = Ringed
          /\ \A p \in Slots : Off(p)' = Off(p)
      BY <1>1, <1>8 DEF Count, Used, Ringed, Off
    <2>2. Accounted'
      BY <1>2, <1>3, <1>4, <1>8, <2>1 DEF IInv, Accounted, Waiting
    <2>3. Ordered'
      <3>1. \A k \in 1 .. Len(fifo') : k + 1 \in 1 .. Len(fifo)
        BY <1>2
      <3>2. \A p \in Used, k \in 1 .. Len(fifo') : buffer[p] < fifo'[k].byte
        BY <1>2, <3>1 DEF IInv, Ordered
      <3> QED
        BY <1>4, <1>8, <2>1, <3>2 DEF IInv, Ordered, Used
    <2>4. TypeOK'
      BY <1>1, <1>5, <1>8 DEF IInv, TypeOK, sketch, answers
    <2> QED
      BY <1>1, <1>6, <1>8, <2>1, <2>2, <2>3, <2>4
         DEF IInv, Progress, sketch, answers
  <1> QED
    BY <1>7, <1>8 DEF RxInterrupt

(* read() takes the oldest byte out of the ring. *)
LEMMA ReadStep ==
  ASSUME IInv, ReadAdvance
  PROVE  /\ IInv'
         /\ char \in Waiting /\ \A j \in Waiting : j < char => FALSE
  <1>1. /\ pc = "advance" /\ head # tail /\ char = buffer[tail]
        /\ tail' = Inc(tail) /\ got' = Append(got, char)
        /\ UNCHANGED <<head, buffer, line, irqOn, enabled, rxcie, lost>>
        /\ pc' = "idle" /\ char' = None
        /\ promised' = IF promised > 0 THEN promised - 1 ELSE 0
    BY DEF ReadAdvance, IInv, Progress
  <1>2. /\ Count' = Count - 1
        /\ tail \in Used /\ Off(tail) = 0
        /\ Used' = Used \ {tail}
        /\ \A p \in Used' : Off(p)' = Off(p) - 1
        /\ Ringed' = Ringed \ {char}
    BY <1>1, Taken DEF IInv
  <1>3. /\ Delivered' = Delivered \union {char}
        /\ sent' = sent /\ fifo' = fifo /\ Framed' = Framed
    BY <1>1, Appended DEF IInv, line, Framed
  <1>4. /\ char \in Ringed /\ char \in 1 .. sent /\ char \in Waiting
        /\ char \notin Framed /\ \A f \in Framed : char < f
    <2>1. char \in Ringed
      BY <1>1, <1>2 DEF Ringed
    <2>2. char \in 1 .. sent /\ char \in Waiting /\ \A f \in Framed : char < f
      BY <2>1, WaitingBytes DEF IInv, Accounted
    <2> QED
      BY <2>1, <2>2
  <1>5. \A p \in Used : Off(p) \in Nat /\ p \in Slots
    BY CountIs, RxSizeAssumption DEF IInv, Used
  <1>6. \A p \in Used : p = tail \/ char < buffer[p]
    <2>1. \A p \in Used : p # tail => Off(tail) < Off(p)
      BY <1>2, <1>5, CountIs DEF IInv
    <2> QED
      BY <1>1, <1>2, <2>1 DEF IInv, Ordered
  <1>7. \A j \in Waiting : j < char => FALSE
    <2>1. \A j \in Ringed : j = char \/ char < j
      BY <1>1, <1>6 DEF Ringed
    <2>2. \A j \in Ringed \union Framed : j \in Nat
      BY WaitingBytes
    <2> QED
      BY <1>4, <2>1, <2>2 DEF IInv, Accounted
  <1>8. Accounted'
    BY <1>1, <1>2, <1>3, <1>4 DEF IInv, Accounted, Waiting
  <1>9. Ordered'
    <2>1. \A p, q \in Used' : Off(p)' < Off(q)' => Off(p) < Off(q)
      BY <1>2, <1>5
    <2> QED
      BY <1>1, <1>2, <1>3, <2>1 DEF IInv, Ordered
  <1>10. TypeOK'
    <2>1. char \in 1 .. MaxBytes
      BY <1>4 DEF IInv, TypeOK
    <2>2. promised' \in 0 .. RxSize - 1
      BY <1>1, RxSizeAssumption DEF IInv, TypeOK
    <2>3. got' \in Seq(1 .. MaxBytes)
      BY <1>1, <2>1 DEF IInv, TypeOK
    <2>4. tail' \in Slots /\ char' \in 0 .. MaxBytes
      BY <1>1, IncIs, LineAssumption DEF IInv, TypeOK, None
    <2>5. /\ head' \in Slots /\ buffer' \in [Slots -> 0 .. MaxBytes]
          /\ enabled' \in BOOLEAN /\ rxcie' \in BOOLEAN /\ irqOn' \in BOOLEAN
          /\ fifo' \in Seq([byte : 1 .. MaxBytes, error : BOOLEAN])
          /\ Len(fifo') <= HwDepth
          /\ pc' \in {"idle", "fetch", "advance", "disable", "empty"}
          /\ sent' \in 0 .. MaxBytes /\ lost' \subseteq 1 .. MaxBytes
      BY <1>1, <1>3 DEF IInv, TypeOK
    <2> QED
      BY <2>2, <2>3, <2>4, <2>5 DEF TypeOK
  <1>11. promised' <= Count'
    <2>1. promised \in Nat /\ promised <= Count
      BY RxSizeAssumption DEF IInv, TypeOK
    <2>2. Count \in Nat /\ Count # 0
      BY <1>1, CountIs, RxSizeAssumption DEF IInv
    <2> QED
      BY <1>1, <1>2, <2>1, <2>2
  <1>12. Progress'
    BY <1>1 DEF IInv, Progress, line
  <1> QED
    BY <1>4, <1>7, <1>8, <1>9, <1>10, <1>11, <1>12 DEF IInv

(* Turning the receiver off loses what is in the USART; end() then loses    *)
(* what is in the ring, which is all that is left.                         *)
LEMMA EndStep ==
  ASSUME IInv, EndReceiver \/ EndEmpty
  PROVE  /\ IInv'
         /\ EndReceiver => lost' = lost \union Framed
         /\ EndEmpty => lost' = lost \union Waiting
  <1>1. CASE EndReceiver
    <2>1. /\ UNCHANGED <<ring, sent, char, irqOn, rxcie, answers>>
          /\ fifo' = <<>> /\ lost' = lost \union Framed
          /\ pc' = "disable" /\ enabled' = FALSE /\ pc # "empty"
      BY <1>1 DEF EndReceiver, Framed
    <2>2. Count' = Count /\ Used' = Used /\ Ringed' = Ringed
          /\ Delivered' = Delivered /\ \A p \in Slots : Off(p)' = Off(p)
      BY <2>1 DEF Count, Used, Ringed, Off, Delivered, ring, answers
    <2>3. Framed' = {} /\ Len(fifo') = 0
      BY <2>1 DEF Framed
    <2>4. Framed \subseteq 1 .. MaxBytes /\ Framed \intersect Ringed = {}
      <3>1. \A r \in Ringed, f \in Framed : r \in Nat /\ f \in Nat /\ r < f
        BY WaitingBytes
      <3> QED
        BY <3>1, FrameBytes DEF IInv, Framed
    <2>5. Accounted'
      BY <2>1, <2>2, <2>3, <2>4, WaitingBytes DEF IInv, Accounted, Waiting
    <2>6. Ordered'
      BY <2>1, <2>2, <2>3 DEF IInv, Ordered, ring, Used
    <2>7. TypeOK'
      <3>1. /\ fifo' \in Seq([byte : 1 .. MaxBytes, error : BOOLEAN])
            /\ Len(fifo') <= HwDepth
        BY <2>1, <2>3, LineAssumption
      <3>2. lost' \subseteq 1 .. MaxBytes
        BY <2>1, <2>4 DEF IInv, TypeOK
      <3> QED
        BY <2>1, <3>1, <3>2 DEF IInv, TypeOK, ring, answers
    <2>8. Progress' /\ promised' <= Count'
      BY <2>1, <2>2 DEF IInv, Progress, answers
    <2> QED
      BY <1>1, <2>1, <2>5, <2>6, <2>7, <2>8 DEF IInv, EndEmpty
  <1>2. CASE EndEmpty
    <2>1. /\ UNCHANGED <<tail, buffer, line, char, irqOn, enabled, rxcie, got>>
          /\ head' = tail /\ lost' = lost \union InRing /\ promised' = 0
          /\ pc' = "idle" /\ ~ enabled /\ fifo = <<>>
          /\ fifo' = fifo /\ sent' = sent
      BY <1>2 DEF EndEmpty, IInv, Progress, line
    <2>2. InRing = Ringed
      BY AvailableIs DEF IInv, InRing, Ringed, Used
    <2>3. Framed = {} /\ Framed' = {} /\ Len(fifo') = 0
      BY <2>1 DEF Framed
    <2>4. lost' = lost \union Waiting
      BY <2>1, <2>2, <2>3 DEF IInv, Accounted
    <2>5. TypeOK'
      <3>1. \A n \in 1 .. sent : n \in 1 .. MaxBytes
        BY LineAssumption DEF IInv, TypeOK
      <3>2. lost' \subseteq 1 .. MaxBytes
        BY <2>4, <3>1 DEF IInv, TypeOK, Waiting
      <3> QED
        BY <2>1, <3>2, RxSizeAssumption DEF IInv, TypeOK
    <2>6. Count' = 0 /\ Used' = {} /\ Ringed' = {}
      <3>1. tail' = tail /\ tail \in Int
        BY <2>1, RxSizeAssumption DEF IInv, TypeOK, Slots
      <3>2. Count' = 0
        BY <2>1, <3>1 DEF Count
      <3>3. \A p \in Slots : Off(p)' \in Nat
        BY <3>1, RxSizeAssumption DEF Off, IInv, TypeOK, Slots
      <3>4. Used' = {}
        BY <3>2, <3>3 DEF Used
      <3> QED
        BY <3>2, <3>4 DEF Ringed
    <2>7. Accounted'
      <3>1. Delivered' = Delivered
        BY <2>1 DEF Delivered
      <3>2. Waiting' = {}
        BY <2>1, <2>4, <3>1 DEF Waiting
      <3>3. lost' \subseteq 1 .. sent' /\ Delivered' \subseteq 1 .. sent'
        BY <2>1, <2>4, <3>1 DEF IInv, Accounted, Waiting
      <3> QED
        BY <2>3, <2>6, <3>2, <3>3 DEF Accounted
    <2>8. Ordered'
      BY <2>3, <2>6 DEF Ordered
    <2>9. Progress' /\ promised' <= Count'
      BY <2>1, <2>6 DEF IInv, Progress
    <2> QED
      BY <1>2, <2>1, <2>4, <2>5, <2>7, <2>8, <2>9 DEF IInv, EndReceiver
  <1> QED
    BY <1>1, <1>2

(* The steps that move no byte. *)
LEMMA OtherSteps ==
  ASSUME IInv,
         \/ AvailableCall \/ ReadCall \/ Begin \/ ReadFetch \/ EndInterrupt
         \/ UNCHANGED vars
         \/ \E on \in BOOLEAN : SetInterrupts(on)
  PROVE  /\ IInv'
         /\ UNCHANGED <<sent, got, lost>>
         /\ promised' = promised \/ promised' = Count \/ promised' = 0
  <1>1. UNCHANGED <<ring, line, got, lost>>
    BY DEF AvailableCall, ReadCall, Begin, ReadFetch, EndInterrupt, SetInterrupts,
           answers, vars
  <1>2. /\ Count' = Count /\ Used' = Used /\ Ringed' = Ringed
        /\ \A p \in Slots : Off(p)' = Off(p)
        /\ Delivered' = Delivered /\ Framed' = Framed
    BY <1>1 DEF Count, Used, Ringed, Off, Delivered, Framed, ring, line
  <1>3. Accounted' /\ Ordered'
    <2>1. buffer' = buffer /\ sent' = sent /\ fifo' = fifo /\ lost' = lost
      BY <1>1 DEF ring, line
    <2>2. Waiting' = Waiting
      BY <1>2, <2>1 DEF Waiting
    <2>3. Accounted'
      BY <1>2, <2>1, <2>2 DEF IInv, Accounted
    <2>4. \A p \in Used : Off(p)' = Off(p)
      BY <1>2 DEF Used
    <2> QED
      BY <1>2, <2>1, <2>3, <2>4 DEF IInv, Ordered
  <1>4. promised' = promised \/ promised' = Count \/ promised' = 0
    BY AvailableIs DEF AvailableCall, ReadCall, Begin, ReadFetch, EndInterrupt,
       SetInterrupts, answers, vars, IInv
  <1>5. promised' <= Count' /\ promised' \in 0 .. RxSize - 1
    <2>1. Count \in 0 .. RxSize - 1
      BY CountIs DEF IInv
    <2>2. promised \in 0 .. RxSize - 1 /\ promised <= Count
      BY DEF IInv, TypeOK
    <2> QED
      BY <1>2, <1>4, <2>1, <2>2, RxSizeAssumption
  <1>6. /\ pc' \in {"idle", "fetch", "advance", "disable", "empty"}
        /\ char' \in 0 .. MaxBytes /\ enabled' \in BOOLEAN
        /\ rxcie' \in BOOLEAN /\ irqOn' \in BOOLEAN
    BY DEF AvailableCall, ReadCall, Begin, ReadFetch, EndInterrupt, SetInterrupts,
       sketch, vars, IInv, TypeOK
  <1>7. TypeOK'
    BY <1>1, <1>5, <1>6 DEF IInv, TypeOK, ring, line
  <1>8. Progress'
    BY <1>1 DEF AvailableCall, ReadCall, Begin, ReadFetch, EndInterrupt,
       SetInterrupts, sketch, ring, line, vars, IInv, Progress
  <1> QED
    BY <1>1, <1>3, <1>4, <1>5, <1>7, <1>8 DEF IInv, line

THEOREM Inductive == Spec => []IInv
  <1>1. Init => IInv
    <2> SUFFICES ASSUME Init PROVE IInv
      OBVIOUS
    <2>1. TypeOK
      BY RxSizeAssumption, LineAssumption DEF Init, TypeOK, Slots, None
    <2>2. Count = 0 /\ Used = {} /\ Ringed = {}
      BY <2>1, Emptied DEF Init
    <2>3. Framed = {} /\ Delivered = {} /\ Waiting = {}
      BY DEF Init, Framed, Delivered, Waiting
    <2> QED
      BY <2>1, <2>2, <2>3 DEF Init, IInv, Accounted, Ordered, Progress
  <1>2. IInv /\ [Next]_vars => IInv'
    BY ArriveStep, InterruptStep, ReadStep, EndStep, OtherSteps
       DEF Next, Calls, Running
  <1> QED
    BY <1>1, <1>2, PTL DEF Spec

(* TypeOK: in particular the indices stay in the ring and what waits in the *)
(* USART never exceeds its depth.                                          *)
THEOREM TypeCorrect == Spec => []TypeOK
  <1>1. IInv => TypeOK
    BY DEF IInv
  <1> QED
    BY <1>1, Inductive, PTL

-----------------------------------------------------------------------------
(* LossyStream counts as this module does. *)
LEMMA SameCardinality == \A S : Lossy!Cardinality(S) = Cardinality(S)
  BY DEF Lossy!Cardinality, Cardinality

(* The ring holds the oldest of the bytes that wait, and at least as many   *)
(* of them as were promised: a younger one may get lost.                   *)
LEMMA PromiseCovered ==
  ASSUME IInv
  PROVE  /\ Lossy!Waiting = Waiting
         /\ promised \in 0 .. Cardinality(Waiting)
         /\ Count \in 0 .. Cardinality(Waiting)
         /\ 0 \in 0 .. Cardinality(Waiting)
         /\ \A k \in Framed \union {sent + 1} : Cardinality(Lossy!Before(k)) >= promised
  <1>1. Lossy!Waiting = Waiting
    BY DEF Lossy!Waiting, Lossy!ToSet, Waiting, Delivered, IInv, TypeOK
  <1>2. IsFiniteSet(Waiting)
    <2>1. IsFiniteSet(1 .. sent)
      BY FS_Interval DEF IInv, TypeOK
    <2> QED
      BY <2>1, FS_Subset DEF Waiting
  <1>3. IsFiniteSet(Ringed) /\ Cardinality(Ringed) = Count
    BY RingedCount DEF IInv
  <1>4. Count \in Nat /\ promised \in Nat /\ promised <= Count
    BY CountIs, RxSizeAssumption DEF IInv, TypeOK
  <1>5. Cardinality(Waiting) \in Nat /\ Count <= Cardinality(Waiting)
    <2>1. Ringed \subseteq Waiting
      BY DEF IInv, Accounted
    <2> QED
      BY <1>2, <1>3, <2>1, FS_Subset, FS_CardinalityType
  <1>6. ASSUME NEW k \in Framed \union {sent + 1}
        PROVE  Cardinality(Lossy!Before(k)) >= promised
    <2>1. \A r \in Ringed : r < k
      BY WaitingBytes DEF IInv, TypeOK
    <2>2. Ringed \subseteq Lossy!Before(k) /\ Lossy!Before(k) \subseteq Waiting
      BY <1>1, <2>1 DEF Lossy!Before, IInv, Accounted
    <2>3. /\ IsFiniteSet(Lossy!Before(k))
          /\ Cardinality(Lossy!Before(k)) \in Nat
      BY <1>2, <2>2, FS_Subset, FS_CardinalityType
    <2>4. Cardinality(Ringed) <= Cardinality(Lossy!Before(k))
      BY <2>2, <2>3, FS_Subset
    <2> QED
      BY <1>3, <1>4, <2>3, <2>4
  <1> QED
    BY <1>1, <1>4, <1>5, <1>6

(* A step in which the line or the interrupt loses bytes, or none. *)
Open == enabled \/ pc \in {"disable", "empty"}

LEMMA Losing ==
  ASSUME IInv, IInv', sent' \in {sent, sent + 1},
         lost \subseteq lost', lost' \ lost \subseteq Framed \union {sent + 1},
         sent' = sent \/ enabled \/ sent + 1 \in lost',
         UNCHANGED <<got, promised>>, Open' = Open
  PROVE  Lossy!ComeOrLose
  <1>1. Lossy!ToSet(got) = Delivered
    <2>1. DOMAIN got = 1 .. Len(got)
      BY DEF IInv, TypeOK
    <2> QED
      BY <2>1 DEF Lossy!ToSet, Delivered
  <1>2. sent \in Nat /\ sent' \in Nat
    BY DEF IInv, TypeOK
  <1>3. \A k \in lost' \ lost : /\ k \in (1 .. sent') \ Delivered
                               /\ Lossy!Cardinality(Lossy!Before(k)) >= promised
    <2> SUFFICES ASSUME NEW k \in lost' \ lost
                 PROVE  /\ k \in (1 .. sent') \ Delivered
                        /\ Lossy!Cardinality(Lossy!Before(k)) >= promised
      OBVIOUS
    <2>1. k \in 1 .. sent'
      BY DEF IInv, Accounted
    <2>2. k \notin Delivered
      BY <1>2 DEF IInv, Accounted, Waiting
    <2> QED
      BY <2>1, <2>2, PromiseCovered, SameCardinality
  <1>4. Open \/ 1 .. sent' \subseteq lost' \union Delivered
    <2> SUFFICES ASSUME ~ Open PROVE 1 .. sent' \subseteq lost' \union Delivered
      OBVIOUS
    <2>1. head = tail /\ fifo = <<>> /\ ~ enabled
      BY DEF IInv, Progress, Open
    <2>2. Framed = {} /\ Ringed = {}
      BY <2>1, Emptied DEF IInv, Framed
    <2>3. 1 .. sent \subseteq lost \union Delivered
      BY <2>2 DEF IInv, Accounted, Waiting
    <2>4. \A k \in 1 .. sent' : k \in 1 .. sent \/ (sent' = sent + 1 /\ k = sent + 1)
      BY <1>2
    <2>5. sent' = sent + 1 => sent + 1 \in lost'
      BY <1>2, <2>1
    <2> QED
      BY <2>3, <2>4, <2>5
  <1>5. UNCHANGED <<got, promised, enabled \/ pc \in {"disable", "empty"}>>
    BY DEF Open
  <1> QED
    BY <1>1, <1>3, <1>4, <1>5 DEF Lossy!ComeOrLose, Open

(* ImplementsLossyStream: read() returns the bytes in order and once; the   *)
(* others are lost, but none that available() has promised before end(),   *)
(* and nothing waits in a closed port.                                     *)
THEOREM Refinement == Spec => ImplementsLossyStream
  <1>1. Init => Lossy!Init
    BY DEF Init, Lossy!Init
  <1>2. ASSUME IInv, IInv', [Next]_vars
        PROVE  [Lossy!Next]_<<sent, got, lost, promised, Open>>
    <2>1. ASSUME NEW e \in BOOLEAN, Arrive(e) PROVE Lossy!ComeOrLose
      <3>1. /\ UNCHANGED <<got, promised>> /\ Open' = Open /\ sent' = sent + 1
            /\ lost \subseteq lost'
            /\ enabled \/ sent + 1 \in lost'
        BY <2>1 DEF Arrive, sketch, answers, Open
      <3>2. lost' \ lost \subseteq Framed \union {sent + 1}
        <4>1. Len(fifo) = HwDepth => fifo[HwDepth].byte \in Framed
          BY LineAssumption DEF Framed
        <4> QED
          BY <2>1, <4>1 DEF Arrive
      <3> QED
        BY <1>2, <3>1, <3>2, Losing
    <2>2. CASE RxInterrupt
      <3>1. /\ UNCHANGED <<got, promised, sent>> /\ Open' = Open
            /\ lost' = lost \/ lost' = lost \union {Head(fifo).byte}
            /\ fifo # <<>> /\ fifo' = Tail(fifo)
        BY <2>2 DEF RxInterrupt, sketch, answers, Open
      <3>2. Head(fifo).byte \in Framed
        BY <1>2, <3>1, Popped DEF IInv
      <3> QED
        BY <1>2, <3>1, <3>2, Losing DEF Lossy!Next
    <2>3. CASE ReadAdvance
      <3>1. /\ char \in Waiting /\ \A j \in Waiting : j < char => FALSE
            /\ got' = Append(got, char)
            /\ promised' = IF promised > 0 THEN promised - 1 ELSE 0
            /\ UNCHANGED <<sent, lost>> /\ Open' = Open
        BY <1>2, <2>3, ReadStep DEF ReadAdvance, line, Open, IInv, Progress
      <3>2. char \in Lossy!Waiting /\ Lossy!Before(char) = {}
        BY <1>2, <3>1, PromiseCovered DEF Lossy!Before
      <3> QED
        BY <3>1, <3>2 DEF Lossy!Next, Lossy!Deliver, Lossy!Less, Open
    <2>4. CASE EndReceiver
      <3>1. /\ UNCHANGED <<sent, got, promised>> /\ Open' = Open
            /\ lost' = lost \union Framed
        BY <1>2, <2>4, EndStep DEF EndReceiver, answers, Open
      <3> QED
        BY <1>2, <3>1, Losing DEF Lossy!Next
    <2>5. CASE EndEmpty
      <3>1. /\ UNCHANGED <<sent, got>> /\ promised' = 0
            /\ lost' = lost \union Lossy!Waiting
        BY <1>2, <2>5, EndStep, PromiseCovered DEF EndEmpty, line
      <3>2. Open' = FALSE
        BY <1>2, <2>5 DEF EndEmpty, Open, IInv, Progress
      <3> QED
        BY <3>1, <3>2 DEF Lossy!Next, Lossy!Close, Open
    <2>6. CASE Begin
      BY <2>6 DEF Begin, line, answers, Open, Lossy!Next, Lossy!Open
    <2>7. CASE \/ AvailableCall \/ ReadCall \/ ReadFetch \/ EndInterrupt
               \/ UNCHANGED vars
               \/ \E on \in BOOLEAN : SetInterrupts(on)
      <3>1. /\ UNCHANGED <<sent, got, lost>>
            /\ promised' = promised \/ promised' = Count \/ promised' = 0
        BY <1>2, <2>7, OtherSteps
      <3>2. Open' = Open
        BY <2>7 DEF AvailableCall, ReadCall, ReadFetch, EndInterrupt,
                    SetInterrupts, sketch, vars, Open
      <3>3. promised' \in 0 .. Lossy!Cardinality(Lossy!Waiting)
        <4>1. /\ Lossy!Waiting = Waiting
              /\ promised \in 0 .. Cardinality(Waiting)
              /\ Count \in 0 .. Cardinality(Waiting)
              /\ 0 \in 0 .. Cardinality(Waiting)
          BY <1>2, PromiseCovered
        <4> QED
          BY <3>1, <4>1, SameCardinality
      <3>4. UNCHANGED <<sent, got, lost, enabled \/ pc \in {"disable", "empty"}>>
        BY <3>1, <3>2 DEF Open
      <3> QED
        BY <3>3, <3>4 DEF Lossy!Next, Lossy!Promise
    <2> QED
      BY <1>2, <2>1, <2>2, <2>3, <2>4, <2>5, <2>6, <2>7
         DEF Next, Calls, Running, Lossy!Next
  <1> QED
    BY <1>1, <1>2, Inductive, PTL
       DEF ImplementsLossyStream, Lossy!Spec, Lossy!vars, Spec, Open
=============================================================================
