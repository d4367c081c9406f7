----------------------------- MODULE PinsProofs -----------------------------
(***************************************************************************)
(* Safety of Pins for any pins, any timer and any values: no call of the    *)
(* sketch or of a handler undoes what the other has written.               *)
(***************************************************************************)
EXTENDS Pins, TLAPS

Steps == [do : {"change", "cli", "restore"}, reg : Registers, on : BOOLEAN]
Banks == [Registers -> SUBSET Pins]

ChangeOf(step, r) == step.do = "change" /\ step.reg = r

(* After the first i steps of s interrupts are masked: the next step that   *)
(* is not a change restores SREG.                                          *)
Guarded(s, i) ==
  \E k \in i + 1 .. Len(s) : /\ s[k].do = "restore"
                             /\ \A j \in i + 1 .. k - 1 : s[j].do = "change"

(* Masked sections are whole, and only the timer is changed outside them.   *)
WellMasked(s) ==
  \A i \in 1 .. Len(s) :
    /\ s[i].do = "cli" => Guarded(s, i)
    /\ s[i].do = "restore" => ~ Guarded(s, i)
    /\ s[i].do = "change" => s[i].reg = "tccr" \/ Guarded(s, i)

(* What s does to the bit of its pin in r: its last change decides.        *)
Silent(s, r) == \A i \in 1 .. Len(s) : ~ ChangeOf(s[i], r)

Says(s, r, on) ==
  \E i \in 1 .. Len(s) : /\ ChangeOf(s[i], r) /\ s[i].on = on
                         /\ \A j \in i + 1 .. Len(s) : ~ ChangeOf(s[j], r)

Leads(s, r, was, is) ==
  \/ Silent(s, r) /\ (was <=> is)
  \/ Says(s, r, TRUE) /\ is
  \/ Says(s, r, FALSE) /\ ~ is

(* s makes b of the registers a, as far as the bits of p go.                *)
Does(s, p, a, b) ==
  /\ s \in Seq(Steps)
  /\ WellMasked(s)
  /\ p \in PwmPins \/ Silent(s, "tccr")
  /\ \A r \in Registers : Leads(s, r, p \in a[r], p \in b[r])

Others == \A r \in Registers, p \in Pins : p # pin => (p \in regs[r] <=> p \in due[r])

OffTimer == regs["tccr"] \subseteq PwmPins /\ due["tccr"] \subseteq PwmPins

Loaded ==
  loaded => /\ todo # <<>> /\ Head(todo).do = "change"
            /\ tmp = regs[Head(todo).reg]

Mine == todo # <<>> => pin \in Pins \ HandlerPins

Interrupts ==
  IF Guarded(todo, 0) THEN ~ irqOn /\ old = ~ masked ELSE irqOn = ~ masked

IInv ==
  /\ TypeOK /\ Others /\ OffTimer /\ Loaded /\ Mine /\ Interrupts
  /\ Does(todo, pin, regs, due)

-----------------------------------------------------------------------------
(* Lists of steps.                                                          *)

(* What is left after the first step.                                      *)
LEMMA TailOf ==
  ASSUME NEW s \in Seq(Steps), s # <<>>
  PROVE  /\ Tail(s) \in Seq(Steps) /\ Len(Tail(s)) = Len(s) - 1
         /\ Len(s) \in Nat \ {0} /\ Head(s) = s[1] /\ s[1] \in Steps
         /\ \A i \in 1 .. Len(s) - 1 : Tail(s)[i] = s[i + 1]
  OBVIOUS

LEMMA GuardedTail ==
  ASSUME NEW s \in Seq(Steps), s # <<>>, NEW i \in 0 .. Len(s) - 1
  PROVE  Guarded(Tail(s), i) <=> Guarded(s, i + 1)
  <1> DEFINE t == Tail(s)
  <1>1. /\ Len(t) = Len(s) - 1 /\ Len(s) \in Nat /\ Len(t) \in Nat
        /\ \A j \in 1 .. Len(t) : t[j] = s[j + 1]
    BY TailOf
  <1> HIDE DEF t
  <1>2. ASSUME Guarded(t, i) PROVE Guarded(s, i + 1)
    <2>1. PICK k \in i + 1 .. Len(t) :
            t[k].do = "restore" /\ \A j \in i + 1 .. k - 1 : t[j].do = "change"
      BY <1>2 DEF Guarded
    <2>3. ASSUME NEW j \in i + 2 .. k PROVE s[j].do = "change"
      <3>1. j - 1 \in i + 1 .. k - 1 /\ j - 1 \in 1 .. Len(t) /\ (j - 1) + 1 = j
        BY <1>1
      <3>2. t[j - 1] = s[j]
        BY <1>1, <3>1
      <3> QED
        BY <2>1, <3>1, <3>2
    <2>4. k \in 1 .. Len(t) /\ k + 1 \in i + 2 .. Len(s) /\ (k + 1) - 1 = k
      BY <1>1
    <2>5. s[k + 1].do = "restore"
      BY <1>1, <2>1, <2>4
    <2>6. i + 1 + 1 = i + 2
      OBVIOUS
    <2> QED
      BY <2>3, <2>4, <2>5, <2>6 DEF Guarded
  <1>3. ASSUME Guarded(s, i + 1) PROVE Guarded(t, i)
    <2>1. PICK k \in i + 2 .. Len(s) :
            s[k].do = "restore" /\ \A j \in i + 2 .. k - 1 : s[j].do = "change"
      BY <1>3 DEF Guarded
    <2>2. \A j \in i + 1 .. k - 2 : j + 1 \in i + 2 .. k - 1 /\ j \in 1 .. Len(t)
      BY <1>1
    <2>3. \A j \in i + 1 .. k - 2 : t[j].do = "change"
      BY <1>1, <2>1, <2>2
    <2>4. k - 1 \in i + 1 .. Len(t) /\ k - 1 \in 1 .. Len(t) /\ (k - 1) + 1 = k
          /\ (k - 1) - 1 = k - 2
      BY <1>1
    <2>5. t[k - 1].do = "restore"
      BY <1>1, <2>1, <2>4
    <2> QED
      BY <2>3, <2>4, <2>5 DEF Guarded
  <1> QED
    BY <1>2, <1>3 DEF t

LEMMA WellMaskedTail ==
  ASSUME NEW s \in Seq(Steps), s # <<>>, WellMasked(s)
  PROVE  WellMasked(Tail(s))
  <1>1. /\ Len(Tail(s)) = Len(s) - 1 /\ Len(s) \in Nat
        /\ \A i \in 1 .. Len(s) - 1 : Tail(s)[i] = s[i + 1]
    BY TailOf
  <1> SUFFICES ASSUME NEW i \in 1 .. Len(Tail(s))
               PROVE  /\ Tail(s)[i].do = "cli" => Guarded(Tail(s), i)
                      /\ Tail(s)[i].do = "restore" => ~ Guarded(Tail(s), i)
                      /\ Tail(s)[i].do = "change" =>
                           Tail(s)[i].reg = "tccr" \/ Guarded(Tail(s), i)
    BY DEF WellMasked
  <1>2. i \in 0 .. Len(s) - 1 /\ i + 1 \in 1 .. Len(s) /\ Tail(s)[i] = s[i + 1]
    BY <1>1
  <1>3. Guarded(Tail(s), i) <=> Guarded(s, i + 1)
    BY <1>2, GuardedTail
  <1> QED
    BY <1>2, <1>3 DEF WellMasked

(* The first step decides the bit only if no later one changes it.          *)
LEMMA LeadsTail ==
  ASSUME NEW s \in Seq(Steps), s # <<>>, NEW r \in Registers,
         NEW p, NEW a, NEW b, Leads(s, r, p \in a[r], p \in b[r])
  PROVE  /\ ~ ChangeOf(s[1], r) => Leads(Tail(s), r, p \in a[r], p \in b[r])
         /\ ChangeOf(s[1], r) /\ s[1].on => Leads(Tail(s), r, TRUE, p \in b[r])
         /\ ChangeOf(s[1], r) /\ ~ s[1].on => Leads(Tail(s), r, FALSE, p \in b[r])
         /\ Silent(s, r) => Silent(Tail(s), r)
  <1> DEFINE t == Tail(s)
  <1>1. /\ Len(t) = Len(s) - 1 /\ Len(s) \in Nat \ {0} /\ s[1] \in Steps
        /\ \A j \in 1 .. Len(t) : t[j] = s[j + 1]
    BY TailOf
  <1> HIDE DEF t
  <1>2. ASSUME Silent(s, r) PROVE Silent(t, r) /\ ~ ChangeOf(s[1], r)
    <2>1. \A j \in 1 .. Len(t) : j + 1 \in 1 .. Len(s)
      BY <1>1
    <2>2. 1 \in 1 .. Len(s)
      BY <1>1
    <2> QED
      BY <1>1, <1>2, <2>1, <2>2 DEF Silent
  <1>3. ASSUME NEW on \in BOOLEAN, Says(s, r, on)
        PROVE  Says(t, r, on) \/ (Silent(t, r) /\ ChangeOf(s[1], r) /\ s[1].on = on)
    <2>1. PICK i \in 1 .. Len(s) :
            /\ ChangeOf(s[i], r) /\ s[i].on = on
            /\ \A j \in i + 1 .. Len(s) : ~ ChangeOf(s[j], r)
      BY <1>3 DEF Says
    <2>2. CASE i = 1
      <3>1. \A j \in 1 .. Len(t) : j + 1 \in i + 1 .. Len(s)
        BY <1>1, <2>2
      <3> QED
        BY <1>1, <2>1, <2>2, <3>1 DEF Silent
    <2>3. CASE i > 1
      <3>1. i - 1 \in 1 .. Len(t) /\ (i - 1) + 1 = i
        BY <1>1, <2>3
      <3>2. \A j \in i .. Len(t) : j \in 1 .. Len(t) /\ j + 1 \in i + 1 .. Len(s)
        BY <1>1
      <3>3. t[i - 1] = s[i] /\ \A j \in i .. Len(t) : ~ ChangeOf(t[j], r)
        BY <1>1, <2>1, <3>1, <3>2
      <3> QED
        BY <2>1, <3>1, <3>3 DEF Says
    <2> QED
      BY <2>2, <2>3
  <1>4. s[1].on \in BOOLEAN
    BY <1>1 DEF Steps
  <1>5. CASE Silent(s, r) /\ (p \in a[r] <=> p \in b[r])
    BY <1>2, <1>5 DEF Leads, t
  <1>6. CASE Says(s, r, TRUE) /\ p \in b[r]
    BY <1>2, <1>3, <1>4, <1>6 DEF Leads, t
  <1>7. CASE Says(s, r, FALSE) /\ p \notin b[r]
    BY <1>2, <1>3, <1>4, <1>7 DEF Leads, t
  <1> QED
    BY <1>5, <1>6, <1>7 DEF Leads

LEMMA Joined ==
  ASSUME NEW s \in Seq(Steps), NEW t \in Seq(Steps)
  PROVE  /\ s \o t \in Seq(Steps) /\ Len(s \o t) = Len(s) + Len(t)
         /\ Len(s) \in Nat /\ Len(t) \in Nat
         /\ \A i \in 1 .. Len(s) : (s \o t)[i] = s[i]
         /\ \A j \in 1 .. Len(t) : (s \o t)[Len(s) + j] = t[j]
         /\ \A i \in 1 .. Len(s \o t) :
              \/ i \in 1 .. Len(s)
              \/ \E j \in 1 .. Len(t) : i = Len(s) + j
  <1>1. /\ s \o t \in Seq(Steps) /\ Len(s \o t) = Len(s) + Len(t)
        /\ Len(s) \in Nat /\ Len(t) \in Nat
        /\ \A i \in 1 .. Len(s) : (s \o t)[i] = s[i]
        /\ \A j \in 1 .. Len(t) : (s \o t)[Len(s) + j] = t[j]
    OBVIOUS
  <1>2. ASSUME NEW i \in 1 .. Len(s \o t), i \notin 1 .. Len(s)
        PROVE  i - Len(s) \in 1 .. Len(t) /\ i = Len(s) + (i - Len(s))
    BY <1>1, <1>2
  <1> QED
    BY <1>1, <1>2

LEMMA GuardedJoined ==
  ASSUME NEW s \in Seq(Steps), NEW t \in Seq(Steps)
  PROVE  /\ \A i \in 0 .. Len(s) : Guarded(s, i) => Guarded(s \o t, i)
         /\ \A i \in 0 .. Len(s) :
              ~ Guarded(s, i) /\ ~ Guarded(t, 0) => ~ Guarded(s \o t, i)
         /\ \A j \in 0 .. Len(t) : Guarded(s \o t, Len(s) + j) <=> Guarded(t, j)
  <1> DEFINE u == s \o t
             n == Len(s)
             m == Len(t)
  <1>1. /\ n \in Nat /\ m \in Nat /\ Len(u) = n + m
        /\ \A i \in 1 .. n : u[i] = s[i]
        /\ \A j \in 1 .. m : u[n + j] = t[j]
    BY Joined
  <1> HIDE DEF u, n, m
  <1>2. ASSUME NEW i \in 0 .. n, Guarded(s, i) PROVE Guarded(u, i)
    <2>1. PICK k \in i + 1 .. n :
            s[k].do = "restore" /\ \A j \in i + 1 .. k - 1 : s[j].do = "change"
      BY <1>2 DEF Guarded, n
    <2>2. k \in i + 1 .. Len(u) /\ k \in 1 .. n /\ i + 1 .. k - 1 \subseteq 1 .. n
      BY <1>1
    <2> QED
      BY <1>1, <2>1, <2>2 DEF Guarded
  <1>3. ASSUME NEW j \in 0 .. m, Guarded(t, j) PROVE Guarded(u, n + j)
    <2>1. PICK k \in j + 1 .. m :
            t[k].do = "restore" /\ \A l \in j + 1 .. k - 1 : t[l].do = "change"
      BY <1>3 DEF Guarded, m
    <2>2. n + k \in n + j + 1 .. Len(u) /\ k \in 1 .. m
      BY <1>1
    <2>3. ASSUME NEW l \in n + j + 1 .. n + k - 1 PROVE u[l].do = "change"
      <3>1. l - n \in j + 1 .. k - 1 /\ l - n \in 1 .. m /\ n + (l - n) = l
        BY <1>1
      <3>2. u[l] = t[l - n]
        BY <1>1, <3>1
      <3> QED
        BY <2>1, <3>1, <3>2
    <2> QED
      BY <1>1, <2>1, <2>2, <2>3 DEF Guarded
  <1>4. ASSUME NEW j \in 0 .. m, Guarded(u, n + j) PROVE Guarded(t, j)
    <2>1. PICK k \in n + j + 1 .. n + m :
            u[k].do = "restore" /\ \A l \in n + j + 1 .. k - 1 : u[l].do = "change"
      BY <1>1, <1>4 DEF Guarded
    <2>2. k - n \in j + 1 .. m /\ k - n \in 1 .. m /\ n + (k - n) = k
      BY <1>1
    <2>3. t[k - n].do = "restore"
      BY <1>1, <2>1, <2>2
    <2>4. ASSUME NEW l \in j + 1 .. (k - n) - 1 PROVE t[l].do = "change"
      <3>1. n + l \in n + j + 1 .. k - 1 /\ l \in 1 .. m
        BY <1>1
      <3> QED
        BY <1>1, <2>1, <3>1
    <2> QED
      BY <2>2, <2>3, <2>4 DEF Guarded, m
  <1>5. ASSUME NEW i \in 0 .. n, Guarded(u, i) PROVE Guarded(s, i) \/ Guarded(t, 0)
    <2>1. PICK k \in i + 1 .. n + m :
            u[k].do = "restore" /\ \A l \in i + 1 .. k - 1 : u[l].do = "change"
      BY <1>1, <1>5 DEF Guarded
    <2>2. CASE k <= n
      <3>1. k \in i + 1 .. n /\ k \in 1 .. n /\ i + 1 .. k - 1 \subseteq 1 .. n
        BY <1>1, <2>2
      <3>2. s[k].do = "restore" /\ \A l \in i + 1 .. k - 1 : s[l].do = "change"
        BY <1>1, <2>1, <3>1
      <3> QED
        BY <3>1, <3>2 DEF Guarded, n
    <2>3. CASE k > n
      <3>1. n + 1 .. k - 1 \subseteq i + 1 .. k - 1 /\ k \in n + 0 + 1 .. Len(u)
            /\ n + 0 + 1 .. k - 1 = n + 1 .. k - 1
        BY <1>1, <2>3
      <3>2. Guarded(u, n + 0)
        BY <2>1, <3>1 DEF Guarded
      <3> QED
        BY <1>1, <1>4, <3>2
    <2> QED
      BY <1>1, <2>2, <2>3
  <1> QED
    BY <1>2, <1>3, <1>4, <1>5 DEF u, n, m

LEMMA SilentJoined ==
  ASSUME NEW s \in Seq(Steps), NEW t \in Seq(Steps), NEW r \in Registers
  PROVE  /\ Silent(s, r) /\ Silent(t, r) => Silent(s \o t, r)
         /\ \A on \in BOOLEAN :
              Says(s, r, on) /\ Silent(t, r) => Says(s \o t, r, on)
         /\ \A on \in BOOLEAN : Says(t, r, on) => Says(s \o t, r, on)
  <1> DEFINE u == s \o t
             n == Len(s)
             m == Len(t)
  <1>1. /\ n \in Nat /\ m \in Nat /\ Len(u) = n + m
        /\ \A i \in 1 .. n : u[i] = s[i]
        /\ \A j \in 1 .. m : u[n + j] = t[j]
        /\ \A i \in 1 .. Len(u) : i \in 1 .. n \/ \E j \in 1 .. m : i = n + j
    BY Joined
  <1> HIDE DEF u, n, m
  <1>2. Silent(s, r) /\ Silent(t, r) => Silent(u, r)
    BY <1>1 DEF Silent, n, m
  <1>3. ASSUME NEW on \in BOOLEAN, Says(s, r, on), Silent(t, r)
        PROVE  Says(u, r, on)
    <2>1. PICK i \in 1 .. n : /\ ChangeOf(s[i], r) /\ s[i].on = on
                              /\ \A j \in i + 1 .. n : ~ ChangeOf(s[j], r)
      BY <1>3 DEF Says, n
    <2>2. i \in 1 .. Len(u) /\ u[i] = s[i]
      BY <1>1
    <2>3. ASSUME NEW j \in i + 1 .. Len(u) PROVE ~ ChangeOf(u[j], r)
      <3>1. CASE j \in 1 .. n
        <4>1. j \in i + 1 .. n
          BY <1>1, <3>1
        <4> QED
          BY <1>1, <2>1, <3>1, <4>1
      <3>2. CASE \E l \in 1 .. m : j = n + l
        BY <1>1, <1>3, <3>2 DEF Silent, m
      <3>3. j \in 1 .. Len(u)
        BY <1>1
      <3> QED
        BY <1>1, <3>1, <3>2, <3>3
    <2> QED
      BY <2>1, <2>2, <2>3 DEF Says
  <1>4. ASSUME NEW on \in BOOLEAN, Says(t, r, on) PROVE Says(u, r, on)
    <2>1. PICK i \in 1 .. m : /\ ChangeOf(t[i], r) /\ t[i].on = on
                              /\ \A j \in i + 1 .. m : ~ ChangeOf(t[j], r)
      BY <1>4 DEF Says, m
    <2>2. n + i \in 1 .. Len(u) /\ u[n + i] = t[i]
      BY <1>1
    <2>3. ASSUME NEW j \in n + i + 1 .. Len(u) PROVE ~ ChangeOf(u[j], r)
      <3>1. j - n \in i + 1 .. m /\ j - n \in 1 .. m /\ n + (j - n) = j
        BY <1>1
      <3>2. u[j] = t[j - n]
        BY <1>1, <3>1
      <3> QED
        BY <2>1, <3>1, <3>2
    <2> QED
      BY <2>1, <2>2, <2>3 DEF Says
  <1> QED
    BY <1>2, <1>3, <1>4 DEF u

LEMMA LeadsJoined ==
  ASSUME NEW s \in Seq(Steps), NEW t \in Seq(Steps), NEW r \in Registers,
         NEW p, NEW a, NEW b, NEW c,
         Leads(s, r, p \in a[r], p \in b[r]), Leads(t, r, p \in b[r], p \in c[r])
  PROVE  Leads(s \o t, r, p \in a[r], p \in c[r])
  <1>1. /\ Silent(s, r) /\ Silent(t, r) => Silent(s \o t, r)
        /\ Says(s, r, TRUE) /\ Silent(t, r) => Says(s \o t, r, TRUE)
        /\ Says(s, r, FALSE) /\ Silent(t, r) => Says(s \o t, r, FALSE)
        /\ Says(t, r, TRUE) => Says(s \o t, r, TRUE)
        /\ Says(t, r, FALSE) => Says(s \o t, r, FALSE)
    BY SilentJoined
  <1> QED
    BY <1>1 DEF Leads

(* Two pieces of code, one after the other.                                 *)
LEMMA DoesBoth ==
  ASSUME NEW s, NEW t, NEW p, NEW a, NEW b, NEW c,
         Does(s, p, a, b), Does(t, p, b, c), ~ Guarded(s, 0), ~ Guarded(t, 0)
  PROVE  Does(s \o t, p, a, c) /\ ~ Guarded(s \o t, 0)
  <1>1. s \in Seq(Steps) /\ t \in Seq(Steps)
    BY DEF Does
  <1>2. /\ s \o t \in Seq(Steps) /\ Len(s) \in Nat /\ Len(t) \in Nat
        /\ \A i \in 1 .. Len(s) : (s \o t)[i] = s[i]
        /\ \A j \in 1 .. Len(t) : (s \o t)[Len(s) + j] = t[j]
        /\ \A i \in 1 .. Len(s \o t) :
              \/ i \in 1 .. Len(s)
              \/ \E j \in 1 .. Len(t) : i = Len(s) + j
    BY <1>1, Joined
  <1>3. ~ Guarded(s \o t, 0)
    BY <1>1, <1>2, GuardedJoined
  <1>4. WellMasked(s \o t)
    <2> SUFFICES ASSUME NEW i \in 1 .. Len(s \o t)
                 PROVE  /\ (s \o t)[i].do = "cli" => Guarded(s \o t, i)
                        /\ (s \o t)[i].do = "restore" => ~ Guarded(s \o t, i)
                        /\ (s \o t)[i].do = "change" =>
                             (s \o t)[i].reg = "tccr" \/ Guarded(s \o t, i)
      BY DEF WellMasked
    <2>1. CASE i \in 1 .. Len(s)
      <3>1. (s \o t)[i] = s[i] /\ i \in 0 .. Len(s)
        BY <1>2, <2>1
      <3>2. Guarded(s \o t, i) <=> Guarded(s, i)
        BY <1>1, <3>1, GuardedJoined
      <3> QED
        BY <2>1, <3>1, <3>2 DEF Does, WellMasked
    <2>2. CASE \E j \in 1 .. Len(t) : i = Len(s) + j
      <3>1. PICK j \in 1 .. Len(t) : i = Len(s) + j
        BY <2>2
      <3>2. (s \o t)[i] = t[j] /\ j \in 0 .. Len(t)
        BY <1>2, <3>1
      <3>3. Guarded(s \o t, i) <=> Guarded(t, j)
        BY <1>1, <3>1, <3>2, GuardedJoined
      <3> QED
        BY <3>2, <3>3 DEF Does, WellMasked
    <2> QED
      BY <1>2, <2>1, <2>2
  <1>5. p \in PwmPins \/ Silent(s \o t, "tccr")
    BY <1>1, SilentJoined DEF Does, Registers
  <1>6. ASSUME NEW r \in Registers PROVE Leads(s \o t, r, p \in a[r], p \in c[r])
    <2>1. Leads(s, r, p \in a[r], p \in b[r]) /\ Leads(t, r, p \in b[r], p \in c[r])
      BY DEF Does
    <2> QED
      BY <1>1, <2>1, LeadsJoined
  <1> QED
    BY <1>2, <1>3, <1>4, <1>5, <1>6 DEF Does

-----------------------------------------------------------------------------
(* The code of each call does what the call promises.                       *)

Changing(s, p, a, b) ==
  /\ s \in Seq(Steps) /\ \A i \in 1 .. Len(s) : s[i].do = "change"
  /\ p \in PwmPins \/ Silent(s, "tccr")
  /\ \A r \in Registers : Leads(s, r, p \in a[r], p \in b[r])

LEMMA SetIs ==
  ASSUME NEW a \in Banks, NEW r \in Registers, NEW p \in Pins, NEW on \in BOOLEAN
  PROVE  /\ Set(a, r, p, on) \in Banks
         /\ \A q \in Registers : q # r => Set(a, r, p, on)[q] = a[q]
         /\ Set(a, r, p, on)[r] = IF on THEN a[r] \union {p} ELSE a[r] \ {p}
  BY DEF Set, With, Banks

LEMMA OneChange ==
  ASSUME NEW a \in Banks, NEW r \in Registers, NEW p \in Pins, NEW on \in BOOLEAN,
         p \in PwmPins \/ r # "tccr"
  PROVE  Changing(<<Change(r, on)>>, p, a, Set(a, r, p, on))
  <1> DEFINE s == <<Change(r, on)>>
             b == Set(a, r, p, on)
  <1>1. s \in Seq(Steps) /\ Len(s) = 1 /\ s[1] = Change(r, on)
    BY DEF Change, Steps
  <1>2. s[1].do = "change" /\ s[1].reg = r /\ s[1].on = on
    BY <1>1 DEF Change
  <1>3. /\ \A q \in Registers : q # r => b[q] = a[q]
        /\ b[r] = IF on THEN a[r] \union {p} ELSE a[r] \ {p}
    BY DEF Set, With, Banks
  <1> HIDE DEF s, b
  <1>4. \A q \in Registers : q # r => Silent(s, q)
    BY <1>1, <1>2 DEF Silent, ChangeOf
  <1>5. Says(s, r, on)
    <2>1. ChangeOf(s[1], r) /\ s[1].on = on /\ \A j \in 2 .. Len(s) : FALSE
      BY <1>1, <1>2 DEF ChangeOf
    <2> QED
      BY <1>1, <2>1 DEF Says
  <1>6. p \in PwmPins \/ Silent(s, "tccr")
    BY <1>4 DEF Registers
  <1>7. ASSUME NEW q \in Registers PROVE Leads(s, q, p \in a[q], p \in b[q])
    <2>1. CASE q # r
      BY <1>3, <1>4, <2>1 DEF Leads
    <2>2. CASE q = r /\ on = TRUE
      BY <1>3, <1>5, <2>2 DEF Leads
    <2>3. CASE q = r /\ on = FALSE
      BY <1>3, <1>5, <2>3 DEF Leads
    <2> QED
      BY <2>1, <2>2, <2>3
  <1>8. \A i \in 1 .. Len(s) : s[i].do = "change"
    BY <1>1, <1>2
  <1> QED
    BY <1>1, <1>6, <1>7, <1>8 DEF Changing, s, b

LEMMA TwoChanges ==
  ASSUME NEW a \in Banks, NEW p \in Pins, NEW on \in BOOLEAN, NEW up \in BOOLEAN
  PROVE  Changing(<<Change("ddr", on), Change("port", up)>>, p, a,
                  Set(Set(a, "ddr", p, on), "port", p, up))
  <1> DEFINE s == <<Change("ddr", on), Change("port", up)>>
             b == Set(a, "ddr", p, on)
             c == Set(b, "port", p, up)
  <1>1. /\ s \in Seq(Steps) /\ Len(s) = 2
        /\ s[1] = Change("ddr", on) /\ s[2] = Change("port", up)
    BY DEF Change, Steps, Registers
  <1>2. /\ s[1].do = "change" /\ s[1].reg = "ddr" /\ s[1].on = on
        /\ s[2].do = "change" /\ s[2].reg = "port" /\ s[2].on = up
    BY <1>1 DEF Change
  <1>3. "ddr" \in Registers /\ "port" \in Registers /\ "tccr" \in Registers
    BY DEF Registers
  <1>4. /\ b \in Banks /\ b["port"] = a["port"] /\ b["tccr"] = a["tccr"]
        /\ b["ddr"] = IF on THEN a["ddr"] \union {p} ELSE a["ddr"] \ {p}
    BY <1>3 DEF Set, With, Banks
  <1> HIDE DEF b
  <1>5. /\ c["ddr"] = b["ddr"] /\ c["tccr"] = b["tccr"]
        /\ c["port"] = IF up THEN b["port"] \union {p} ELSE b["port"] \ {p}
    BY <1>3, <1>4 DEF Set, With, Banks
  <1> HIDE DEF s, c
  <1>6. Says(s, "ddr", on)
    <2>1. ChangeOf(s[1], "ddr") /\ \A j \in 2 .. Len(s) : ~ ChangeOf(s[j], "ddr")
      BY <1>1, <1>2 DEF ChangeOf
    <2> QED
      BY <1>1, <1>2, <2>1 DEF Says
  <1>7. Says(s, "port", up)
    <2>1. ChangeOf(s[2], "port") /\ \A j \in 3 .. Len(s) : FALSE
      BY <1>1, <1>2 DEF ChangeOf
    <2> QED
      BY <1>1, <1>2, <2>1 DEF Says
  <1>8. Silent(s, "tccr")
    BY <1>1, <1>2 DEF Silent, ChangeOf
  <1>9. Leads(s, "ddr", p \in a["ddr"], p \in c["ddr"])
    <2>1. CASE on = TRUE
      BY <1>4, <1>5, <1>6, <2>1 DEF Leads
    <2>2. CASE on = FALSE
      BY <1>4, <1>5, <1>6, <2>2 DEF Leads
    <2> QED
      BY <2>1, <2>2
  <1>10. Leads(s, "port", p \in a["port"], p \in c["port"])
    <2>1. CASE up = TRUE
      BY <1>4, <1>5, <1>7, <2>1 DEF Leads
    <2>2. CASE up = FALSE
      BY <1>4, <1>5, <1>7, <2>2 DEF Leads
    <2> QED
      BY <2>1, <2>2
  <1>11. Leads(s, "tccr", p \in a["tccr"], p \in c["tccr"])
    BY <1>4, <1>5, <1>8 DEF Leads
  <1>12. \A i \in 1 .. Len(s) : s[i].do = "change"
    BY <1>1, <1>2
  <1> QED
    BY <1>1, <1>8, <1>9, <1>10, <1>11, <1>12 DEF Changing, Registers, b, c, s

(* Changes to the timer need no mask.                                      *)
LEMMA TimerChange ==
  ASSUME NEW a \in Banks, NEW p \in PwmPins, NEW on \in BOOLEAN
  PROVE  /\ Does(<<Change("tccr", on)>>, p, a, Set(a, "tccr", p, on))
         /\ ~ Guarded(<<Change("tccr", on)>>, 0)
  <1> DEFINE s == <<Change("tccr", on)>>
  <1>1. Changing(s, p, a, Set(a, "tccr", p, on))
    BY OneChange, PinsAssumption DEF Registers
  <1>2. Len(s) = 1 /\ s[1].do = "change" /\ s[1].reg = "tccr"
    BY DEF Change
  <1> HIDE DEF s
  <1>3. WellMasked(s) /\ ~ Guarded(s, 0)
    BY <1>2 DEF WellMasked, Guarded
  <1> QED
    BY <1>1, <1>3 DEF Does, Changing, s

LEMMA MaskedDoes ==
  ASSUME NEW s, NEW p, NEW a, NEW b, Changing(s, p, a, b)
  PROVE  Does(Masked(s), p, a, b) /\ ~ Guarded(Masked(s), 0)
  <1> DEFINE first == <<Cli>>
             last == <<Restore>>
             u == first \o s
             m == u \o last
  <1>1. /\ s \in Seq(Steps) /\ first \in Seq(Steps) /\ last \in Seq(Steps)
        /\ Len(first) = 1 /\ first[1].do = "cli"
        /\ Len(last) = 1 /\ last[1].do = "restore"
    BY DEF Changing, Cli, Restore, Steps, Registers
  <1>2. \A r : Silent(first, r) /\ Silent(last, r)
    BY DEF Silent, ChangeOf, Cli, Restore
  <1> HIDE DEF first, last
  <1>3. /\ u \in Seq(Steps) /\ Len(u) = Len(s) + 1 /\ Len(s) \in Nat
        /\ u[1] = first[1]
        /\ \A j \in 1 .. Len(s) : u[1 + j] = s[j]
    <2>1. /\ u \in Seq(Steps) /\ Len(u) = Len(first) + Len(s) /\ Len(s) \in Nat
          /\ \A i \in 1 .. Len(first) : u[i] = first[i]
          /\ \A j \in 1 .. Len(s) : u[Len(first) + j] = s[j]
      BY <1>1, Joined
    <2> QED
      BY <1>1, <2>1
  <1> HIDE DEF u
  <1>4. /\ m \in Seq(Steps) /\ Len(m) = Len(s) + 2
        /\ \A i \in 1 .. Len(u) : m[i] = u[i]
        /\ m[Len(u) + 1] = last[1]
    <2>1. /\ m \in Seq(Steps) /\ Len(m) = Len(u) + Len(last)
          /\ \A i \in 1 .. Len(u) : m[i] = u[i]
          /\ \A j \in 1 .. Len(last) : m[Len(u) + j] = last[j]
      BY <1>1, <1>3, Joined
    <2> QED
      BY <1>1, <1>3, <2>1
  <1> HIDE DEF m
  <1>5. m[1].do = "cli" /\ m[Len(m)].do = "restore"
    <2>1. 1 \in 1 .. Len(u) /\ Len(m) = Len(u) + 1
      BY <1>3, <1>4
    <2> QED
      BY <1>1, <1>3, <1>4, <2>1
  <1>6. ASSUME NEW i \in 2 .. Len(m) - 1 PROVE m[i].do = "change"
    <2>1. i - 1 \in 1 .. Len(s) /\ 1 + (i - 1) = i /\ i \in 1 .. Len(u)
      BY <1>3, <1>4
    <2>2. m[i] = s[i - 1]
      BY <1>3, <1>4, <2>1
    <2> QED
      BY <2>1, <2>2 DEF Changing
  <1>7. Len(m) \in Nat /\ Len(m) >= 2
    BY <1>3, <1>4
  <1>8. ~ Guarded(m, 0)
    <2> SUFFICES ASSUME NEW k \in 0 + 1 .. Len(m), m[k].do = "restore",
                        \A j \in 0 + 1 .. k - 1 : m[j].do = "change"
                 PROVE  FALSE
      BY DEF Guarded
    <2>1. k # 1
      BY <1>5
    <2>2. 1 \in 0 + 1 .. k - 1
      BY <1>7, <2>1
    <2> QED
      BY <1>5, <2>2
  <1>9. WellMasked(m)
    <2> SUFFICES ASSUME NEW i \in 1 .. Len(m)
                 PROVE  /\ m[i].do = "cli" => Guarded(m, i)
                        /\ m[i].do = "restore" => ~ Guarded(m, i)
                        /\ m[i].do = "change" => m[i].reg = "tccr" \/ Guarded(m, i)
      BY DEF WellMasked
    <2>1. CASE i < Len(m)
      <3>1. Len(m) \in i + 1 .. Len(m) /\ i + 1 .. Len(m) - 1 \subseteq 2 .. Len(m) - 1
        BY <1>7, <2>1
      <3>2. Guarded(m, i)
        BY <1>5, <1>6, <3>1 DEF Guarded
      <3>3. m[i].do # "restore"
        <4>1. i = 1 \/ i \in 2 .. Len(m) - 1
          BY <1>7, <2>1
        <4> QED
          BY <1>5, <1>6, <4>1
      <3> QED
        BY <3>2, <3>3
    <2>2. CASE i = Len(m)
      <3>1. ~ Guarded(m, i)
        BY <1>7, <2>2 DEF Guarded
      <3> QED
        BY <1>5, <2>2, <3>1
    <2> QED
      BY <1>7, <2>1, <2>2
  <1>10. ASSUME NEW r \in Registers PROVE Leads(m, r, p \in a[r], p \in b[r])
    <2>1. /\ Leads(first, r, p \in a[r], p \in a[r])
          /\ Leads(s, r, p \in a[r], p \in b[r])
          /\ Leads(last, r, p \in b[r], p \in b[r])
      BY <1>2 DEF Leads, Changing
    <2>2. Leads(u, r, p \in a[r], p \in b[r])
      BY <1>1, <2>1, LeadsJoined DEF u
    <2> QED
      BY <1>1, <1>3, <2>1, <2>2, LeadsJoined DEF m
  <1>11. p \in PwmPins \/ Silent(m, "tccr")
    <2>1. "tccr" \in Registers
      BY DEF Registers
    <2>2. Silent(s, "tccr") => Silent(u, "tccr")
      BY <1>1, <1>2, <2>1, SilentJoined DEF u
    <2>3. Silent(u, "tccr") => Silent(m, "tccr")
      BY <1>1, <1>2, <1>3, <2>1, SilentJoined DEF m
    <2> QED
      BY <2>2, <2>3 DEF Changing
  <1>12. m = Masked(s)
    <2>1. Masked(s) = first \o s \o last
      BY DEF Masked, first, last
    <2> QED
      BY <2>1 DEF m, u
  <1> QED
    BY <1>4, <1>8, <1>9, <1>10, <1>11, <1>12 DEF Does

LEMMA NothingDone ==
  ASSUME NEW p, NEW a, NEW b, \A r \in Registers : p \in a[r] <=> p \in b[r]
  PROVE  Does(<<>>, p, a, b) /\ ~ Guarded(<<>>, 0)
  <1>1. <<>> \in Seq(Steps) /\ Len(<<>>) = 0
    OBVIOUS
  <1>2. WellMasked(<<>>) /\ ~ Guarded(<<>>, 0) /\ \A r : Silent(<<>>, r)
    BY <1>1 DEF WellMasked, Silent, Guarded
  <1> QED
    BY <1>1, <1>2 DEF Does, Leads

LEMMA PinModeDoes ==
  ASSUME NEW a \in Banks, NEW p \in Pins, NEW mode \in Modes
  PROVE  LET b == Set(a, "ddr", p, mode = "OUTPUT")
             c == IF mode = "OUTPUT" THEN b
                  ELSE Set(b, "port", p, mode = "INPUT_PULLUP")
         IN  Does(pinMode(mode), p, a, c) /\ ~ Guarded(pinMode(mode), 0)
  <1>1. CASE mode = "OUTPUT"
    <2>1. Changing(<<Change("ddr", TRUE)>>, p, a, Set(a, "ddr", p, TRUE))
      BY OneChange DEF Registers
    <2>2. /\ pinMode(mode) = Masked(<<Change("ddr", TRUE)>>)
          /\ Set(a, "ddr", p, mode = "OUTPUT") = Set(a, "ddr", p, TRUE)
      BY <1>1 DEF pinMode, Set, With
    <2> QED
      BY <1>1, <2>1, <2>2, MaskedDoes
  <1>2. CASE mode = "INPUT_PULLUP"
    <2>1. Changing(<<Change("ddr", FALSE), Change("port", TRUE)>>, p, a,
                   Set(Set(a, "ddr", p, FALSE), "port", p, TRUE))
      BY TwoChanges
    <2>2. /\ pinMode(mode) = Masked(<<Change("ddr", FALSE), Change("port", TRUE)>>)
          /\ Set(Set(a, "ddr", p, mode = "OUTPUT"), "port", p, mode = "INPUT_PULLUP")
               = Set(Set(a, "ddr", p, FALSE), "port", p, TRUE)
      BY <1>2 DEF pinMode, Set, With, Change
    <2> QED
      BY <1>2, <2>1, <2>2, MaskedDoes
  <1>3. CASE mode = "INPUT"
    <2>1. Changing(<<Change("ddr", FALSE), Change("port", FALSE)>>, p, a,
                   Set(Set(a, "ddr", p, FALSE), "port", p, FALSE))
      BY TwoChanges
    <2>2. /\ pinMode(mode) = Masked(<<Change("ddr", FALSE), Change("port", FALSE)>>)
          /\ Set(Set(a, "ddr", p, mode = "OUTPUT"), "port", p, mode = "INPUT_PULLUP")
               = Set(Set(a, "ddr", p, FALSE), "port", p, FALSE)
      BY <1>3 DEF pinMode, Set, With, Change
    <2> QED
      BY <1>3, <2>1, <2>2, MaskedDoes
  <1> QED
    BY <1>1, <1>2, <1>3 DEF Modes

LEMMA TurnOffDoes ==
  ASSUME NEW a \in Banks, NEW p \in Pins, a["tccr"] \subseteq PwmPins
  PROVE  /\ Does(turnOffPWM(p), p, a, Set(a, "tccr", p, FALSE))
         /\ ~ Guarded(turnOffPWM(p), 0)
  <1>1. CASE p \in PwmPins
    BY <1>1, TimerChange DEF turnOffPWM
  <1>2. CASE p \notin PwmPins
    <2>1. \A r \in Registers : p \in a[r] <=> p \in Set(a, "tccr", p, FALSE)[r]
      BY <1>2 DEF Set, With, Banks, Registers
    <2> QED
      BY <1>2, <2>1, NothingDone DEF turnOffPWM
  <1> QED
    BY <1>1, <1>2

LEMMA DigitalWriteDoes ==
  ASSUME NEW a \in Banks, NEW p \in Pins, NEW high \in BOOLEAN,
         a["tccr"] \subseteq PwmPins
  PROVE  /\ Does(digitalWrite(p, high), p, a, Level(a, p, high))
         /\ ~ Guarded(digitalWrite(p, high), 0)
  <1> DEFINE b == Set(a, "tccr", p, FALSE)
  <1>1. Does(turnOffPWM(p), p, a, b) /\ ~ Guarded(turnOffPWM(p), 0)
    BY TurnOffDoes
  <1>2. b \in Banks /\ "port" \in Registers
    BY DEF Set, With, Banks, Registers
  <1>3. Changing(<<Change("port", high)>>, p, b, Set(b, "port", p, high))
    BY <1>2, OneChange
  <1>4. /\ Does(Masked(<<Change("port", high)>>), p, b, Set(b, "port", p, high))
        /\ ~ Guarded(Masked(<<Change("port", high)>>), 0)
    BY <1>3, MaskedDoes
  <1> QED
    BY <1>1, <1>4, DoesBoth DEF digitalWrite, Level

LEMMA AnalogWriteDoes ==
  ASSUME NEW a \in Banks, NEW p \in Pins, NEW val \in 0 .. 255,
         a["tccr"] \subseteq PwmPins
  PROVE  LET b == Set(a, "ddr", p, TRUE)
             modulated == p \in PwmPins /\ val \in 1 .. 254
         IN  /\ modulated => Does(analogWrite(p, val), p, a, Set(b, "tccr", p, TRUE))
             /\ ~ modulated /\ val >= 128 =>
                  Does(analogWrite(p, val), p, a, Level(b, p, TRUE))
             /\ ~ modulated /\ val < 128 =>
                  Does(analogWrite(p, val), p, a, Level(b, p, FALSE))
             /\ ~ Guarded(analogWrite(p, val), 0)
  <1> DEFINE b == Set(a, "ddr", p, TRUE)
  <1>1. Does(pinMode("OUTPUT"), p, a, b) /\ ~ Guarded(pinMode("OUTPUT"), 0)
    <2>1. "OUTPUT" \in Modes
      BY DEF Modes
    <2>2. /\ Does(pinMode("OUTPUT"), p, a, Set(a, "ddr", p, "OUTPUT" = "OUTPUT"))
          /\ ~ Guarded(pinMode("OUTPUT"), 0)
      BY <2>1, PinModeDoes
    <2>3. Set(a, "ddr", p, "OUTPUT" = "OUTPUT") = b
      BY DEF Set, With
    <2> QED
      BY <2>2, <2>3
  <1>2. b \in Banks /\ b["tccr"] \subseteq PwmPins
    BY DEF Set, With, Banks, Registers
  <1> HIDE DEF b
  <1>3. ASSUME p \in PwmPins, val \in 1 .. 254
        PROVE  /\ Does(analogWrite(p, val), p, a, Set(b, "tccr", p, TRUE))
               /\ ~ Guarded(analogWrite(p, val), 0)
    <2>1. analogWrite(p, val) = pinMode("OUTPUT") \o <<Change("tccr", TRUE)>>
      BY <1>3 DEF analogWrite
    <2>2. /\ Does(<<Change("tccr", TRUE)>>, p, b, Set(b, "tccr", p, TRUE))
          /\ ~ Guarded(<<Change("tccr", TRUE)>>, 0)
      BY <1>2, <1>3, TimerChange
    <2> QED
      BY <1>1, <2>1, <2>2, DoesBoth
  <1>4. ASSUME NEW high \in BOOLEAN, high = (val >= 128),
               ~ (p \in PwmPins /\ val \in 1 .. 254)
        PROVE  /\ Does(analogWrite(p, val), p, a, Level(b, p, high))
               /\ ~ Guarded(analogWrite(p, val), 0)
    <2>1. analogWrite(p, val) = pinMode("OUTPUT") \o digitalWrite(p, high)
      <3>1. analogWrite(p, val) = pinMode("OUTPUT") \o digitalWrite(p, val >= 128)
        BY <1>4 DEF analogWrite
      <3> QED
        BY <1>4, <3>1
    <2>2. /\ Does(digitalWrite(p, high), p, b, Level(b, p, high))
          /\ ~ Guarded(digitalWrite(p, high), 0)
      BY <1>2, DigitalWriteDoes
    <2> QED
      BY <1>1, <2>1, <2>2, DoesBoth
  <1>5. (val >= 128) \in BOOLEAN
    OBVIOUS
  <1>6. val >= 128 => TRUE = (val >= 128)
    OBVIOUS
  <1>7. val < 128 => FALSE = (val >= 128)
    OBVIOUS
  <1>8. val >= 128 \/ val < 128
    OBVIOUS
  <1> QED
    BY <1>3, <1>4, <1>6, <1>7, <1>8 DEF b

LEMMA Operations ==
  ASSUME NEW P, NEW c \in CallsOn(P)
  PROVE  /\ c.pin \in P
         /\ \/ c.op = "pinMode" /\ c.val \in Modes
            \/ c.op = "digitalWrite" /\ c.val \in BOOLEAN
            \/ c.op = "digitalRead"
            \/ c.op = "analogWrite" /\ c.val \in 0 .. 255
  BY PinsAssumption DEF CallsOn

LEMMA CodeDoes ==
  ASSUME NEW a \in Banks, a["tccr"] \subseteq PwmPins,
         NEW c \in CallsOn(Pins \union {NOT_A_PIN})
  PROVE  Does(Code(c), c.pin, a, Effect(a, c)) /\ ~ Guarded(Code(c), 0)
  <1>1. CASE c.pin = NOT_A_PIN
    <2>1. Code(c) = <<>> /\ Effect(a, c) = a
      BY <1>1 DEF Code, Effect
    <2> QED
      BY <2>1, NothingDone
  <1>2. CASE c.pin # NOT_A_PIN
    <2>1. c.pin \in Pins
      BY <1>2, Operations
    <2>2. CASE c.op = "pinMode" /\ c.val \in Modes
      <3>1. Code(c) = pinMode(c.val)
        BY <1>2, <2>2 DEF Code
      <3>2. Effect(a, c) = LET b == Set(a, "ddr", c.pin, c.val = "OUTPUT")
                           IN  IF c.val = "OUTPUT" THEN b
                               ELSE Set(b, "port", c.pin, c.val = "INPUT_PULLUP")
        BY <1>2, <2>2 DEF Effect
      <3> QED
        BY <2>1, <2>2, <3>1, <3>2, PinModeDoes
    <2>3. CASE c.op = "digitalWrite" /\ c.val \in BOOLEAN
      <3>1. Code(c) = digitalWrite(c.pin, c.val)
        BY <1>2, <2>3 DEF Code
      <3>2. Effect(a, c) = Level(a, c.pin, c.val)
        BY <1>2, <2>3 DEF Effect
      <3> QED
        BY <2>1, <2>3, <3>1, <3>2, DigitalWriteDoes
    <2>4. CASE c.op = "digitalRead"
      <3>1. Code(c) = turnOffPWM(c.pin)
        BY <1>2, <2>4 DEF Code
      <3>2. Effect(a, c) = Set(a, "tccr", c.pin, FALSE)
        BY <1>2, <2>4 DEF Effect
      <3> QED
        BY <2>1, <3>1, <3>2, TurnOffDoes
    <2>5. CASE c.op = "analogWrite" /\ c.val \in 0 .. 255
      <3> DEFINE b == Set(a, "ddr", c.pin, TRUE)
                 modulated(val) == c.pin \in PwmPins /\ val \in 1 .. 254
      <3>1. PICK val \in 0 .. 255 : val = c.val
        BY <2>5
      <3>2. Code(c) = analogWrite(c.pin, val)
        BY <1>2, <2>5, <3>1 DEF Code
      <3>3. Effect(a, c) = IF modulated(c.val) THEN Set(b, "tccr", c.pin, TRUE)
                           ELSE Level(b, c.pin, c.val >= 128)
        BY <1>2, <2>5 DEF Effect
      <3>4. Effect(a, c) = IF modulated(val) THEN Set(b, "tccr", c.pin, TRUE)
                           ELSE Level(b, c.pin, val >= 128)
        BY <3>1, <3>3
      <3>5. /\ modulated(val) =>
                 Does(analogWrite(c.pin, val), c.pin, a, Set(b, "tccr", c.pin, TRUE))
            /\ ~ modulated(val) /\ val >= 128 =>
                 Does(analogWrite(c.pin, val), c.pin, a, Level(b, c.pin, TRUE))
            /\ ~ modulated(val) /\ val < 128 =>
                 Does(analogWrite(c.pin, val), c.pin, a, Level(b, c.pin, FALSE))
            /\ ~ Guarded(analogWrite(c.pin, val), 0)
        BY <2>1, AnalogWriteDoes
      <3> HIDE DEF b, modulated
      <3>6. CASE modulated(val)
        BY <3>2, <3>4, <3>5, <3>6
      <3>7. CASE ~ modulated(val) /\ val >= 128
        <4>1. (val >= 128) = TRUE
          BY <3>7
        <4> QED
          BY <3>2, <3>4, <3>5, <3>7, <4>1
      <3>8. CASE ~ modulated(val) /\ val < 128
        <4>1. (val >= 128) = FALSE
          BY <3>8
        <4> QED
          BY <3>2, <3>4, <3>5, <3>8, <4>1
      <3>9. val >= 128 \/ val < 128
        OBVIOUS
      <3> QED
        BY <3>6, <3>7, <3>8, <3>9
    <2> QED
      BY <2>2, <2>3, <2>4, <2>5, Operations
  <1> QED
    BY <1>1, <1>2

-----------------------------------------------------------------------------
(* A call concerns the bits of its own pin, ...                             *)
Touches(a, b, p) ==
  /\ b \in Banks
  /\ \A r \in Registers, q \in Pins : q # p => (q \in a[r] <=> q \in b[r])
  /\ a["tccr"] \subseteq PwmPins => b["tccr"] \subseteq PwmPins

LEMMA EffectTouches ==
  ASSUME NEW a \in Banks, NEW c \in CallsOn(Pins \union {NOT_A_PIN})
  PROVE  Touches(a, Effect(a, c), c.pin)
  <1>1. CASE c.pin = NOT_A_PIN
    BY <1>1 DEF Effect, Touches
  <1>2. CASE c.pin # NOT_A_PIN
    <2>1. c.pin \in Pins
      BY <1>2, Operations
    <2>2. CASE c.op = "pinMode"
      BY <1>2, <2>1, <2>2 DEF Effect, Touches, Set, With, Banks, Registers
    <2>3. CASE c.op = "digitalWrite"
      BY <1>2, <2>1, <2>3 DEF Effect, Level, Touches, Set, With, Banks, Registers
    <2>4. CASE c.op = "digitalRead"
      BY <1>2, <2>1, <2>4 DEF Effect, Touches, Set, With, Banks, Registers
    <2>5. CASE c.op = "analogWrite"
      BY <1>2, <2>1, <2>5 DEF Effect, Level, Touches, Set, With, Banks, Registers
    <2> QED
      BY <2>2, <2>3, <2>4, <2>5, Operations
  <1> QED
    BY <1>1, <1>2

(* ... and makes them the same wherever they were the same.                 *)
LEMMA EffectAgrees ==
  ASSUME NEW a \in Banks, NEW b \in Banks,
         NEW c \in CallsOn(Pins),
         \A r \in Registers : c.pin \in a[r] <=> c.pin \in b[r]
  PROVE  \A r \in Registers : c.pin \in Effect(a, c)[r] <=> c.pin \in Effect(b, c)[r]
  <1>1. c.pin \in Pins /\ c.pin # NOT_A_PIN
    BY Operations, PinsAssumption
  <1>2. CASE c.op = "pinMode"
    BY <1>1, <1>2 DEF Effect, Set, With, Banks, Registers
  <1>3. CASE c.op = "digitalWrite"
    BY <1>1, <1>3 DEF Effect, Level, Set, With, Banks, Registers
  <1>4. CASE c.op = "digitalRead"
    BY <1>1, <1>4 DEF Effect, Set, With, Banks, Registers
  <1>5. CASE c.op = "analogWrite"
    BY <1>1, <1>5 DEF Effect, Level, Set, With, Banks, Registers
  <1> QED
    BY <1>2, <1>3, <1>4, <1>5, Operations

(* A pin that is not on the timer leaves the timer alone.                   *)
LEMMA OffTimerEffect ==
  ASSUME NEW a \in Banks, NEW c \in CallsOn(Pins), c.pin \notin PwmPins,
         a["tccr"] \subseteq PwmPins
  PROVE  Effect(a, c)["tccr"] = a["tccr"]
  <1>1. c.pin \in Pins /\ c.pin # NOT_A_PIN
    BY Operations, PinsAssumption
  <1>2. CASE c.op = "pinMode"
    BY <1>1, <1>2 DEF Effect, Set, With, Banks, Registers
  <1>3. CASE c.op = "digitalWrite"
    BY <1>1, <1>3 DEF Effect, Level, Set, With, Banks, Registers
  <1>4. CASE c.op = "digitalRead"
    BY <1>1, <1>4 DEF Effect, Set, With, Banks, Registers
  <1>5. CASE c.op = "analogWrite"
    BY <1>1, <1>5 DEF Effect, Level, Set, With, Banks, Registers
  <1> QED
    BY <1>2, <1>3, <1>4, <1>5, Operations

LEMMA CallsOfMore ==
  ASSUME NEW P, NEW Q, P \subseteq Q
  PROVE  CallsOn(P) \subseteq CallsOn(Q)
  BY DEF CallsOn

(* Whether interrupts are masked shows in the first step.                  *)
LEMMA GuardedHead ==
  ASSUME NEW s \in Seq(Steps), s # <<>>
  PROVE  /\ s[1].do = "change" => (Guarded(s, 0) <=> Guarded(s, 1))
         /\ s[1].do = "restore" => Guarded(s, 0)
         /\ s[1].do = "cli" => ~ Guarded(s, 0)
         /\ s[1].do \in {"change", "restore", "cli"}
         /\ Guarded(Tail(s), 0) <=> Guarded(s, 1)
  <1>1. Len(s) \in Nat \ {0} /\ s[1] \in Steps
    BY TailOf
  <1>2. ASSUME s[1].do = "change", Guarded(s, 0) PROVE Guarded(s, 1)
    <2>1. PICK k \in 1 .. Len(s) :
            s[k].do = "restore" /\ \A j \in 1 .. k - 1 : s[j].do = "change"
      BY <1>2 DEF Guarded
    <2>2. k \in 2 .. Len(s) /\ 2 .. k - 1 \subseteq 1 .. k - 1
      BY <1>1, <1>2, <2>1
    <2> QED
      BY <2>1, <2>2 DEF Guarded
  <1>3. ASSUME s[1].do = "change", Guarded(s, 1) PROVE Guarded(s, 0)
    <2>1. PICK k \in 2 .. Len(s) :
            s[k].do = "restore" /\ \A j \in 2 .. k - 1 : s[j].do = "change"
      BY <1>3 DEF Guarded
    <2>2. k \in 1 .. Len(s) /\ \A j \in 1 .. k - 1 : j = 1 \/ j \in 2 .. k - 1
      BY <1>1
    <2>3. \A j \in 1 .. k - 1 : s[j].do = "change"
      BY <1>3, <2>1, <2>2
    <2> QED
      BY <2>1, <2>2, <2>3 DEF Guarded
  <1>4. ASSUME s[1].do = "restore" PROVE Guarded(s, 0)
    <2>1. 1 \in 0 + 1 .. Len(s) /\ \A j \in 0 + 1 .. 1 - 1 : FALSE
      BY <1>1
    <2> QED
      BY <1>4, <2>1 DEF Guarded
  <1>5. ASSUME s[1].do = "cli", Guarded(s, 0) PROVE FALSE
    <2>1. PICK k \in 1 .. Len(s) :
            s[k].do = "restore" /\ \A j \in 1 .. k - 1 : s[j].do = "change"
      BY <1>5 DEF Guarded
    <2>2. k # 1
      BY <1>5, <2>1
    <2>3. 1 \in 1 .. k - 1
      BY <2>2
    <2> QED
      BY <1>5, <2>1, <2>3
  <1>6. Guarded(Tail(s), 0) <=> Guarded(s, 1)
    <2>1. 0 \in 0 .. Len(s) - 1 /\ 0 + 1 = 1
      BY <1>1
    <2> QED
      BY <2>1, GuardedTail
  <1> QED
    BY <1>1, <1>2, <1>3, <1>4, <1>5, <1>6 DEF Steps

-----------------------------------------------------------------------------
(* The invariant is inductive.                                              *)

LEMMA Starts == Init => IInv
  <1> SUFFICES ASSUME Init PROVE IInv
    OBVIOUS
  <1>1. TypeOK
    <2>1. todo \in Seq(Steps)
      BY DEF Init
    <2>2. regs \in Banks /\ due \in Banks
      BY DEF Init, Banks
    <2> QED
      BY <2>1, <2>2 DEF Init, TypeOK, Steps, Banks
  <1>2. Does(todo, pin, regs, due) /\ ~ Guarded(todo, 0)
    BY NothingDone DEF Init
  <1>3. Others /\ OffTimer /\ Loaded /\ Mine
    BY DEF Init, Others, OffTimer, Loaded, Mine, Registers
  <1>4. Interrupts
    BY <1>2 DEF Init, Interrupts
  <1> QED
    BY <1>1, <1>2, <1>3, <1>4 DEF IInv

(* Between calls every bit is as it should be.                              *)
LEMMA AtRest ==
  ASSUME IInv, todo = <<>>
  PROVE  regs = due /\ irqOn = ~ masked /\ ~ loaded
  <1>1. ~ Guarded(todo, 0) /\ \A r : ~ Says(todo, r, TRUE) /\ ~ Says(todo, r, FALSE)
    <2>1. Len(todo) = 0
      OBVIOUS
    <2> QED
      BY <2>1 DEF Guarded, Says
  <1>2. \A r \in Registers : pin \in regs[r] <=> pin \in due[r]
    BY <1>1 DEF IInv, Does, Leads
  <1>3. \A r \in Registers, p \in Pins : p \in regs[r] <=> p \in due[r]
    BY <1>2 DEF IInv, Others
  <1>4. regs = due
    <2>1. regs \in Banks /\ due \in Banks
      BY DEF IInv, TypeOK, Banks
    <2>2. \A r \in Registers : regs[r] = due[r]
      BY <1>3, <2>1 DEF Banks
    <2> QED
      BY <2>1, <2>2 DEF Banks
  <1> QED
    BY <1>1, <1>4 DEF IInv, Interrupts, Loaded

LEMMA CallStep ==
  ASSUME IInv, NEW c \in CallsOn((Pins \ HandlerPins) \union {NOT_A_PIN}), Call(c)
  PROVE  IInv'
  <1>1. /\ todo = <<>> /\ todo' = Code(c) /\ pin' = c.pin
        /\ due' = Effect(due, c)
        /\ UNCHANGED <<regs, irqOn, old, loaded, tmp, masked>>
    BY DEF Call
  <1>2. regs = due /\ irqOn = ~ masked /\ ~ loaded
    BY <1>1, AtRest
  <1>3. c \in CallsOn(Pins \union {NOT_A_PIN})
    BY CallsOfMore
  <1>4. due \in Banks /\ due["tccr"] \subseteq PwmPins
    BY DEF IInv, TypeOK, Banks, OffTimer
  <1>5. Does(todo', pin', regs', due') /\ ~ Guarded(todo', 0)
    BY <1>1, <1>2, <1>3, <1>4, CodeDoes
  <1>6. Touches(due, due', c.pin)
    BY <1>1, <1>3, <1>4, EffectTouches
  <1>7. Others' /\ OffTimer'
    BY <1>1, <1>2, <1>4, <1>6 DEF Touches, Others, OffTimer, IInv
  <1>8. TypeOK'
    <2>1. todo' \in Seq(Steps) /\ due' \in Banks
      BY <1>5, <1>6 DEF Does, Touches
    <2>2. pin' \in Pins \union {NOT_A_PIN}
      BY <1>1, <1>3, Operations
    <2> QED
      BY <1>1, <2>1, <2>2 DEF IInv, TypeOK, Steps, Banks
  <1>9. Mine'
    <2>1. c.pin \in (Pins \ HandlerPins) \union {NOT_A_PIN}
      BY Operations
    <2>2. c.pin = NOT_A_PIN => todo' = <<>>
      BY <1>1 DEF Code
    <2> QED
      BY <1>1, <2>1, <2>2 DEF Mine
  <1>10. Interrupts' /\ Loaded'
    BY <1>1, <1>2, <1>5 DEF Interrupts, Loaded
  <1> QED
    BY <1>5, <1>7, <1>8, <1>9, <1>10 DEF IInv

(* The steps that mask and unmask change no register.                       *)
LEMMA MaskStep ==
  ASSUME IInv, Mask \/ Unmask
  PROVE  IInv'
  <1>1. /\ todo # <<>> /\ todo' = Tail(todo) /\ Head(todo).do \in {"cli", "restore"}
        /\ UNCHANGED <<regs, pin, loaded, tmp, due, masked>>
    BY DEF Mask, Unmask, Doing
  <1>2. /\ todo \in Seq(Steps) /\ Tail(todo) \in Seq(Steps) /\ Head(todo) = todo[1]
        /\ WellMasked(todo) /\ WellMasked(Tail(todo))
        /\ 1 \in 1 .. Len(todo)
    BY <1>1, TailOf, WellMaskedTail DEF IInv, Does
  <1>3. ~ loaded
    BY <1>1 DEF IInv, Loaded
  <1>4. \A r \in Registers : ~ ChangeOf(todo[1], r)
    BY <1>1, <1>2 DEF ChangeOf
  <1>5. Does(todo', pin', regs', due')
    <2>1. pin \in PwmPins \/ Silent(Tail(todo), "tccr")
      <3>1. ASSUME Silent(todo, "tccr") PROVE Silent(Tail(todo), "tccr")
        BY <1>1, <1>2, <3>1, LeadsTail DEF IInv, Does, Registers
      <3> QED
        BY <3>1 DEF IInv, Does
    <2>2. \A r \in Registers : Leads(Tail(todo), r, pin \in regs[r], pin \in due[r])
      BY <1>1, <1>2, <1>4, LeadsTail DEF IInv, Does
    <2> QED
      BY <1>1, <1>2, <2>1, <2>2 DEF Does
  <1>6. Interrupts' /\ irqOn' \in BOOLEAN /\ old' \in BOOLEAN
    <2>1. CASE Mask
      <3>1. /\ Head(todo).do = "cli" /\ old' = irqOn /\ irqOn' = FALSE
            /\ UNCHANGED masked
        BY <2>1 DEF Mask, Doing
      <3>2. ~ Guarded(todo, 0) /\ Guarded(Tail(todo), 0)
        BY <1>1, <1>2, <3>1, GuardedHead DEF WellMasked
      <3>3. irqOn = ~ masked /\ irqOn \in BOOLEAN
        BY <3>2 DEF Interrupts, IInv, TypeOK
      <3>4. irqOn' = FALSE /\ old' = ~ masked'
        BY <3>1, <3>3
      <3> QED
        BY <1>1, <3>1, <3>2, <3>3, <3>4 DEF Interrupts
    <2>2. CASE Unmask
      <3>1. /\ Head(todo).do = "restore" /\ irqOn' = old /\ old' = old
            /\ UNCHANGED masked
        BY <2>2 DEF Unmask, Doing
      <3>2. Guarded(todo, 0) /\ ~ Guarded(Tail(todo), 0)
        BY <1>1, <1>2, <3>1, GuardedHead DEF WellMasked
      <3> QED
        BY <1>1, <3>1, <3>2 DEF Interrupts, IInv, TypeOK
    <2> QED
      BY <2>1, <2>2
  <1>7. TypeOK'
    BY <1>1, <1>2, <1>6 DEF IInv, TypeOK, Steps
  <1>8. Others' /\ OffTimer' /\ Loaded' /\ Mine'
    BY <1>1, <1>3 DEF IInv, Others, OffTimer, Loaded, Mine
  <1> QED
    BY <1>5, <1>6, <1>7, <1>8 DEF IInv

LEMMA LoadStep ==
  ASSUME IInv, Load
  PROVE  IInv'
  <1>1. /\ todo # <<>> /\ Head(todo).do = "change" /\ loaded' = TRUE
        /\ tmp' = regs[Head(todo).reg]
        /\ UNCHANGED <<regs, irqOn, todo, pin, old, due, masked>>
    BY DEF Load, Doing
  <1>2. Head(todo) \in Steps
    BY <1>1, TailOf DEF IInv, Does
  <1>3. TypeOK'
    BY <1>1, <1>2 DEF IInv, TypeOK, Steps
  <1>4. Others' /\ OffTimer' /\ Loaded' /\ Mine' /\ Interrupts'
    BY <1>1 DEF IInv, Others, OffTimer, Loaded, Mine, Interrupts
  <1>5. Does(todo', pin', regs', due')
    BY <1>1 DEF IInv
  <1> QED
    BY <1>3, <1>4, <1>5 DEF IInv

(* The register has not changed since it was loaded.                        *)
LEMMA StoreStep ==
  ASSUME IInv, Store
  PROVE  IInv'
  <1> DEFINE r0 == todo[1].reg
             on == todo[1].on
  <1>1. /\ todo # <<>> /\ loaded /\ todo' = Tail(todo) /\ loaded' = FALSE /\ tmp' = {}
        /\ Head(todo).do = "change"
        /\ regs' = [regs EXCEPT ![Head(todo).reg] = With(tmp, pin, Head(todo).on)]
        /\ UNCHANGED <<irqOn, pin, old, due, masked>>
    BY DEF Store, Doing
  <1>2. /\ todo \in Seq(Steps) /\ Tail(todo) \in Seq(Steps) /\ Head(todo) = todo[1]
        /\ WellMasked(Tail(todo)) /\ todo[1] \in Steps /\ 1 \in 1 .. Len(todo)
    BY <1>1, TailOf, WellMaskedTail DEF IInv, Does
  <1>3. /\ todo[1].do = "change" /\ r0 \in Registers /\ on \in BOOLEAN
        /\ pin \in Pins \ HandlerPins
    BY <1>1, <1>2 DEF Steps, IInv, Mine
  <1>4. regs \in Banks
    BY DEF IInv, TypeOK, Banks
  <1> HIDE DEF on, r0
  <1>5. regs' = [regs EXCEPT ![r0] = With(regs[r0], pin, on)]
    BY <1>1, <1>2 DEF IInv, Loaded, r0, on
  <1>6. /\ regs' \in Banks
        /\ \A r \in Registers : r # r0 => regs'[r] = regs[r]
        /\ on = TRUE => regs'[r0] = regs[r0] \union {pin}
        /\ on = FALSE => regs'[r0] = regs[r0] \ {pin}
    BY <1>3, <1>4, <1>5 DEF With, Banks
  <1>7. \A r \in Registers : ChangeOf(todo[1], r) <=> r = r0
    BY <1>3 DEF ChangeOf, r0
  <1>8. ASSUME NEW r \in Registers
        PROVE  Leads(Tail(todo), r, pin \in regs'[r], pin \in due[r])
    <2>1. /\ ~ ChangeOf(todo[1], r) =>
               Leads(Tail(todo), r, pin \in regs[r], pin \in due[r])
          /\ ChangeOf(todo[1], r) /\ on => Leads(Tail(todo), r, TRUE, pin \in due[r])
          /\ ChangeOf(todo[1], r) /\ ~ on => Leads(Tail(todo), r, FALSE, pin \in due[r])
      BY <1>1, <1>2, LeadsTail DEF IInv, Does, on
    <2>2. CASE r # r0
      BY <1>6, <1>7, <2>1, <2>2
    <2>3. CASE r = r0 /\ on = TRUE
      BY <1>6, <1>7, <2>1, <2>3 DEF Leads
    <2>4. CASE r = r0 /\ on = FALSE
      BY <1>6, <1>7, <2>1, <2>4 DEF Leads
    <2> QED
      BY <1>3, <2>2, <2>3, <2>4
  <1>9. pin \in PwmPins \/ (Silent(Tail(todo), "tccr") /\ r0 # "tccr")
    <2>1. ASSUME Silent(todo, "tccr") PROVE Silent(Tail(todo), "tccr") /\ r0 # "tccr"
      <3>1. Silent(Tail(todo), "tccr")
        BY <1>1, <1>2, <2>1, LeadsTail DEF IInv, Does, Registers
      <3>2. ~ ChangeOf(todo[1], "tccr") /\ "tccr" \in Registers
        BY <1>2, <2>1 DEF Silent, Registers
      <3> QED
        BY <1>7, <3>1, <3>2
    <2> QED
      BY <2>1 DEF IInv, Does
  <1>10. Does(todo', pin', regs', due')
    BY <1>1, <1>2, <1>8, <1>9 DEF Does
  <1>11. Others'
    <2>1. \A r \in Registers, p \in Pins : p # pin => (p \in regs'[r] <=> p \in regs[r])
      BY <1>3, <1>6
    <2> QED
      BY <1>1, <2>1 DEF IInv, Others
  <1>12. OffTimer'
    <2>1. regs'["tccr"] \subseteq regs["tccr"] \union PwmPins
      <3>1. CASE r0 # "tccr"
        BY <1>6, <3>1 DEF Registers
      <3>2. CASE r0 = "tccr"
        BY <1>3, <1>6, <1>9, <3>2
      <3> QED
        BY <3>1, <3>2
    <2> QED
      BY <1>1, <2>1 DEF IInv, OffTimer
  <1>13. Interrupts'
    <2>1. Guarded(Tail(todo), 0) <=> Guarded(todo, 0)
      BY <1>1, <1>2, <1>3, GuardedHead
    <2> QED
      BY <1>1, <2>1 DEF IInv, Interrupts
  <1>14. TypeOK'
    BY <1>1, <1>2, <1>6 DEF IInv, TypeOK, Steps, Banks
  <1>15. Loaded' /\ Mine'
    BY <1>1 DEF IInv, Loaded, Mine
  <1> QED
    BY <1>10, <1>11, <1>12, <1>13, <1>14, <1>15 DEF IInv

(* A handler runs outside the masked sections: all it can find half done is *)
(* a change to the timer, which its pins are not on.                        *)
LEMMA HandlerStep ==
  ASSUME IInv, NEW c \in CallsOn(HandlerPins), HandlerCall(c)
  PROVE  IInv'
  <1>1. /\ irqOn /\ regs' = Effect(regs, c) /\ due' = Effect(due, c)
        /\ UNCHANGED <<irqOn, todo, pin, old, loaded, tmp, masked>>
    BY DEF HandlerCall
  <1>2. /\ c \in CallsOn(Pins) /\ c \in CallsOn(Pins \union {NOT_A_PIN})
        /\ c.pin \in HandlerPins /\ c.pin \in Pins /\ c.pin \notin PwmPins
    BY CallsOfMore, Operations, PinsAssumption, HandlerOffTimer
  <1>3. /\ regs \in Banks /\ due \in Banks /\ todo \in Seq(Steps)
        /\ regs["tccr"] \subseteq PwmPins /\ due["tccr"] \subseteq PwmPins
    BY DEF IInv, TypeOK, Banks, OffTimer, Does
  <1>4. Touches(regs, regs', c.pin) /\ Touches(due, due', c.pin)
    BY <1>1, <1>2, <1>3, EffectTouches
  <1>5. ~ Guarded(todo, 0)
    BY <1>1 DEF IInv, Interrupts
  <1>6. todo # <<>> => pin # c.pin
    BY <1>2 DEF IInv, Mine
  <1>7. \A r \in Registers : c.pin \in regs[r] <=> c.pin \in due[r]
    <2>1. CASE todo # <<>>
      BY <1>2, <1>6, <2>1 DEF IInv, Others
    <2>2. CASE todo = <<>>
      BY <2>2, AtRest
    <2> QED
      BY <2>1, <2>2
  <1>8. \A r \in Registers : c.pin \in regs'[r] <=> c.pin \in due'[r]
    BY <1>1, <1>2, <1>3, <1>7, EffectAgrees
  <1>9. Others'
    <2>1. \A r \in Registers, p \in Pins :
             p # pin /\ p # c.pin => (p \in regs'[r] <=> p \in due'[r])
      BY <1>4 DEF IInv, Others, Touches
    <2> QED
      BY <1>1, <1>8, <2>1 DEF Others
  <1>10. Does(todo', pin', regs', due')
    <2>1. CASE pin = c.pin
      <3>1. todo' = <<>> /\ pin' = c.pin
        BY <1>1, <1>6, <2>1
      <3> QED
        BY <1>8, <3>1, NothingDone
    <2>2. CASE pin # c.pin
      <3>1. pin \in Pins \union {NOT_A_PIN}
        BY DEF IInv, TypeOK
      <3>2. \A r \in Registers : /\ pin \in regs'[r] <=> pin \in regs[r]
                                 /\ pin \in due'[r] <=> pin \in due[r]
        <4>1. CASE pin \in Pins
          BY <1>4, <2>2, <4>1 DEF Touches
        <4>2. CASE pin = NOT_A_PIN
          <5>1. NOT_A_PIN \notin Pins
            BY PinsAssumption
          <5> QED
            BY <1>3, <1>4, <4>2, <5>1 DEF Touches, Banks
        <4> QED
          BY <3>1, <4>1, <4>2
      <3>3. ASSUME NEW r \in Registers
            PROVE  Leads(todo, r, pin \in regs'[r], pin \in due'[r])
        BY <3>2 DEF IInv, Does, Leads
      <3> QED
        BY <1>1, <3>3 DEF IInv, Does
    <2> QED
      BY <2>1, <2>2
  <1>11. OffTimer'
    BY <1>3, <1>4 DEF Touches, OffTimer
  <1>12. Loaded'
    <2> SUFFICES ASSUME loaded PROVE tmp = regs'[Head(todo).reg] /\ todo # <<>>
                                       /\ Head(todo).do = "change"
      BY <1>1 DEF Loaded
    <2>1. /\ todo # <<>> /\ Head(todo).do = "change" /\ tmp = regs[Head(todo).reg]
      BY DEF IInv, Loaded
    <2>2. Head(todo) = todo[1] /\ 1 \in 1 .. Len(todo)
      BY <1>3, <2>1, TailOf
    <2>3. ~ Guarded(todo, 1)
      BY <1>3, <1>5, <2>1, <2>2, GuardedHead
    <2>4. Head(todo).reg = "tccr"
      BY <2>1, <2>2, <2>3 DEF IInv, Does, WellMasked
    <2>5. regs'["tccr"] = regs["tccr"]
      BY <1>1, <1>2, <1>3, OffTimerEffect
    <2> QED
      BY <2>1, <2>4, <2>5
  <1>13. Mine' /\ Interrupts'
    BY <1>1 DEF IInv, Mine, Interrupts
  <1>14. TypeOK'
    BY <1>1, <1>4 DEF IInv, TypeOK, Touches, Banks
  <1> QED
    BY <1>9, <1>10, <1>11, <1>12, <1>13, <1>14 DEF IInv

LEMMA SetInterruptsStep ==
  ASSUME IInv, NEW on \in BOOLEAN, SetInterrupts(on)
  PROVE  IInv'
  <1>1. /\ todo = <<>> /\ irqOn' = on /\ masked' = ~ on
        /\ UNCHANGED <<regs, todo, pin, old, loaded, tmp, due>>
    BY DEF SetInterrupts
  <1>2. ~ Guarded(todo, 0)
    <2>1. Len(todo) = 0
      BY <1>1
    <2> QED
      BY <2>1 DEF Guarded
  <1>3. Interrupts'
    BY <1>1, <1>2 DEF Interrupts
  <1>4. TypeOK'
    BY <1>1 DEF IInv, TypeOK
  <1>5. Others' /\ OffTimer' /\ Loaded' /\ Mine'
    BY <1>1 DEF IInv, Others, OffTimer, Loaded, Mine
  <1>6. Does(todo', pin', regs', due')
    BY <1>1 DEF IInv
  <1> QED
    BY <1>3, <1>4, <1>5, <1>6 DEF IInv

LEMMA StepKeeps == IInv /\ [Next]_vars => IInv'
  <1> SUFFICES ASSUME IInv, [Next]_vars PROVE IInv'
    OBVIOUS
  <1>1. ASSUME UNCHANGED vars PROVE IInv'
    <2>1. UNCHANGED <<regs, irqOn, todo, pin, old, loaded, tmp, due, masked>>
      BY <1>1 DEF vars
    <2>2. TypeOK' /\ Others' /\ OffTimer' /\ Loaded' /\ Mine' /\ Interrupts'
      BY <2>1 DEF IInv, TypeOK, Others, OffTimer, Loaded, Mine, Interrupts
    <2>3. Does(todo', pin', regs', due')
      BY <2>1 DEF IInv
    <2> QED
      BY <2>2, <2>3 DEF IInv
  <1>2. ASSUME NEW c \in CallsOn((Pins \ HandlerPins) \union {NOT_A_PIN}), Call(c)
        PROVE  IInv'
    BY <1>2, CallStep
  <1>3. ASSUME Mask \/ Unmask PROVE IInv'
    BY <1>3, MaskStep
  <1>4. ASSUME Load PROVE IInv'
    BY <1>4, LoadStep
  <1>5. ASSUME Store PROVE IInv'
    BY <1>5, StoreStep
  <1>6. ASSUME NEW c \in CallsOn(HandlerPins), HandlerCall(c) PROVE IInv'
    BY <1>6, HandlerStep
  <1>7. ASSUME NEW on \in BOOLEAN, SetInterrupts(on) PROVE IInv'
    BY <1>7, SetInterruptsStep
  <1> QED
    BY <1>1, <1>2, <1>3, <1>4, <1>5, <1>6, <1>7 DEF Next

(* The invariant holds for all pins, and says more than the properties.     *)
THEOREM Inductive == Spec => []IInv
  <1>1. Init => IInv
    BY Starts
  <1>2. IInv /\ [Next]_vars => IInv'
    BY StepKeeps
  <1> QED
    BY <1>1, <1>2, PTL DEF Spec

(* Every register holds pins of the port, and what a call has still to do   *)
(* is made of the steps of the code.                                        *)
THEOREM TypeCorrect == Spec => []TypeOK
  <1>1. IInv => TypeOK
    BY DEF IInv
  <1> QED
    BY <1>1, Inductive, PTL

(* No bit is lost, however digitalWrite(), pinMode() and analogWrite() of    *)
(* the sketch and of a handler interleave, and SREG is left as it was.      *)
THEOREM AsLastCalledCorrect == Spec => []AsLastCalled
  <1>1. ASSUME IInv PROVE AsLastCalled
    <2>1. CASE todo = <<>>
      BY <1>1, <2>1, AtRest DEF AsLastCalled
    <2>2. CASE todo # <<>>
      BY <1>1, <2>2 DEF IInv, Others, AsLastCalled
    <2> QED
      BY <2>1, <2>2
  <1> QED
    BY <1>1, Inductive, PTL
=============================================================================
