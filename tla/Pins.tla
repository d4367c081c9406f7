-------------------------------- MODULE Pins --------------------------------
(***************************************************************************)
(* pinMode(), digitalWrite(), digitalRead() and analogWrite() on the pins   *)
(* of one port and one timer, called by the sketch and by an interrupt      *)
(* handler, as Servo's handler does.  A register is the set of the pins     *)
(* whose bit is set; a bit is changed by loading the register and storing   *)
(* it again, and between the two the handler can run.                      *)
(***************************************************************************)
EXTENDS Naturals, Sequences

CONSTANTS
  Pins,         \* the pins of the port
  PwmPins,      \* those on the timer
  HandlerPins,  \* those the handler uses; the sketch uses the others
  Values        \* what analogWrite() is called with

NOT_A_PIN == "none"

ASSUME PinsAssumption ==
  /\ PwmPins \subseteq Pins /\ HandlerPins \subseteq Pins
  /\ Values \subseteq 0 .. 255 /\ NOT_A_PIN \notin Pins

(* TCCRnA is changed with interrupts on. *)
ASSUME HandlerOffTimer == HandlerPins \cap PwmPins = {}

VARIABLES
  regs,          \* DDRx, PORTx and the COM bits of TCCRnA
  irqOn,         \* SREG_I
  todo,          \* what the sketch's call has still to do
  pin, old,      \* the call's pin and its oldSREG
  loaded, tmp,   \* the register it has loaded
  due, masked    \* the bits, and SREG_I, as the calls so far make them

vars == <<regs, irqOn, todo, pin, old, loaded, tmp, due, masked>>

Registers == {"ddr", "port", "tccr"}
Modes == {"INPUT", "INPUT_PULLUP", "OUTPUT"}

CallsOn(P) ==
  [op : {"pinMode"}, pin : P, val : Modes]
    \union [op : {"digitalWrite"}, pin : P, val : BOOLEAN]
    \union [op : {"digitalRead"}, pin : P, val : {0}]
    \union [op : {"analogWrite"}, pin : P, val : Values]

Init ==
  /\ regs = [r \in Registers |-> {}] /\ irqOn = TRUE
  /\ todo = <<>> /\ pin = NOT_A_PIN /\ old = TRUE /\ loaded = FALSE /\ tmp = {}
  /\ due = regs /\ masked = FALSE

-----------------------------------------------------------------------------
(* The code of the calls, as the registers it changes and where it masks    *)
(* interrupts                                                              *)

Change(r, on) == [do |-> "change", reg |-> r, on |-> on]
Cli == [do |-> "cli", reg |-> "port", on |-> FALSE]
Restore == [do |-> "restore", reg |-> "port", on |-> FALSE]

UnmaskedWrite(changes) == changes   \* mutant: no cli()
Masked(changes) == <<Cli>> \o changes \o <<Restore>>

pinMode(mode) ==
  Masked(IF mode = "OUTPUT" THEN <<Change("ddr", TRUE)>>
         ELSE <<Change("ddr", FALSE), Change("port", mode = "INPUT_PULLUP")>>)

turnOffPWM(p) == IF p \in PwmPins THEN <<Change("tccr", FALSE)>> ELSE <<>>

digitalWrite(p, high) == turnOffPWM(p) \o Masked(<<Change("port", high)>>)

analogWrite(p, val) ==
  pinMode("OUTPUT")
    \o (IF val \notin {0, 255} /\ p \in PwmPins THEN <<Change("tccr", TRUE)>>
        ELSE digitalWrite(p, val >= 128))

CodeUnchecked(c) ==   \* mutant: without the test for NOT_A_PIN
  IF c.op = "digitalWrite" THEN digitalWrite(c.pin, c.val) ELSE <<>>
Code(c) ==
  IF c.pin = NOT_A_PIN THEN <<>>
  ELSE CASE c.op = "pinMode" -> pinMode(c.val)
         [] c.op = "digitalWrite" -> digitalWrite(c.pin, c.val)
         [] c.op = "digitalRead" -> turnOffPWM(c.pin)
         [] c.op = "analogWrite" -> analogWrite(c.pin, c.val)

With(set, p, on) == IF on THEN set \union {p} ELSE set \ {p}

-----------------------------------------------------------------------------
(* What a call promises, of the bits of its pin                            *)

Set(rs, r, p, on) == [rs EXCEPT ![r] = With(@, p, on)]

Level(rs, p, high) == Set(Set(rs, "tccr", p, FALSE), "port", p, high)

Effect(rs, c) ==
  IF c.pin = NOT_A_PIN THEN rs
  ELSE CASE c.op = "pinMode" ->
              LET moded == Set(rs, "ddr", c.pin, c.val = "OUTPUT")
              IN  IF c.val = "OUTPUT" THEN moded
                  ELSE Set(moded, "port", c.pin, c.val = "INPUT_PULLUP")
         [] c.op = "digitalWrite" -> Level(rs, c.pin, c.val)
         [] c.op = "digitalRead" -> Set(rs, "tccr", c.pin, FALSE)
         [] c.op = "analogWrite" ->
              LET output == Set(rs, "ddr", c.pin, TRUE)
              IN  IF c.pin \in PwmPins /\ c.val \in 1 .. 254
                  THEN Set(output, "tccr", c.pin, TRUE)
                  ELSE Level(output, c.pin, c.val >= 128)

-----------------------------------------------------------------------------
Call(c) ==
  /\ todo = <<>>
  /\ todo' = Code(c) /\ pin' = c.pin
  /\ due' = Effect(due, c)
  /\ UNCHANGED <<regs, irqOn, old, loaded, tmp, masked>>

Doing(what) == todo # <<>> /\ Head(todo).do = what /\ UNCHANGED <<due, masked>>

Mask ==
  /\ Doing("cli")
  /\ old' = irqOn /\ irqOn' = FALSE
  /\ todo' = Tail(todo)
  /\ UNCHANGED <<regs, pin, loaded, tmp>>

Unmask ==
  /\ Doing("restore")
  /\ irqOn' = old
  /\ todo' = Tail(todo)
  /\ UNCHANGED <<regs, pin, old, loaded, tmp>>

Load ==
  /\ Doing("change") /\ ~ loaded
  /\ tmp' = regs[Head(todo).reg] /\ loaded' = TRUE
  /\ UNCHANGED <<regs, irqOn, todo, pin, old>>

Store ==
  /\ Doing("change") /\ loaded
  /\ regs' = [regs EXCEPT ![Head(todo).reg] = With(tmp, pin, Head(todo).on)]
  /\ loaded' = FALSE /\ tmp' = {}
  /\ todo' = Tail(todo)
  /\ UNCHANGED <<irqOn, pin, old>>

(* A call made by the handler, which nothing interrupts. *)
HandlerCall(c) ==
  /\ irqOn
  /\ regs' = Effect(regs, c) /\ due' = Effect(due, c)
  /\ UNCHANGED <<irqOn, todo, pin, old, loaded, tmp, masked>>

SetInterrupts(on) ==
  /\ todo = <<>> /\ irqOn # on
  /\ irqOn' = on /\ masked' = ~ on
  /\ UNCHANGED <<regs, todo, pin, old, loaded, tmp, due>>

Next ==
  \/ \E c \in CallsOn((Pins \ HandlerPins) \union {NOT_A_PIN}) : Call(c)
  \/ Mask \/ Unmask \/ Load \/ Store
  \/ \E c \in CallsOn(HandlerPins) : HandlerCall(c)
  \/ \E on \in BOOLEAN : SetInterrupts(on)

Spec == Init /\ [][Next]_vars

-----------------------------------------------------------------------------
(* Properties                                                              *)

TypeOK ==
  /\ regs \in [Registers -> SUBSET Pins] /\ due \in [Registers -> SUBSET Pins]
  /\ irqOn \in BOOLEAN /\ old \in BOOLEAN /\ masked \in BOOLEAN
  /\ loaded \in BOOLEAN /\ tmp \subseteq Pins
  /\ todo \in Seq([do : {"change", "cli", "restore"}, reg : Registers,
                   on : BOOLEAN])
  /\ pin \in Pins \union {NOT_A_PIN}

(* Every pin is as the last call on it makes it, whoever made the call and  *)
(* whatever the other context was doing to other bits of the same register: *)
(* no bit is lost.  A call leaves interrupts as it has found them.         *)
AsLastCalled ==
  /\ \A r \in Registers, p \in Pins :
       todo = <<>> \/ p # pin => (p \in regs[r] <=> p \in due[r])
  /\ todo = <<>> => irqOn = ~ masked
=============================================================================
