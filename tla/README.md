# The radar firmware in TLA+

The repository holds a sketch, `Radar.ino`, that sweeps an ultrasonic sensor
with a servo and prints `<angle>,<distance>.` for every degree, together with
the Arduino IDE 1.6.5-r5 it is built with. What runs on the board is the sketch,
the AVR core (`hardware/arduino/avr/cores/arduino`) and the Servo library
(`libraries/Servo`); that image is the system of this project. Everything in it
shares one processor with its interrupts, and the hard part is there: the sketch
and four interrupt handlers (timer 0 overflow, timer 1 compare, USART receive,
USART data register empty) share variables and registers without locks, and the
timers, the line, the sensor and the servo go on by themselves. The Wire library
of the same core (`hardware/arduino/avr/libraries/Wire`) is not linked into the
radar; it is modelled too, as the part of the core where a handler, a waiting
call and other masters on a bus share the most state.

In this file `core/` stands for
`src/arduino-1.6.5-r5/hardware/arduino/avr/cores/arduino/`, `Servo/` for
`src/arduino-1.6.5-r5/libraries/Servo/src/` and `Wire/` for
`src/arduino-1.6.5-r5/hardware/arduino/avr/libraries/Wire/`.

## Inventory

| component | state | operations | hard because |
|---|---|---|---|
| sketch (`Radar.ino`, `core/main.cpp`, `core/Print.cpp`) | `i`, `duration`, `distance` | `setup`, `loop`, `calculateDistance`, `print` | tied to the servo only by `delay(30)`; blocks in `pulseIn` and `print` |
| serial transmit (`core/HardwareSerial.cpp`) | TX ring, `_written`, UDRIE0, TXC0, UDR | `write`, `availableForWrite`, `flush`, `end`, `begin`, UDRE interrupt | ring and flags shared with the interrupt and the USART; masked interrupts |
| serial receive (same file, `HardwareSerial_private.h`) | RX ring, RXEN0, RXCIE0, USART frames | `available`, `peek`, `read`, `end`, `begin`, RX interrupt | full ring, overrun, parity errors |
| Servo library (`Servo/avr/Servo.cpp`) | `servos[]`, `Channel`, OCR1A, TCNT1 | `attach`, `detach`, `write`, `writeMicroseconds`, `read`, compare interrupt | a 16-bit value read by an interrupt; a free-running timer that must not be missed |
| clock (`core/wiring.c`) | overflow count, milliseconds, fraction, TCNT0, TOV0 | `millis`, `micros`, `delay`, overflow interrupt | overflow between two reads; wrap of 16 bits |
| pulse measurement (`core/wiring_pulse.c`, `.S`) | `maxloops`, `width` | `pulseIn`, `pulseInLong` | one count for three loops, interrupts steal time |
| pins (`core/wiring_digital.c`, `core/wiring_analog.c`) | PORT, DDR, PWM bits of TCCRnA, SREG | `pinMode`, `digitalWrite`, `digitalRead`, `analogWrite` | read-modify-write shared with the servo interrupt |
| Wire (`Wire/Wire.cpp`, `Wire/utility/twi.c`) | `twi_state`, `twi_error`, `twi_inRepStart`, five buffers, TWCR | `beginTransmission`, `write`, `endTransmission`, `requestFrom`, `read`, TWI interrupt with its callbacks | the handler and other masters change `twi_state` under a call that waits for it; refusals, lost arbitration, bus errors |

How they interact: `loop()` calls `Servo::write`, which stores `ticks`, which the
compare interrupt turns into a pulse up to 20 ms later; `delay` polls `micros`,
which reads what the timer 0 interrupt counts; `pulseIn` counts iterations while
all interrupts steal time; `print` calls `write` once per character, which fills
the ring the UDRE interrupt empties. Interrupt handlers do not nest, so each is
one step unless the hardware moves within it.

What makes each component correct is stated in the next section; what can go
wrong at which line is the list `hazards` of PROJECT.json.

## Modules

| module | models | checked by | proved in |
|---|---|---|---|
| `SerialTx` | the transmit half of HardwareSerial and of the USART | `SerialTx.cfg` | `SerialTxProofs` |
| `ByteStream` | what a serial line promises (abstract) | refined by `SerialTx` | `SerialTxProofs` |
| `SerialRx` | the receive half | `SerialRx.cfg` | `SerialRxProofs` |
| `LossyStream` | what the receive half promises (abstract) | refined by `SerialRx` | `SerialRxProofs` |
| `Servo` | the timer, the compare interrupt, the channels | `Servo.cfg`, `ServoDetach.cfg` | `ServoProofs` |
| `ServoAngle` | degrees, microseconds, ticks | `ServoAngle.cfg` with `MCServoAngle` | `ServoProofs` |
| `Clock` | timer 0, `millis`, `micros`, `delay` | `Clock.cfg` | `ClockProofs` |
| `PulseIn` | `pulseIn`, `pulseInLong` | `PulseIn.cfg` with `MCPulseIn` | `PulseInProofs` |
| `Radar` | the sketch with the servo, the sensor, the line and the host | `Radar.cfg`, `RadarFirst.cfg` | `RadarProofs` |
| `Sweep` | what the radar promises its host (abstract) | refined by `Radar` | `RadarProofs` (its safety) |
| `Pins` | the pins of a port and a timer, used by the sketch and a handler | `Pins.cfg` | `PinsProofs` |
| `Twi` | the Wire library, the TWI hardware and the bus | `Twi.cfg`, `TwiLost.cfg` | `TwiProofs` |

Definitions called "mutant" in their comment are plausible bugs of the definition
below them (a dropped guard, an off-by-one, a swapped order). The specifications
do not use them; PROJECT.json says which property each one breaks.

### SerialTx

A call of the sketch is cut at every access to something the interrupt or the
USART also uses: `write()` is `WriteCall`, then either `WriteDirect` and
`WriteClearTxc` (the shortcut, lines 221-225) or, after the wait `WritePoll`/
`Spin`, `WriteStore`, `WritePublish`, `WriteEnable` (lines 243-246). `pc` is the
statement the sketch is at, `cur` the byte `c`, `next` the local `i`. The handler
`TxUdrEmptyIrq` is one operator, used by the interrupt and by the two places
that poll. `Load` and `ShiftOut` are the USART. The k-th byte written is the
number k, so that a lost, repeated, stale or reordered byte shows.

`LineFast` says whether the line can take two bytes between `WritePublish` and
`WriteEnable`, or send one between `WriteDirect` and `WriteClearTxc`. At 9600
baud a byte takes 1.04 ms, 16 700 cycles; between those statements lie a few
instructions and at worst one run of each other handler, some tens of
microseconds: `LineFast = FALSE` is the radar. The code is for any baud rate, and
at megabaud rates the handlers do take longer than a byte: with `LineFast = TRUE`
in `SerialTx.cfg` TLC refutes `IrqHasData` and `CompletionSeen`, and with them what
the comments of `HardwareSerial.cpp:83` and `:210` say.

Properties: the interrupt is enabled only when there is something to send
(`IrqHasData`; that it then is enabled, `NoneStranded`, is proved and follows for
the run from `AllSent`); `availableForWrite()` keeps its promise
(`RoomHonoured`); the completion flag is not lost and `flush()` does not return
early (`CompletionSeen`, `FlushSendsAll`); the whole is a channel of TxSize + 1
bytes (`ImplementsChannel`, with the mapping `accepted <- Committed`,
`delivered <- wire`); calls return (`CallsReturn`) and bytes are sent (`AllSent`).

Fairness: the processor executes the call it is in (`WF` of `Running`, not of
`Calls`: the sketch need not make any), a pending interrupt that stays enabled is
served, and the USART moves and sends what it holds. `AllSent` needs interrupts to
be on for good in the end. `CallsReturn` excepts `end()` with interrupts masked, which
waits for the interrupt without polling and never returns (line 141), unlike
`write()` and `flush()`.

Bounds: TxSize 3 and 6 bytes let the ring fill, wrap twice and empty. The proofs hold
for every size up to 256: beyond it the code's indices have two bytes and an access to
one is no longer a step, which the assumption of both serial modules excludes.

### SerialRx

`Arrive` brings a frame, with or without a parity error, into the USART (HwDepth
3: two in UDR, one in the shift register); on an overrun either the new frame or
the last waiting one is lost, as parts differ in this. `RxInterrupt` is the whole
handler. `read()` is cut into test, fetch and advance; `end()` into its three
steps; `peek()` changes no state and returns what `read()` would. `lost` holds the
bytes dropped for a reason the code knows.

`ImplementsLossyStream` is the one safety property. `LossyStream` delivers bytes in
order and once; a byte is lost only if at least as many wait before it as
`available()` last promised, and closing the port loses all that wait. Mapped are
`came <- sent` (the frames that came over the line), `delivered <- got` and `open`, which
lasts until `end()` has emptied the ring; `lost` and `promised` are kept by the model
itself: what the last `available()` said, less the reads since. A byte overwritten in the
ring, read twice, kept over `end()` or dropped after it was announced is a step
`LossyStream` does not have.

Bounds: RxSize 3 and 7 bytes fill the ring, overrun the USART and wrap the ring
twice. The proof does not depend on them.

### Servo

Time is in ticks of timer 1. `handle_interrupts()` reads TCNT1 while the timer
counts, so it is two steps: `Finish` (lines 54-61, and the read of TCNT1), then
`StartPulse` or `WaitForRefresh` (62-74). The interrupt is served up to `MaxLate`
ticks after its match and takes up to `IsrLag` ticks between the read and the
write of OCR1A; `IsrLag < Margin` is what the "+ 4" of lines 69 and 72 assumes.
`writeMicroseconds()` stores the two bytes of `ticks` in two steps between `cli()`
and the restored SREG; `attach()` is check and reset, clear and enable, set
active. Since no handler nests, the sketch moves only when `isr = "off"`.

`PulseWidth` compares the measured length of each pulse with the last width
completely written before it began; `FrameRate` bounds each frame from the reset
of TCNT1 to the next. A frame begun before `initISR()` resets the timer is not
counted. Fairness: time passes, a call goes on, and the interrupt is served even
if the sketch masks it again and again (`SF` of `Interrupt`: the sketch masks it
for the length of one store, and the flag stays pending until it is taken).

Bounds: two servos, a timer of 16 ticks, widths 3 and 4 whose two bytes (base 4)
both differ, so that a torn value (0 or 7) shows, and a refresh interval of 10
that two pulses with their delays can exceed, so that both branches of line 69
are taken.

### ServoAngle

One object, the program's own numbers (16 MHz, 544 to 2400 microseconds), all
angles from -2 to 182 and pulse widths every 36 microseconds, for six pairs of
limits among which the widest and the narrowest that the 8-bit fields can hold.
Limits beyond those wrap: the check that the comment of line 242 asks for is not in
the code, and `LimitsAssumption` stands for it. `attach(pin, 544, 3000)`, which the
reference allows, gives 1976 microseconds at 180 degrees. `Write` takes every value
below 544 as an angle, as line 265 does; `Servo.h:99` says below 200. `ReadBack`
takes an angle, or a width, through `map()`, the trim, `ticks` and back;
`AngleOnLine` compares the pulse with the line between the two limits.

### Clock

`now` is the true time in ticks. `micros()` is cut at its reads of the count, of
TCNT0 and of TOV0; `delay()` calls it in a loop. Three assumptions about speed are
named in `SpeedAssumption`: an overflow is served before TCNT0 shows 255 again
(`MaxLate`; no handler of the image runs for a millisecond), less than a tick
(4 microseconds) passes between the reads of TCNT0 and TOV0, which are adjacent
instructions with interrupts masked, and `delay()` polls at least every quarter
of a millisecond. Bounds: an overflow of 6 ticks (24 microseconds), a "millisecond"
of 20, 16-bit times that wrap at 48 and 32-bit times at 96, so that within 36 ticks
fractions carry, both wraps happen, and `delay(3)` runs through one of them. The counts
of overflows and of milliseconds wrap at `CountMod`, 2^32 in the program and 4 here, and
do so in these ticks; `overflows` and `passed` are what they would be without, and
are there for the properties alone. `MaxNow` bounds the time only.

### PulseIn

Time is in cycles of the processor, 16 a microsecond. `left` counts down to the next
read of the pin, which is `WaitCycles` (11) away in the two waiting loops of
`countPulseASM()`, `LoopCycles` (16) in the counting one and `TurnCycles` (7) from the
first to the second, counted from the instructions of `wiring_pulse.S`; the timeout is
converted to iterations of 16. `pulseInLong()` is compiled C, and its iteration takes
the 16 of its comment. An interrupt adds up to `Steal`. `Pass` lets time pass and the
pin change; between two pulses the pin stays LOW for longer than one iteration, else no
loop could see the gap. `Exhausted`/`NotExhausted` are the two ways of counting.

`WholePulse`: a result other than 0 is the length of one whole pulse that began
after the call, for `pulseIn()` at most 20 cycles too long and 5 and the stolen ones too
short, for `pulseInLong()` to the resolution of `micros()`. `TimeoutKept`: `pulseIn()`
takes no longer than its timeout, 2 cycles and the interrupts; `pulseInLong()` no longer
than 16 times its timeout and two iterations, since its count of iterations is not
divided by the cycles of one (the comment of `wiring_pulse.c:74` says "16 clock cycles
per iteration"). `ZeroMeans` is weaker than the reference, which says 0 "if no pulse
started before the timeout" (`PulseIn.html`), in three ways. The waiting loops use the
count up in 11/16 of the time, so with no pulse 0 comes after 0.69 of the timeout. The
third loop stops at the iterations the first two have left, so a pulse that started in
time and outlives them gives 0. And a pulse that is over at the second look gives 0.

Bounds: pulses of up to 150 cycles and timeouts of 1, 3 and 8 microseconds, for
`pulseInLong()` of 1, which makes 16 iterations, let every loop end by its condition
and by its count. `Steal` is more than an iteration. The pin changes at a read or a
multiple of 5 cycles after one (`Spans`): just seen, just missed, and between. On a
smaller instance with every cycle in `Spans` TLC finds the bounds of `WholePulse` and
`TimeoutKept` reached exactly.

### Radar

Steps of one millisecond. The servo appears as `Servo` shows it: a pulse of the last
width written each refresh interval, the first one 33 + 20 ms after `attach()` because
OCR1A is 0 and the first compare match finds Channel 0. `PulseInTimes` is how long
`pulseIn()` takes: the echo, with the sensor's delay before it, or, with no echo,
something between two thirds of the timeout and all of it, as the loops of `PulseIn`
take. The line appears as a channel of 65 characters that takes 1 or 2 ms for each (1.04
ms at 9600 baud, rounded either way). The echo is any of `Echoes`, or none. The distance
`duration*0.034/2` is computed as `duration*17 div 1000`, which is what the
single-precision arithmetic gives for every duration below 554 647 microseconds
(compared for each of them); the constant `Echoes` is assumed below that, and below the
timeout, since `pulseIn()` gives up then. `queued` counts the characters that are
printed and not sent, as the ring and the USART hold them.

`RecordsTruthful`: the angle in a record is where the servo pointed from before
the trigger until after the echo, and the distance is that echo's. It rests on the
30 ms being longer than a refresh interval and a pulse (the mutant with the 15 ms
of the library's example breaks it). The first record is the exception
(`radar_first`). `UpToDate`: no record waits for the line while the next angle is
measured, so that `print()` never blocks. `ImplementsSweep`: what reaches the host is
the sweep of `Sweep`, every angle in its order and for ever; `rising` is the
direction of the sweep the last report belongs to. Fairness: time passes and the
processor runs (`WF` of `Next`).

Bounds: the sweep is 98 to 101 degrees, so that the printed angle grows from two
to three digits; the timeout of a missing echo is 100 ms instead of 1000 (the
line is idle and the servo periodic long before either).

### Pins

A register is the set of pins whose bit is set. A call is the list of what its code
does (`Code`): mask, change a bit, restore SREG. A change is a `Load` and a `Store`,
and `HandlerCall` may come between any two steps while interrupts are on. The
handler's call is one step, since nothing interrupts it and the sketch's code cannot
run within it. `turnOffPWM()` is not masked in the code (lines 97-131, called before
the `cli()` of line 157); `HandlerOffTimer` says that the handler's pins are not on
the timer, as the servo's pin 12 is not. Without it TLC finds `AsLastCalled` violated.

`Effect` is what a call promises of the bits of its pin. `due` collects the promises
in the order of the calls, and `AsLastCalled` says that, between calls and for all
pins but the one a call is busy with, the registers hold exactly that, and that
interrupts are as the sketch has set them.

Bounds: four pins, two of them PWM pins and one the handler's, and PWM values on both
sides of 128 and at both ends, which `analogWrite()` treats apart.

### Twi

`wait`, `claim`, `start` and `run` are the places of a call in `twi_writeTo()` and
`twi_readFrom()`: the wait for `TWI_READY`, the assignments, the write to TWCR, and the
wait for the handler. Between any two of them the handler can run. Each case of the
handler is one action: it writes TWCR, which clears the event and tells the hardware
how to go on. The buffers of `TwoWire` and of `twi.c` are kept apart where they can
differ; the bytes are numbers that tell who sent them.

The hardware and the bus are external and modelled from what the handler
distinguishes: `role` is what the hardware takes part in, `status` the event that waits
for the handler (the codes of `compat/twi.h`). The device may refuse its address or
any byte, the arbitration may be lost, the bus may fail at any byte, and another
master may address the board whenever it is not engaged itself.

A repeated start is where the code hopes ("@@@ we hope", `twi.c:148` and 228): the
handler orders the START and sets `twi_state` to `TWI_READY` at once, and the next call
writes the address without asking whether the START is out. `SendAddress` has the three
cases. The START is out: its event is cleared and the address goes out. It is still
under way, as when a device holds the clock: TWDR refuses the address, but TWCR now
enables the interrupt, and the handler writes it when the START ends. Or it ends between
the writes to TWDR and to TWCR: the byte left in TWDR goes out as an address (`stray`),
the call fails, and as that byte may read as the address of a read, whose refusal sets
no error (line 434), a write may return 0; it counts as `disturbed`.

Assumptions about time and hardware. While the sketch runs the lines between the test of
`twi_state` and the write to TWCR, some 20 microseconds, another master does not get on
by a whole byte, which takes 90 (`Moves`). A START that is under way when TWCR is written
without TWSTA is completed; of this the data sheet says nothing, and if it were not, the
call would wait for ever. No device has the address that a stray byte reads as. And
`Return` is one step for the lines from the end of the wait to the end of the
`TwoWire` call (161-175 and 246-254; `Wire.cpp` 91-95, 146-151), although the handler can
run in them. They too take less than a byte on the bus: what the handler can do there is
begin a transfer as slave, which touches neither `twi_error` nor `twi_masterBuffer` nor
its index, or, if one was under way, end it by STOP without a byte or by a bus error,
which makes the result 4, of which no property speaks.

Properties: what `endTransmission()` returns is what happened on the bus
(`WriteTruthful`); `requestFrom()` hands out what the device sent and nothing else
(`ReadTruthful`); messages from another master arrive whole or not at all, and not over
unread bytes (`MessageWhole`); between calls the bus is held exactly after a transfer
without STOP (`BusReleased`); calls return (`CallsReturn`). Two things are excepted and
named. `disturbed`: a write during which another master addresses the board, or whose
address was a stray byte, may return 0 with nothing sent; the first is the violation
`twi_lost_write`. `Deaf`: after a
message longer than the buffer the handler refuses a byte, acknowledges no more and
leaves `twi_state` at `TWI_SRX` (line 476), so that every later call waits for ever.
Since the system really stops there, this is the only model whose runs do not check
deadlock.

Fairness: a pending handler runs, transfers on the bus go on and end, a call does its
next step, and a call that waits for `TWI_READY` sees it if it comes again and again
(`SF` of `Ready`: the sketch polls in a loop of a few cycles, and `TWI_READY` lasts
for a byte time at least).

Bounds: buffers of 2 bytes, so that messages shorter than, as long as and longer than
the buffer occur, in both directions. Not modelled: `begin()` and `setClock()` in
mid-use, addresses, `requestFrom()` of 0 bytes, a callback that takes so long that the
next event comes before line 474 clears it, and calls made with interrupts masked, which
hang.

## What the runs show

| run | what it shows |
|---|---|
| `serial_tx` | on a slow line no byte is lost, repeated, reordered or stranded; calls return; the ring implements `ByteStream` |
| `serial_rx` | bytes are read in order and once, or dropped for a reason the code knows and never after they were announced: the ring implements `LossyStream` |
| `servo` | pulses have the width last written, frames their length, no attached servo is forgotten, through any order of `attach`, `detach` and `writeMicroseconds` |
| `servo_angle` | angles and widths come back and lie on the line between the limits |
| `clock` | `micros()` and `millis()` return a time within the call, do not drift through their wraps, and `delay()` is neither short nor long |
| `pulse_in` | both functions time one whole pulse and keep the bound their count of iterations gives; 0 comes no earlier than 11/16 of the timeout |
| `radar` | all records but the first are truthful, without backlog, and the host sees `Sweep` |
| `pins` | however the sketch and a handler interleave on the registers they share, no bit is lost |
| `twi` | whatever devices and other masters do, the Wire library reports what happened, keeps messages whole, releases the bus and returns |

Three more runs each check one statement of a comment, and TLC finds the code not to
keep it:

| run | statement | code |
|---|---|---|
| `servo_detach` | "Stops an attached servos from pulsing" (`Servo.h:45`) | in mid-pulse the pin stays HIGH |
| `radar_first` | the distance "for each degree" (`Radar.ino:21`) | the first one precedes the servo's first pulse |
| `twi_lost_write` | 0 is "success" (`twi.c:186`) | addressed as a slave while it waits for the bus, the call returns 0 with nothing sent |

Only `radar_first` concerns the radar as it is; the others bite other users of the
same code.

Deadlock is checked in every run but the two of `Twi`: time or the sketch always goes
on.

## What is proved

All proofs are for all values of the constants, under the named assumptions. Each
module states an inductive invariant (`IInv`; for `delay()` also `DelayInv`, for the
line of the radar `LineInv`, for one servo object `ObjectInv`; TLC agrees with each on
the run's instance), proves that every action keeps it, and derives the
properties from it. Every invariant that a run checks is proved in this way.

`SerialTxProofs`, assuming `~ LineFast`: `IInv` says that the bytes 1 .. Committed lie
in order on the wire, in the shift register, in UDR and in the ring (`InOrder`:
`TypeOK` and `IrqHasData` alone say nothing of the ring's content, which the next
interrupt sends); what each place in a call has established (`Progress`: at the
shortcut the ring is still empty, for only the sketch fills it); that at the statement
before `UDRIE0` is set the ring still has a byte, and two if the interrupt was enabled
and has not run since (`Enabled`); that TXC0 is set only when nothing is being sent,
and is set then (`Completed`); and that a promise of `availableForWrite()` is covered
by the free places (`Promised`). From it follow `TypeOK`, `IrqHasData`,
`NoneStranded`, `RoomHonoured`, `CompletionSeen`, `FlushSendsAll`, and that every step
is a step of `ByteStream` or a stutter.

`SerialRxProofs`: the bytes that wait are exactly those in the ring and in the USART's
frames (`Accounted`), in the order they came (`Ordered`); the test of `read()` still
holds at its fetch, and the byte fetched is that of the slot its last step frees
(`Progress`); and what `available()` said is no more than the ring holds. From it
follow `TypeOK` and `ImplementsLossyStream`. `LossyStream` counts the bytes before a
lost one, so the proof maps the places of the ring to the bytes that wait and uses the
library's facts on bijections and subsets.

`ServoProofs`, assuming that `Widths` has a largest element, that every pulse is
longer than the interrupt's delays and that a frame fits the timer: the two bytes of
`ticks` belong together whenever the interrupt can read them (`Untorn`); OCR1A lies
within the turn of the current channel, which begins by `Base(c)`, c times the largest
width and its delay (`Target`); a pending match is young (`Matched`); and the age of a
pulse and what OCR1A leaves of it make up its width (`Timing`). From it follow
`TypeOK`, `OnePulse`, `PulseWidth` and `FrameRate`, for any number of servos.

The second half of `ServoProofs` is about `ServoAngle`, assuming that the limits given
to `attach()` fit the 8-bit fields and that all values are integers
(`LimitsAssumption`). `ObjectInv` ties the fields to the limits of the last `attach()`
and the ticks to the value last written. The division by 4 loses less than 4
microseconds (`QuotientByFour`); so the range between the limits is more than 180
microseconds wide and the ticks fit 16 bits (`LimitsKept`, `Ranged`). `PulseBack`
takes a width to ticks and back. `MapTo` says what `map()` rounds an angle to, and
`MapBack` that the 1 which `read()` adds makes up for the rounding because a degree is
more than a microsecond. From them follow `ObjectTypeOK`, `ReadBack` and, by adding up
the two errors of the limits and the one of `map()` (`OnLine`), `AngleOnLine`.

`ClockProofs`: `IInv` adds to `TypeOK` and `NoDrift` that a pending overflow is young
(`Served`), that interrupts are masked while a call reads (`Masked`), and what
`micros()` has read (`Reading`: before its last read, the overflows it will count and
the ticks it has read make the time at which it read TCNT0). From it follow `NoDrift`,
`MicrosInside` and `MillisInside`. The arithmetic of the interrupt rests on
`PrecisionAssumption`, the source's remark that the shift by three "doesn't lose
precision". `CountMod` overflows are a whole number of turns of `micros()`, so that
what it makes of a wrapped count is the true time modulo `MicrosMod` (`MicrosWraps`,
`MicrosTime`).

The end of `ClockProofs` extends this to `delay()`: its 16-bit `start` is the
remainder of some true time S, the first reading moved on by each millisecond counted
(`Starting`, `Looping`). A reading of `micros()`, reduced modulo 2^32 and then 2^16,
differs from `start` modulo 2^16 by the true lead over S; the lead stays below a
millisecond and a few steps, hence below 2^16, so that the subtraction of line 114 is
right through every wrap. From it follow `DelayNotShort` and `DelayNotLong`.

`PulseInProofs`: the time of a call is its iterations, each with the cycles of its loop,
and what interrupts stole (`Accounted`), the iterations are within the count (`Budget`),
and each of the three loops knows what the pin has done since the call (`Rising`,
`Falling`, `Counted`, and `Measured` for the readings of `micros()`). From it follow
`TypeOK`, `TimeoutKept`, `WholePulse` and `ZeroMeans`, for all timeouts and all delays.

`PinsProofs`, assuming that no handler pin is a PWM pin: the steps left of a call
consist of whole masked sections and changes of the timer alone (`WellMasked`,
`Guarded`), so that SREG is left as found (`Interrupts`) and the handler cannot come
between the load and the store of a port (`Loaded`); its own call leaves the timer
alone (`OffTimer`, `EffectTouches`). For every pin but the one the call is about, the
registers hold what is due (`Others`); for that one, the steps left would make the
registers what is due (`Does`), which composes along the calls a function makes
(`DoesBoth`). From it follow `TypeOK` and `AsLastCalled`, for any pins and values.

`RadarProofs`: the invariant has two halves. The stream: `Read` counts the fields of
the current record the host has, `Place(k, f)` is where field f of measurement k is in
the queue; the queue holds these fields and no others (`Queue`, `Partial`), each
measurement follows the one before it in the sweep and the sketch is at the next
(`Chain`, `Latest`), and each but the first was taken with the servo at rest
(`Aimed`). The servo: while `delay(30)` runs, the time at most needed to complete a
pulse for the new angle, `Settling`, is less than what is left of the delay
(`Pointed`, with `Frame` for the phases of the frame; the first cycle, before the
servo's first frame, is the exception). From it follow `RecordsTruthful` and the
safety half of `ImplementsSweep` (`SweepSafety`), for any sweep, any echoes and any
capacity of the line.

A second invariant, `LineInv`, counts characters. `queued` is the sum over the fields
in the queue, of which there are never more than the last record has printed
(`Characters`), and a number has at most five digits (`DigitsType`). So a record
leaves a backlog of at most 24 ms when `delay(30)` begins; in each millisecond both
lose one, and the line stays ahead of the delay (`Drained`). From it follow `UpToDate`
and `TypeOK`. It needs `IInv` and not the other way round.

`TwiProofs`, for buffers of every size. `Roles` says in which transfers the hardware can
report which event. `Held`: a transfer of the board's own is on the bus only while its
call waits for `twi_state` to change, or it has ended with a repeated start, with the
interrupt off; a stray byte is out only in a read or a disturbed write. `Interleaved` is
about the other master: when a call acts on a test of `twi_state` that is out of date,
`disturbed` is set, and what can stand in `twi_state` and on the bus then is this and no
more. The buffers: what a transfer as slave has taken and given (`Hearing`,
`Answering`); that `TwoWire`'s bytes are those in `twi_masterBuffer` unless disturbed
(`Filled`); that the bytes acknowledged are the first of those asked for, with the one
in TWDR apart, and that `twi_error` tells how many (`Writing`, `Told`); and that the
buffer of a read holds the bytes replied, with the one in TWDR apart, and TWEA says
whether one more is wanted (`Counted`, `Reading`). None of these is inductive alone: the
index in `Reading` is right because the length of `Counted` cannot change under a call
of `Held`, and `Writing` needs `Interleaved` for the events that are not the call's.
From it follow `TypeOK`, which says that no index leaves any of the five buffers,
`BusReleased`, `WriteTruthful`, `ReadTruthful` and `MessageWhole`.

## What is only model-checked, and what is not modelled

Liveness is out of the prover's reach: `CallsReturn` of `SerialTx` and of `Twi`,
`AllSent`, `KeepsPulsing` and the fairness half of `ImplementsSweep` are checked by
TLC on the instances above and proved nowhere. So are the three violations, which are
counterexamples and need no proof. All other properties of the runs are theorems. They
are theorems of the modules: that the constants of the radar (15 to 165 degrees, 64
bytes, 20 ms) meet the assumptions is by inspection.

Not modelled: `begin()` on an open port and `write()` from a handler (the radar does
neither), more than MAX_SERVOS objects, servos on a second timer, LOW pulses (the same
loops with the levels exchanged), `delayMicroseconds()` and the register set-up of
`init()` (cycle counts and constants), `analogRead()`, floating-point and non-decimal
printing, and what the section on `Twi` lists. SoftwareSerial, SPI and EEPROM, the
tones, the external interrupts and the USB core belong to the core but not to the
image; the rest of the distribution (IDE, tools, bootloaders, vendored device
libraries, examples, headers of other processors) is not the program of this
repository, and makes up nearly all of its lines.

## Plan

Done, in this order: `SerialTx` with `ByteStream` and its proofs; `Servo`;
`ServoAngle`; `SerialRx`; `Radar`; `Clock` and its proofs; `PulseIn`; `Twi`; `Pins`;
`LossyStream` and `Sweep` with their refinements; the proofs of `SerialRx`, `PulseIn`,
`Servo`, `delay()`, `Pins`, `Radar`, `Twi` and `ServoAngle`, which complete the safety of
all modules.

Next:

1. An abstract servo (`PulseTrain`: each attached channel is given pulses of its last
   width) that `Servo` implements and `Radar` relies on, with the proof of the step.
2. `Port`: `begin()` on an open port and UCSRB shared bit by bit by both halves of
   HardwareSerial, composing the ideas of `SerialTx` and `SerialRx`.
3. `Print`: `printNumber()` as a recursive function against a reference definition
   of the digits, over bounded numbers.
4. `SoftwareSerial`: a receive handler that counts cycles, over the ring of `SerialRx`.
