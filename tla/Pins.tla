-------------------------------- MODULE Pins --------------------------------
(***************************************************************************)
(* What interrupts tell main about pins and the serial line: digital       *)
(* inputs (src/zjs_gpio.c), the UART (src/zjs_uart.c) and the analog       *)
(* inputs that main polls itself (src/zjs_aio.c).  An interrupt handler    *)
(* runs as a whole between any two steps of main, and signals a C          *)
(* callback by its id.                                                     *)
(*                                                                         *)
(* Output pins and the hardware's configuration are left out.  Bytes of    *)
(* the line are numbered, the last one 1; 0 is what memory held before.    *)
(***************************************************************************)
EXTENDS Integers, Sequences, FiniteSets, SequencesExt

CONSTANTS
  PinBudgets, \* model bound: digital and analog pins opened, changes of level and bytes
  PinRing,    \* signals and deferred events the ring has room for
  UartRanges  \* what the script may pass to setReadRange: min and max

ASSUME PinsAssumption ==
  /\ PinRing \in Nat
  /\ PinBudgets \subseteq [gpios : Nat, aios : Nat, changes : Nat, bytes : Nat]
  /\ UartRanges \subseteq [min : Nat, max : Nat \ {0}]

VARIABLES
  gpios,     \* the gpio_handle_t made; "armed" once their callback id is stored
  aios,      \* the aio_handle_t made; "listed" while open
  uart,      \* the uart_handle and what init has done so far
  uartRx,    \* bytes of the line that nobody has read
  pinRing,   \* pending signals and deferred events
  onchange,  \* the value the script knows of each digital pin
  missed,    \* history: pins with an interrupt that was not signalled
  reads,     \* history: bytes "read" events brought
  overrun,   \* history: bytes came before main had handled the ones before, or were not signalled
  pinBudget, \* history: what is left of the bound chosen
  pinFault   \* the undefined behaviour that ended this behaviour, or "none"

pinVars == <<gpios, aios, uart, uartRx, pinRing, onchange, missed, reads, overrun, pinBudget, pinFault>>
gpioVars == <<gpios, onchange, missed>>
uartVars == <<uart, uartRx, reads, overrun>>

NoUart == [step |-> "none", cap |-> 0, size |-> 0, min |-> 0, max |-> 0, left |-> 0, sent |-> FALSE]
PinsOk == pinFault = "none"
\* Main is between two calls: it opens no pin, sets no range and writes nothing.
PinsMain ==
  /\ PinsOk /\ uart.step \in {"none", "ready"} /\ uart.left = 0
  /\ \A p \in DOMAIN gpios : gpios[p].armed \/ gpios[p].closed

PinFails(reason) ==
  /\ pinFault' = reason
  /\ gpios' = <<>> /\ aios' = <<>> /\ uart' = NoUart /\ uartRx' = <<>> /\ pinRing' = <<>>
  /\ onchange' = <<>> /\ missed' = {} /\ reads' = <<>> /\ overrun' = FALSE
  /\ UNCHANGED pinBudget

Spend(what) ==
  /\ pinBudget[what] > 0
  /\ pinBudget' = [pinBudget EXCEPT ![what] = @ - 1]

RoomLeft == Len(pinRing) < PinRing
PinSignal(item) == pinRing' = IF RoomLeft THEN Append(pinRing, item) ELSE pinRing

-----------------------------------------------------------------------------
(***************************************************************************)
(* Digital inputs.                                                         *)
(***************************************************************************)
\* zjs_gpio_open of an input: the interrupt is enabled before the callback's id is stored
\* and before it is known whether both edges count.
GpioOpenBegins(edge, level) ==
  /\ PinsMain
  /\ Spend("gpios")
  /\ gpios' = Append(gpios, [edge |-> edge, level |-> level, last |-> 0, armed |-> FALSE,
                             closed |-> FALSE, pending |-> FALSE, high |-> level = 1])
  /\ onchange' = Append(onchange, level)
  /\ UNCHANGED <<aios, uartVars, pinRing, missed, pinFault>>

GpioOpenEnds(p) ==
  /\ PinsOk /\ ~gpios[p].armed /\ ~gpios[p].closed
  /\ gpios' = [gpios EXCEPT ![p].armed = TRUE]
  /\ UNCHANGED <<aios, uartVars, pinRing, onchange, missed, pinBudget, pinFault>>

\* The device, which interrupts on the edges it was configured for.
LevelChanges(p) ==
  LET g == gpios[p] IN
    /\ PinsOk /\ ~g.closed
    /\ Spend("changes")
    /\ gpios' = [gpios EXCEPT ![p] = [g EXCEPT !.level = 1 - g.level,
                                              !.pending = g.pending \/ g.edge = "any" \/ g.level = 0]]
    /\ UNCHANGED <<aios, uartVars, pinRing, onchange, missed, pinFault>>

Counts(p) == gpios[p].armed /\ gpios[p].edge = "any" => gpios[p].level # gpios[p].last

\* zjs_gpio_zephyr_callback: the value is the one the pin has now.
GpioInterrupt(p) ==
  /\ PinsOk /\ gpios[p].pending
  /\ gpios' = [gpios EXCEPT ![p] = [gpios[p] EXCEPT !.pending = FALSE,
                                 !.last = IF Counts(p) THEN gpios[p].level ELSE gpios[p].last]]
  /\ IF Counts(p) /\ gpios[p].armed
     THEN PinSignal([of |-> "gpio", p |-> p, value |-> gpios[p].level]) ELSE UNCHANGED pinRing
  /\ missed' = IF Counts(p) /\ ~(gpios[p].armed /\ RoomLeft) THEN missed \cup {p} ELSE missed
  /\ UNCHANGED <<aios, uartVars, onchange, pinBudget, pinFault>>

\* zjs_gpio_c_callback; the signals of a closed pin's callback are skipped.
GpioChanged ==
  LET p == Head(pinRing).p IN
    /\ PinsMain /\ pinRing # <<>> /\ Head(pinRing).of = "gpio"
    /\ pinRing' = Tail(pinRing)
    /\ onchange' = IF gpios[p].closed THEN onchange ELSE [onchange EXCEPT ![p] = Head(pinRing).value]
    /\ UNCHANGED <<gpios, aios, uartVars, missed, pinBudget, pinFault>>

\* zjs_gpio_close, by the script or when the object is collected: zjs_remove_callback leaves
\* the signals where they are and puts a flush command after them.
GpioClose(p) ==
  /\ PinsMain /\ ~gpios[p].closed
  /\ gpios' = [gpios EXCEPT ![p] = [@ EXCEPT !.closed = TRUE, !.pending = FALSE]]
  /\ PinSignal([of |-> "flush"])
  /\ UNCHANGED <<aios, uartVars, onchange, missed, pinBudget, pinFault>>

PinFlushed ==
  /\ PinsMain /\ pinRing # <<>> /\ Head(pinRing).of = "flush"
  /\ pinRing' = Tail(pinRing)
  /\ UNCHANGED <<gpioVars, aios, uartVars, pinBudget, pinFault>>

-----------------------------------------------------------------------------
(***************************************************************************)
(* The serial line.                                                        *)
(***************************************************************************)
ByteComes ==
  /\ PinsOk
  /\ Spend("bytes")
  /\ uartRx' = Append(uartRx, pinBudget.bytes)
  /\ UNCHANGED <<gpioVars, aios, uart, pinRing, reads, overrun, pinFault>>

\* uart_init: interrupts first, then the handle, then the callback.
UartInit(step) ==
  /\ PinsOk
  /\ <<uart.step, step>> \in {<<"none", "irq">>, <<"irq", "handle">>, <<"handle", "ready">>}
  /\ PinsMain \/ uart.step # "none"
  /\ uart' = IF step = "handle" THEN [NoUart EXCEPT !.step = step, !.cap = 2, !.min = 1, !.max = 2]
             ELSE [uart EXCEPT !.step = step]
  /\ UNCHANGED <<gpioVars, aios, uartRx, reads, overrun, pinRing, pinBudget, pinFault>>

Taken == IF Len(uartRx) < uart.max THEN Len(uartRx) ELSE uart.max
Unhandled == \E i \in DOMAIN pinRing : pinRing[i].of = "uart"

\* uart_irq_handler, of received bytes: they replace what the buffer held, and a zero is put
\* after them.  (A range that is being set has a new buffer and the old limit.)
UartInterrupt ==
  /\ PinsOk /\ uartRx # <<>> /\ uart.step \in {"handle", "ready", "range"}
  /\ Taken < uart.cap
  /\ uart' = [uart EXCEPT !.size = Taken]
  /\ uartRx' = SubSeq(uartRx, Taken + 1, Len(uartRx))
  /\ IF uart.step = "handle" THEN UNCHANGED pinRing
     ELSE PinSignal([of |-> "uart", data |-> SubSeq(uartRx, 1, Taken)])
  /\ overrun' = (overrun \/ uart.step = "handle" \/ Unhandled \/ ~RoomLeft)
  /\ UNCHANGED <<gpioVars, aios, reads, pinBudget, pinFault>>

UartPastTheEnd ==
  /\ PinsOk /\ uartRx # <<>> /\ uart.step \in {"handle", "ready", "range"}
  /\ Taken >= uart.cap
  /\ PinFails("past the end of the buffer")

UartWithoutHandle ==
  /\ PinsOk /\ uartRx # <<>> /\ uart.step = "irq"
  /\ PinFails("no handle")

\* A plausible mistake: the minimum itself is not enough.
UartReadAbove ==
  LET data == Head(pinRing).data IN
    /\ PinsMain /\ pinRing # <<>> /\ Head(pinRing).of = "uart"
    /\ pinRing' = Tail(pinRing)
    /\ IF uart.size > uart.min
       THEN /\ reads' = reads \o [i \in 1..uart.size |-> IF i <= Len(data) THEN data[i] ELSE 0]
            /\ uart' = [uart EXCEPT !.size = 0]
       ELSE UNCHANGED <<reads, uart>>
    /\ overrun' = (overrun \/ Len(data) < uart.min)
    /\ UNCHANGED <<gpioVars, aios, uartRx, pinBudget, pinFault>>

\* uart_c_callback: the data are those that came with the signal, the size is that of the
\* latest.  Fewer bytes than the minimum are dropped.
UartRead ==
  LET data == Head(pinRing).data IN
    /\ PinsMain /\ pinRing # <<>> /\ Head(pinRing).of = "uart"
    /\ pinRing' = Tail(pinRing)
    /\ IF uart.size >= uart.min
       THEN /\ reads' = reads \o [i \in 1..uart.size |-> IF i <= Len(data) THEN data[i] ELSE 0]
            /\ uart' = [uart EXCEPT !.size = 0]
       ELSE UNCHANGED <<reads, uart>>
    /\ overrun' = (overrun \/ Len(data) < uart.min)
    /\ UNCHANGED <<gpioVars, aios, uartRx, pinBudget, pinFault>>

\* uart_set_read_range: the old buffer's bytes and a zero are copied to the new one, whatever
\* its size, and the limits come last.
RangeBegins(r) ==
  /\ PinsMain /\ uart.step = "ready" /\ r \in UartRanges
  /\ uart.size < r.max
  /\ uart' = [uart EXCEPT !.step = "range", !.cap = r.max, !.min = r.min]
  /\ UNCHANGED <<gpioVars, aios, uartRx, reads, overrun, pinRing, pinBudget, pinFault>>

RangeTooSmall(r) ==
  /\ PinsMain /\ uart.step = "ready" /\ r \in UartRanges
  /\ uart.size >= r.max
  /\ PinFails("past the end of the buffer")

RangeEnds ==
  /\ PinsOk /\ uart.step = "range"
  /\ uart' = [uart EXCEPT !.step = "ready", !.max = uart.cap]
  /\ UNCHANGED <<gpioVars, aios, uartRx, reads, overrun, pinRing, pinBudget, pinFault>>

\* uart_write and write_data: main waits, for each piece, until the interrupt says that the
\* line is ready, and gives up when the line takes nothing.
WriteFills(n) ==
  /\ PinsMain /\ uart.step = "ready" /\ n > 0
  /\ uart' = [uart EXCEPT !.left = n, !.sent = FALSE]
  /\ UNCHANGED <<gpioVars, aios, uartRx, reads, overrun, pinRing, pinBudget, pinFault>>

TxReady ==
  /\ PinsOk /\ uart.left > 0 /\ ~uart.sent
  /\ uart' = [uart EXCEPT !.sent = TRUE]
  /\ UNCHANGED <<gpioVars, aios, uartRx, reads, overrun, pinRing, pinBudget, pinFault>>

WriteGoesOn(takes) ==
  /\ PinsOk /\ uart.left > 0 /\ uart.sent
  /\ uart' = [uart EXCEPT !.left = IF takes THEN @ - 1 ELSE 0, !.sent = FALSE]
  /\ UNCHANGED <<gpioVars, aios, uartRx, reads, overrun, pinRing, pinBudget, pinFault>>

-----------------------------------------------------------------------------
(***************************************************************************)
(* Analog inputs.                                                          *)
(***************************************************************************)
\* zjs_aio_open.
AioOpen ==
  /\ PinsMain
  /\ Spend("aios")
  /\ aios' = Append(aios, [listed |-> TRUE, held |-> TRUE, last |-> 0])
  /\ UNCHANGED <<gpioVars, uartVars, pinRing, pinFault>>

\* aio_poll_routine, of one pin (a reading that failed is a value too).  The event names an
\* object that nobody holds for it.
AioPoll(a, value) ==
  /\ PinsMain /\ aios[a].listed
  /\ value # aios[a].last
  /\ Spend("changes")
  /\ aios' = [aios EXCEPT ![a].last = value]
  /\ PinSignal([of |-> "aio", a |-> a])
  /\ UNCHANGED <<gpioVars, uartVars, pinFault>>

\* zjs_aio_pin_close frees the handle, which the object still names.
AioClose(a) ==
  /\ PinsMain /\ aios[a].listed /\ aios[a].held
  /\ aios' = [aios EXCEPT ![a].listed = FALSE]
  /\ UNCHANGED <<gpioVars, uartVars, pinRing, pinBudget, pinFault>>

AioCollected(a) ==
  /\ PinsMain /\ aios[a].listed /\ aios[a].held
  /\ aios' = [aios EXCEPT ![a] = [@ EXCEPT !.listed = FALSE, !.held = FALSE]]
  /\ UNCHANGED <<gpioVars, uartVars, pinRing, pinBudget, pinFault>>

\* A closed pin is read, closed again or collected.
AioUsesFreed(a) ==
  /\ PinsMain /\ ~aios[a].listed /\ aios[a].held
  /\ PinFails("freed pin")

AioChanged ==
  /\ PinsMain /\ pinRing # <<>> /\ Head(pinRing).of = "aio"
  /\ IF aios[Head(pinRing).a].held
     THEN pinRing' = Tail(pinRing) /\ UNCHANGED <<gpioVars, aios, uartVars, pinBudget, pinFault>>
     ELSE PinFails("collected object")

-----------------------------------------------------------------------------
PinsInit ==
  /\ gpios = <<>> /\ aios = <<>> /\ uart = NoUart /\ uartRx = <<>> /\ pinRing = <<>>
  /\ onchange = <<>> /\ missed = {} /\ reads = <<>> /\ overrun = FALSE /\ pinFault = "none"
  /\ pinBudget \in PinBudgets

PinsNext ==
  \/ \E edge \in {"any", "rising"}, level \in {0, 1} : GpioOpenBegins(edge, level)
  \/ \E p \in DOMAIN gpios : GpioOpenEnds(p) \/ LevelChanges(p) \/ GpioInterrupt(p) \/ GpioClose(p)
  \/ GpioChanged \/ PinFlushed \/ ByteComes \/ UartInterrupt \/ UartPastTheEnd \/ UartWithoutHandle \/ UartRead
  \/ \E step \in {"irq", "handle", "ready"} : UartInit(step)
  \/ \E r \in UartRanges : RangeBegins(r) \/ RangeTooSmall(r)
  \/ RangeEnds \/ WriteFills(2) \/ TxReady \/ AioOpen \/ AioChanged
  \/ \E takes \in BOOLEAN : WriteGoesOn(takes)
  \/ \E a \in DOMAIN aios :
       AioClose(a) \/ AioCollected(a) \/ AioUsesFreed(a) \/ \E value \in {1, 65535} : AioPoll(a, value)
  \/ (~PinsOk \/ PinsMain) /\ UNCHANGED pinVars

PinsSpec == PinsInit /\ [][PinsNext]_pinVars

-----------------------------------------------------------------------------
(***************************************************************************)
(* Properties.                                                             *)
(***************************************************************************)
\* Once its interrupts and signals are served the script knows the level of an open pin
\* that reports both edges, however fast the level changed: unless a signal found no room,
\* an interrupt came while the pin was being opened, or the pin was high then (its first
\* fall to what "last" starts with is not reported).
LevelIsKnown ==
  \A p \in DOMAIN gpios :
    (/\ gpios[p].edge = "any" /\ ~gpios[p].closed /\ ~gpios[p].high
     /\ p \notin missed /\ ~gpios[p].pending
     /\ \A i \in DOMAIN pinRing : ~(pinRing[i].of = "gpio" /\ pinRing[i].p = p))
    => onchange[p] = gpios[p].level

\* What the "read" events brought, what waits to be read and what the line holds are the
\* bytes in their order and without gaps, in whatever pieces they came and however main's
\* calls were interrupted: unless bytes came before main had handled the ones before, were
\* fewer than the minimum, or came before the callback was set.
ReadsInOrder ==
  LET waiting == FlattenSeq([i \in DOMAIN pinRing |-> IF pinRing[i].of = "uart" THEN pinRing[i].data ELSE <<>>])
      bytes   == reads \o waiting \o uartRx
  IN  overrun \/ \A i \in 1..(Len(bytes) - 1) : bytes[i + 1] = bytes[i] - 1

\* What interrupts saw, the script hears of.
PinsAreHeard == LevelIsKnown /\ ReadsInOrder
=============================================================================
