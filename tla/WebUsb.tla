-------------------------------- MODULE WebUsb --------------------------------
(***************************************************************************)
(* The WebUSB serial channel (src/zjs_webusb.c): a ring from the script to *)
(* the UART, which its interrupt empties, and one from the UART to the     *)
(* script, which the interrupt fills and a deferred "read" event empties.  *)
(* One place of each ring stays free.  The interrupt handler runs between  *)
(* any two steps of main, and as a whole.                                  *)
(*                                                                         *)
(* Bytes are numbers in the order they were written or arrived; 0 is what  *)
(* memory held before.  The page's address is left out.                    *)
(***************************************************************************)
EXTENDS Integers, Sequences, FiniteSets, SequencesExt, FiniteSetsExt

CONSTANTS
  RINGMAX,     \* bytes of each ring
  UsbBudgets,  \* model bound: bytes written and bytes that arrive, together
  UsbEvents    \* deferred events the signal ring has room for

ASSUME UsbAssumption ==
  RINGMAX \in Nat \ {0} /\ UsbEvents \in Nat /\ UsbBudgets \subseteq [out : Nat, in : Nat]

VARIABLES
  tx, rx,      \* tx_ring and rx_ring
  uartState,   \* uart_state, "ready" once interrupts are on; "failed" when the timer gave up
  txOn,        \* the UART's transmit interrupt is enabled
  usbMain,     \* what main is in the middle of, with the indexes it has read
  usbEvents,   \* deferred "read" events
  uartIn,      \* bytes in the UART that nobody has read
  usbUp,       \* the rings are there
  txWritten,   \* history: bytes the script was told, or could know, are taken
  txSent,      \* history: bytes the UART was given
  rxGot,       \* history: bytes "read" events brought
  rxBlank,     \* history: a "read" event brought memory that nothing was written to
  rxCrowded,   \* history: an event was deferred behind another, or with no room for a byte
  txWrapped,   \* history: a write went around the end of the ring
  txEarly,     \* history: bytes waited when interrupts were set up
  usbBudget,   \* history: the bound chosen
  usbFault     \* the undefined behaviour that ended this behaviour, or "none"

usbVars == <<tx, rx, uartState, txOn, usbMain, usbEvents, uartIn, usbUp, txWritten, txSent, rxGot,
             rxBlank, rxCrowded, txWrapped, txEarly, usbBudget, usbFault>>
txVars == <<tx, txOn, txWritten, txSent, txWrapped, txEarly>>
rxVars == <<rx, usbEvents, uartIn, rxGot, rxBlank, rxCrowded>>

EmptyRing  == [buf |-> [i \in 0..(RINGMAX - 1) |-> 0], read |-> 0, write |-> 0]
Used(ring) == (ring.write + RINGMAX - ring.read) % RINGMAX
Held(ring) == [i \in 1..Used(ring) |-> ring.buf[(ring.read + i - 1) % RINGMAX]]
NotBusy == [do |-> "none"]
UsbOk   == usbFault = "none"
UsbMain == UsbOk /\ usbUp /\ usbMain = NotBusy
Arrived == Len(rxGot) + Used(rx) + Len(uartIn)

UsbFails(reason) ==
  /\ usbFault' = reason
  /\ tx' = EmptyRing /\ rx' = EmptyRing /\ txOn' = FALSE /\ usbMain' = NotBusy /\ usbEvents' = 0
  /\ uartIn' = <<>> /\ txWritten' = <<>> /\ txSent' = <<>> /\ rxGot' = <<>>
  /\ UNCHANGED <<uartState, usbUp, rxBlank, rxCrowded, txWrapped, txEarly, usbBudget>>

-----------------------------------------------------------------------------
(***************************************************************************)
(* Writing.                                                                *)
(***************************************************************************)
\* A write of n bytes reads the indexes; the interrupt may move tx_ring->read after.
WriteBegins(n) ==
  /\ UsbMain
  /\ Len(txWritten) + n <= usbBudget.out
  /\ usbMain' = [do |-> "write", read |-> tx.read, write |-> tx.write, n |-> n]
  /\ UNCHANGED <<txVars, rxVars, uartState, usbUp, usbBudget, usbFault>>

Least(i, j) == IF i < j THEN i ELSE j

\* The memory copied to index "at" from position "from" of a buffer whose first byte is
\* "first" and that has n bytes.
Copied(buf, at, first, from, n, len) ==
  [i \in DOMAIN buf |-> IF i \in at..(at + len - 1)
                        THEN IF from + i - at < n THEN first + from + i - at ELSE 0
                        ELSE buf[i]]

\* zjs_webusb_write: what fits before the end of the ring, then what fits before the byte to
\* be read.  Of a write that does both, the second part is put after the first one's length
\* and not where it should go, and its length is cut to the whole size, not to the rest.
WriteEnds(sends) ==
  LET n == usbMain.n  read == usbMain.read  write == usbMain.write
      first == Len(txWritten) + 1
      room  == IF write >= read THEN RINGMAX - write - (IF read = 0 THEN 1 ELSE 0) ELSE 0
      len1  == Least(n, room)
      at    == (write + len1) % RINGMAX
      len2  == IF n > len1 /\ at < read - 1 THEN Least(n, read - 1 - at) ELSE 0
      done  == Least(n, len1 + len2)
      buf1  == Copied(tx.buf, write, first, 0, n, len1)
      ring  == [buf   |-> Copied(buf1, at + len1, first, len1, n, len2),
                read  |-> tx.read,
                write |-> at + len2]
  IN  /\ UsbOk /\ usbMain.do = "write"
      /\ sends <= Used(ring) /\ (done = 0 => sends = 0)
      /\ tx' = [ring EXCEPT !.read = (@ + sends) % RINGMAX]
      /\ txOn' = (done > 0 \/ txOn)
      /\ txWritten' = txWritten \o [i \in 1..done |-> Len(txWritten) + i]
      /\ txSent' = txSent \o SubSeq(Held(ring), 1, sends)
      /\ txWrapped' = (txWrapped \/ (len1 > 0 /\ len2 > 0))
      /\ usbMain' = NotBusy
      /\ UNCHANGED <<rxVars, uartState, usbUp, txEarly, usbBudget, usbFault>>

\* uart_interrupt_handler and fill_uart_from_tx: the UART takes k bytes; when there are none
\* its interrupt is disabled.
TxInterrupt(k) ==
  /\ UsbOk /\ usbUp /\ uartState = "ready" /\ txOn
  /\ k <= Used(tx)
  /\ tx' = [tx EXCEPT !.read = (@ + k) % RINGMAX]
  /\ txSent' = txSent \o SubSeq(Held(tx), 1, k)
  /\ txOn' = (Used(tx) > 0)
  /\ UNCHANGED <<rxVars, uartState, usbMain, usbUp, txWritten, txWrapped, txEarly, usbBudget,
                 usbFault>>

-----------------------------------------------------------------------------
(***************************************************************************)
(* Reading.                                                                *)
(***************************************************************************)
ByteArrives ==
  /\ UsbOk /\ uartState = "ready"
  /\ Arrived < usbBudget.in
  /\ uartIn' = Append(uartIn, Arrived + 1)
  /\ UNCHANGED <<txVars, rx, usbEvents, rxGot, rxBlank, rxCrowded, uartState, usbMain, usbUp,
                 usbBudget, usbFault>>

\* read_uart, of at most "max" bytes.
ReadUart(ring, in, max) ==
  LET k == Least(Len(in), max)
  IN  [buf   |-> [i \in DOMAIN ring.buf |-> IF i \in ring.write..(ring.write + k - 1)
                                            THEN in[i - ring.write + 1] ELSE ring.buf[i]],
       read  |-> ring.read,
       write |-> (ring.write + k) % RINGMAX]

\* A plausible mistake: no byte is kept free when the ring is read from its start.
RoomFilled(ring) ==
  IF ring.write < ring.read THEN ring.read - 1 - ring.write ELSE RINGMAX - ring.write

\* What fits in one piece; a ring that is read from its start keeps its last byte free.
Room(ring) ==
  IF ring.write < ring.read
  THEN ring.read - 1 - ring.write
  ELSE RINGMAX - ring.write - (IF ring.read = 0 THEN 1 ELSE 0)

\* uart_interrupt_handler: when the first piece is filled it goes on at the start of the
\* ring, for a length it takes from the other ring's index.  The event is deferred also when
\* there was no room for anything.
RxInterrupt ==
  LET once == ReadUart(rx, uartIn, Room(rx))
      k    == Least(Len(uartIn), Room(rx))
      left == SubSeq(uartIn, k + 1, Len(uartIn))
      more == IF k = Room(rx) /\ rx.write >= rx.read /\ rx.read # 0 THEN rx.read - 1 - tx.write ELSE 0
      rest == IF more > 0 THEN Least(Len(left), more) ELSE 0
  IN  /\ UsbOk /\ usbUp /\ uartState = "ready" /\ uartIn # <<>>
      /\ rx' = ReadUart(once, left, rest)
      /\ uartIn' = SubSeq(left, rest + 1, Len(left))
      /\ usbEvents' = Least(usbEvents + 1, UsbEvents)
      /\ rxCrowded' = (rxCrowded \/ usbEvents > 0 \/ k = 0)
      /\ UNCHANGED <<txVars, rxGot, rxBlank, uartState, usbMain, usbUp, usbBudget, usbFault>>

\* prepare_read, the callback before the event, reads the indexes; the interrupt may move
\* rx_ring->write after.
ReadBegins ==
  /\ UsbMain /\ usbEvents > 0
  /\ usbEvents' = usbEvents - 1
  /\ usbMain' = [do |-> "read", read |-> rx.read, write |-> rx.write]
  /\ UNCHANGED <<txVars, rx, uartIn, rxGot, rxBlank, rxCrowded, uartState, usbUp, usbBudget,
                 usbFault>>

\* An empty ring gives a buffer of RINGMAX bytes that nothing is copied to.
ReadEnds ==
  /\ UsbOk /\ usbMain.do = "read"
  /\ rxGot' = rxGot \o Held([rx EXCEPT !.write = usbMain.write])
  /\ rxBlank' = (rxBlank \/ usbMain.read = usbMain.write)
  /\ rx' = [rx EXCEPT !.read = usbMain.write]
  /\ usbMain' = NotBusy
  /\ UNCHANGED <<txVars, usbEvents, uartIn, rxCrowded, uartState, usbUp, usbBudget, usbFault>>

\* Without memory for the buffer the event is cancelled.
ReadCancelled ==
  /\ UsbOk /\ usbMain.do = "read"
  /\ usbMain' = NotBusy
  /\ UNCHANGED <<txVars, rxVars, uartState, usbUp, usbBudget, usbFault>>

-----------------------------------------------------------------------------
(***************************************************************************)
(* Setting up and cleaning up.                                             *)
(***************************************************************************)
\* check_uart, a timer's callback.
CheckUart(next) ==
  /\ UsbOk /\ usbUp
  /\ <<uartState, next>> \in {<<"dtr", "baud">>, <<"baud", "failed">>, <<"baud", "ready">>}
  /\ uartState' = next
  /\ txOn' = (txOn /\ next # "ready")
  /\ txEarly' = (next = "ready" /\ (Used(tx) > 0 \/ usbMain.do = "write"))
  /\ UNCHANGED <<tx, txWritten, txSent, txWrapped, rxVars, usbMain, usbUp, usbBudget, usbFault>>

\* zjs_webusb_cleanup frees the rings, and leaves the timer and the interrupts on.
UsbCleanup ==
  /\ UsbMain
  /\ usbUp' = FALSE
  /\ usbEvents' = 0 /\ tx' = EmptyRing /\ rx' = EmptyRing
  /\ txWritten' = <<>> /\ txSent' = <<>> /\ rxGot' = <<>> /\ uartIn' = <<>>
  /\ UNCHANGED <<uartState, txOn, usbMain, rxBlank, rxCrowded, txWrapped, txEarly, usbBudget,
                 usbFault>>

InterruptWithoutRings ==
  /\ UsbOk /\ ~usbUp /\ uartState = "ready"
  /\ UsbFails("no ring")

-----------------------------------------------------------------------------
\* zjs_webusb_init.
UsbInit ==
  /\ tx = EmptyRing /\ rx = EmptyRing /\ uartState = "dtr" /\ txOn = FALSE /\ usbMain = NotBusy
  /\ usbEvents = 0 /\ uartIn = <<>> /\ usbUp = TRUE /\ txWritten = <<>> /\ txSent = <<>>
  /\ rxGot = <<>> /\ rxBlank = FALSE /\ rxCrowded = FALSE /\ txWrapped = FALSE /\ txEarly = FALSE
  /\ usbFault = "none"
  /\ usbBudget \in UsbBudgets

UsbNext ==
  \/ \E n \in 1..usbBudget.out : WriteBegins(n)
  \/ \E k \in 0..(RINGMAX - 1) : WriteEnds(k) \/ TxInterrupt(k)
  \/ ByteArrives \/ RxInterrupt \/ ReadBegins \/ ReadEnds \/ ReadCancelled
  \/ \E next \in {"baud", "failed", "ready"} : CheckUart(next)
  \/ UsbCleanup \/ InterruptWithoutRings
  \/ (UsbMain \/ ~UsbOk \/ ~usbUp) /\ UNCHANGED usbVars

UsbSpec == UsbInit /\ [][UsbNext]_usbVars

-----------------------------------------------------------------------------
(***************************************************************************)
(* Properties.                                                             *)
(***************************************************************************)
\* What the UART is given and what the rings hold are the bytes in their order, none lost
\* and none twice, whenever the interrupt moves the indexes that main is reading: unless a
\* write went around the end of its ring.
BytesInOrder ==
  /\ txWrapped \/ usbFault # "none" \/ txSent \o Held(tx) = txWritten
  /\ rxGot \o Held(rx) \o uartIn = [i \in 1..Arrived |-> i]

\* While bytes wait to be sent the UART's interrupt is on, so they will be: unless they
\* waited already when the interrupts were set up, which turns it off.
WrittenWillBeSent ==
  (uartState = "ready" /\ usbMain.do # "write" /\ Used(tx) > 0) => txOn \/ txEarly

\* A "read" event brings bytes that arrived, whenever the interrupt comes: unless interrupts
\* deferred more events than there were pieces to read, as two do before the first event's
\* turn (the first event takes the bytes of both) or one that found the ring full.
BlankIsExplained == rxBlank => rxCrowded

\* Bytes written are sent and bytes received are read, in order, and nothing else is read.
UsbDelivers == BytesInOrder /\ WrittenWillBeSent /\ BlankIsExplained
=============================================================================
