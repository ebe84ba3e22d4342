------------------------------ MODULE TermUart ------------------------------
(***************************************************************************)
(* How what is typed reaches the terminal (src/ashell/term-uart.c).  The   *)
(* UART's interrupt collects bytes in a line buffer and queues it when the *)
(* line ends, when it is full, when main is done with the one before or    *)
(* when no other is in use; main takes the queued ones, frees or recycles  *)
(* them, and when there are none forgets the buffers it kept, or takes an  *)
(* unfinished line away from the interrupt.  Neither locks out the other:  *)
(* the interrupt, which runs as a whole, comes between any two steps of    *)
(* main's.                                                                 *)
(*                                                                         *)
(* Bytes are numbers in the order they were typed, of which some are NUL.  *)
(* A connection is there.                                                  *)
(***************************************************************************)
EXTENDS Integers, Sequences, SequencesExt

CONSTANTS
  TtLine,   \* MAX_LINE
  TtTyped   \* model bound: bytes typed

ASSUME TtAssumption == TtLine \in Nat \ {0} /\ TtTyped \in Nat

VARIABLES
  typed,       \* bytes typed
  nuls,        \* those of them that are NUL
  avail,       \* buffers in avail_queue
  fifoSize,    \* fifo_size
  tail,        \* tail
  bufSet,      \* buf is not NULL
  isrData,     \* isr_data: what the buffer holds, or NULL
  dataQueue,   \* data_queue
  processDone, \* uart_process_done
  isrEnd,      \* uart_state is UART_ISR_END
  ttStep,      \* where main is in uart_process
  ttData,      \* the buffer main holds
  ttTaken,     \* history: bytes of the buffers main took
  ttProcessed, \* history: bytes the terminal was given of them
  ttLost,      \* history: buffers nothing names any more
  ttRaced,     \* history: an interrupt came after main looked for work and before it gave up
  ttFault      \* the undefined behaviour that ended this behaviour, or "none"

ttVars == <<typed, nuls, avail, fifoSize, tail, bufSet, isrData, dataQueue, processDone, isrEnd,
            ttStep, ttData, ttTaken, ttProcessed, ttLost, ttRaced, ttFault>>
isrVars == <<typed, nuls, tail, bufSet, isrData>>
ttGiven == <<ttTaken, ttProcessed>>
ttHistory == <<ttGiven, ttLost, ttRaced, ttFault>>

NULL == <<0>>  \* no byte has that number
TtOk == ttFault = "none"

-----------------------------------------------------------------------------
(***************************************************************************)
(* uart_interrupt_handler.                                                 *)
(***************************************************************************)
\* Main has found no work, or is about to, and will give up on it.
GivingUp == ttStep \notin {"away", "got", "recycle", "put"}

\* When the buffer is queued.
Flushes(size, full, ends) == size = 1 \/ full \/ processDone \/ ends

\* fifo_get_isr_buffer: fifo_size when a line starts.
SizeOfNew == IF avail = 0 THEN fifoSize + 1 ELSE fifoSize

\* Some bytes are read into the current buffer, or a new one; "ends" says that one of them
\* ends a line, as a NUL does, the first of which is the nul-th of them, if any.
TypedInterrupt(n, ends, nul) ==
  /\ TtOk /\ typed + n <= TtTyped
  /\ nul > 0 => ends
  /\ nuls' = nuls \union (IF nul > 0 THEN {typed + nul} ELSE {})
  /\ tail = 0 \/ (isrData # NULL /\ bufSet)
  /\ LET new    == tail = 0
         size   == IF new THEN SizeOfNew ELSE fifoSize
         line   == (IF new THEN <<>> ELSE isrData) \o [i \in 1..n |-> typed + i]
         full   == tail + n = TtLine
         flush  == Flushes(size, full, ends)
     IN /\ tail + n <= TtLine
        /\ typed' = typed + n
        /\ fifoSize' = size
        /\ avail' = IF new /\ avail > 0 THEN avail - 1 ELSE avail
        /\ processDone' = IF size = 1 \/ full \/ processDone THEN FALSE ELSE processDone
        /\ bufSet' = TRUE
        /\ IF flush
           THEN tail' = 0 /\ dataQueue' = Append(dataQueue, line) /\ isrData' = NULL
           ELSE tail' = tail + n /\ isrData' = line /\ UNCHANGED dataQueue
        \* A buffer main has not forgotten yet is forgotten here.
        /\ ttLost' = IF new /\ isrData # NULL THEN ttLost + 1 ELSE ttLost
  /\ isrEnd' = TRUE
  /\ ttRaced' = (ttRaced \/ GivingUp)
  /\ UNCHANGED <<ttStep, ttData, ttGiven, ttFault>>

\* Main forgot the buffer of the line this one goes on with.
InterruptWithoutBuffer ==
  /\ TtOk /\ typed < TtTyped
  /\ tail > 0 /\ (isrData = NULL \/ ~bufSet)
  /\ ttFault' = "writes through a buffer that main forgot"
  /\ typed' = TtTyped /\ avail' = 0 /\ fifoSize' = 0 /\ tail' = 0 /\ bufSet' = FALSE /\ isrData' = NULL
  /\ dataQueue' = <<>> /\ processDone' = FALSE /\ isrEnd' = FALSE /\ ttStep' = "away" /\ ttData' = NULL
  /\ nuls' = {} /\ ttTaken' = <<>> /\ ttProcessed' = <<>> /\ ttLost' = 0
  /\ UNCHANGED ttRaced

-----------------------------------------------------------------------------
(***************************************************************************)
(* uart_process.                                                           *)
(***************************************************************************)
Main(from, to) == TtOk /\ ttStep = from /\ ttStep' = to

\* The state is set to waiting; the loop starts again here too.
LooksForData ==
  /\ \E from \in {"away", "next"} : Main(from, "waiting")
  /\ isrEnd' = FALSE
  /\ UNCHANGED <<isrVars, avail, fifoSize, dataQueue, processDone, ttData, ttHistory>>

GetsData ==
  /\ Main("waiting", IF dataQueue = <<>> THEN "empty" ELSE "got")
  /\ ttData' = IF dataQueue = <<>> THEN NULL ELSE Head(dataQueue)
  /\ dataQueue' = IF dataQueue = <<>> THEN <<>> ELSE Tail(dataQueue)
  /\ UNCHANGED <<isrVars, avail, fifoSize, processDone, isrEnd, ttHistory>>

\* strnlen: a buffer is a string, which a NUL ends.
Text(line) ==
  LET ends == {i \in DOMAIN line : line[i] \in nuls}
  IN  IF ends = {} THEN line ELSE SubSeq(line, 1, Min(ends) - 1)

\* The terminal processes it, and the interrupt is told.
Processes ==
  /\ Main("got", "recycle")
  /\ ttTaken' = ttTaken \o ttData
  /\ ttProcessed' = ttProcessed \o Text(ttData)
  /\ ttData' = <<>>
  /\ processDone' = TRUE
  /\ UNCHANGED <<isrVars, avail, fifoSize, dataQueue, isrEnd, ttLost, ttRaced, ttFault>>

\* fifo_recycle_buffer: freed if there are others, else put back, in another step.
Recycles ==
  /\ Main("recycle", IF fifoSize > 1 THEN "next" ELSE "put")
  /\ fifoSize' = IF fifoSize > 1 THEN fifoSize - 1 ELSE fifoSize
  /\ ttData' = IF fifoSize > 1 THEN NULL ELSE ttData
  /\ UNCHANGED <<isrVars, avail, dataQueue, processDone, isrEnd, ttHistory>>
PutsBack ==
  /\ Main("put", "next")
  /\ avail' = avail + 1
  /\ ttData' = NULL
  /\ UNCHANGED <<isrVars, fifoSize, dataQueue, processDone, isrEnd, ttHistory>>

\* A plausible mistake: any unfinished line is captured.
CapturesAny == isrData # NULL

\* Only a line to which the interrupt has just added is captured.
Captures == isrEnd /\ isrData # NULL

\* Nothing is queued: the cache is cleared, or an unfinished line is captured if the
\* interrupt has just ended.
GivesUp ==
  /\ Main("empty", IF tail = 0 THEN "clear" ELSE IF Captures THEN "capture" ELSE "away")
  /\ UNCHANGED <<isrVars, avail, fifoSize, dataQueue, processDone, isrEnd, ttData, ttHistory>>

\* fifo_cache_clear forgets the interrupt's buffer when the last one is freed; as long as
\* there is one that is not available it returns before.
Clears == fifoSize = 0

FreesCached ==
  /\ Main("clear", IF Clears THEN "tail" ELSE IF avail > 0 THEN "clear" ELSE "away")
  /\ avail' = IF ~Clears /\ avail > 0 THEN avail - 1 ELSE avail
  /\ fifoSize' = IF ~Clears /\ avail > 0 THEN fifoSize - 1 ELSE fifoSize
  /\ UNCHANGED <<isrVars, dataQueue, processDone, isrEnd, ttData, ttHistory>>
ForgetsTail ==
  /\ Main("tail", "buf")
  /\ tail' = 0
  /\ UNCHANGED <<typed, nuls, bufSet, isrData, avail, fifoSize, dataQueue, processDone, isrEnd, ttData, ttHistory>>
ForgetsBuf ==
  /\ Main("buf", "data")
  /\ bufSet' = FALSE
  /\ UNCHANGED <<typed, nuls, tail, isrData, avail, fifoSize, dataQueue, processDone, isrEnd, ttData, ttHistory>>
ForgetsData ==
  /\ Main("data", "away")
  /\ isrData' = NULL
  /\ ttLost' = IF isrData # NULL THEN ttLost + 1 ELSE ttLost
  /\ UNCHANGED <<typed, nuls, tail, bufSet, avail, fifoSize, dataQueue, processDone, isrEnd, ttData, ttGiven, ttRaced,
                 ttFault>>

\* The line is ended and taken from the interrupt, and lost: the next call looks in the queue.
CapturesTail ==
  /\ Main("capture", "captured")
  /\ tail' = 0
  /\ UNCHANGED <<typed, nuls, bufSet, isrData, avail, fifoSize, dataQueue, processDone, isrEnd, ttData, ttHistory>>
CapturesData ==
  /\ Main("captured", "away")
  /\ isrData' = NULL /\ isrEnd' = FALSE
  /\ ttLost' = IF isrData # NULL THEN ttLost + 1 ELSE ttLost
  /\ UNCHANGED <<typed, nuls, tail, bufSet, avail, fifoSize, dataQueue, processDone, ttData, ttGiven, ttRaced,
                 ttFault>>

-----------------------------------------------------------------------------
TtInit ==
  /\ typed = 0 /\ nuls = {} /\ avail = 0 /\ fifoSize = 0 /\ tail = 0 /\ bufSet = FALSE /\ isrData = NULL
  /\ dataQueue = <<>> /\ processDone = FALSE /\ isrEnd = FALSE /\ ttStep = "away" /\ ttData = NULL
  /\ ttTaken = <<>> /\ ttProcessed = <<>> /\ ttLost = 0 /\ ttRaced = FALSE /\ ttFault = "none"

TtNext ==
  \/ \E n \in 1..TtLine, ends \in BOOLEAN : \E nul \in 0..n : TypedInterrupt(n, ends, nul)
  \/ InterruptWithoutBuffer
  \/ LooksForData \/ GetsData \/ Processes \/ Recycles \/ PutsBack \/ GivesUp
  \/ FreesCached \/ ForgetsTail \/ ForgetsBuf \/ ForgetsData \/ CapturesTail \/ CapturesData
  \/ ~TtOk /\ UNCHANGED ttVars

TtSpec == TtInit /\ [][TtNext]_ttVars

-----------------------------------------------------------------------------
(***************************************************************************)
(* Properties.                                                             *)
(***************************************************************************)
OrNone(data) == IF data = NULL THEN <<>> ELSE data
Outstanding ==
  avail + Len(dataQueue) + (IF isrData = NULL THEN 0 ELSE 1) + (IF ttData = NULL THEN 0 ELSE 1)

\* What was typed was taken or is on its way, in order and all of it, and fifo_size counts the
\* buffers there are, as long as no interrupt comes after main looked for work and before it
\* has given up: only then a line may be lost, or its buffer forgotten while the interrupt
\* goes on writing to it.
TypedIsKept ==
  ~ttRaced =>
    /\ TtOk /\ ttLost = 0
    /\ ttTaken \o OrNone(ttData) \o FlattenSeq(dataQueue) \o OrNone(isrData) = [i \in 1..typed |-> i]
    /\ fifoSize = Outstanding

\* The terminal was given all that was taken, unless a NUL was: of a buffer with one nothing
\* is given from the NUL on.
TakenIsProcessed == (\A i \in DOMAIN ttTaken : ttTaken[i] \notin nuls) => ttProcessed = ttTaken
=============================================================================
