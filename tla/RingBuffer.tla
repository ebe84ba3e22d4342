----------------------------- MODULE RingBuffer -----------------------------
(***************************************************************************)
(* The ring buffer of pending callbacks, word by word                      *)
(* (src/zjs_linux_ring_buffer.c, which is Zephyr's with small changes),    *)
(* with the callers of src/zjs_callbacks.c.  The service routine of the    *)
(* main thread takes messages out.  Signals of preemptible threads (main   *)
(* is one) are put with interrupts locked, and those of interrupt handlers *)
(* are interrupted by nobody: each is one action.  A cooperative thread    *)
(* signals without a lock, and main puts its flush commands with no more   *)
(* than ring_mutex: these puts are divided at their accesses to tail, as   *)
(* main's gets are at those to head.  An interrupt comes between any two   *)
(* steps, and a cooperative thread between any two of main's.              *)
(***************************************************************************)
EXTENDS Integers, Sequences, FiniteSets

CONSTANTS
  Size,         \* the buffer's size in words
  Types,        \* callback ids
  Values,       \* 0 for signals, and the values that mark flush commands
  Flushes,      \* the values that mark flush commands
  Lengths,      \* model bound: the numbers of data words explored
  Data          \* model bound: the data words explored

ASSUME RingBufferAssumption ==
  /\ Size \in Nat /\ Size > 1
  /\ Types \subseteq Nat /\ Values \subseteq Nat
  /\ Flushes \subseteq Values
  /\ Lengths \subseteq Nat

\* A word is 32 bits, read as a header when a message starts there.
Words == [type : Nat, length : Nat, value : Nat]

ASSUME DataAssumption == Data \subseteq Words

VARIABLES
  buf,       \* the words
  head,      \* index of the oldest message
  tail,      \* index of the first free word
  pc,        \* where main is in a get
  sz,        \* local of zjs_service_callbacks: the size asked for
  got,       \* local data[]: the words copied so far
  puts,      \* the unlocked puts under way: main's and the cooperative thread's
  pending,   \* history: messages put and not taken, with the index they start at
  answer,    \* history: the outcome of the last put
  out,       \* history: the last message taken out
  torn       \* history: a put was accepted in the middle of an unlocked one

vars == <<buf, head, tail, pc, sz, got, puts, pending, answer, out, torn>>

Indices == 0 .. Size - 1
Header(type, length, value) == [type |-> type, length |-> length, value |-> value]
Zero == Header(0, 0, 0)

Message(type, value, data) == [type |-> type, value |-> value, data |-> data]

Commands == {Message(type, value, <<>>) : type \in Types, value \in Flushes}
Signals == {Message(type, 0, data) : type \in Types, data \in UNION {[1 .. n -> Data] : n \in Lengths}}
NoMessage == Message(0, 0, <<>>)

\* Indices wrap around with "& mask": Size is a power of two.
Wrap(index) == index % Size

\* Mutant: the word before the oldest message is used too when the ring has wrapped around.
SpaceWrapped ==
  IF head = tail THEN Size - 1
  ELSE IF tail < head THEN head - tail
  ELSE (Size - tail) + head - 1

\* get_space(): the words free, one of them kept empty.
Space ==
  IF head = tail THEN Size - 1
  ELSE IF tail < head THEN head - tail - 1
  ELSE (Size - tail) + head - 1

Fits(message) == Space >= Len(message.data) + 1

-----------------------------------------------------------------------------
\* The words of a message stored from index "at".
Stored(at, message) ==
  [index \in Indices |->
    LET offset == Wrap(index - at + Size)
    IN  IF offset = 0 THEN Header(message.type, Len(message.data), message.value)
        ELSE IF offset <= Len(message.data) THEN message.data[offset]
        ELSE buf[index]]

\* A message counts as put when tail is moved.
Remember(at, message) ==
  /\ pending' = Append(pending, [at |-> at, msg |-> message])
  /\ answer' = "accepted"

Refuse ==
  /\ answer' = "refused"
  /\ UNCHANGED <<buf, tail, puts, pending, torn>>

\* The unlocked puts: "at" is the tail that the put has read.
Putters == {"main", "thread"}
NoPut == [stage |-> "none", at |-> 0, msg |-> NoMessage]
Underway(by) == puts[by].stage # "none"
AnyUnderway == \E by \in Putters : Underway(by)

\* zjs_port_ring_buf_put in an interrupt handler, at any time, or by a preemptible thread
\* with interrupts locked.
PutSignal(message) ==
  /\ IF Fits(message)
     THEN /\ buf' = Stored(tail, message)
          /\ tail' = Wrap(tail + Len(message.data) + 1)
          /\ Remember(tail, message)
          /\ torn' = (torn \/ AnyUnderway)
          /\ UNCHANGED puts
     ELSE Refuse
  /\ UNCHANGED <<head, pc, sz, got, out>>

\* zjs_port_ring_buf_put without a lock finds that there is room.
BeginPut(by, message) ==
  /\ IF Fits(message)
     THEN /\ puts' = [puts EXCEPT ![by] = [stage |-> "begun", at |-> tail, msg |-> message]]
          /\ torn' = (torn \/ AnyUnderway)
          /\ UNCHANGED <<buf, tail, pending, answer>>
     ELSE Refuse
  /\ UNCHANGED <<head, pc, sz, got, out>>

\* zjs_remove_callback and zjs_remove_all_callbacks hold ring_mutex only.
PutFlush(command) ==
  /\ pc = "idle"
  /\ ~AnyUnderway
  /\ BeginPut("main", command)

\* A cooperative thread signals: it does not even take ring_mutex.
PutUnlocked(message) ==
  /\ ~Underway("thread")
  /\ BeginPut("thread", message)

\* Main waits while a cooperative thread runs.
Goes(by, stage) ==
  /\ puts[by].stage = stage
  /\ by = "main" => ~Underway("thread")

\* The words are written from tail, which the compiler may have kept in a register.
PutWords(by) ==
  /\ Goes(by, "begun")
  /\ \E at \in {puts[by].at, tail} :
       /\ buf' = Stored(at, puts[by].msg)
       /\ puts' = [puts EXCEPT ![by] = [stage |-> "written", at |-> at, msg |-> puts[by].msg]]
  /\ UNCHANGED <<head, tail, pc, sz, got, pending, answer, out, torn>>

PutDone(by) ==
  /\ Goes(by, "written")
  /\ \E at \in {puts[by].at, tail} : tail' = Wrap(at + Len(puts[by].msg.data) + 1)
  /\ Remember(puts[by].at, puts[by].msg)
  /\ puts' = [puts EXCEPT ![by] = NoPut]
  /\ UNCHANGED <<buf, head, pc, sz, got, out, torn>>

-----------------------------------------------------------------------------
(***************************************************************************)
(* zjs_service_callbacks gets with a size of zero first: that takes out a  *)
(* message without data and tells the size of any other.                   *)
(***************************************************************************)

GetSize ==
  /\ ~AnyUnderway
  /\ pc = "idle"
  /\ head # tail
  /\ sz' = buf[head].length
  /\ pc' = IF buf[head].length > 0 THEN "sized" ELSE "copied"
  /\ UNCHANGED <<buf, head, tail, got, puts, pending, answer, out, torn>>

\* The second get fails if the ring is empty or the message is longer now; the
\* service routine then gives up ("pulling from ring buffer").
GetData ==
  /\ ~AnyUnderway
  /\ pc = "sized"
  /\ IF head = tail \/ buf[head].length > sz
     THEN /\ answer' = "pull_failed"
          /\ pc' = "idle"
     ELSE /\ pc' = "copying"
          /\ UNCHANGED answer
  /\ UNCHANGED <<buf, head, tail, sz, got, puts, pending, out, torn>>

CopyWord ==
  /\ ~AnyUnderway
  /\ pc = "copying"
  /\ IF Len(got) < buf[head].length
     THEN /\ got' = Append(got, buf[Wrap(Len(got) + head + 1)])
          /\ UNCHANGED pc
     ELSE /\ pc' = "copied"
          /\ UNCHANGED got
  /\ UNCHANGED <<buf, head, tail, sz, puts, pending, answer, out, torn>>

\* Mutant: the header word is not passed.
AdvanceShort ==
  /\ ~AnyUnderway
  /\ pc = "copied"
  /\ head' = Wrap(head + buf[head].length)
  /\ out' = <<Message(buf[head].type, buf[head].value, got)>>
  /\ pending' = IF pending = <<>> THEN <<>> ELSE Tail(pending)
  /\ pc' = "idle"
  /\ sz' = 0
  /\ got' = <<>>
  /\ UNCHANGED <<buf, tail, puts, answer, torn>>

Advance ==
  /\ ~AnyUnderway
  /\ pc = "copied"
  /\ head' = Wrap(head + buf[head].length + 1)
  /\ out' = <<Message(buf[head].type, buf[head].value, got)>>
  /\ pending' = IF pending = <<>> THEN <<>> ELSE Tail(pending)
  /\ pc' = "idle"
  /\ sz' = 0
  /\ got' = <<>>
  /\ UNCHANGED <<buf, tail, puts, answer, torn>>

-----------------------------------------------------------------------------
Init ==
  /\ buf = [index \in Indices |-> Zero]
  /\ head = 0
  /\ tail = 0
  /\ pc = "idle"
  /\ sz = 0
  /\ got = <<>>
  /\ puts = [by \in Putters |-> NoPut]
  /\ pending = <<>>
  /\ answer = "none"
  /\ out = <<>>
  /\ torn = FALSE

\* After a put was torn nothing more is claimed: the puts under way are finished, and
\* there the model ends.
Ended ==
  /\ torn
  /\ ~AnyUnderway
  /\ UNCHANGED vars

Next ==
  \/ /\ ~torn
     /\ \/ \E message \in Signals : PutSignal(message) \/ PutUnlocked(message)
        \/ \E command \in Commands : PutFlush(command)
        \/ GetSize \/ GetData \/ CopyWord \/ Advance
  \/ \E by \in Putters : PutWords(by) \/ PutDone(by)
  \/ Ended

Spec == Init /\ [][Next]_vars

-----------------------------------------------------------------------------
(***************************************************************************)
(* Properties.                                                             *)
(***************************************************************************)
\* Every variable has its type.
TypeOK ==
  /\ buf \in [Indices -> Words]
  /\ head \in Indices /\ tail \in Indices
  /\ pc \in {"idle", "sized", "copying", "copied"}
  /\ sz \in Nat
  /\ got \in Seq(Words)
  /\ puts \in [Putters -> {NoPut} \cup [stage : {"begun", "written"}, at : Indices,
                                         msg : Signals \cup Commands]]
  /\ pending \in Seq([at : Indices, msg : Signals \cup Commands])
  /\ answer \in {"none", "accepted", "refused", "pull_failed"}
  /\ out = <<>> \/ out[1] \in [type : Nat, value : Nat, data : Seq(Words)]
  /\ torn \in BOOLEAN

\* Words from one index up to another, and from the oldest message up to an index.
Between(from, to) == Wrap(to - from + Size)
Distance(index) == Between(head, index)

\* The message k of the ring begins where the one before it ends, the last one
\* ends at tail, and the first begins at head.
Chained ==
  /\ pending = <<>> <=> head = tail
  /\ pending # <<>> => Head(pending).at = head
  /\ \A k \in 1 .. Len(pending) :
       LET next == IF k = Len(pending) THEN tail ELSE pending[k + 1].at
       IN  Distance(next) = Distance(pending[k].at) + Len(pending[k].msg.data) + 1

\* Every message that was accepted lies in the buffer, whole, until it has been
\* taken out: no put writes over it, wherever the get of main has come to.
PendingStored ==
  \A k \in 1 .. Len(pending) :
    LET entry == pending[k]
    IN  /\ buf[entry.at] = Header(entry.msg.type, Len(entry.msg.data), entry.msg.value)
        /\ \A n \in 1 .. Len(entry.msg.data) : buf[Wrap(entry.at + n)] = entry.msg.data[n]

\* The second get of zjs_service_callbacks finds the message that the first one
\* told the size of, whatever was put in between.
PullNeverFails == answer # "pull_failed"

\* However handlers and threads put messages between the steps of main's get, the ring
\* holds what was accepted, chained and whole, and gives it back; until a put is accepted
\* in the middle of one that nothing locks, a cooperative thread's or a flush command's.
RingIsSound == TypeOK /\ (~torn => Chained /\ PendingStored /\ PullNeverFails)

\* The ring is the bounded queue the callback module relies on, as long as no put is torn.
Queue == INSTANCE MsgQueue
  WITH Capacity <- Size - 1, Messages <- Signals \cup Commands,
       queue <- [k \in 1 .. Len(pending) |-> pending[k].msg], used <- Size - 1 - Space,
       answer <- answer, taken <- out, broken <- torn

ImplementsQueue == Queue!Spec
=============================================================================
