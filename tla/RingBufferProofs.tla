-------------------------- MODULE RingBufferProofs --------------------------
(***************************************************************************)
(* Theorems about module RingBuffer, for every value of its constants: the *)
(* ring is sound, and it implements the bounded queue of module MsgQueue,  *)
(* until a put is accepted in the middle of one that nothing locks.        *)
(***************************************************************************)
EXTENDS RingBuffer, SequenceTheorems, TLAPS

\* No message reaches past the beginning of a later one, or past tail: what Chained
\* says of neighbours, said of any two messages, for it takes no induction to use.
Ordered ==
  \A k \in 1 .. Len(pending) :
    LET end == Distance(pending[k].at) + Len(pending[k].msg.data) + 1
    IN  /\ end <= Distance(tail)
        /\ \A later \in k + 1 .. Len(pending) : end <= Distance(pending[later].at)

\* How far the get of main has come with the oldest message.
Reading ==
  /\ pc \in {"sized", "copying", "copied"} => pending # <<>>
  /\ pc \in {"idle", "sized"} => got = <<>>
  /\ pc = "sized" => sz = Len(pending[1].msg.data)
  /\ pc = "copying" =>
       /\ Len(got) <= Len(pending[1].msg.data)
       /\ \A n \in 1 .. Len(got) : got[n] = pending[1].msg.data[n]
  /\ pc = "copied" => got = pending[1].msg.data

\* An unlocked put is alone; its tail is the ring's and its message fits, and lies there
\* once it is written.
Writing ==
  /\ ~(Underway("main") /\ Underway("thread"))
  /\ \A by \in Putters : Underway(by) =>
       /\ puts[by].at = tail
       /\ Distance(tail) + Len(puts[by].msg.data) + 1 <= Size - 1
       /\ puts[by].stage = "written" =>
            /\ buf[tail] = Header(puts[by].msg.type, Len(puts[by].msg.data), puts[by].msg.value)
            /\ \A n \in 1 .. Len(puts[by].msg.data) :
                 buf[Wrap(tail + n)] = puts[by].msg.data[n]

\* What holds until a put is torn.
Sound == TypeOK /\ Chained /\ PendingStored /\ PullNeverFails
Whole == Sound /\ Ordered /\ Reading /\ Writing

\* The inductive invariant.
IInv == TypeOK /\ (~torn => Whole)

-----------------------------------------------------------------------------
(***************************************************************************)
(* Arithmetic of the indices.                                              *)
(***************************************************************************)
\* Wrapping takes one Size off an index that has passed the end.
LEMMA WrapIs ==
  ASSUME NEW i \in 0 .. 2 * Size - 1
  PROVE  (i < Size => Wrap(i) = i) /\ (i >= Size => Wrap(i) = i - Size)
<1> USE RingBufferAssumption
<1>1. CASE i < Size
  BY <1>1 DEF Wrap
<1>2. CASE i >= Size
  <2>1. i = Size * (i \div Size) + (i % Size)
    OBVIOUS
  <2>2. PICK quotient \in Int : quotient = i \div Size
    OBVIOUS
  <2>3. PICK rest \in 0 .. Size - 1 : rest = i % Size
    OBVIOUS
  <2>4. i = Size * quotient + rest
    BY <2>1, <2>2, <2>3
  <2>5. quotient < 2
    <3>1. SUFFICES ASSUME quotient >= 2 PROVE FALSE
      BY <2>2
    <3>2. Size * quotient >= Size * 2
      BY <3>1
    <3> QED
      BY <3>2, <2>4
  <2>6. quotient > 0
    <3>1. SUFFICES ASSUME quotient <= 0 PROVE FALSE
      BY <2>2
    <3>2. Size * quotient <= 0
      BY <3>1
    <3> QED
      BY <3>2, <2>4, <1>2
  <2>7. quotient = 1
    BY <2>2, <2>5, <2>6
  <2>8. rest = i - Size
    BY <2>4, <2>7
  <2> QED
    BY <2>3, <2>8, <1>2 DEF Wrap
<1> QED
  BY <1>1, <1>2

\* The words between two indices, without wrapping.
LEMMA BetweenIs ==
  ASSUME NEW from \in Indices, NEW to \in Indices
  PROVE  /\ Between(from, to) = IF from <= to THEN to - from ELSE to - from + Size
         /\ Between(from, to) \in 0 .. Size - 1
<1>1. to - from + Size \in 0 .. 2 * Size - 1
  BY RingBufferAssumption DEF Indices
<1> QED
  BY <1>1, WrapIs, RingBufferAssumption DEF Between, Indices

\* Going on by some words adds them to the distance, as long as the start is not passed.
LEMMA BetweenAdds ==
  ASSUME NEW from \in Indices, NEW at \in Indices, NEW n \in Nat,
         Between(from, at) + n <= Size - 1
  PROVE  /\ Wrap(at + n) \in Indices
         /\ Between(from, Wrap(at + n)) = Between(from, at) + n
<1>1. Between(from, at) = IF from <= at THEN at - from ELSE at - from + Size
  BY BetweenIs
<1>2. at + n \in 0 .. 2 * Size - 1
  BY <1>1, RingBufferAssumption DEF Indices
<1>3. /\ at + n < Size => Wrap(at + n) = at + n
      /\ at + n >= Size => Wrap(at + n) = at + n - Size
  BY <1>2, WrapIs, RingBufferAssumption DEF Indices
<1>4. Wrap(at + n) \in Indices
  BY <1>2, <1>3, RingBufferAssumption DEF Indices
<1>5. Between(from, Wrap(at + n)) =
        IF from <= Wrap(at + n) THEN Wrap(at + n) - from ELSE Wrap(at + n) - from + Size
  BY <1>4, BetweenIs
<1> QED
  BY <1>1, <1>3, <1>4, <1>5, RingBufferAssumption DEF Indices

\* Starting later takes the words passed off the distance.
LEMMA BetweenShifts ==
  ASSUME NEW from \in Indices, NEW to \in Indices, NEW n \in Nat,
         n <= Between(from, to)
  PROVE  /\ Wrap(from + n) \in Indices
         /\ Between(Wrap(from + n), to) = Between(from, to) - n
<1>1. /\ Between(from, to) = IF from <= to THEN to - from ELSE to - from + Size
      /\ Between(from, to) \in 0 .. Size - 1
  BY BetweenIs
<1>2. from + n \in 0 .. 2 * Size - 1
  BY <1>1, RingBufferAssumption DEF Indices
<1>3. /\ from + n < Size => Wrap(from + n) = from + n
      /\ from + n >= Size => Wrap(from + n) = from + n - Size
  BY <1>2, WrapIs, RingBufferAssumption DEF Indices
<1>4. Wrap(from + n) \in Indices
  BY <1>2, <1>3, RingBufferAssumption DEF Indices
<1>5. Between(Wrap(from + n), to) =
        IF Wrap(from + n) <= to THEN to - Wrap(from + n) ELSE to - Wrap(from + n) + Size
  BY <1>4, BetweenIs
<1> QED
  BY <1>1, <1>3, <1>4, <1>5, RingBufferAssumption DEF Indices

\* get_space() counts the words between tail and head, but one.
LEMMA SpaceIs ==
  ASSUME TypeOK
  PROVE  /\ Space = Size - 1 - Distance(tail)
         /\ Distance(tail) \in 0 .. Size - 1
         /\ Distance(tail) = 0 <=> head = tail
<1>1. head \in Indices /\ tail \in Indices
  BY DEF TypeOK
<1>2. /\ Distance(tail) = IF head <= tail THEN tail - head ELSE tail - head + Size
      /\ Distance(tail) \in 0 .. Size - 1
  BY <1>1, BetweenIs DEF Distance
<1> QED
  BY <1>1, <1>2, RingBufferAssumption DEF Space, Indices

\* The parts of a message.
LEMMA MessageParts ==
  ASSUME NEW message \in Signals \cup Commands
  PROVE  /\ message.data \in Seq(Words) /\ Len(message.data) \in Nat
         /\ message.type \in Nat /\ message.value \in Nat
         /\ message = Message(message.type, message.value, message.data)
         /\ message \in Commands => message.data = <<>>
<1>1. CASE message \in Commands
  <2>1. PICK type \in Types, value \in Flushes : message = Message(type, value, <<>>)
    BY <1>1 DEF Commands
  <2>2. type \in Nat /\ value \in Nat
    BY <2>1, RingBufferAssumption
  <2>3. <<>> \in Seq(Words) /\ Len(<<>>) \in Nat
    OBVIOUS
  <2> QED
    BY <2>1, <2>2, <2>3 DEF Message
<1>2. CASE message \in Signals
  <2>1. PICK type \in Types, data \in UNION {[1 .. n -> Data] : n \in Lengths} :
          message = Message(type, 0, data)
    BY <1>2 DEF Signals
  <2>2. data \in Seq(Words)
    BY <2>1, DataAssumption, RingBufferAssumption
  <2>3. /\ message.data \in Seq(Words) /\ Len(message.data) \in Nat
        /\ message.type \in Nat /\ message.value \in Nat
        /\ message = Message(message.type, message.value, message.data)
    BY <2>1, <2>2, RingBufferAssumption DEF Message
  <2>4. message \in Commands => message.data = <<>>
    BY DEF Commands, Message
  <2> QED
    BY <2>3, <2>4
<1> QED
  BY <1>1, <1>2

-----------------------------------------------------------------------------
(***************************************************************************)
(* What a put writes.                                                      *)
(***************************************************************************)
\* A put writes no word of the messages in the ring, and writes its message from tail.
LEMMA StoredIs ==
  ASSUME TypeOK, NEW message \in Signals \cup Commands, Fits(message)
  PROVE  /\ Stored(tail, message) \in [Indices -> Words]
         /\ \A index \in Indices :
              Distance(index) < Distance(tail) => Stored(tail, message)[index] = buf[index]
         /\ Stored(tail, message)[tail] = Header(message.type, Len(message.data), message.value)
         /\ \A n \in 1 .. Len(message.data) :
              Stored(tail, message)[Wrap(tail + n)] = message.data[n]
         /\ Distance(tail) + Len(message.data) + 1 <= Size - 1
<1> DEFINE m == Len(message.data)
           new == Stored(tail, message)
<1>1. /\ tail \in Indices /\ head \in Indices /\ buf \in [Indices -> Words]
      /\ m \in Nat /\ message.data \in Seq(Words)
      /\ Header(message.type, m, message.value) \in Words
  BY MessageParts DEF TypeOK, Header, Words
<1>2. Distance(tail) \in 0 .. Size - 1 /\ Distance(tail) + m + 1 <= Size - 1
  BY <1>1, SpaceIs, RingBufferAssumption DEF Fits
<1>3. /\ new = [index \in Indices |->
                  IF Between(tail, index) = 0 THEN Header(message.type, m, message.value)
                  ELSE IF Between(tail, index) <= m THEN message.data[Between(tail, index)]
                  ELSE buf[index]]
      /\ \A index \in Indices : Between(tail, index) \in 0 .. Size - 1
  BY <1>1, BetweenIs DEF Stored, Between
<1> HIDE DEF new
<1>4. new \in [Indices -> Words]
  <2>1. \A index \in Indices : new[index] \in Words
    BY <1>1, <1>3
  <2> QED
    BY <1>3, <2>1
<1>5. ASSUME NEW index \in Indices, Distance(index) < Distance(tail)
      PROVE  new[index] = buf[index]
  <2>1. Between(tail, index) = Size - (Distance(tail) - Distance(index))
    <3>1. Between(tail, index) = IF tail <= index THEN index - tail ELSE index - tail + Size
      BY <1>1, BetweenIs
    <3>2. Distance(tail) = IF head <= tail THEN tail - head ELSE tail - head + Size
      BY <1>1, BetweenIs DEF Distance
    <3>3. Distance(index) = IF head <= index THEN index - head ELSE index - head + Size
      BY <1>1, BetweenIs DEF Distance
    <3> QED
      BY <3>1, <3>2, <3>3, <1>1, <1>5, RingBufferAssumption DEF Indices
  <2>2. Distance(index) \in 0 .. Size - 1
    BY <1>1, BetweenIs DEF Distance
  <2> QED
    BY <1>1, <1>2, <1>3, <1>5, <2>1, <2>2, RingBufferAssumption
<1>6. Between(tail, tail) = 0
  BY <1>1, BetweenIs, RingBufferAssumption DEF Indices
<1>7. ASSUME NEW n \in 1 .. m
      PROVE  new[Wrap(tail + n)] = message.data[n]
  <2>1. Between(tail, tail) + n <= Size - 1 /\ n \in Nat
    BY <1>1, <1>2, <1>6, RingBufferAssumption
  <2>2. Wrap(tail + n) \in Indices /\ Between(tail, Wrap(tail + n)) = n
    BY <1>1, <1>6, <2>1, BetweenAdds
  <2> QED
    BY <1>3, <2>2
<1> QED
  BY <1>1, <1>2, <1>3, <1>4, <1>5, <1>6, <1>7 DEF new

\* What is written from tail on spares the messages in the ring.
LEMMA StillStored ==
  ASSUME Whole,
         \A index \in Indices : Distance(index) < Distance(tail) => buf'[index] = buf[index],
         NEW k \in 1 .. Len(pending)
  PROVE  LET entry == pending[k]
         IN  /\ buf'[entry.at] = Header(entry.msg.type, Len(entry.msg.data), entry.msg.value)
             /\ \A n \in 1 .. Len(entry.msg.data) :
                  buf'[Wrap(entry.at + n)] = entry.msg.data[n]
<1> DEFINE at == pending[k].at
           data == pending[k].msg.data
<1>1. /\ head \in Indices /\ Distance(tail) \in 0 .. Size - 1
      /\ pending[k] \in [at : Indices, msg : Signals \cup Commands]
  BY SpaceIs, ElementOfSeq DEF Whole, Sound, TypeOK
<1>2. /\ at \in Indices /\ data \in Seq(Words) /\ Len(data) \in Nat
      /\ Distance(at) \in 0 .. Size - 1
  BY <1>1, MessageParts, BetweenIs DEF Distance
<1>3. Distance(at) + Len(data) + 1 <= Distance(tail)
  BY DEF Whole, Ordered
<1> HIDE DEF at, data
<1>4. ASSUME NEW n \in 0 .. Len(data)
      PROVE  buf'[Wrap(at + n)] = buf[Wrap(at + n)]
  <2>1. Distance(at) + n < Distance(tail) /\ Distance(at) + n <= Size - 1 /\ n \in Nat
    BY <1>1, <1>2, <1>3, RingBufferAssumption
  <2>2. Wrap(at + n) \in Indices /\ Between(head, Wrap(at + n)) = Between(head, at) + n
    BY <1>1, <1>2, <2>1, BetweenAdds DEF Distance
  <2> QED
    BY <2>1, <2>2 DEF Distance
<1>5. buf'[at] = buf[at]
  <2>1. Wrap(at + 0) = at /\ 0 \in 0 .. Len(data)
    BY <1>2, WrapIs, RingBufferAssumption DEF Indices
  <2> QED
    BY <2>1, <1>4
<1>6. /\ buf[at] = Header(pending[k].msg.type, Len(data), pending[k].msg.value)
      /\ \A n \in 1 .. Len(data) : buf[Wrap(at + n)] = data[n]
  BY DEF at, data, Whole, Sound, PendingStored
<1> QED
  BY <1>2, <1>4, <1>5, <1>6 DEF at, data

\* The ring is longer by a message that lies whole at tail.
LEMMA Grown ==
  ASSUME Whole, NEW message \in Signals \cup Commands,
         Distance(tail) + Len(message.data) + 1 <= Size - 1,
         head' = head, tail' = Wrap(tail + Len(message.data) + 1), Remember(tail, message),
         \A index \in Indices : Distance(index) < Distance(tail) => buf'[index] = buf[index],
         buf'[tail] = Header(message.type, Len(message.data), message.value),
         \A n \in 1 .. Len(message.data) : buf'[Wrap(tail + n)] = message.data[n]
  PROVE  /\ tail' \in Indices
         /\ Distance(tail)' = Distance(tail) + Len(message.data) + 1
         /\ pending' \in Seq([at : Indices, msg : Signals \cup Commands])
         /\ pending # <<>> => pending' # <<>> /\ pending'[1] = pending[1]
         /\ Chained' /\ Ordered' /\ PendingStored'
<1> DEFINE m == Len(message.data)
           last == Len(pending)
           Entries == [at : Indices, msg : Signals \cup Commands]
<1>1. /\ tail \in Indices /\ head \in Indices /\ pending \in Seq(Entries)
      /\ m \in Nat /\ Distance(tail) \in 0 .. Size - 1 /\ last \in Nat
      /\ Distance(tail) = 0 <=> head = tail
  BY MessageParts, SpaceIs DEF Whole, Sound, TypeOK
<1>2. /\ pending' = Append(pending, [at |-> tail, msg |-> message])
      /\ pending' \in Seq(Entries) /\ Len(pending') = last + 1
      /\ \A k \in 1 .. last : pending'[k] = pending[k] /\ pending[k] \in Entries
      /\ pending'[last + 1] = [at |-> tail, msg |-> message]
  <2>1. [at |-> tail, msg |-> message] \in Entries
    BY <1>1
  <2>2. pending' = Append(pending, [at |-> tail, msg |-> message])
    BY DEF Remember
  <2> HIDE DEF Entries
  <2>3. /\ pending' \in Seq(Entries) /\ Len(pending') = last + 1
        /\ \A k \in 1 .. last : pending'[k] = pending[k]
        /\ pending'[last + 1] = [at |-> tail, msg |-> message]
    BY <1>1, <2>1, <2>2, AppendProperties
  <2>4. \A k \in 1 .. last : pending[k] \in Entries
    BY <1>1, ElementOfSeq
  <2> QED
    BY <2>2, <2>3, <2>4
<1>3. \A index : Distance(index)' = Distance(index)
  BY DEF Distance, Between, Wrap
<1>4. tail' \in Indices /\ Distance(tail') = Distance(tail) + m + 1
  <2>1. Between(head, tail) + (m + 1) <= Size - 1 /\ m + 1 \in Nat
    BY <1>1, RingBufferAssumption DEF Distance
  <2>2. /\ Wrap(tail + (m + 1)) \in Indices
        /\ Between(head, Wrap(tail + (m + 1))) = Between(head, tail) + (m + 1)
    BY <1>1, <2>1, BetweenAdds
  <2>3. tail + (m + 1) = tail + m + 1
    BY <1>1 DEF Indices
  <2> QED
    BY <2>2, <2>3, <1>1 DEF Distance
<1>5. \A k \in 1 .. last : /\ Len(pending[k].msg.data) \in Nat /\ pending[k].at \in Indices
                           /\ Distance(pending[k].at) \in 0 .. Size - 1
  BY <1>1, <1>2, MessageParts, BetweenIs DEF Distance
<1>6. pending # <<>> => pending' # <<>> /\ pending'[1] = pending[1]
  BY <1>1, <1>2
<1>7. Chained'
  <2>1. pending' # <<>> /\ head' # tail'
    <3>1. Between(head, head) = 0
      BY <1>1, BetweenIs DEF Indices
    <3> QED
      BY <1>1, <1>2, <1>4, <3>1 DEF Distance
  <2>2. Head(pending').at = head'
    BY <1>1, <1>2, <1>6 DEF Whole, Sound, Chained
  <2>3. ASSUME NEW k \in 1 .. last + 1
        PROVE  Distance(IF k = last + 1 THEN tail' ELSE pending'[k + 1].at)
                 = Distance(pending'[k].at) + Len(pending'[k].msg.data) + 1
    <3>1. CASE k = last + 1
      BY <1>2, <1>4, <3>1
    <3>2. CASE k = last /\ k # last + 1
      BY <1>1, <1>2, <3>2 DEF Whole, Sound, Chained
    <3>3. CASE k < last
      <4>1. k \in 1 .. last /\ k + 1 \in 1 .. last /\ k # last + 1 /\ k # last
        BY <3>3, <1>1
      <4> QED
        BY <4>1, <1>2 DEF Whole, Sound, Chained
    <3> QED
      BY <3>1, <3>2, <3>3, <1>1
  <2> QED
    BY <1>2, <1>3, <2>1, <2>2, <2>3 DEF Chained
<1>8. Ordered'
  <2> DEFINE End(k) == Distance(pending'[k].at) + Len(pending'[k].msg.data) + 1
  <2>1. ASSUME NEW k \in 1 .. last
        PROVE  End(k) <= Distance(tail) /\ End(k) <= Distance(tail')
    BY <1>1, <1>2, <1>4, <1>5 DEF Whole, Ordered
  <2>2. ASSUME NEW k \in 1 .. last, NEW later \in k + 1 .. last
        PROVE  End(k) <= Distance(pending'[later].at)
    BY <1>1, <1>2, <1>5 DEF Whole, Ordered
  <2>3. End(last + 1) <= Distance(tail')
    BY <1>1, <1>2, <1>4
  <2>4. ASSUME NEW k \in 1 .. last + 1
        PROVE  /\ End(k) <= Distance(tail')
               /\ \A later \in k + 1 .. last + 1 : End(k) <= Distance(pending'[later].at)
    <3>1. CASE k = last + 1
      BY <3>1, <2>3, <1>1
    <3>2. CASE k \in 1 .. last
      BY <3>2, <2>1, <2>2, <1>1, <1>2
    <3> QED
      BY <3>1, <3>2, <1>1
  <2> QED
    BY <1>2, <1>3, <2>4 DEF Ordered
<1>9. PendingStored'
  <2>1. ASSUME NEW k \in 1 .. last + 1
        PROVE  LET entry == pending'[k]
               IN  /\ buf'[entry.at] = Header(entry.msg.type, Len(entry.msg.data), entry.msg.value)
                   /\ \A n \in 1 .. Len(entry.msg.data) :
                        buf'[Wrap(entry.at + n)] = entry.msg.data[n]
    <3>1. CASE k = last + 1
      BY <3>1, <1>2
    <3>2. CASE k \in 1 .. last
      BY <3>2, <1>2, StillStored
    <3> QED
      BY <3>1, <3>2, <1>1
  <2> QED
    BY <1>2, <2>1 DEF PendingStored
<1> QED
  BY <1>2, <1>3, <1>4, <1>6, <1>7, <1>8, <1>9

\* The oldest message begins at head, and its header tells what it is.
LEMMA Oldest ==
  ASSUME Whole, pending # <<>>
  PROVE  /\ pending[1].msg \in Signals \cup Commands
         /\ pending[1].msg.data \in Seq(Words) /\ Len(pending[1].msg.data) \in Nat
         /\ pending[1].at = head /\ Distance(head) = 0
         /\ buf[head] = Header(pending[1].msg.type, Len(pending[1].msg.data), pending[1].msg.value)
         /\ \A n \in 1 .. Len(pending[1].msg.data) :
              buf[Wrap(head + n)] = pending[1].msg.data[n]
         /\ Len(pending[1].msg.data) + 1 <= Distance(tail)
         /\ 1 \in 1 .. Len(pending)
<1>1. /\ head \in Indices /\ 1 \in 1 .. Len(pending)
      /\ pending \in Seq([at : Indices, msg : Signals \cup Commands])
  BY DEF Whole, Sound, TypeOK
<1>2. pending[1] \in [at : Indices, msg : Signals \cup Commands]
  BY <1>1, ElementOfSeq
<1>3. /\ pending[1].msg \in Signals \cup Commands
      /\ pending[1].msg.data \in Seq(Words) /\ Len(pending[1].msg.data) \in Nat
  BY <1>2, MessageParts
<1>4. pending[1].at = head /\ Distance(head) = 0
  <2>1. Head(pending).at = head /\ Head(pending) = pending[1]
    BY <1>1 DEF Whole, Sound, Chained
  <2>2. Distance(head) = 0
    BY <1>1, BetweenIs, RingBufferAssumption DEF Distance, Indices
  <2> QED
    BY <2>1, <2>2
<1>5. /\ buf[head] = Header(pending[1].msg.type, Len(pending[1].msg.data), pending[1].msg.value)
      /\ \A n \in 1 .. Len(pending[1].msg.data) :
           buf[Wrap(head + n)] = pending[1].msg.data[n]
  BY <1>1, <1>4 DEF Whole, Sound, PendingStored
<1>6. Len(pending[1].msg.data) + 1 <= Distance(tail)
  BY <1>1, <1>3, <1>4 DEF Whole, Ordered
<1> QED
  BY <1>1, <1>3, <1>4, <1>5, <1>6

\* The oldest message is taken out.
TakeOldest ==
  /\ pending # <<>>
  /\ head' = Wrap(head + Len(pending[1].msg.data) + 1)
  /\ pending' = Tail(pending)
  /\ UNCHANGED <<buf, tail>>

\* Then the ring is shorter by its oldest message.
LEMMA Shrunk ==
  ASSUME Whole, TakeOldest
  PROVE  /\ head' \in Indices
         /\ Distance(tail)' = Distance(tail) - (Len(pending[1].msg.data) + 1)
         /\ pending' \in Seq([at : Indices, msg : Signals \cup Commands])
         /\ Chained' /\ Ordered' /\ PendingStored'
<1> DEFINE Entries == [at : Indices, msg : Signals \cup Commands]
           N(k) == Len(pending[k].msg.data)
           D(k) == Distance(pending[k].at)
           NewN(k) == Len(pending'[k].msg.data)
           NewD(k) == Between(head', pending'[k].at)
<1>1. PICK span \in Nat : span = Len(pending[1].msg.data) + 1
  BY Oldest DEF TakeOldest
<1>2. PICK last \in Nat : last = Len(pending)
  BY DEF Whole, Sound, TypeOK
<1>3. PICK end \in Nat : end = Distance(tail) /\ end <= Size - 1
  BY SpaceIs, RingBufferAssumption DEF Whole, Sound
<1>4. /\ tail \in Indices /\ head \in Indices /\ pending \in Seq(Entries)
      /\ last \in Nat \ {0} /\ span <= end /\ tail' = tail /\ buf' = buf
      /\ D(1) = 0 /\ N(1) + 1 = span
  BY <1>1, <1>2, <1>3, Oldest DEF TakeOldest, Whole, Sound, TypeOK
<1>5. /\ pending' \in Seq(Entries) /\ Len(pending') = last - 1
      /\ pending' = <<>> <=> last = 1
      /\ \A k \in 1 .. last - 1 : pending'[k] = pending[k + 1]
  <2> HIDE DEF Entries
  <2>1. /\ pending' \in Seq(Entries) /\ Len(pending') = last - 1
        /\ \A k \in 1 .. last - 1 : pending'[k] = pending[k + 1]
    BY <1>2, <1>4, HeadTailProperties DEF TakeOldest
  <2> QED
    BY <1>4, <2>1, EmptySeq
<1>6. \A k \in 1 .. last : pending[k].at \in Indices /\ N(k) \in Nat /\ D(k) \in Nat
  <2>1. ASSUME NEW k \in 1 .. last
        PROVE  pending[k].at \in Indices /\ N(k) \in Nat /\ D(k) \in Nat
    <3>1. pending[k] \in Entries
      BY <1>2, <1>4, ElementOfSeq
    <3>2. pending[k].at \in Indices /\ N(k) \in Nat
      BY <3>1, MessageParts
    <3>3. Between(head, pending[k].at) \in 0 .. Size - 1
      BY <3>2, <1>4, BetweenIs
    <3> QED
      BY <3>2, <3>3, RingBufferAssumption DEF Distance
  <2> QED
    BY <2>1
<1>7. /\ \A k \in 1 .. last : D(k) + N(k) + 1 <= end
      /\ \A k \in 1 .. last : \A later \in k + 1 .. last : D(k) + N(k) + 1 <= D(later)
  BY <1>2, <1>3 DEF Whole, Ordered
<1>8. /\ \A k \in 1 .. last : k # last => D(k + 1) = D(k) + N(k) + 1
      /\ end = D(last) + N(last) + 1
  <2>1. ASSUME NEW k \in 1 .. Len(pending)
        PROVE  Distance(IF k = Len(pending) THEN tail ELSE pending[k + 1].at) = D(k) + N(k) + 1
    BY DEF Whole, Sound, Chained
  <2>2. ASSUME NEW k \in 1 .. last, k # last PROVE D(k + 1) = D(k) + N(k) + 1
    BY <2>1, <2>2, <1>2
  <2>3. end = D(last) + N(last) + 1
    BY <2>1, <1>2, <1>3, <1>4
  <2> QED
    BY <2>2, <2>3
<1>9. head' = Wrap(head + span) /\ head' \in Indices
  <2>1. head + Len(pending[1].msg.data) + 1 = head + span
    BY <1>1, <1>4, Oldest DEF TakeOldest, Indices
  <2>2. head' = Wrap(head + span)
    BY <2>1 DEF TakeOldest
  <2> QED
    BY <1>1, <1>3, <1>4, <2>2, BetweenShifts DEF Distance
<1>10. ASSUME NEW index \in Indices, span <= Distance(index)
       PROVE  Between(head', index) = Distance(index) - span
  BY <1>1, <1>4, <1>9, <1>10, BetweenShifts DEF Distance
<1>11. Between(head', tail') = end - span
  BY <1>3, <1>4, <1>10
<1>12. \A k \in 1 .. last - 1 : NewN(k) = N(k + 1) /\ NewD(k) = D(k + 1) - span
  <2>1. ASSUME NEW k \in 1 .. last - 1
        PROVE  NewN(k) = N(k + 1) /\ NewD(k) = D(k + 1) - span
    <3>1. pending'[k] = pending[k + 1] /\ k + 1 \in 1 .. last /\ k + 1 \in 1 + 1 .. last
      BY <1>4, <1>5
    <3>2. span <= D(k + 1)
      <4> HIDE DEF D, N
      <4> QED
        BY <3>1, <1>4, <1>6, <1>7
    <3> QED
      BY <3>1, <3>2, <1>6, <1>10
  <2> QED
    BY <2>1
<1>13. pending' = <<>> <=> head' = tail'
  <2>1. Between(head', tail') = IF head' <= tail' THEN tail' - head' ELSE tail' - head' + Size
    BY <1>4, <1>9, BetweenIs
  <2>2. end = span <=> head' = tail'
    <3>1. PICK h \in 0 .. Size - 1, t \in 0 .. Size - 1 : h = head' /\ t = tail'
      BY <1>4, <1>9 DEF Indices
    <3>2. end - span = IF h <= t THEN t - h ELSE t - h + Size
      BY <3>1, <2>1, <1>11
    <3>3. end - span = 0 <=> h = t
      BY <3>2, RingBufferAssumption
    <3> QED
      BY <3>1, <3>3
  <2>3. end = span <=> last = 1
    <3> HIDE DEF D, N
    <3>1. CASE last = 1
      BY <3>1, <1>4, <1>6, <1>8
    <3>2. CASE last > 1
      <4>1. 1 \in 1 .. last /\ 2 \in 1 .. last /\ 2 \in 1 + 1 .. last
        BY <3>2, <1>4
      <4> QED
        BY <4>1, <3>2, <1>1, <1>3, <1>4, <1>6, <1>7
    <3> QED
      BY <3>1, <3>2, <1>4
  <2> QED
    BY <2>2, <2>3, <1>5
<1>14. pending' # <<>> => Head(pending').at = head'
  <2>1. SUFFICES ASSUME last > 1 PROVE pending'[1].at = head'
    BY <1>4, <1>5
  <2>2. 1 \in 1 .. last - 1 /\ 2 \in 1 .. last /\ pending'[1] = pending[2]
    BY <2>1, <1>4, <1>5
  <2>3. NewD(1) = 0
    <3> HIDE DEF D, N, NewD
    <3>1. D(2) = span
      BY <2>1, <2>2, <1>1, <1>4, <1>6, <1>8
    <3> QED
      BY <2>2, <3>1, <1>1, <1>12
  <2>4. pending[2].at \in Indices /\ Between(head', pending[2].at) = 0
    BY <2>2, <2>3, <1>6
  <2>5. Between(head', pending[2].at) =
          IF head' <= pending[2].at THEN pending[2].at - head' ELSE pending[2].at - head' + Size
    BY <2>4, <1>9, BetweenIs
  <2> QED
    BY <2>2, <2>4, <2>5, <1>9, RingBufferAssumption DEF Indices
<1>15. \A k \in 1 .. last - 1 :
         /\ NewD(k) + NewN(k) + 1 <= Between(head', tail')
         /\ \A later \in k + 1 .. last - 1 : NewD(k) + NewN(k) + 1 <= NewD(later)
         /\ k # last - 1 => NewD(k + 1) = NewD(k) + NewN(k) + 1
         /\ k = last - 1 => Between(head', tail') = NewD(k) + NewN(k) + 1
  <2> HIDE DEF D, N, NewD, NewN
  <2>1. ASSUME NEW k \in 1 .. last - 1
        PROVE  /\ NewD(k) + NewN(k) + 1 <= Between(head', tail')
               /\ \A later \in k + 1 .. last - 1 : NewD(k) + NewN(k) + 1 <= NewD(later)
               /\ k # last - 1 => NewD(k + 1) = NewD(k) + NewN(k) + 1
               /\ k = last - 1 => Between(head', tail') = NewD(k) + NewN(k) + 1
    <3>1. k + 1 \in 1 .. last
      BY <1>4
    <3>2. PICK d \in Nat, n \in Nat : d = D(k + 1) /\ n = N(k + 1)
      BY <3>1, <1>6
    <3>3. NewN(k) = n /\ NewD(k) = d - span
      BY <3>2, <1>12
    <3>4. ASSUME NEW later \in k + 1 .. last - 1
          PROVE  NewD(k) + NewN(k) + 1 <= NewD(later)
      <4>1. /\ later \in 1 .. last - 1 /\ later + 1 \in 1 .. last
            /\ later + 1 \in (k + 1) + 1 .. last
        BY <1>4
      <4>2. PICK l \in Nat : l = D(later + 1) /\ NewD(later) = l - span
        BY <4>1, <1>6, <1>12
      <4>3. d + n + 1 <= l
        BY <4>1, <4>2, <3>1, <3>2, <1>7
      <4> QED
        BY <4>2, <4>3, <3>2, <3>3
    <3>5. NewD(k) + NewN(k) + 1 <= Between(head', tail')
      <4>1. d + n + 1 <= end
        BY <3>1, <3>2, <1>7
      <4> QED
        BY <4>1, <3>2, <3>3, <1>11
    <3>6. ASSUME k # last - 1
          PROVE  NewD(k + 1) = NewD(k) + NewN(k) + 1
      <4>1. k + 1 \in 1 .. last - 1 /\ (k + 1) + 1 \in 1 .. last /\ k + 1 # last
        BY <3>6, <1>4
      <4>2. NewD(k + 1) = D((k + 1) + 1) - span
        BY <4>1, <1>12
      <4>3. D((k + 1) + 1) = d + n + 1
        BY <4>1, <3>1, <3>2, <1>8
      <4> QED
        BY <4>2, <4>3, <3>2, <3>3
    <3>7. ASSUME k = last - 1
          PROVE  Between(head', tail') = NewD(k) + NewN(k) + 1
      <4>1. k + 1 = last
        BY <3>7, <1>4
      <4>2. end = d + n + 1
        BY <4>1, <3>2, <1>8
      <4> QED
        BY <4>2, <3>2, <3>3, <1>11
    <3> QED
      BY <3>4, <3>5, <3>6, <3>7
  <2> QED
    BY <2>1
<1>16. Chained'
  <2>1. \A k \in 1 .. last - 1 :
          Between(head', IF k = last - 1 THEN tail' ELSE pending'[k + 1].at)
            = Between(head', pending'[k].at) + Len(pending'[k].msg.data) + 1
    BY <1>15
  <2> QED
    BY <2>1, <1>5, <1>13, <1>14 DEF Chained, Distance
<1>17. Ordered'
  BY <1>5, <1>15 DEF Ordered, Distance
<1>18. PendingStored'
  <2>1. ASSUME NEW k \in 1 .. last - 1
        PROVE  LET entry == pending'[k]
               IN  /\ buf[entry.at] = Header(entry.msg.type, Len(entry.msg.data), entry.msg.value)
                   /\ \A n \in 1 .. Len(entry.msg.data) :
                        buf[Wrap(entry.at + n)] = entry.msg.data[n]
    <3>1. k + 1 \in 1 .. Len(pending) /\ pending'[k] = pending[k + 1]
      BY <1>2, <1>4, <1>5
    <3> QED
      BY <3>1 DEF Whole, Sound, PendingStored
  <2> QED
    BY <2>1, <1>4, <1>5 DEF PendingStored
<1> QED
  BY <1>1, <1>3, <1>4, <1>5, <1>9, <1>11, <1>16, <1>17, <1>18 DEF Distance

-----------------------------------------------------------------------------
(***************************************************************************)
(* The ring is sound.                                                      *)
(***************************************************************************)
LEMMA WrapType ==
  ASSUME NEW i \in Nat
  PROVE  Wrap(i) \in Indices
  BY RingBufferAssumption DEF Wrap, Indices

LEMMA StoredType ==
  ASSUME TypeOK, NEW at \in Indices, NEW message \in Signals \cup Commands
  PROVE  Stored(at, message) \in [Indices -> Words]
<1>1. /\ message.data \in Seq(Words) /\ buf \in [Indices -> Words]
      /\ Header(message.type, Len(message.data), message.value) \in Words
  BY MessageParts DEF TypeOK, Header, Words
<1>2. /\ Stored(at, message) = [index \in Indices |->
           IF Between(at, index) = 0 THEN Header(message.type, Len(message.data), message.value)
           ELSE IF Between(at, index) <= Len(message.data) THEN message.data[Between(at, index)]
           ELSE buf[index]]
      /\ \A index \in Indices : Between(at, index) \in 0 .. Size - 1
  BY BetweenIs DEF Stored, Between
<1>3. \A index \in Indices : Stored(at, message)[index] \in Words
  BY <1>1, <1>2
<1> QED
  BY <1>2, <1>3

\* An unlocked put under way.
LEMMA PutIs ==
  ASSUME TypeOK, NEW by \in Putters, Underway(by)
  PROVE  /\ puts[by].stage \in {"begun", "written"} /\ puts[by].at \in Indices
         /\ puts[by].msg \in Signals \cup Commands
         /\ puts[by].msg.data \in Seq(Words) /\ Len(puts[by].msg.data) \in Nat
<1>1. puts[by] \in [stage : {"begun", "written"}, at : Indices, msg : Signals \cup Commands]
  BY DEF TypeOK, Underway, NoPut
<1> QED
  BY <1>1, MessageParts

\* Even when it is torn, a put leaves everything with its type.
LEMMA PutTypes ==
  ASSUME TypeOK,
         \/ \E message \in Signals : PutSignal(message)
         \/ \E by \in Putters, message \in Signals \cup Commands : BeginPut(by, message)
         \/ \E by \in Putters : PutWords(by) \/ PutDone(by)
  PROVE  TypeOK'
<1> DEFINE Kept == UNCHANGED <<head, pc, sz, got, out>>
           Entries == [at : Indices, msg : Signals \cup Commands]
           Open == [stage : {"begun", "written"}, at : Indices, msg : Signals \cup Commands]
<1>1. /\ buf \in [Indices -> Words] /\ tail \in Indices /\ pending \in Seq(Entries)
      /\ puts \in [Putters -> {NoPut} \cup Open] /\ torn \in BOOLEAN
      /\ answer \in {"none", "accepted", "refused", "pull_failed"}
      /\ tail \in Nat
  BY RingBufferAssumption DEF TypeOK, Indices
<1>2. SUFFICES /\ buf' \in [Indices -> Words] /\ tail' \in Indices /\ pending' \in Seq(Entries)
               /\ puts' \in [Putters -> {NoPut} \cup Open] /\ torn' \in BOOLEAN
               /\ answer' \in {"none", "accepted", "refused", "pull_failed"}
               /\ Kept
  BY DEF TypeOK
<1>3. ASSUME NEW at \in Indices, NEW message \in Signals \cup Commands, Remember(at, message)
      PROVE  pending' \in Seq(Entries) /\ answer' = "accepted"
  <2>1. [at |-> at, msg |-> message] \in Entries
    OBVIOUS
  <2> HIDE DEF Entries
  <2> QED
    BY <1>1, <1>3, <2>1, AppendProperties DEF Remember
<1>4. ASSUME NEW message \in Signals, PutSignal(message)
      PROVE  <1>2!1
  <2>1. Len(message.data) \in Nat /\ message \in Signals \cup Commands
    BY MessageParts
  <2>2. CASE Fits(message)
    <3>1. /\ buf' = Stored(tail, message) /\ tail' = Wrap(tail + Len(message.data) + 1)
          /\ Remember(tail, message) /\ torn' = (torn \/ AnyUnderway) /\ puts' = puts /\ Kept
      BY <1>4, <2>2 DEF PutSignal
    <3>2. tail' \in Indices
      BY <1>1, <2>1, <3>1, WrapType
    <3>3. buf' \in [Indices -> Words]
      BY <1>1, <2>1, <3>1, StoredType
    <3> HIDE DEF Entries, Open
    <3> QED
      BY <1>1, <1>3, <2>1, <3>1, <3>2, <3>3
  <2>3. CASE ~Fits(message)
    <3> HIDE DEF Entries, Open
    <3> QED
      BY <1>1, <1>4, <2>3 DEF PutSignal, Refuse
  <2> QED
    BY <2>2, <2>3
<1>5. ASSUME NEW by \in Putters, NEW message \in Signals \cup Commands, BeginPut(by, message)
      PROVE  <1>2!1
  <2>1. CASE Fits(message)
    <3>1. /\ puts' = [puts EXCEPT ![by] = [stage |-> "begun", at |-> tail, msg |-> message]]
          /\ torn' = (torn \/ AnyUnderway)
          /\ UNCHANGED <<buf, tail, pending, answer>> /\ Kept
      BY <1>5, <2>1 DEF BeginPut
    <3>2. [stage |-> "begun", at |-> tail, msg |-> message] \in Open
      BY <1>1
    <3> HIDE DEF Entries, Open
    <3> QED
      BY <1>1, <3>1, <3>2
  <2>2. CASE ~Fits(message)
    <3> HIDE DEF Entries, Open
    <3> QED
      BY <1>1, <1>5, <2>2 DEF BeginPut, Refuse
  <2> QED
    BY <2>1, <2>2
<1>6. ASSUME NEW by \in Putters, PutWords(by)
      PROVE  <1>2!1
  <2>1. Underway(by)
    BY <1>6 DEF PutWords, Goes, Underway
  <2>2. PICK at \in {puts[by].at, tail} :
          /\ buf' = Stored(at, puts[by].msg)
          /\ puts' = [puts EXCEPT ![by] = [stage |-> "written", at |-> at, msg |-> puts[by].msg]]
    BY <1>6 DEF PutWords
  <2>3. UNCHANGED <<tail, pending, answer, torn>> /\ Kept
    BY <1>6 DEF PutWords
  <2>4. at \in Indices /\ puts[by].msg \in Signals \cup Commands
    BY <1>1, <2>1, PutIs
  <2>5. buf' \in [Indices -> Words]
    BY <2>2, <2>4, StoredType
  <2>6. [stage |-> "written", at |-> at, msg |-> puts[by].msg] \in Open
    BY <2>4
  <2> HIDE DEF Entries, Open
  <2> QED
    BY <1>1, <2>2, <2>3, <2>5, <2>6
<1>7. ASSUME NEW by \in Putters, PutDone(by)
      PROVE  <1>2!1
  <2>1. Underway(by)
    BY <1>7 DEF PutDone, Goes, Underway
  <2>2. /\ puts[by].at \in Indices /\ puts[by].msg \in Signals \cup Commands
        /\ Len(puts[by].msg.data) \in Nat
    BY <2>1, PutIs
  <2>3. PICK at \in {puts[by].at, tail} : tail' = Wrap(at + Len(puts[by].msg.data) + 1)
    BY <1>7 DEF PutDone
  <2>4. /\ Remember(puts[by].at, puts[by].msg) /\ puts' = [puts EXCEPT ![by] = NoPut]
        /\ UNCHANGED <<buf, torn>> /\ Kept
    BY <1>7 DEF PutDone
  <2>5. at + Len(puts[by].msg.data) + 1 \in Nat
    <3>1. at \in Nat
      BY <1>1, <2>2, RingBufferAssumption DEF Indices
    <3> QED
      BY <2>2, <3>1
  <2>6. tail' \in Indices
    BY <2>3, <2>5, WrapType
  <2> HIDE DEF Entries, Open
  <2> QED
    BY <1>1, <1>3, <2>2, <2>4, <2>6
<1> QED
  BY <1>4, <1>5, <1>6, <1>7

\* A put that is refused changes nothing.
LEMMA RefusedStep ==
  ASSUME Whole, Refuse, UNCHANGED <<head, pc, sz, got, out>>
  PROVE  Whole'
<1>1. answer' = "refused" /\ UNCHANGED <<buf, tail, puts, pending, torn, head, pc, sz, got, out>>
  BY DEF Refuse
<1> QED
  BY <1>1 DEF Whole, Sound, TypeOK, Chained, Distance, PendingStored, PullNeverFails,
              Ordered, Reading, Writing, Underway

\* A put without interruption, which comes between any two steps of a get.
LEMMA PutSignalStep ==
  ASSUME Whole, NEW message \in Signals, PutSignal(message), ~torn'
  PROVE  /\ Whole'
         /\ Fits(message) => Distance(tail)' = Distance(tail) + Len(message.data) + 1
<1>1. TypeOK /\ TypeOK'
  BY PutTypes DEF Whole, Sound
<1>2. CASE Fits(message)
  <2>1. /\ buf' = Stored(tail, message) /\ tail' = Wrap(tail + Len(message.data) + 1)
        /\ Remember(tail, message) /\ answer' = "accepted" /\ ~AnyUnderway
        /\ UNCHANGED <<head, pc, sz, got, puts, out>>
    BY <1>2 DEF PutSignal, Remember
  <2>2. /\ pending # <<>> => pending' # <<>> /\ pending'[1] = pending[1]
        /\ Chained' /\ Ordered' /\ PendingStored'
        /\ Distance(tail)' = Distance(tail) + Len(message.data) + 1
    BY <1>1, <1>2, <2>1, StoredIs, Grown
  <2>3. PullNeverFails'
    BY <2>1 DEF PullNeverFails
  <2>4. Reading'
    BY <2>1, <2>2 DEF Whole, Reading
  <2>5. Writing'
    BY <2>1 DEF Writing, AnyUnderway, Underway, Putters
  <2> QED
    BY <1>1, <2>2, <2>3, <2>4, <2>5 DEF Whole, Sound
<1>3. CASE ~Fits(message)
  BY <1>3, RefusedStep DEF PutSignal
<1> QED
  BY <1>2, <1>3

\* A put that nothing locks begins.
LEMMA BeginPutStep ==
  ASSUME Whole, NEW by \in Putters, NEW message \in Signals \cup Commands,
         BeginPut(by, message), ~torn'
  PROVE  Whole'
<1>1. TypeOK /\ TypeOK'
  BY PutTypes DEF Whole, Sound
<1>2. CASE Fits(message)
  <2>1. /\ puts' = [puts EXCEPT ![by] = [stage |-> "begun", at |-> tail, msg |-> message]]
        /\ ~AnyUnderway
        /\ UNCHANGED <<buf, tail, pending, answer, head, pc, sz, got, out>>
    BY <1>2 DEF BeginPut
  <2>2. Chained' /\ Ordered' /\ PullNeverFails' /\ PendingStored' /\ Reading'
    BY <2>1 DEF Whole, Sound, Chained, Ordered, Distance, PullNeverFails, PendingStored, Reading
  <2>3. Distance(tail) + Len(message.data) + 1 <= Size - 1
    BY <1>1, <1>2, StoredIs
  <2>4. Distance(tail)' = Distance(tail)
    BY <2>1 DEF Distance
  <2>5. /\ puts'[by] = [stage |-> "begun", at |-> tail, msg |-> message]
        /\ \A other \in Putters : other # by => puts'[other] = puts[other] /\ ~Underway(other)
    BY <1>1, <2>1 DEF TypeOK, AnyUnderway
  <2>6. Writing'
    BY <2>1, <2>3, <2>4, <2>5 DEF Writing, Underway, Putters
  <2> QED
    BY <1>1, <2>2, <2>6 DEF Whole, Sound
<1>3. CASE ~Fits(message)
  BY <1>3, RefusedStep DEF BeginPut
<1> QED
  BY <1>2, <1>3

\* Its words are written from tail.
LEMMA PutWordsStep ==
  ASSUME Whole, NEW by \in Putters, PutWords(by)
  PROVE  Whole'
<1> DEFINE message == puts[by].msg
<1>1. TypeOK /\ TypeOK' /\ Underway(by)
  BY PutTypes DEF Whole, Sound, PutWords, Goes, Underway
<1>2. /\ puts[by].at = tail /\ Distance(tail) + Len(message.data) + 1 <= Size - 1
      /\ message \in Signals \cup Commands /\ Len(message.data) \in Nat
      /\ \A other \in Putters : other # by => ~Underway(other)
  BY <1>1, PutIs DEF Whole, Writing, Putters
<1>3. /\ buf' = Stored(tail, message)
      /\ puts' = [puts EXCEPT ![by] = [stage |-> "written", at |-> tail, msg |-> message]]
      /\ UNCHANGED <<head, tail, pc, sz, got, pending, answer, out, torn>>
  BY <1>2 DEF PutWords
<1>4. Fits(message)
  BY <1>1, <1>2, SpaceIs, RingBufferAssumption DEF Fits
<1> HIDE DEF message
<1>5. /\ \A index \in Indices : Distance(index) < Distance(tail) => buf'[index] = buf[index]
      /\ buf'[tail] = Header(message.type, Len(message.data), message.value)
      /\ \A n \in 1 .. Len(message.data) : buf'[Wrap(tail + n)] = message.data[n]
  BY <1>1, <1>2, <1>3, <1>4, StoredIs
<1>6. Chained' /\ Ordered' /\ PullNeverFails' /\ Reading'
  BY <1>3 DEF Whole, Sound, Chained, Ordered, Distance, PullNeverFails, Reading
<1>7. PendingStored'
  BY <1>3, <1>5, StillStored DEF PendingStored
<1>8. /\ puts'[by] = [stage |-> "written", at |-> tail, msg |-> message]
      /\ \A other \in Putters : other # by => puts'[other] = puts[other]
  BY <1>1, <1>3 DEF TypeOK
<1>9. Writing'
  <2>1. Distance(tail)' = Distance(tail) /\ tail' = tail
    BY <1>3 DEF Distance
  <2>2. \A other \in Putters : Underway(other)' => other = by
    BY <1>2, <1>8 DEF Underway
  <2>3. /\ puts'[by].at = tail' /\ puts'[by].msg = message /\ puts'[by].stage = "written"
    BY <1>3, <1>8
  <2>4. Writing!2'
    BY <1>2, <1>5, <2>1, <2>2, <2>3 DEF Wrap
  <2>5. ~(Underway("main") /\ Underway("thread"))'
    BY <2>2 DEF Putters
  <2> QED
    BY <2>4, <2>5 DEF Writing
<1> QED
  BY <1>1, <1>6, <1>7, <1>9 DEF Whole, Sound

\* Tail is moved past it.
LEMMA PutDoneStep ==
  ASSUME Whole, NEW by \in Putters, PutDone(by)
  PROVE  /\ Whole'
         /\ puts[by].msg \in Signals \cup Commands /\ Len(puts[by].msg.data) \in Nat
         /\ Remember(tail, puts[by].msg)
         /\ Distance(tail)' = Distance(tail) + Len(puts[by].msg.data) + 1
         /\ Distance(tail) + Len(puts[by].msg.data) + 1 <= Size - 1
<1> DEFINE message == puts[by].msg
<1>1. TypeOK /\ TypeOK' /\ Underway(by) /\ puts[by].stage = "written"
  BY PutTypes DEF Whole, Sound, PutDone, Goes, Underway
<1>2. /\ puts[by].at = tail /\ Distance(tail) + Len(message.data) + 1 <= Size - 1
      /\ message \in Signals \cup Commands /\ Len(message.data) \in Nat
      /\ \A other \in Putters : other # by => ~Underway(other)
      /\ buf[tail] = Header(message.type, Len(message.data), message.value)
      /\ \A n \in 1 .. Len(message.data) : buf[Wrap(tail + n)] = message.data[n]
  BY <1>1, PutIs DEF Whole, Writing, Putters
<1>3. /\ tail' = Wrap(tail + Len(message.data) + 1) /\ Remember(tail, message)
      /\ puts' = [puts EXCEPT ![by] = NoPut] /\ answer' = "accepted"
      /\ UNCHANGED <<buf, head, pc, sz, got, out, torn>>
  BY <1>2 DEF PutDone, Remember
<1> HIDE DEF message
<1>4. /\ pending # <<>> => pending' # <<>> /\ pending'[1] = pending[1]
      /\ Chained' /\ Ordered' /\ PendingStored'
      /\ Distance(tail)' = Distance(tail) + Len(message.data) + 1
  BY <1>2, <1>3, Grown
<1>5. Reading' /\ PullNeverFails'
  BY <1>3, <1>4 DEF Whole, Reading, PullNeverFails
<1>6. \A other \in Putters : ~Underway(other)'
  BY <1>1, <1>2, <1>3 DEF TypeOK, Underway, NoPut
<1>7. Writing'
  BY <1>6 DEF Writing, Putters
<1> QED
  BY <1>1, <1>2, <1>3, <1>4, <1>5, <1>7 DEF Whole, Sound, message

\* Where the ring stays as it is, so does what is said of it.
LEMMA SameRing ==
  ASSUME Whole, UNCHANGED <<buf, head, tail, pending>>
  PROVE  Chained' /\ Ordered' /\ PendingStored'
  BY DEF Whole, Sound, Chained, Ordered, PendingStored, Distance

\* Main gets while no unlocked put is under way.
LEMMA WritingKept ==
  ASSUME ~AnyUnderway, UNCHANGED puts
  PROVE  Writing'
  BY DEF AnyUnderway, Underway, Writing, Putters

\* The first get tells the size of the oldest message.
LEMMA GetSizeStep ==
  ASSUME Whole, GetSize
  PROVE  Whole'
<1>1. TypeOK /\ pc = "idle" /\ pending # <<>>
  BY DEF GetSize, Whole, Sound, Chained
<1>2. buf[head].length = Len(pending[1].msg.data) /\ Len(pending[1].msg.data) \in Nat
  BY <1>1, Oldest DEF Header
<1>3. /\ sz' = Len(pending[1].msg.data)
      /\ pc' = IF Len(pending[1].msg.data) > 0 THEN "sized" ELSE "copied"
      /\ UNCHANGED <<buf, head, tail, got, puts, pending, answer, out, torn>>
  BY <1>2 DEF GetSize
<1>4. TypeOK'
  BY <1>1, <1>2, <1>3 DEF TypeOK
<1>5. Len(pending[1].msg.data) = 0 => pending[1].msg.data = <<>>
  BY <1>1, Oldest, EmptySeq
<1>6. Reading'
  BY <1>1, <1>2, <1>3, <1>5 DEF Whole, Reading
<1>7. Writing' /\ PullNeverFails'
  BY <1>3, WritingKept DEF GetSize, Whole, Sound, PullNeverFails
<1> QED
  BY <1>3, <1>4, <1>6, <1>7, SameRing DEF Whole, Sound

\* The second get finds the same message: it does not fail.
LEMMA GetDataStep ==
  ASSUME Whole, GetData
  PROVE  Whole' /\ UNCHANGED <<buf, head, tail, pending, answer, out>>
<1>1. /\ TypeOK /\ pc = "sized" /\ pending # <<>> /\ head # tail /\ got = <<>>
      /\ sz = Len(pending[1].msg.data)
  BY DEF GetData, Whole, Sound, Chained, Reading
<1>2. buf[head].length = Len(pending[1].msg.data) /\ Len(pending[1].msg.data) \in Nat
  BY <1>1, Oldest DEF Header
<1>3. ~(head = tail \/ buf[head].length > sz)
  BY <1>1, <1>2
<1>4. /\ pc' = "copying"
      /\ UNCHANGED <<buf, head, tail, sz, got, puts, pending, answer, out, torn>>
  BY <1>3 DEF GetData
<1>5. TypeOK'
  BY <1>1, <1>4 DEF TypeOK
<1>6. Len(got) = 0
  BY <1>1
<1>7. Reading'
  BY <1>1, <1>2, <1>4, <1>6 DEF Reading
<1>8. Writing' /\ PullNeverFails'
  BY <1>4, WritingKept DEF GetData, Whole, Sound, PullNeverFails
<1> QED
  BY <1>4, <1>5, <1>7, <1>8, SameRing DEF Whole, Sound

LEMMA CopyWordStep ==
  ASSUME Whole, CopyWord
  PROVE  Whole'
<1> DEFINE data == pending[1].msg.data
<1>1. /\ TypeOK /\ pc = "copying" /\ pending # <<>> /\ Len(got) <= Len(data)
      /\ \A n \in 1 .. Len(got) : got[n] = data[n]
      /\ UNCHANGED <<buf, head, tail, sz, puts, pending, answer, out, torn>>
  BY DEF CopyWord, Whole, Sound, Reading
<1>2. /\ buf[head].length = Len(data) /\ data \in Seq(Words)
      /\ \A n \in 1 .. Len(data) : buf[Wrap(head + n)] = data[n]
  BY <1>1, Oldest DEF Header
<1>3. got \in Seq(Words) /\ Len(got) \in Nat /\ Len(data) \in Nat /\ head \in Int
  BY <1>1, <1>2, RingBufferAssumption DEF TypeOK, Indices
<1>4. Writing' /\ PullNeverFails'
  BY <1>1, WritingKept DEF CopyWord, Whole, Sound, PullNeverFails
<1>5. TypeOK' /\ Reading'
  <2>1. CASE Len(got) < Len(data)
    <3>1. got' = Append(got, buf[Wrap(Len(got) + head + 1)]) /\ pc' = pc
      BY <1>2, <2>1 DEF CopyWord
    <3>2. Len(got) + 1 \in 1 .. Len(data) /\ Len(got) + head + 1 = head + (Len(got) + 1)
      BY <1>3, <2>1
    <3>3. got' = Append(got, data[Len(got) + 1]) /\ data[Len(got) + 1] \in Words
      BY <1>2, <3>1, <3>2, ElementOfSeq
    <3>4. /\ got' \in Seq(Words) /\ Len(got') = Len(got) + 1
          /\ \A n \in 1 .. Len(got) : got'[n] = got[n]
          /\ got'[Len(got) + 1] = data[Len(got) + 1]
      BY <1>3, <3>3, AppendProperties
    <3>5. \A n \in 1 .. Len(got') : got'[n] = data[n]
      BY <1>1, <1>3, <3>4
    <3>6. TypeOK'
      BY <1>1, <3>1, <3>4 DEF TypeOK
    <3>7. Reading'
      BY <1>1, <1>3, <2>1, <3>1, <3>4, <3>5 DEF Reading
    <3> QED
      BY <3>6, <3>7
  <2>2. CASE ~(Len(got) < Len(data))
    <3>1. pc' = "copied" /\ got' = got
      BY <1>2, <2>2 DEF CopyWord
    <3>2. got = data
      <4> HIDE DEF data
      <4>1. Len(got) = Len(data)
        BY <1>1, <1>3, <2>2
      <4> QED
        BY <4>1, <1>1, <1>2, <1>3, SeqEqual
    <3>3. TypeOK'
      BY <1>1, <3>1 DEF TypeOK
    <3>4. Reading'
      BY <1>1, <3>1, <3>2 DEF Reading
    <3> QED
      BY <3>3, <3>4
  <2> QED
    BY <2>1, <2>2
<1> QED
  BY <1>1, <1>4, <1>5, SameRing DEF Whole, Sound

\* What is taken out is the oldest message, whole.
LEMMA AdvanceStep ==
  ASSUME Whole, Advance
  PROVE  /\ Whole'
         /\ pending # <<>> /\ pending' = Tail(pending) /\ out' = <<pending[1].msg>>
         /\ Distance(tail)' = Distance(tail) - (Len(pending[1].msg.data) + 1)
<1>1. TypeOK /\ pc = "copied" /\ pending # <<>> /\ got = pending[1].msg.data
  BY DEF Advance, Whole, Sound, Reading
<1>2. /\ buf[head] = Header(pending[1].msg.type, Len(pending[1].msg.data), pending[1].msg.value)
      /\ pending[1].msg \in Signals \cup Commands
  BY <1>1, Oldest
<1>3. /\ buf[head].length = Len(pending[1].msg.data)
      /\ Message(buf[head].type, buf[head].value, got) = pending[1].msg
  BY <1>1, <1>2, MessageParts DEF Header
<1>4. /\ head' = Wrap(head + Len(pending[1].msg.data) + 1)
      /\ out' = <<pending[1].msg>> /\ pending' = Tail(pending)
      /\ pc' = "idle" /\ sz' = 0 /\ got' = <<>>
      /\ UNCHANGED <<buf, tail, puts, answer, torn>>
  BY <1>1, <1>3 DEF Advance
<1>5. TakeOldest
  BY <1>1, <1>4 DEF TakeOldest
<1>6. pending[1].msg \in [type : Nat, value : Nat, data : Seq(Words)]
  BY <1>2, MessageParts DEF Message
<1>7. TypeOK'
  BY <1>1, <1>4, <1>5, <1>6, Shrunk DEF TypeOK
<1>8. Reading' /\ Writing' /\ PullNeverFails'
  BY <1>4, WritingKept DEF Advance, Whole, Sound, Reading, PullNeverFails
<1> QED
  BY <1>1, <1>4, <1>5, <1>7, <1>8, Shrunk DEF Whole, Sound

\* Every step keeps the inductive invariant.
LEMMA InvStep ==
  ASSUME IInv, [Next]_vars
  PROVE  IInv'
<1>1. CASE UNCHANGED vars
  BY <1>1 DEF vars, IInv, Whole, Sound, TypeOK, Chained, Distance, PendingStored,
              PullNeverFails, Ordered, Reading, Writing, Underway
<1>2. ASSUME NEW message \in Signals, ~torn, PutSignal(message)
      PROVE  IInv'
  BY <1>2, PutTypes, PutSignalStep DEF IInv
<1>3. ASSUME NEW by \in Putters, NEW message \in Signals \cup Commands, ~torn,
             BeginPut(by, message)
      PROVE  IInv'
  BY <1>3, PutTypes, BeginPutStep DEF IInv
<1>4. ASSUME NEW by \in Putters, PutWords(by) \/ PutDone(by)
      PROVE  IInv'
  <2>1. TypeOK' /\ torn' = torn
    BY <1>4, PutTypes DEF IInv, PutWords, PutDone
  <2> QED
    BY <1>4, <2>1, PutWordsStep, PutDoneStep DEF IInv
<1>5. CASE ~torn /\ (GetSize \/ GetData \/ CopyWord \/ Advance)
  BY <1>5, GetSizeStep, GetDataStep, CopyWordStep, AdvanceStep DEF IInv, Whole, Sound
<1> QED
  BY <1>1, <1>2, <1>3, <1>4, <1>5 DEF Next, Ended, PutFlush, PutUnlocked, Putters

LEMMA InvInit == Init => IInv
<1> SUFFICES ASSUME Init PROVE IInv
  OBVIOUS
<1>1. pending = <<>> /\ Len(pending) = 0 /\ 0 \in Indices
  BY RingBufferAssumption DEF Init, Indices
<1>2. TypeOK
  <2>1. Zero \in Words
    BY DEF Zero, Header, Words
  <2> QED
    BY <1>1, <2>1 DEF Init, TypeOK
<1>3. Chained /\ PendingStored /\ PullNeverFails
  BY <1>1 DEF Init, Chained, PendingStored, PullNeverFails
<1>4. Ordered /\ Reading
  BY <1>1 DEF Init, Ordered, Reading
<1>5. Writing
  BY DEF Init, Writing, Underway, NoPut, Putters
<1> QED
  BY <1>2, <1>3, <1>4, <1>5 DEF IInv, Whole, Sound

\* The ring is sound until a put is accepted in the middle of one that takes no lock: every
\* accepted message lies in the buffer whole and next to its neighbour until
\* zjs_port_ring_buf_get has taken it out, and the second get of zjs_service_callbacks
\* finds the message that the first one told the size of, whatever interrupt handlers and
\* threads put between the steps of a get and how their puts are refused.
THEOREM RingIsSoundTheorem == Spec => []RingIsSound
<1>1. Init => IInv
  BY InvInit
<1>2. IInv /\ [Next]_vars => IInv'
  BY InvStep
<1>3. IInv => RingIsSound
  BY DEF IInv, Whole, Sound, RingIsSound
<1> QED
  BY <1>1, <1>2, <1>3, PTL DEF Spec

-----------------------------------------------------------------------------
(***************************************************************************)
(* The ring implements the bounded queue.                                  *)
(***************************************************************************)
\* The messages of the ring, oldest first: the queue of MsgQueue.
LEMMA QueueOf ==
  ASSUME TypeOK, TypeOK'
  PROVE  LET queue == [k \in 1 .. Len(pending) |-> pending[k].msg]
         IN  /\ \A at, message : Remember(at, message) => queue' = Append(queue, message)
             /\ pending # <<>> /\ pending' = Tail(pending) =>
                  queue # <<>> /\ queue' = Tail(queue) /\ Head(queue) = pending[1].msg
<1> DEFINE Entries == [at : Indices, msg : Signals \cup Commands]
           queue == [k \in 1 .. Len(pending) |-> pending[k].msg]
<1>1. pending \in Seq(Entries) /\ Len(pending) \in Nat
  BY DEF TypeOK
<1>2. ASSUME NEW at, NEW message, Remember(at, message)
      PROVE  queue' = Append(queue, message)
  BY <1>1, <1>2 DEF Remember
<1>3. ASSUME pending # <<>>, pending' = Tail(pending)
      PROVE  queue # <<>> /\ queue' = Tail(queue) /\ Head(queue) = pending[1].msg
  BY <1>1, <1>3
<1> QED
  BY <1>2, <1>3

\* The words in use, before and after a step.
LEMMA UsedOf ==
  ASSUME TypeOK, TypeOK'
  PROVE  /\ Size - 1 - Space = Distance(tail)
         /\ Size - 1 - Space' = Distance(tail)'
<1>1. Size - 1 - Space = Distance(tail)
  BY SpaceIs, RingBufferAssumption
<1>2. head' \in Indices /\ tail' \in Indices
  BY DEF TypeOK
<1>3. Between(head', tail') = IF head' <= tail' THEN tail' - head' ELSE tail' - head' + Size
  BY <1>2, BetweenIs
<1>4. PICK h \in 0 .. Size - 1, t \in 0 .. Size - 1 : h = head' /\ t = tail'
  BY <1>2 DEF Indices
<1>5. Space' = IF h = t THEN Size - 1 ELSE IF t < h THEN h - t - 1 ELSE (Size - t) + h - 1
  BY <1>4 DEF Space
<1>6. Size - 1 - Space' = IF h <= t THEN t - h ELSE t - h + Size
  BY <1>5, RingBufferAssumption
<1> QED
  BY <1>1, <1>3, <1>4, <1>6 DEF Distance

\* Every step of the ring is a step of the queue, or leaves it alone, or breaks it.
LEMMA QueueStep ==
  ASSUME IInv, IInv', [Next]_vars
  PROVE  [Queue!Next]_(Queue!vars)
<1> DEFINE queue == [k \in 1 .. Len(pending) |-> pending[k].msg]
           used == Size - 1 - Space
<1> SUFFICES ASSUME ~torn' PROVE [Queue!Next]_(Queue!vars)
  BY DEF IInv, TypeOK, Queue!Next, Queue!Break
<1>1. TypeOK /\ TypeOK' /\ used = Distance(tail) /\ used' = Distance(tail)'
  BY UsedOf DEF IInv
<1>2. Distance(tail) \in 0 .. Size - 1 /\ Space = Size - 1 - Distance(tail)
  BY <1>1, SpaceIs
<1>3. ~torn /\ torn' = torn /\ Whole
  BY DEF IInv, TypeOK, Next, PutSignal, PutFlush, PutUnlocked, BeginPut, Refuse, PutWords,
         PutDone, Ended, GetSize, GetData, CopyWord, Advance, vars
<1> HIDE DEF used
<1>4. CASE UNCHANGED <<head, tail, pending, answer, out, torn>>
  BY <1>4 DEF Queue!vars, Space
<1>5. ASSUME NEW message \in Signals \cup Commands, ~Fits(message), Refuse,
             UNCHANGED <<head, out>>
      PROVE  Queue!Next
  <2>1. used + (Len(message.data) + 1) > Size - 1
    BY <1>1, <1>2, <1>5, MessageParts, RingBufferAssumption DEF Fits
  <2>2. Queue!Refuse(message)
    BY <1>5, <2>1 DEF Refuse, Queue!Refuse, Queue!Words, used, Space
  <2> QED
    BY <2>2 DEF Queue!Next
<1>6. ASSUME NEW message \in Signals \cup Commands, Remember(tail, message), out' = out,
             Distance(tail)' = Distance(tail) + Len(message.data) + 1,
             Distance(tail) + Len(message.data) + 1 <= Size - 1
      PROVE  Queue!Next
  <2>1. Len(message.data) \in Nat
    BY MessageParts
  <2>2. queue' = Append(queue, message)
    BY <1>1, <1>6, QueueOf
  <2>3. /\ used' = used + (Len(message.data) + 1)
        /\ used + (Len(message.data) + 1) <= Size - 1
    BY <1>1, <1>2, <1>6, <2>1
  <2>4. Queue!Accept(message)
    BY <1>3, <1>6, <2>2, <2>3 DEF Remember, Queue!Accept, Queue!Words, used
  <2> QED
    BY <2>4 DEF Queue!Next
<1>7. ASSUME NEW message \in Signals, PutSignal(message)
      PROVE  Queue!Next
  <2>1. CASE Fits(message)
    <3>1. Remember(tail, message) /\ out' = out
      BY <1>7, <2>1 DEF PutSignal
    <3>2. Distance(tail)' = Distance(tail) + Len(message.data) + 1
      BY <1>3, <1>7, <2>1, PutSignalStep
    <3>3. Distance(tail) + Len(message.data) + 1 <= Size - 1
      BY <1>1, <2>1, StoredIs
    <3> QED
      BY <1>6, <3>1, <3>2, <3>3
  <2>2. CASE ~Fits(message)
    BY <1>5, <1>7, <2>2 DEF PutSignal
  <2> QED
    BY <2>1, <2>2
<1>8. ASSUME NEW by \in Putters, NEW message \in Signals \cup Commands, BeginPut(by, message)
      PROVE  Queue!Next \/ UNCHANGED <<head, tail, pending, answer, out, torn>>
  <2>1. CASE Fits(message)
    BY <1>3, <1>8, <2>1 DEF BeginPut, IInv, TypeOK
  <2>2. CASE ~Fits(message)
    BY <1>5, <1>8, <2>2 DEF BeginPut
  <2> QED
    BY <2>1, <2>2
<1>9. ASSUME NEW by \in Putters, PutDone(by)
      PROVE  Queue!Next
  <2>1. /\ puts[by].msg \in Signals \cup Commands /\ Remember(tail, puts[by].msg)
        /\ Distance(tail)' = Distance(tail) + Len(puts[by].msg.data) + 1
        /\ Distance(tail) + Len(puts[by].msg.data) + 1 <= Size - 1
    BY <1>3, <1>9, PutDoneStep
  <2>2. out' = out
    BY <1>9 DEF PutDone
  <2> QED
    BY <1>6, <2>1, <2>2
<1>10. CASE Advance
  <2>1. /\ pending # <<>> /\ pending' = Tail(pending) /\ out' = <<pending[1].msg>>
        /\ used' = used - (Len(pending[1].msg.data) + 1) /\ answer' = answer /\ torn' = torn
    BY <1>1, <1>3, <1>10, AdvanceStep DEF Advance
  <2>2. queue # <<>> /\ queue' = Tail(queue) /\ Head(queue) = pending[1].msg
    BY <1>1, <2>1, QueueOf
  <2>3. Queue!Take
    BY <2>1, <2>2 DEF Queue!Take, Queue!Words, used
  <2> QED
    BY <2>3 DEF Queue!Next
<1>11. CASE (\E by \in Putters : PutWords(by)) \/ Ended \/ UNCHANGED vars
  BY <1>4, <1>11 DEF PutWords, Ended, vars
<1>12. CASE GetSize \/ GetData \/ CopyWord
  BY <1>3, <1>4, <1>12, GetDataStep DEF GetSize, GetData, CopyWord
<1> QED
  BY <1>4, <1>7, <1>8, <1>9, <1>10, <1>11, <1>12 DEF Next, PutFlush, PutUnlocked, Putters

\* Until a put is accepted in the middle of one that takes no lock, the ring buffer with
\* its two-step get and its divided puts is the bounded first-in first-out queue that the
\* callback module relies on: a put is refused if and only if the message does not fit,
\* and what zjs_service_callbacks takes out is the oldest message, whole.
THEOREM RingImplementsQueue == Spec => ImplementsQueue
<1>1. Init => IInv
  BY InvInit
<1>2. IInv /\ [Next]_vars => IInv'
  BY InvStep
<1>3. Init => Queue!Init
  <2> SUFFICES ASSUME Init PROVE Queue!Init
    OBVIOUS
  <2>1. Size - 1 - Space = 0
    BY RingBufferAssumption DEF Init, Space
  <2>2. [k \in 1 .. Len(pending) |-> pending[k].msg] = <<>>
    BY DEF Init
  <2> QED
    BY <2>1, <2>2 DEF Init, Queue!Init
<1>4. IInv /\ IInv' /\ [Next]_vars => [Queue!Next]_(Queue!vars)
  BY QueueStep
<1> QED
  BY <1>1, <1>2, <1>3, <1>4, PTL DEF Spec, ImplementsQueue, Queue!Spec
=============================================================================
