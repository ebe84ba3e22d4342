------------------------------- MODULE Buffer -------------------------------
(***************************************************************************)
(* Buffer objects (src/zjs_buffer.c): bytes that a script reads and writes *)
(* as numbers of either byte order, copies, fills and writes strings to.   *)
(* What is hard is arithmetic: an offset has 32 bits, and so has the sum   *)
(* of an offset and a length that a buffer's size is compared with.        *)
(*                                                                         *)
(* A byte has Byte values and an offset those of four bytes.  Numbers that *)
(* do not fit an unsigned one are converted to one that does, which one is *)
(* not defined for offsets, so only those are passed.  The conversions to  *)
(* strings are left out, and a string is its bytes.                        *)
(***************************************************************************)
EXTENDS Integers, Sequences

CONSTANTS
  Byte,        \* values of a byte
  BufContents, \* what a new buffer may hold: the script's values, or what the allocator left
  BufOffsets,  \* offsets and lengths a script passes
  BufValues,   \* numbers it writes, negative ones too
  BufCalls     \* model bound: calls

\* The numbers that k bytes can hold.
ByteTo[k \in 0 .. 4] == IF k = 0 THEN 1 ELSE ByteTo[k - 1] * Byte
U32 == ByteTo[4]

ASSUME BufferAssumption ==
  /\ Byte \in Nat \ {0, 1} /\ BufCalls \in Nat
  /\ BufContents \subseteq Seq(0 .. Byte - 1)
  /\ BufOffsets \subseteq 0 .. U32 - 1 /\ BufValues \subseteq -(U32 \div 2) .. U32 - 1

VARIABLES
  buffers,   \* the bytes of each buffer
  bufCall,   \* history: the last call, what it did to which bytes, and its answer
  bufBefore, \* history: the buffers before it
  bufLeft,   \* calls left
  bufFault   \* "none", or the undefined step that was taken

bufVars == <<buffers, bufCall, bufBefore, bufLeft, bufFault>>

NoCall == [do |-> "none", b |-> 0, from |-> 0, n |-> 0, ok |-> TRUE]

\* A call about the n bytes of buffer b at "from", after which b holds bytes.
BufCall(call, bytes) ==
  /\ bufLeft > 0 /\ bufFault = "none"
  /\ bufLeft' = bufLeft - 1
  /\ bufBefore' = buffers
  /\ bufCall' = call
  /\ buffers' = IF call.ok THEN [buffers EXCEPT ![call.b] = bytes] ELSE buffers
  /\ UNCHANGED bufFault

\* A call that passed the checks and touches memory that is not the buffer's, copies bytes
\* onto themselves or never ends.
BufFails(call, reason) ==
  /\ bufLeft > 0 /\ bufFault = "none"
  /\ bufFault' = reason
  /\ bufCall' = call
  /\ UNCHANGED <<buffers, bufBefore, bufLeft>>

\* zjs_buffer and zjs_buffer_create.
BufCreate(bytes) ==
  /\ bufLeft > 0 /\ bufFault = "none"
  /\ bufLeft' = bufLeft - 1
  /\ bufBefore' = buffers
  /\ bufCall' = NoCall
  /\ buffers' = Append(buffers, bytes)
  /\ UNCHANGED bufFault

-----------------------------------------------------------------------------
\* The check of a range, with the sum's width; an off-by-one would let one byte more pass.
FitsOneMore(offset, n, size) == (offset + n) % U32 <= size + 1
Fits(offset, n, size) == (offset + n) % U32 <= size

Bytes(b) == buffers[b]
Inside(b, offset, n) == offset + n <= Len(Bytes(b))

\* The bytes of b with others put at an offset.
PutAt(b, offset, bytes) ==
  [i \in DOMAIN Bytes(b) |->
     IF i - offset \in DOMAIN bytes THEN bytes[i - offset] ELSE Bytes(b)[i]]

\* zjs_buffer_read_bytes: from the big end on, up or down.
ReadBytes(b, offset, n, big) ==
  LET start == IF big THEN offset ELSE offset + n - 1
      dir   == IF big THEN 1 ELSE -1
      value[i \in 0 .. n] ==
        IF i = 0 THEN 0 ELSE (value[i - 1] * Byte + Bytes(b)[start + dir * (i - 1) + 1]) % U32
  IN value[n]

BufRead(b, offset, n, big) ==
  LET call == [do |-> "read", b |-> b, from |-> offset, n |-> n, ok |-> Fits(offset, n, Len(Bytes(b))),
               big |-> big, answer |-> IF Inside(b, offset, n) THEN ReadBytes(b, offset, n, big) ELSE 0]
  IN  IF call.ok /\ ~Inside(b, offset, n) THEN BufFails(call, "outside") ELSE BufCall(call, Bytes(b))

\* zjs_buffer_write_bytes: the lowest byte of what is left of the value, from the little end on.
WriteBytes(value, n, big) ==
  [i \in 1 .. n |-> ((value % U32) \div ByteTo[IF big THEN n - i ELSE i - 1]) % Byte]

BufWrite(b, value, offset, n, big) ==
  LET call == [do |-> "write", b |-> b, from |-> offset, n |-> n, ok |-> Fits(offset, n, Len(Bytes(b))),
               big |-> big, value |-> value, answer |-> offset + n]
  IN  IF call.ok /\ ~Inside(b, offset, n) THEN BufFails(call, "outside")
      ELSE BufCall(call, PutAt(b, offset, WriteBytes(value, n, big)))

-----------------------------------------------------------------------------
\* memcpy from and to ranges of one buffer that overlap is undefined.
Overlap(a, i, b, j, n) == a = b /\ n > 0 /\ i < j + n /\ j < i + n

\* zjs_buffer_copy; its offsets are signed, and -1 or nothing is the source's end.
BufCopy(source, target, targetStart, sourceStart, sourceEnd) ==
  LET end  == IF sourceEnd = -1 THEN Len(Bytes(source)) ELSE sourceEnd
      n    == end - sourceStart
      call == [do |-> "copy", b |-> target, from |-> targetStart, n |-> n, source |-> source, at |-> sourceStart,
               ok |-> /\ targetStart < Len(Bytes(target)) /\ sourceStart < Len(Bytes(source))
                      /\ sourceStart < end /\ end <= Len(Bytes(source))
                      /\ n <= Len(Bytes(target)) - targetStart]
  IN  IF call.ok /\ Overlap(source, sourceStart, target, targetStart, n) THEN BufFails(call, "overlap")
      ELSE BufCall(call, IF call.ok THEN PutAt(target, targetStart, SubSeq(Bytes(source), sourceStart + 1, end)) ELSE <<>>)

\* zjs_buffer_write_string; without a length it asks for what is left of the buffer, which
\* wraps around when the offset is behind its end.
BufWriteString(b, string, offset, given) ==
  LET n    == IF given = -1 THEN (Len(Bytes(b)) - offset) % U32 ELSE given
      call == [do |-> "string", b |-> b, from |-> offset, n |-> n, string |-> string,
               ok |-> n <= Len(string) /\ Fits(offset, n, Len(Bytes(b)))]
  IN  IF call.ok /\ ~Inside(b, offset, n) THEN BufFails(call, "outside")
      ELSE BufCall(call, IF call.ok THEN PutAt(b, offset, SubSeq(string, 1, n)) ELSE <<>>)

\* The copies that zjs_buffer_fill makes of its source, until no byte is left.
Filling(source, n) == [i \in 1 .. n |-> source[((i - 1) % Len(source)) + 1]]

\* zjs_buffer_fill with a string, a number (four bytes, the highest first) or a buffer: an
\* empty source never fills anything, and a buffer that fills itself is copied onto itself.
BufFill(b, source, from, offset, given) ==
  LET size == Len(Bytes(b))
      end  == IF given = -1 \/ given > size THEN size ELSE given
      n    == IF offset >= end THEN 0 ELSE end - offset
      call == [do |-> "fill", b |-> b, from |-> offset, n |-> n, string |-> source, ok |-> TRUE]
  IN  IF n > 0 /\ source = <<>> THEN BufFails(call, "endless")
      ELSE IF Overlap(from, 0, b, offset, n) THEN BufFails(call, "overlap")
      ELSE BufCall(call, IF n = 0 THEN Bytes(b) ELSE PutAt(b, offset, Filling(source, n)))

-----------------------------------------------------------------------------
BufferInit ==
  /\ buffers = <<>> /\ bufCall = NoCall /\ bufBefore = <<>> /\ bufLeft = BufCalls /\ bufFault = "none"

BufferNext ==
  \/ \E bytes \in BufContents : BufCreate(bytes)
  \/ \E b \in DOMAIN buffers, offset \in BufOffsets :
       \/ \E n \in {1, 2, 4}, big \in BOOLEAN :
            \/ BufRead(b, offset, n, big)
            \/ \E value \in BufValues : BufWrite(b, value, offset, n, big)
       \/ \E given \in BufOffsets \cup {-1} :
            \/ \E c \in DOMAIN buffers, start \in BufOffsets : BufCopy(c, b, offset, start, given)
            \/ \E string \in BufContents :
                 BufWriteString(b, string, offset, given) \/ BufFill(b, string, 0, offset, given)
            \/ \E value \in BufValues \cap Nat : BufFill(b, WriteBytes(value, 4, TRUE), 0, offset, given)
            \/ \E c \in DOMAIN buffers : BufFill(b, Bytes(c), c, offset, given)
  \/ (bufLeft = 0 \/ bufFault # "none") /\ UNCHANGED bufVars

BufferSpec == BufferInit /\ [][BufferNext]_bufVars

-----------------------------------------------------------------------------
(***************************************************************************)
(* Properties.                                                             *)
(***************************************************************************)
\* The number that bytes stand for, each weighed by its place: the definition the loops of
\* reading and writing are measured by.
Number(bytes, big) ==
  LET weight(i) == ByteTo[IF big THEN Len(bytes) - i ELSE i - 1]
      sum[i \in 0 .. Len(bytes)] == IF i = 0 THEN 0 ELSE sum[i - 1] + bytes[i] * weight(i)
  IN  sum[Len(bytes)]

\* What a call was about, in the contents given.
Ranged(contents, call) == SubSeq(contents[call.b], call.from + 1, call.from + call.n)

\* docs/buffer.md: a number is read as it is written, the highest byte first or last; a copy
\* takes the source's bytes, a string is written up to the length, and a value fills the
\* range again and again.
CallDidWhatItSays(call) ==
  /\ call.do = "read"  => call.answer = Number(Ranged(bufBefore, call), call.big)
  /\ call.do = "write" => Number(Ranged(buffers, call), call.big) = call.value % ByteTo[call.n]
                          /\ call.answer = call.from + call.n
  /\ call.do = "copy"  => Ranged(buffers, call) = SubSeq(bufBefore[call.source], call.at + 1, call.at + call.n)
  /\ call.do = "string" => Ranged(buffers, call) = SubSeq(call.string, 1, call.n)
  /\ call.do = "fill"  => \A i \in 1 .. call.n :
       buffers[call.b][call.from + i] =
         IF i <= Len(call.string) THEN call.string[i] ELSE buffers[call.b][call.from + i - Len(call.string)]

\* A call changes the bytes it was about and no other, a refused one changes none, and
\* bytes outside of the buffer are touched only when the sum of offset and length wraps.
BuffersHold ==
  LET call == bufCall IN
  /\ bufFault = "outside" => call.from + call.n >= U32
  /\ bufFault = "none" /\ call.do # "none" =>
       /\ \A b \in DOMAIN buffers : \A i \in 1 .. Len(buffers[b]) :
            buffers[b][i] # bufBefore[b][i] =>
              call.ok /\ call.do # "read" /\ b = call.b /\ i - call.from \in 1 .. call.n
       /\ call.ok /\ call.n > 0 => Inside(call.b, call.from, call.n) /\ CallDidWhatItSays(call)
=============================================================================
