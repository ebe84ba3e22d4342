---------------------------- MODULE MCRingBuffer ----------------------------
(***************************************************************************)
(* RingBuffer for model checking, and the size that zjs_port_ring_buf_init *)
(* computes for a memory region of Bytes bytes.                            *)
(***************************************************************************)
EXTENDS RingBuffer

CONSTANT Bytes

\* The smallest power of two of words that holds the bytes.
InitSize(bytes) ==
  2 ^ (CHOOSE i \in 0 .. 19 : bytes <= 2 ^ i * 4 /\ \A j \in 0 .. i - 1 : bytes > 2 ^ j * 4)

ASSUME SizeOfRegion == Size = InitSize(Bytes)

\* Two data words that could be taken for headers.
DataWords == {Header(0, 1, 0), Header(1, 0, 0)}
=============================================================================
