----------------------------- MODULE PacketBytes -----------------------------
(***************************************************************************)
(* The bytes of RTP and RTCP packets.  A buffer is a sequence of bytes,    *)
(* each with the role it was written in: the first byte of a 32-bit field  *)
(* carries the value of the field and the others are filling.              *)
(***************************************************************************)
EXTENDS Integers, Sequences, SequencesExt

WordSize == 4      \* sizeof(uint32_t)

Byte(role, v) == [role |-> role, v |-> v]
Fill(n) == [i \in 1..n |-> Byte("fill", 0)]
Zeros(n) == [i \in 1..n |-> Byte("zero", 0)]
Word(role, v) == <<Byte(role, v)>> \o Fill(WordSize - 1)

\* One word after the other.
Words(role, values) ==
    [k \in 1..(WordSize * Len(values)) |->
        IF k % WordSize = 1 THEN Byte(role, values[(k - 1) \div WordSize + 1])
        ELSE Byte("fill", 0)]

\* What a small field holds when it is read at this byte.
Value(b) == CASE b.role \in {"id", "len"} -> b.v
              [] b.role = "zero" -> 0
              [] OTHER -> 1
=============================================================================
