------------------------------ MODULE SerialRing ------------------------------
(***************************************************************************)
(* The receive ring of HwSerial (libraries/Serial/Serial.cpp): an array of *)
(* SERIAL_BUFFER_SIZE bytes, read at head, written at tail in blocks of up *)
(* to the free space, in two pieces when a block wraps around.  head = tail *)
(* means empty, and nothing keeps a block from filling the ring exactly.   *)
(*                                                                         *)
(* The kernel's side of the line (what arrived, TCIFLUSH) is external.     *)
(***************************************************************************)
EXTENDS Naturals, Sequences

CONSTANTS
  SERIAL_BUFFER_SIZE,
  MaxBytes              \* bound: bytes that ever arrive on the line

ASSUME RingAssumption ==
  /\ SERIAL_BUFFER_SIZE \in Nat \ {0}
  /\ MaxBytes \in Nat

VARIABLES
  buffer,   \* _rx_buffer.buffer
  head,     \* _rx_buffer.head
  tail,     \* _rx_buffer.tail
  line,     \* the kernel's unread bytes, each the number of its arrival
  arrived,  \* bytes that arrived so far
  handed    \* history: the bytes read() returned, in that order

vars == <<buffer, head, tail, line, arrived, handed>>

Index == 0..(SERIAL_BUFFER_SIZE - 1)

available ==
  IF head <= tail THEN tail - head ELSE SERIAL_BUFFER_SIZE - head + tail

Init ==
  /\ buffer = [k \in Index |-> 0]
  /\ head = 0
  /\ tail = 0
  /\ line = <<>>
  /\ arrived = 0
  /\ handed = <<>>

Arrive ==
  /\ arrived < MaxBytes
  /\ arrived' = arrived + 1
  /\ line' = Append(line, arrived + 1)
  /\ UNCHANGED <<buffer, head, tail, handed>>

\* How far slot k lies behind the place the next byte is written to.
Offset(k) == IF k >= tail THEN k - tail ELSE k + SERIAL_BUFFER_SIZE - tail

\* Bug: the second memcpy is missing.
process_recvOnePiece ==
  \E n \in 1..Len(line) :
    /\ n <= SERIAL_BUFFER_SIZE - available
    /\ buffer' = [k \in Index |->
                    IF k >= tail /\ Offset(k) < n THEN line[Offset(k) + 1] ELSE buffer[k]]
    /\ tail' = (tail + n) % SERIAL_BUFFER_SIZE
    /\ line' = SubSeq(line, n + 1, Len(line))
    /\ UNCHANGED <<head, arrived, handed>>

\* Bug: the request for bytes is not limited to the free space.
process_recvUnlimited ==
  \E n \in 1..Len(line) :
    /\ n <= SERIAL_BUFFER_SIZE
    /\ buffer' = [k \in Index |->
                    IF Offset(k) < n THEN line[Offset(k) + 1] ELSE buffer[k]]
    /\ tail' = (tail + n) % SERIAL_BUFFER_SIZE
    /\ line' = SubSeq(line, n + 1, Len(line))
    /\ UNCHANGED <<head, arrived, handed>>

\* ::read returned n bytes (1 .. the free space): both memcpys, then tail.
process_recv ==
  \E n \in 1..Len(line) :
    /\ n <= SERIAL_BUFFER_SIZE - available
    /\ buffer' = [k \in Index |->
                    IF Offset(k) < n THEN line[Offset(k) + 1] ELSE buffer[k]]
    /\ tail' = IF n >= SERIAL_BUFFER_SIZE - tail
                 THEN n - (SERIAL_BUFFER_SIZE - tail)
                 ELSE tail + n
    /\ line' = SubSeq(line, n + 1, Len(line))
    /\ UNCHANGED <<head, arrived, handed>>

\* Bug: as in peek(), the byte stays in the ring.
readPeeks ==
  /\ head # tail
  /\ handed' = Append(handed, buffer[head])
  /\ UNCHANGED <<buffer, head, tail, line, arrived>>

\* read() of an empty ring returns -1 and changes nothing.
read ==
  /\ head # tail
  /\ handed' = Append(handed, buffer[head])
  /\ head' = (head + 1) % SERIAL_BUFFER_SIZE
  /\ UNCHANGED <<buffer, tail, line, arrived>>

flush ==
  /\ head' = 0
  /\ tail' = 0
  /\ line' = <<>>
  /\ UNCHANGED <<buffer, arrived, handed>>

Next == Arrive \/ process_recv \/ read \/ flush

Spec == Init /\ [][Next]_vars

-----------------------------------------------------------------------------
\* Types and ranges: head and tail stay inside the buffer.
TypeOK ==
  /\ buffer \in [Index -> Nat]
  /\ head \in Index
  /\ tail \in Index
  /\ line \in Seq(Nat)
  /\ arrived \in Nat
  /\ handed \in Seq(Nat)

\* The slot j places after head, and the unread bytes from head to tail.
At(j) == IF head + j < SERIAL_BUFFER_SIZE THEN head + j
                                          ELSE head + j - SERIAL_BUFFER_SIZE
Contents == [j \in 1..available |-> buffer[At(j - 1)]]

\* The bytes in the ring followed by those on the line are always the most
\* recent ones of the stream, without gap, repetition or swap: a block that
\* wraps around is put together right, and a loss takes a whole prefix.
UnreadIsSuffix ==
  LET unread == available + Len(line) IN
    /\ unread <= arrived
    /\ \A j \in 1..available : buffer[At(j - 1)] = arrived - unread + j
    /\ \A j \in 1..Len(line) : line[j] = arrived - Len(line) + j

\* read() hands out bytes in the order they arrived and none of them twice.
ReadsAdvance ==
  \A j, k \in 1..Len(handed) : j < k => handed[j] < handed[k]

\* The byte that the last read() returned, 0 before the first.
Latest == IF handed = <<>> THEN 0 ELSE handed[Len(handed)]
Fifo == INSTANCE SerialFifo WITH queue <- Contents, last <- Latest

\* The ring is a first-in first-out queue that loses bytes only in flush() and
\* when a receive fills it exactly.
ImplementsFifo == Fifo!Spec
=============================================================================
