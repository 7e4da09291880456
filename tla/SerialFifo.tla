------------------------------ MODULE SerialFifo ------------------------------
(***************************************************************************)
(* What libraries/Serial/Serial.cpp promises to Get_Energy: the bytes that *)
(* arrived on the line, minus those already read, in order.  With one      *)
(* exception that a reader must know: a receive that brings the unread     *)
(* bytes to exactly SERIAL_BUFFER_SIZE makes the ring look empty, and all  *)
(* of them are lost.  SerialRing implements this specification; SensorLink *)
(* is built on it.                                                         *)
(*                                                                         *)
(* Bytes are numbered by their arrival.                                    *)
(***************************************************************************)
EXTENDS Naturals, Sequences

CONSTANTS
  SERIAL_BUFFER_SIZE,
  MaxBytes              \* bound: bytes that ever arrive on the line

VARIABLES
  line,     \* received by the kernel, not read by process_recv yet
  queue,    \* received by process_recv, not read by the caller yet
  arrived,  \* bytes that arrived so far
  last      \* the byte the last read() returned, 0 for none

fifoVars == <<line, queue, arrived, last>>

Init ==
  /\ line = <<>>
  /\ queue = <<>>
  /\ arrived = 0
  /\ last = 0

Arrive ==
  /\ arrived < MaxBytes
  /\ arrived' = arrived + 1
  /\ line' = Append(line, arrived + 1)
  /\ UNCHANGED <<queue, last>>

\* The queue after n more bytes of the sequence s: nothing, if that fills it.
Received(q, s, n) ==
  IF Len(q) + n = SERIAL_BUFFER_SIZE THEN <<>> ELSE q \o SubSeq(s, 1, n)

Receive ==
  \E n \in 1..Len(line) :
    /\ Len(queue) + n <= SERIAL_BUFFER_SIZE
    /\ queue' = Received(queue, line, n)
    /\ line' = SubSeq(line, n + 1, Len(line))
    /\ UNCHANGED <<arrived, last>>

Read ==
  /\ queue # <<>>
  /\ last' = Head(queue)
  /\ queue' = Tail(queue)
  /\ UNCHANGED <<line, arrived>>

Flush ==
  /\ line' = <<>>
  /\ queue' = <<>>
  /\ UNCHANGED <<arrived, last>>

Next == Arrive \/ Receive \/ Read \/ Flush

Spec == Init /\ [][Next]_fifoVars
=============================================================================
