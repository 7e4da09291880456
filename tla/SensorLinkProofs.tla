--------------------------- MODULE SensorLinkProofs ---------------------------
(***************************************************************************)
(* Get_Energy, for any number of fields, sizes of the buffers and calls:   *)
(* what a sample is made of.                                               *)
(***************************************************************************)
EXTENDS SensorLink, CommonProofs

-----------------------------------------------------------------------------
(* What the call keeps to.                                                  *)

Symbols == [kind : {"num", "lf", "text"}, reply : Nat, field : Nat]
Places == {"idle", "ask", "wait", "byte", "event", "drain", "parse", "overrun"}

LinkTypes ==
  /\ sensor \in SensorKinds /\ pc \in Places
  /\ calls \in 0..MaxCalls /\ asked \in Nat /\ since \in 0..asked
  /\ stream \in Seq(Symbols) /\ toSend \in Seq(Symbols)
  /\ arrived \in 0..MaxBytes /\ Len(stream) = arrived /\ last \in 0..arrived
  /\ queue \in Seq(1..arrived) /\ line \in Seq(1..arrived)
  /\ dat \in Seq(1..last)
  /\ angle \in [1..Fields -> 0..arrived]

\* The bytes that are still to be read, and all that the sensor said or will say.
Unread == queue \o line
Whole == stream \o toSend

UnreadOrder ==
  /\ \A i \in DOMAIN Unread : last < Unread[i]
  /\ \A i, j \in DOMAIN Unread : i < j => Unread[i] < Unread[j]

\* Nothing is lost: the next bytes come next.
UnreadSteady ==
  /\ \A i \in DOMAIN Unread : Unread[i] = last + i
  /\ last + Len(Unread) = arrived

\* Bytes are stored in the order they arrived, and those to be read are younger.
Order ==
  /\ \A i, j \in DOMAIN dat : i < j => dat[i] < dat[j]
  /\ UnreadOrder

\* A byte is stored, or waits, when the loop looks at the last one.
LoopInv ==
  /\ pc = "event" => dat # <<>>
  /\ pc = "byte" => dat # <<>> \/ queue # <<>>

\* The symbols from place a on are the numbers of an answer, whole or cut short.
Answer(s, a, n, r) ==
  /\ \A j \in 1..n : s[a + j] = Num(r, j)
  /\ s[a + n + 1] = LF

\* The symbols of the answers behind the f-th up to the r-th one.
Spoken(f, r) == {LF} \cup {Num(t, k) : t \in (f + 1)..r, k \in Nat}

\* Which of the p symbols behind b are numbers.
Said(s, b, p) == {j \in 1..p : s[b + j] # LF}

\* The p symbols behind b are of these answers, which have too few numbers.
Past(s, f, b, p, r) ==
  /\ \A j \in 1..p : s[b + j] \in Spoken(f, r)
  /\ Cardinality(Said(s, b, p)) < Fields

\* Each of the answers has a number, at least.
NoBlank(s, f, b, p, r) ==
  /\ p <= 2 * Cardinality(Said(s, b, p))
  /\ r <= f + Cardinality(Said(s, b, p))

\* The bytes of the last answer begin behind a; dat holds what was read of them behind
\* p bytes of the answers before.
Attempt(a, p) ==
  LET e == Len(Whole)
  IN  /\ p <= a /\ a <= last /\ last <= e
      /\ Len(dat) = (last - a) + p
      /\ a + 1 <= e /\ e <= a + Fields + 1
      /\ since < asked
      /\ Answer(Whole, a, e - a - 1, asked)
      /\ Past(stream, since, a - p, p, asked - 1)
      /\ sensor # "blank" => NoBlank(stream, since, a - p, p, asked - 1)
      /\ sensor = "good" => p = 0 /\ e = a + Fields + 1
      /\ sensor = "truncated" => a + 2 <= e
      /\ pc = "byte" => queue # <<>> \/ a < last
      /\ pc = "event" => a < last
      /\ pc = "byte" => last < e
      /\ pc \in {"drain", "parse"} => last = e

\* Before the sensor is asked, dat holds the answers that had too few numbers.
Asking ==
  LET p == Len(dat)
  IN  /\ p <= last
      /\ Past(stream, since, last - p, p, asked)
      /\ sensor # "blank" => NoBlank(stream, since, last - p, p, asked)
      /\ sensor = "good" => p = 0

\* A sensor that answers each request with one line: nothing is lost or left over.
SteadyInv ==
  Steady =>
    /\ pc = "overrun" => sensor = "blank"
    /\ \A i \in DOMAIN dat : dat[i] = (last - Len(dat)) + i
    /\ UnreadSteady
    /\ pc \in {"idle", "ask"} => Unread = <<>> /\ toSend = <<>>
    /\ pc \in {"wait", "byte", "event", "drain", "parse"} =>
          \E a \in Nat, p \in Nat : Attempt(a, p)
    /\ pc = "ask" => Asking
    /\ pc = "idle" => AnswersFit

LinkInv ==
  /\ LinkTypes /\ Order /\ LoopInv /\ SteadyInv
  /\ SampleInOrder /\ FreshSample /\ SampleFromOwnCall

-----------------------------------------------------------------------------
(* The serial driver.                                                       *)

\* The first m bytes to be read are gone.
Moved(m) ==
  /\ Len(Unread') = Len(Unread) - m
  /\ \A i \in 1..(Len(Unread) - m) : Unread'[i] = Unread[i + m]

\* The bytes to be read, one by one.
LEMMA UnreadIs ==
  ASSUME LinkTypes
  PROVE  /\ Unread \in Seq(1..arrived) /\ DOMAIN Unread = 1..Len(Unread)
         /\ Len(Unread) = Len(queue) + Len(line) /\ Len(queue) \in Nat /\ Len(line) \in Nat
         /\ \A i \in 1..Len(Unread) :
               Unread[i] = IF i <= Len(queue) THEN queue[i] ELSE line[i - Len(queue)]
<1>1. queue \in Seq(1..arrived) /\ line \in Seq(1..arrived)
  BY DEF LinkTypes
<1> QED
  BY <1>1, ConcatProperties, LenProperties DEF Unread

\* process_recv moves bytes, or loses all up to the last one when they fill the ring.
LEMMA ReceiveMoves ==
  ASSUME LinkTypes, Serial!Receive
  PROVE  /\ queue' \in Seq(1..arrived) /\ line' \in Seq(1..arrived)
         /\ arrived' = arrived /\ last' = last
         /\ \E m \in 0..Len(Unread) :
               Moved(m) /\ (Len(Unread) < SERIAL_BUFFER_SIZE => m = 0)
<1>1. PICK n \in 1..Len(line) :
         /\ Len(queue) + n <= SERIAL_BUFFER_SIZE
         /\ queue' = Serial!Received(queue, line, n)
         /\ line' = SubSeq(line, n + 1, Len(line))
         /\ UNCHANGED <<arrived, last>>
  BY DEF Serial!Receive
<1>2. /\ queue \in Seq(1..arrived) /\ line \in Seq(1..arrived)
      /\ Len(queue) \in Nat /\ Len(line) \in Nat /\ n \in Nat /\ 0 < n /\ n <= Len(line)
      /\ n \in 0..Len(line)
  BY LenProperties DEF LinkTypes
<1> DEFINE A == SubSeq(line, 1, n)
           B == SubSeq(line, n + 1, Len(line))
<1>3. A \in Seq(1..arrived) /\ Len(A) = n /\ \A i \in 1..n : A[i] = line[i]
  <2> DEFINE S == 1..arrived
  <2>1. line \in Seq(S) /\ n \in 0..Len(line)
    BY <1>2
  <2> HIDE DEF S
  <2>2. /\ SubSeq(line, 1, n) \in Seq(S) /\ Len(SubSeq(line, 1, n)) = n
        /\ \A i \in 1..n : SubSeq(line, 1, n)[i] = line[i]
    BY <2>1, CutIs, Zenon
  <2> QED
    BY <2>2, Zenon DEF S
<1>4. /\ B \in Seq(1..arrived) /\ Len(B) = Len(line) - n
      /\ \A i \in 1..(Len(line) - n) : B[i] = line[i + n]
  BY <1>2, CutIs
<1> HIDE DEF A, B
<1>5. /\ Unread \in Seq(1..arrived) /\ Len(Unread) = Len(queue) + Len(line)
      /\ \A i \in 1..Len(Unread) :
            Unread[i] = IF i <= Len(queue) THEN queue[i] ELSE line[i - Len(queue)]
  BY UnreadIs
<1>6. CASE Len(queue) + n = SERIAL_BUFFER_SIZE
  <2>1. queue' = <<>> /\ line' = B
    BY <1>1, <1>6 DEF Serial!Received, B
  <2>2. Unread' = <<>> \o B
    BY <2>1 DEF Unread
  <2>3. Len(Unread') = Len(line) - n /\ \A i \in 1..(Len(line) - n) : Unread'[i] = B[i]
    BY <1>4, <2>2
  <2> DEFINE m == Len(queue) + n
  <2>4. m \in 0..Len(Unread) /\ ~(Len(Unread) < SERIAL_BUFFER_SIZE)
    BY <1>2, <1>5, <1>6
  <2>5. Len(Unread) - m = Len(line) - n
    BY <1>2, <1>5
  <2>6. ASSUME NEW i \in 1..(Len(Unread) - m) PROVE Unread'[i] = Unread[i + m]
    <3>1. i \in Nat /\ i \in 1..(Len(line) - n) /\ i + m \in 1..Len(Unread)
          /\ ~(i + m <= Len(queue)) /\ (i + m) - Len(queue) = i + n
      BY <1>2, <1>5, <2>5
    <3> QED
      BY <1>4, <1>5, <2>3, <3>1
  <2>7. Moved(m)
    BY <2>3, <2>5, <2>6 DEF Moved
  <2>8. queue' \in Seq(1..arrived) /\ line' \in Seq(1..arrived)
    BY <1>4, <2>1
  <2> QED
    BY <1>1, <2>4, <2>7, <2>8
<1>7. CASE Len(queue) + n # SERIAL_BUFFER_SIZE
  <2>1. queue' = queue \o A /\ line' = B
    BY <1>1, <1>7 DEF Serial!Received, A, B
  <2>2. /\ queue' \in Seq(1..arrived) /\ line' \in Seq(1..arrived) /\ Len(queue') = Len(queue) + n
        /\ \A i \in 1..(Len(queue) + n) :
              queue'[i] = IF i <= Len(queue) THEN queue[i] ELSE A[i - Len(queue)]
    <3>1. queue' \in Seq(1..arrived) /\ line' \in Seq(1..arrived)
      BY <1>2, <1>3, <1>4, <2>1, ConcatProperties
    <3>2. Len(queue \o A) = Len(queue) + Len(A) /\ \A i \in 1..(Len(queue) + Len(A)) :
             (queue \o A)[i] = IF i <= Len(queue) THEN queue[i] ELSE A[i - Len(queue)]
      BY <1>2, <1>3, ConcatProperties
    <3> QED
      BY <1>3, <2>1, <3>1, <3>2
  <2>3. Unread' = queue' \o line'
    BY DEF Unread
  <2>4. /\ Len(Unread') = Len(queue') + Len(line')
        /\ \A i \in 1..(Len(queue') + Len(line')) :
              Unread'[i] = IF i <= Len(queue') THEN queue'[i] ELSE line'[i - Len(queue')]
    BY <2>2, <2>3, ConcatProperties
  <2>5. Len(Unread') = Len(Unread)
    BY <1>2, <1>4, <1>5, <2>1, <2>2, <2>4
  <2>6. ASSUME NEW i \in 1..Len(Unread) PROVE Unread'[i] = Unread[i]
    <3>0. Unread'[i] = IF i <= Len(queue) + n THEN queue'[i] ELSE B[i - (Len(queue) + n)]
      <4>1. i \in 1..(Len(queue') + Len(line'))
        BY <1>2, <1>4, <1>5, <2>1, <2>2
      <4> QED
        BY <2>1, <2>2, <2>4, <4>1
    <3>1. CASE i <= Len(queue)
      <4>1. i <= Len(queue) + n /\ i \in 1..(Len(queue) + n)
        BY <1>2, <1>5, <3>1
      <4> QED
        BY <1>5, <2>2, <3>0, <3>1, <4>1
    <3>2. CASE ~(i <= Len(queue)) /\ i <= Len(queue) + n
      <4>1. i - Len(queue) \in 1..n /\ i \in 1..(Len(queue) + n)
        BY <1>2, <3>2
      <4>2. queue'[i] = line[i - Len(queue)]
        BY <1>3, <2>2, <3>2, <4>1
      <4> QED
        BY <1>5, <3>0, <3>2, <4>2
    <3>3. CASE ~(i <= Len(queue) + n)
      <4>1. i - (Len(queue) + n) \in 1..(Len(line) - n) /\ ~(i <= Len(queue))
            /\ (i - (Len(queue) + n)) + n = i - Len(queue)
        BY <1>2, <1>5, <3>3
      <4>2. B[i - (Len(queue) + n)] = line[i - Len(queue)]
        BY <1>4, <4>1
      <4> QED
        BY <1>5, <3>0, <3>3, <4>1, <4>2
    <3> QED
      BY <1>2, <3>1, <3>2, <3>3
  <2>7. Moved(0)
    BY <1>2, <1>5, <2>5, <2>6 DEF Moved
  <2>8. 0 \in 0..Len(Unread)
    BY <1>2, <1>5
  <2> QED
    BY <1>1, <2>2, <2>7, <2>8
<1> QED
  BY <1>6, <1>7

\* read takes the first byte.
LEMMA ReadMoves ==
  ASSUME LinkTypes, Serial!Read
  PROVE  /\ queue' \in Seq(1..arrived) /\ line' \in Seq(1..arrived)
         /\ arrived' = arrived
         /\ 1 \in 1..Len(Unread) /\ last' = Unread[1] /\ Moved(1)
<1>1. queue # <<>> /\ last' = Head(queue) /\ queue' = Tail(queue) /\ line' = line
      /\ arrived' = arrived
  BY DEF Serial!Read
<1>2. /\ queue \in Seq(1..arrived) /\ line \in Seq(1..arrived)
      /\ Len(queue) \in Nat /\ Len(line) \in Nat /\ 0 < Len(queue)
  <2>1. queue \in Seq(1..arrived) /\ line \in Seq(1..arrived) /\ queue # <<>>
    BY <1>1 DEF LinkTypes
  <2>2. Len(queue) \in Nat \ {0} /\ Len(line) \in Nat
    BY <2>1, EmptySeq, LenProperties
  <2> QED
    BY <2>1, <2>2
<1>3. /\ Unread \in Seq(1..arrived) /\ Len(Unread) = Len(queue) + Len(line)
      /\ \A i \in 1..Len(Unread) :
            Unread[i] = IF i <= Len(queue) THEN queue[i] ELSE line[i - Len(queue)]
  BY UnreadIs
<1>4. /\ queue' \in Seq(1..arrived) /\ Len(queue') = Len(queue) - 1
      /\ \A i \in 1..(Len(queue) - 1) : queue'[i] = queue[i + 1]
      /\ last' = queue[1]
  BY <1>1, <1>2, HeadTailProperties
<1>5. Unread' = queue' \o line
  BY <1>1 DEF Unread
<1>6. /\ Len(Unread') = Len(queue') + Len(line)
      /\ \A i \in 1..(Len(queue') + Len(line)) :
            Unread'[i] = IF i <= Len(queue') THEN queue'[i] ELSE line[i - Len(queue')]
  BY <1>2, <1>4, <1>5, ConcatProperties
<1>7. Len(Unread') = Len(Unread) - 1
  BY <1>2, <1>3, <1>4, <1>6
<1>8. ASSUME NEW i \in 1..(Len(Unread) - 1) PROVE Unread'[i] = Unread[i + 1]
  <2>1. Unread'[i] = IF i <= Len(queue) - 1 THEN queue[i + 1] ELSE line[i - (Len(queue) - 1)]
    BY <1>2, <1>3, <1>4, <1>6
  <2>2. i + 1 \in 1..Len(Unread) /\ (i + 1) - Len(queue) = i - (Len(queue) - 1)
        /\ (i + 1 <= Len(queue) <=> i <= Len(queue) - 1)
    BY <1>2, <1>3
  <2> QED
    BY <1>3, <2>1, <2>2
<1>9. 1 \in 1..Len(Unread) /\ last' = Unread[1]
  BY <1>2, <1>3, <1>4
<1> QED
  BY <1>1, <1>2, <1>4, <1>7, <1>8, <1>9 DEF Moved

\* What is left of the bytes to be read keeps their order.
LEMMA MovedOrder ==
  ASSUME LinkTypes, UnreadOrder,
         queue' \in Seq(1..arrived), line' \in Seq(1..arrived), arrived' = arrived,
         NEW m \in 0..Len(Unread), Moved(m),
         last' = last \/ (m # 0 /\ last' = Unread[m])
  PROVE  UnreadOrder'
<1>1. /\ Unread \in Seq(1..arrived) /\ DOMAIN Unread = 1..Len(Unread) /\ Len(Unread) \in Nat
  BY UnreadIs, LenProperties
<1>2. Unread' \in Seq(1..arrived) /\ DOMAIN Unread' = 1..Len(Unread')
  BY ConcatProperties, LenProperties DEF Unread
<1>3. DOMAIN Unread' = 1..(Len(Unread) - m)
  BY <1>2 DEF Moved
<1>4. \A i \in 1..(Len(Unread) - m) : i + m \in 1..Len(Unread) /\ Unread'[i] = Unread[i + m]
  BY <1>1 DEF Moved
<1>5. ASSUME NEW i \in DOMAIN Unread' PROVE last' < Unread'[i]
  <2>1. i + m \in DOMAIN Unread /\ Unread'[i] = Unread[i + m] /\ 0 < i
    <3>1. i \in 1..(Len(Unread) - m) /\ 0 < i
      BY <1>3
    <3> QED
      BY <1>1, <1>4, <3>1
  <2>2. CASE last' = last
    BY <2>1, <2>2 DEF UnreadOrder
  <2>3. CASE m # 0 /\ last' = Unread[m]
    <3>1. m \in DOMAIN Unread /\ m < i + m
      BY <1>1, <1>3, <2>3
    <3> QED
      BY <2>1, <2>3, <3>1 DEF UnreadOrder
  <2> QED
    BY <2>2, <2>3
<1>6. ASSUME NEW i \in DOMAIN Unread', NEW j \in DOMAIN Unread', i < j
      PROVE  Unread'[i] < Unread'[j]
  <2>1. i + m \in DOMAIN Unread /\ j + m \in DOMAIN Unread /\ i + m < j + m
    BY <1>1, <1>3, <1>4, <1>6
  <2> QED
    BY <1>3, <1>4, <2>1 DEF UnreadOrder
<1> QED
  BY <1>5, <1>6 DEF UnreadOrder

\* What moves from the unread bytes to the last read one leaves the sum as it is.
LEMMA MovedSum ==
  ASSUME NEW l \in Int, NEW n \in Int, NEW m \in Int
  PROVE  (l + m) + (n - m) = l + n
OBVIOUS

\* ... and their numbers.
LEMMA MovedSteady ==
  ASSUME LinkTypes, UnreadSteady,
         queue' \in Seq(1..arrived), line' \in Seq(1..arrived), arrived' = arrived,
         NEW m \in 0..Len(Unread), Moved(m),
         last' = IF m = 0 THEN last ELSE Unread[m]
  PROVE  UnreadSteady' /\ last' = last + m
<1>1. /\ Unread \in Seq(1..arrived) /\ DOMAIN Unread = 1..Len(Unread) /\ Len(Unread) \in Nat
      /\ last \in Nat /\ arrived \in Nat
  BY UnreadIs, LenProperties DEF LinkTypes
<1>2. Unread' \in Seq(1..arrived) /\ DOMAIN Unread' = 1..Len(Unread')
  BY ConcatProperties, LenProperties DEF Unread
<1>3. DOMAIN Unread' = 1..(Len(Unread) - m) /\ Len(Unread') = Len(Unread) - m
  BY <1>2 DEF Moved
<1>7. \A i \in 1..Len(Unread) : Unread[i] = last + i
  BY <1>1 DEF UnreadSteady
<1>4. last' = last + m
  <2>1. m # 0 => m \in 1..Len(Unread)
    BY <1>1
  <2>2. m \in Int /\ last \in Int
    BY <1>1
  <2>3. CASE m = 0
    BY <2>2, <2>3
  <2>4. CASE m # 0
    BY <1>7, <2>1, <2>4
  <2> QED
    BY <2>3, <2>4
<1>5. ASSUME NEW i \in 1..(Len(Unread) - m) PROVE Unread'[i] = last' + i
  <2>1. i + m \in 1..Len(Unread) /\ Unread'[i] = Unread[i + m] /\ i \in Nat /\ m \in Nat
    BY <1>1 DEF Moved
  <2>2. Unread'[i] = last + (i + m)
    BY <1>7, <2>1
  <2>3. last \in Int /\ i \in Int /\ m \in Int
    BY <1>1, <2>1
  <2>4. last + (i + m) = (last + m) + i
    BY <2>3
  <2> QED
    BY <1>4, <2>2, <2>4
<1>6. last' + Len(Unread') = arrived'
  <2> DEFINE n == Len(Unread)
             next == Len(Unread')
  <2>1. last + n = arrived /\ n \in Int /\ last \in Int /\ arrived \in Int
    BY <1>1 DEF UnreadSteady
  <2>2. next = n - m
    BY <1>3, Zenon
  <2>3. m \in Int
    BY <1>1
  <2> HIDE DEF n, next
  <2>4. last' + next = last + n
    <3>1. last' + next = (last + m) + (n - m)
      BY <1>4, <2>2, Zenon
    <3>2. (last + m) + (n - m) = last + n
      BY <2>1, <2>3, MovedSum
    <3> QED
      BY <3>1, <3>2, Zenon
  <2>5. last' + next = arrived'
    BY <2>1, <2>4, Zenon
  <2> QED
    BY <2>5, Zenon DEF next
<1> QED
  BY <1>3, <1>4, <1>5, <1>6 DEF UnreadSteady

\* All that the sensor said or will say.
LEMMA WholeIs ==
  ASSUME LinkTypes
  PROVE  /\ Whole \in Seq(Symbols) /\ Len(Whole) = arrived + Len(toSend)
         /\ Len(toSend) \in Nat /\ arrived \in Nat /\ last \in Nat /\ last <= arrived
         /\ \A i \in 1..arrived : Whole[i] = stream[i]
         /\ \A i \in 1..Len(toSend) : Whole[arrived + i] = toSend[i]
<1>1. /\ stream \in Seq(Symbols) /\ toSend \in Seq(Symbols) /\ Len(stream) = arrived
      /\ arrived \in Nat /\ last \in Nat /\ last <= arrived /\ Len(toSend) \in Nat
  BY SensorAssumption, LenProperties DEF LinkTypes
<1>2. /\ Whole \in Seq(Symbols) /\ Len(Whole) = Len(stream) + Len(toSend)
      /\ \A i \in 1..(Len(stream) + Len(toSend)) :
            Whole[i] = IF i <= Len(stream) THEN stream[i] ELSE toSend[i - Len(stream)]
  BY <1>1, ConcatProperties DEF Whole
<1>3. \A i \in 1..arrived : Whole[i] = stream[i]
  BY <1>1, <1>2
<1>4. ASSUME NEW i \in 1..Len(toSend) PROVE Whole[arrived + i] = toSend[i]
  <2>1. arrived + i \in 1..(Len(stream) + Len(toSend)) /\ ~(arrived + i <= arrived)
        /\ (arrived + i) - arrived = i
    BY <1>1
  <2> QED
    BY <1>1, <1>2, <2>1
<1> QED
  BY <1>1, <1>2, <1>3, <1>4

-----------------------------------------------------------------------------
(* The answers of a call.                                                    *)

\* The numbers among some symbols can be counted.
LEMMA SaidSize ==
  ASSUME NEW s, NEW b, NEW p \in Nat
  PROVE  IsFiniteSet(Said(s, b, p)) /\ Cardinality(Said(s, b, p)) \in Nat
<1>1. IsFiniteSet(1..p)
  BY FS_Interval
<1>2. Said(s, b, p) \subseteq 1..p
  BY DEF Said
<1>3. IsFiniteSet(Said(s, b, p))
  BY <1>1, <1>2, FS_Subset
<1> QED
  BY <1>3, FS_CardinalityType

\* What is told by the symbols stays when they stay.
LEMMA PastKept ==
  ASSUME NEW s, NEW z, NEW f, NEW b, NEW p, NEW r,
         \A j \in 1..p : z[b + j] = s[b + j]
  PROVE  /\ Past(s, f, b, p, r) => Past(z, f, b, p, r)
         /\ NoBlank(s, f, b, p, r) => NoBlank(z, f, b, p, r)
<1>1. Said(z, b, p) = Said(s, b, p)
  BY DEF Said
<1> QED
  BY <1>1 DEF Past, NoBlank

\* Before the first answer there are no symbols.
LEMMA PastEmpty ==
  ASSUME NEW s, NEW f \in Nat, NEW b
  PROVE  Past(s, f, b, 0, f) /\ NoBlank(s, f, b, 0, f)
<1>1. 1..0 = {}
  OBVIOUS
<1>2. Said(s, b, 0) = {}
  BY <1>1 DEF Said
<1>3. Cardinality(Said(s, b, 0)) = 0
  BY <1>2, FS_EmptySet
<1>4. Fields \in Nat /\ 0 < Fields
  BY SensorAssumption
<1> QED
  BY <1>1, <1>3, <1>4 DEF Past, NoBlank

\* Answers that each have a number, but too few of them together, are few and short.
LEMMA PastFits ==
  ASSUME NEW s, NEW f \in Nat, NEW b, NEW p \in Nat, NEW r \in Int,
         Past(s, f, b, p, r), NoBlank(s, f, b, p, r)
  PROVE  p <= 2 * Fields - 2 /\ r - f <= Fields - 1
<1> DEFINE c == Cardinality(Said(s, b, p))
<1>1. c \in Nat /\ c < Fields /\ p <= 2 * c /\ r <= f + c /\ Fields \in Nat
  BY SaidSize, SensorAssumption DEF Past, NoBlank
<1> HIDE DEF c
<1> QED
  BY <1>1

-----------------------------------------------------------------------------
(* The steps.                                                               *)

\* A sequence over a set is one over a larger set.
LEMMA SeqWiden ==
  ASSUME NEW S, NEW T, S \subseteq T, NEW s \in Seq(S)
  PROVE  s \in Seq(T)
<1>1. Len(s) \in Nat /\ s \in [1..Len(s) -> S]
  BY LenProperties
<1>2. s \in [1..Len(s) -> T]
  BY <1>1
<1> QED
  BY <1>1, <1>2, SeqDef

\* A sample that was returned stays what it is.
LEMMA SamplesKept ==
  ASSUME LinkInv,
         UNCHANGED <<pc, calls, angle, sensor, asked, since>>,
         \A b \in 0..arrived : Symbol(b)' = Symbol(b)
  PROVE  SampleInOrder' /\ FreshSample' /\ SampleFromOwnCall'
<1>1. angle \in [1..Fields -> 0..arrived]
  BY DEF LinkInv, LinkTypes
<1>2. \A k \in 1..Fields : Symbol(angle[k])' = Symbol(angle[k])
  <2> TAKE k \in 1..Fields
  <2>1. angle[k] \in 0..arrived /\ angle'[k] = angle[k]
    BY <1>1
  <2> DEFINE b == angle[k]
  <2>2. Symbol(b)' = Symbol(b)
    BY <2>1
  <2> QED
    BY <2>1 DEF Symbol
<1> QED
  BY <1>2 DEF LinkInv, SampleInOrder, FreshSample, SampleFromOwnCall, Returned, Steady

\* During a call nothing is said of samples.
LEMMA SamplesLater ==
  ASSUME pc' # "idle"
  PROVE  SampleInOrder' /\ FreshSample' /\ SampleFromOwnCall'
BY DEF SampleInOrder, FreshSample, SampleFromOwnCall, Returned

\* The sensor sends a byte.
LEMMA SensorSendStep == ASSUME LinkInv, SensorSend PROVE LinkInv'
<1>1. /\ toSend # <<>> /\ arrived < MaxBytes /\ arrived' = arrived + 1
      /\ line' = Append(line, arrived + 1) /\ queue' = queue /\ last' = last
      /\ stream' = Append(stream, Head(toSend)) /\ toSend' = Tail(toSend)
      /\ UNCHANGED <<sensor, pc, dat, angle, asked, since, calls>>
  BY DEF SensorSend, Serial!Arrive
<1>2. LinkTypes /\ Order /\ LoopInv /\ SteadyInv /\ MaxBytes \in Nat
  BY SensorAssumption DEF LinkInv
<1>3. /\ stream \in Seq(Symbols) /\ toSend \in Seq(Symbols) /\ Len(stream) = arrived
      /\ arrived \in Nat /\ last \in Nat /\ last <= arrived
      /\ queue \in Seq(1..arrived) /\ line \in Seq(1..arrived) /\ dat \in Seq(1..last)
      /\ angle \in [1..Fields -> 0..arrived]
  BY <1>2 DEF LinkTypes
<1>4. /\ stream' \in Seq(Symbols) /\ Len(stream') = arrived'
      /\ \A i \in 1..arrived : stream'[i] = stream[i]
      /\ stream'[arrived + 1] = toSend[1]
      /\ toSend' \in Seq(Symbols) /\ Len(toSend') = Len(toSend) - 1 /\ Len(toSend) \in Nat
      /\ \A i \in 1..(Len(toSend) - 1) : toSend'[i] = toSend[i + 1]
  <2>1. Head(toSend) \in Symbols /\ Head(toSend) = toSend[1] /\ Len(toSend) \in Nat
    BY <1>1, <1>3, HeadTailProperties, LenProperties
  <2>2. /\ Tail(toSend) \in Seq(Symbols) /\ Len(Tail(toSend)) = Len(toSend) - 1
        /\ \A i \in 1..Len(Tail(toSend)) : Tail(toSend)[i] = toSend[i + 1]
    BY <1>1, <1>3, HeadTailProperties
  <2>3. /\ stream' \in Seq(Symbols) /\ Len(stream') = arrived + 1
        /\ \A i \in 1..arrived : stream'[i] = stream[i]
        /\ stream'[arrived + 1] = Head(toSend)
    <3>1. /\ stream' \in Seq(Symbols) /\ Len(stream') = Len(stream) + 1
          /\ \A i \in 1..Len(stream) : stream'[i] = stream[i]
          /\ stream'[Len(stream) + 1] = Head(toSend)
      <4> DEFINE h == Head(toSend)
      <4>1. stream \in Seq(Symbols) /\ h \in Symbols /\ stream' = Append(stream, h)
        BY <1>1, <1>3, <2>1
      <4> HIDE DEF h
      <4>2. /\ stream' \in Seq(Symbols) /\ Len(stream') = Len(stream) + 1
            /\ \A i \in 1..Len(stream) : stream'[i] = stream[i]
            /\ stream'[Len(stream) + 1] = h
        BY <4>1, AppendProperties
      <4> QED
        BY <4>2 DEF h
    <3> QED
      BY <1>3, <3>1
  <2> QED
    BY <1>1, <2>1, <2>2, <2>3
<1>5. /\ queue' \in Seq(1..arrived') /\ line' \in Seq(1..arrived')
      /\ Len(line') = Len(line) + 1 /\ Len(line) \in Nat /\ Len(queue) \in Nat
      /\ \A i \in 1..Len(line) : line'[i] = line[i]
      /\ line'[Len(line) + 1] = arrived + 1
  <2>1. 1..arrived \subseteq 1..(arrived + 1) /\ arrived + 1 \in 1..(arrived + 1)
    BY <1>3
  <2>2. queue \in Seq(1..(arrived + 1)) /\ line \in Seq(1..(arrived + 1))
    BY <1>3, <2>1, SeqWiden
  <2> QED
    BY <1>1, <2>1, <2>2, AppendProperties, LenProperties
<1>6. LinkTypes'
  <2>1. angle' \in [1..Fields -> 0..arrived']
    <3>1. 0..arrived \subseteq 0..(arrived + 1)
      BY <1>3
    <3> QED
      BY <1>1, <1>3, <3>1
  <2>2. arrived' \in 0..MaxBytes /\ last' \in 0..arrived' /\ dat' \in Seq(1..last')
    BY <1>1, <1>2, <1>3
  <2> QED
    BY <1>1, <1>2, <1>4, <1>5, <2>1, <2>2 DEF LinkTypes
<1>7. /\ DOMAIN Unread = 1..Len(Unread) /\ Len(Unread) \in Nat
      /\ DOMAIN Unread' = 1..(Len(Unread) + 1) /\ Len(Unread') = Len(Unread) + 1
      /\ \A i \in 1..Len(Unread) : Unread'[i] = Unread[i] /\ Unread[i] <= arrived
      /\ Unread'[Len(Unread) + 1] = arrived + 1
  <2>1. /\ Unread \in Seq(1..arrived) /\ Len(Unread) = Len(queue) + Len(line)
        /\ \A i \in 1..Len(Unread) :
              Unread[i] = IF i <= Len(queue) THEN queue[i] ELSE line[i - Len(queue)]
    BY <1>2, UnreadIs
  <2>2. Unread' = queue \o line'
    BY <1>1 DEF Unread
  <2>3. /\ Unread' \in Seq(1..arrived') /\ Len(Unread') = Len(queue) + Len(line')
        /\ \A i \in 1..(Len(queue) + Len(line')) :
              Unread'[i] = IF i <= Len(queue) THEN queue[i] ELSE line'[i - Len(queue)]
    <3> DEFINE S == 1..arrived'
    <3>1. queue \in Seq(S) /\ line' \in Seq(S)
      BY <1>1, <1>5
    <3> HIDE DEF S
    <3>2. /\ queue \o line' \in Seq(S) /\ Len(queue \o line') = Len(queue) + Len(line')
          /\ \A i \in 1..(Len(queue) + Len(line')) :
                (queue \o line')[i] = IF i <= Len(queue) THEN queue[i] ELSE line'[i - Len(queue)]
      BY <3>1, ConcatProperties, Zenon
    <3> QED
      BY <2>2, <3>2, Zenon DEF S
  <2>4. Len(Unread') = Len(Unread) + 1 /\ Len(Unread) \in Nat
    BY <1>5, <2>1, <2>3
  <2>5. ASSUME NEW i \in 1..Len(Unread) PROVE Unread'[i] = Unread[i] /\ Unread[i] <= arrived
    <3>1. Unread'[i] = Unread[i]
      <4>1. i \in 1..(Len(queue) + Len(line'))
        BY <1>5, <2>1
      <4>2. CASE i <= Len(queue)
        BY <2>1, <2>3, <4>1, <4>2
      <4>3. CASE ~(i <= Len(queue))
        <5>1. i - Len(queue) \in 1..Len(line)
          BY <1>5, <2>1, <4>3
        <5> QED
          BY <1>5, <2>1, <2>3, <4>1, <4>3, <5>1
      <4> QED
        BY <4>2, <4>3
    <3>2. Unread[i] \in 1..arrived
      BY <2>1, ElementOfSeq
    <3> QED
      BY <3>1, <3>2
  <2>6. Unread'[Len(Unread) + 1] = arrived + 1
    <3>1. /\ Len(Unread) + 1 \in 1..(Len(queue) + Len(line')) /\ ~(Len(Unread) + 1 <= Len(queue))
          /\ (Len(Unread) + 1) - Len(queue) = Len(line) + 1
      BY <1>5, <2>1
    <3> QED
      BY <1>5, <2>3, <3>1
  <2>7. DOMAIN Unread = 1..Len(Unread) /\ DOMAIN Unread' = 1..Len(Unread')
    BY <2>1, <2>3, LenProperties
  <2> QED
    BY <2>4, <2>5, <2>6, <2>7
<1>8. Order' /\ LoopInv'
  <2>1. \A i \in 1..Len(Unread) : last < Unread[i]
    BY <1>2, <1>7 DEF Order, UnreadOrder
  <2>2. \A i, j \in 1..Len(Unread) : i < j => Unread[i] < Unread[j]
    BY <1>2, <1>7 DEF Order, UnreadOrder
  <2>3. ASSUME NEW i \in 1..(Len(Unread) + 1) PROVE last' < Unread'[i]
    <3>1. i \in 1..Len(Unread) \/ i = Len(Unread) + 1
      BY <1>7
    <3> QED
      BY <1>1, <1>3, <1>7, <2>1, <3>1
  <2>4. ASSUME NEW i \in 1..(Len(Unread) + 1), NEW j \in 1..(Len(Unread) + 1), i < j
        PROVE  Unread'[i] < Unread'[j]
    <3>1. i \in 1..Len(Unread) /\ (j \in 1..Len(Unread) \/ j = Len(Unread) + 1)
      BY <1>7, <2>4
    <3>2. CASE j \in 1..Len(Unread)
      BY <1>7, <2>2, <2>4, <3>1, <3>2
    <3>3. CASE j = Len(Unread) + 1
      <4>1. Unread'[i] <= arrived /\ Unread'[j] = arrived + 1 /\ Unread'[i] \in 1..arrived
        <5>1. Unread[i] \in 1..arrived
          BY <1>2, <3>1, UnreadIs, ElementOfSeq
        <5> QED
          BY <1>7, <3>1, <3>3, <5>1
      <4> QED
        BY <1>3, <4>1
    <3> QED
      BY <3>1, <3>2, <3>3
  <2>5. UnreadOrder'
    BY <1>7, <2>3, <2>4 DEF UnreadOrder
  <2> QED
    BY <1>1, <1>2, <2>5 DEF Order, LoopInv
<1>9. Whole' = Whole
  <2>1. /\ Whole \in Seq(Symbols) /\ Len(Whole) = arrived + Len(toSend)
        /\ \A i \in 1..arrived : Whole[i] = stream[i]
        /\ \A i \in 1..Len(toSend) : Whole[arrived + i] = toSend[i]
    BY <1>2, WholeIs
  <2>2. /\ Whole' \in Seq(Symbols) /\ Len(Whole') = Len(stream') + Len(toSend')
        /\ \A i \in 1..(Len(stream') + Len(toSend')) :
              Whole'[i] = IF i <= Len(stream') THEN stream'[i] ELSE toSend'[i - Len(stream')]
    BY <1>4, ConcatProperties DEF Whole
  <2>3. Len(Whole') = Len(Whole) /\ Len(Whole) \in Nat
    BY <1>1, <1>3, <1>4, <2>1, <2>2
  <2>4. ASSUME NEW i \in 1..Len(Whole) PROVE Whole'[i] = Whole[i]
    <3>0. Whole'[i] = IF i <= arrived + 1 THEN stream'[i] ELSE toSend'[i - (arrived + 1)]
      BY <1>1, <1>4, <2>2, <2>3
    <3>1. CASE i <= arrived
      <4>1. i \in 1..arrived /\ i <= arrived + 1
        BY <1>3, <2>3, <3>1
      <4> QED
        BY <1>4, <2>1, <3>0, <4>1
    <3>2. CASE i = arrived + 1
      <4>1. 1 \in 1..Len(toSend) /\ i <= arrived + 1
        BY <1>3, <1>4, <2>1, <3>2
      <4> QED
        BY <1>4, <2>1, <3>0, <3>2, <4>1
    <3>3. CASE i > arrived + 1
      <4>1. /\ i - (arrived + 1) \in 1..(Len(toSend) - 1) /\ i - arrived \in 1..Len(toSend)
            /\ (i - (arrived + 1)) + 1 = i - arrived /\ arrived + (i - arrived) = i
            /\ ~(i <= arrived + 1)
        BY <1>3, <1>4, <2>1, <3>3
      <4>2. toSend'[i - (arrived + 1)] = toSend[i - arrived]
        BY <1>4, <4>1
      <4>3. Whole[arrived + (i - arrived)] = toSend[i - arrived]
        BY <2>1, <4>1
      <4> QED
        BY <3>0, <4>1, <4>2, <4>3
    <3> QED
      BY <1>3, <2>3, <3>1, <3>2, <3>3
  <2> QED
    BY <2>1, <2>2, <2>3, <2>4, SeqEqual
<1>10. SteadyInv'
  <2> SUFFICES ASSUME Steady
               PROVE  /\ pc = "overrun" => sensor = "blank"
                      /\ \A i \in DOMAIN dat : dat[i] = (last - Len(dat)) + i
                      /\ UnreadSteady'
                      /\ pc \notin {"idle", "ask"}
                      /\ pc # "overrun" => \E a \in Nat, p \in Nat : Attempt(a, p)'
    BY <1>1, <1>2, Zenon DEF SteadyInv, Steady, LinkTypes, Places
  <2>1. SteadyInv /\ pc \notin {"idle", "ask"} /\ pc \in Places
    BY <1>1, <1>2 DEF SteadyInv, LinkTypes
  <2>2. UnreadSteady'
    <3>1. \A i \in 1..Len(Unread) : Unread[i] = last + i
      BY <1>2, <1>7 DEF SteadyInv, UnreadSteady
    <3>2. last + Len(Unread) = arrived
      BY <1>2 DEF SteadyInv, UnreadSteady
    <3> DEFINE l == Len(Unread)
    <3>5. l \in Nat /\ last + l = arrived
      BY <1>7, <3>2
    <3> HIDE DEF l
    <3>6. last + (l + 1) = arrived + 1
      BY <1>3, <3>5
    <3>3. last' + Len(Unread') = arrived'
      BY <1>1, <1>7, <3>6 DEF l
    <3>4. ASSUME NEW i \in 1..(Len(Unread) + 1) PROVE Unread'[i] = last' + i
      <4>1. i \in 1..Len(Unread) \/ i = Len(Unread) + 1
        BY <1>7
      <4>2. last + (Len(Unread) + 1) = arrived + 1
        BY <3>6 DEF l
      <4> QED
        BY <1>1, <1>7, <3>1, <4>1, <4>2
    <3> QED
      BY <1>7, <3>3, <3>4 DEF UnreadSteady
  <2>3. ASSUME pc # "overrun" PROVE \E a \in Nat, p \in Nat : Attempt(a, p)'
    <3>1. PICK a \in Nat, p \in Nat : Attempt(a, p)
      BY <2>1, <2>3 DEF SteadyInv, Places
    <3>2. p <= a /\ a <= last
      BY <3>1 DEF Attempt
    <3>3. \A k \in 1..p : stream'[(a - p) + k] = stream[(a - p) + k]
      <4>1. \A k \in 1..p : (a - p) + k \in 1..arrived
        BY <1>3, <3>2
      <4> QED
        BY <1>4, <4>1
    <3>4. /\ Past(stream, since, a - p, p, asked - 1)
             => Past(stream', since, a - p, p, asked - 1)
          /\ NoBlank(stream, since, a - p, p, asked - 1)
             => NoBlank(stream', since, a - p, p, asked - 1)
      BY <3>3, PastKept
    <3>5. Attempt(a, p)'
      BY <1>1, <1>9, <3>1, <3>4 DEF Attempt
    <3> QED
      BY <3>5
  <2> QED
    BY <2>1, <2>2, <2>3 DEF SteadyInv
<1>11. \A b \in 0..arrived : Symbol(b)' = Symbol(b)
  <2> TAKE b \in 0..arrived
  <2>1. b = 0 \/ b \in 1..arrived
    BY <1>3
  <2> QED
    BY <1>4, <2>1 DEF Symbol
<1>12. SampleInOrder' /\ FreshSample' /\ SampleFromOwnCall'
  BY <1>1, <1>11, SamplesKept
<1> QED
  BY <1>6, <1>8, <1>10, <1>12 DEF LinkInv

\* A call begins.
LEMMA CallStep == ASSUME LinkInv, Call PROVE LinkInv'
<1>1. /\ pc = "idle" /\ calls < MaxCalls /\ calls' = calls + 1 /\ dat' = <<>> /\ pc' = "ask"
      /\ since' = asked
      /\ UNCHANGED <<line, queue, arrived, last, sensor, stream, toSend, angle, asked>>
  BY DEF Call, serial
<1>2. LinkTypes /\ Order /\ SteadyInv /\ MaxCalls \in Nat
  BY SensorAssumption DEF LinkInv
<1>3. dat' \in Seq(1..last') /\ DOMAIN dat' = {} /\ Len(dat') = 0
  BY <1>1, EmptySeq
<1>4. LinkTypes'
  <2>1. calls' \in 0..MaxCalls /\ since' \in 0..asked'
    BY <1>1, <1>2 DEF LinkTypes
  <2> QED
    BY <1>1, <1>2, <1>3, <2>1 DEF LinkTypes, Places
<1>5. Unread' = Unread
  BY <1>1 DEF Unread
<1>6. Order' /\ LoopInv'
  BY <1>1, <1>2, <1>3, <1>5 DEF Order, UnreadOrder, LoopInv
<1>7. SteadyInv'
  <2>1. Asking'
    <3>1. asked \in Nat /\ last \in Nat
      BY <1>2, SensorAssumption DEF LinkTypes
    <3>2. Past(stream, asked, last - 0, 0, asked) /\ NoBlank(stream, asked, last - 0, 0, asked)
      BY <3>1, PastEmpty
    <3> QED
      BY <1>1, <1>3, <3>1, <3>2 DEF Asking
  <2>2. Steady => UnreadSteady' /\ Unread' = <<>> /\ toSend' = <<>>
    BY <1>1, <1>2, <1>5 DEF SteadyInv, UnreadSteady
  <2> QED
    BY <1>1, <1>3, <2>1, <2>2 DEF SteadyInv, Steady
<1> QED
  BY <1>1, <1>4, <1>6, <1>7, SamplesLater DEF LinkInv

\* What the sensor answers.
LEMMA AnswersAre ==
  ASSUME sensor \in SensorKinds, NEW r \in Nat, NEW answer \in Answers(r)
  PROVE  /\ answer \in Seq(Symbols)
         /\ Steady => \E n \in 0..Fields :
                         /\ Len(answer) = n + 1 /\ Answer(answer, 0, n, r)
                         /\ sensor = "good" => n = Fields
                         /\ sensor = "truncated" => 0 < n
<1>1. Fields \in Nat /\ 0 < Fields /\ BlankCuts \subseteq 0..(Fields - 1)
  BY SensorAssumption
<1>2. LF \in Symbols /\ Text \in Symbols /\ \A k \in Nat : Num(r, k) \in Symbols
  BY DEF LF, Text, Num, Symbols
<1>3. ASSUME NEW n \in Nat
      PROVE  /\ Cut(r, n) \in Seq(Symbols) /\ Len(Cut(r, n)) = n + 1
             /\ Answer(Cut(r, n), 0, n, r)
  <2> DEFINE nums == [k \in 1..n |-> Num(r, k)]
  <2>1. nums \in Seq(Symbols) /\ Len(nums) = n /\ \A k \in 1..n : nums[k] = Num(r, k)
    BY <1>2
  <2> HIDE DEF nums
  <2>2. /\ Append(nums, LF) \in Seq(Symbols) /\ Len(Append(nums, LF)) = n + 1
        /\ \A k \in 1..n : Append(nums, LF)[k] = Num(r, k)
        /\ Append(nums, LF)[n + 1] = LF
    <3>1. \A k \in 1..n : Append(nums, LF)[k] = nums[k]
      BY <1>2, <2>1, AppendProperties
    <3>2. Append(nums, LF)[Len(nums) + 1] = LF /\ Len(Append(nums, LF)) = Len(nums) + 1
          /\ Append(nums, LF) \in Seq(Symbols)
      BY <1>2, <2>1, AppendProperties
    <3> QED
      BY <2>1, <3>1, <3>2
  <2>3. \A k \in 1..n : 0 + k = k
    OBVIOUS
  <2>4. 0 + n + 1 = n + 1
    OBVIOUS
  <2> QED
    BY <2>2, <2>3, <2>4 DEF nums, Answer, Cut
<1>4. Full(r) = Cut(r, Fields)
  BY DEF Full
<1>5. CASE answer = Full(r)
  <2>1. answer \in Seq(Symbols) /\ Len(answer) = Fields + 1 /\ Answer(answer, 0, Fields, r)
    BY <1>1, <1>3, <1>4, <1>5
  <2>2. Fields \in 0..Fields /\ 0 < Fields
    BY <1>1
  <2> QED
    BY <2>1, <2>2
<1>6. CASE sensor = "truncated" /\ answer # Full(r)
  <2>1. answer \in {Cut(r, n) : n \in 1..(Fields - 1)}
    BY <1>6 DEF Answers
  <2>2. PICK n \in 1..(Fields - 1) : answer = Cut(r, n)
    BY <2>1
  <2>3. n \in Nat /\ n \in 0..Fields /\ 0 < n
    BY <1>1
  <2> QED
    BY <1>3, <1>6, <2>2, <2>3
<1>10. CASE sensor = "blank" /\ answer # Full(r)
  <2>1. answer \in {Cut(r, n) : n \in BlankCuts}
    BY <1>10 DEF Answers
  <2>2. PICK n \in BlankCuts : answer = Cut(r, n)
    BY <2>1
  <2>3. n \in Nat /\ n \in 0..Fields
    BY <1>1
  <2> QED
    BY <1>3, <1>10, <2>2, <2>3
<1>7. CASE sensor = "garbled" /\ answer # Full(r)
  <2>1. answer = <<Text, LF>>
    BY <1>7 DEF Answers
  <2> QED
    BY <1>2, <1>7, <2>1 DEF Steady
<1>8. CASE sensor = "chatty" /\ answer # Full(r)
  <2>1. answer = <<>> \/ answer = Full(r) \o Full(r)
    BY <1>8 DEF Answers
  <2>2. Full(r) \in Seq(Symbols)
    BY <1>1, <1>3, <1>4
  <2>3. <<>> \in Seq(Symbols) /\ Full(r) \o Full(r) \in Seq(Symbols)
    BY <2>2, EmptySeq, ConcatProperties, Zenon
  <2>4. answer \in Seq(Symbols)
    BY <2>1, <2>3, Zenon
  <2> QED
    BY <1>8, <2>4 DEF Steady
<1>9. sensor = "good" => answer = Full(r)
  BY DEF Answers
<1> QED
  BY <1>5, <1>6, <1>7, <1>8, <1>9, <1>10 DEF SensorKinds

\* The sensor is asked.
LEMMA AskStep == ASSUME LinkInv, Ask PROVE LinkInv'
<1>1. PICK answer \in Answers(asked + 1) :
         /\ pc = "ask" /\ asked' = asked + 1 /\ toSend' = toSend \o answer /\ pc' = "wait"
         /\ UNCHANGED <<line, queue, arrived, last, sensor, stream, dat, angle, since, calls>>
  BY DEF Ask, serial
<1>2. LinkTypes /\ Order /\ LoopInv /\ SteadyInv
  BY DEF LinkInv
<1>3. asked \in Nat /\ sensor \in SensorKinds /\ toSend \in Seq(Symbols)
  BY <1>2 DEF LinkTypes
<1>4. /\ answer \in Seq(Symbols)
      /\ Steady => \E n \in 0..Fields :
                      /\ Len(answer) = n + 1 /\ Answer(answer, 0, n, asked + 1)
                      /\ sensor = "good" => n = Fields
                      /\ sensor = "truncated" => 0 < n
  <2>1. asked + 1 \in Nat
    BY <1>3
  <2> QED
    BY <1>3, <2>1, AnswersAre
<1>5. LinkTypes'
  <2>1. toSend' \in Seq(Symbols)
    BY <1>1, <1>3, <1>4, ConcatProperties
  <2>2. asked' \in Nat /\ since' \in 0..asked'
    BY <1>1, <1>2 DEF LinkTypes
  <2> QED
    BY <1>1, <1>2, <2>1, <2>2 DEF LinkTypes, Places
<1>6. Order' /\ LoopInv' /\ Unread' = Unread
  <2>1. Unread' = Unread
    BY <1>1 DEF Unread
  <2> QED
    BY <1>1, <1>2, <2>1 DEF Order, UnreadOrder, LoopInv
<1>7. SteadyInv'
  <2> SUFFICES ASSUME Steady
               PROVE  /\ \A i \in DOMAIN dat : dat[i] = (last - Len(dat)) + i
                      /\ UnreadSteady'
                      /\ \E a \in Nat, p \in Nat : Attempt(a, p)'
    BY <1>1 DEF SteadyInv, Steady
  <2>1. /\ SteadyInv /\ UnreadSteady /\ Unread = <<>> /\ toSend = <<>> /\ Asking
    BY <1>1, <1>2 DEF SteadyInv, Steady
  <2>2. UnreadSteady'
    BY <1>1, <1>6, <2>1 DEF UnreadSteady
  <2>3. PICK n \in 0..Fields : /\ Len(answer) = n + 1 /\ Answer(answer, 0, n, asked + 1)
                               /\ sensor = "good" => n = Fields
                               /\ sensor = "truncated" => 0 < n
    BY <1>4
  <2>4. toSend' = answer
    BY <1>1, <1>4, <2>1, ConcatEmptySeq
  <2> DEFINE p == Len(dat)
  <2>5. last = arrived /\ last \in Nat /\ p \in Nat /\ p <= last
    <3>1. /\ Len(Unread) = 0 /\ last \in 0..arrived /\ arrived \in 0..MaxBytes
          /\ MaxBytes \in Nat /\ dat \in Seq(1..last)
      BY <1>2, <2>1, SensorAssumption DEF LinkTypes
    <3>2. last = arrived /\ last \in Nat
      BY <2>1, <3>1 DEF UnreadSteady
    <3>3. p \in Nat /\ DOMAIN dat = 1..p
      BY <3>1, LenProperties
    <3>4. p # 0 => dat[1] \in 1..last /\ dat[1] = (last - p) + 1
      <4>1. p # 0 => 1 \in 1..p
        BY <3>3
      <4> QED
        BY <2>1, <3>1, <3>3, <4>1, ElementOfSeq DEF SteadyInv
    <3> QED
      BY <3>2, <3>3, <3>4
  <2>6. n \in Nat /\ n <= Fields /\ Fields \in Nat
    BY SensorAssumption
  <2>7. /\ Len(Whole') = last + n + 1
        /\ Answer(Whole', last, n, asked + 1)
    <3>1. LinkTypes' => /\ Len(Whole') = arrived' + Len(toSend')
                        /\ \A i \in 1..Len(toSend') : Whole'[arrived' + i] = toSend'[i]
      <4>1. (LinkTypes => /\ Len(Whole) = arrived + Len(toSend)
                          /\ \A i \in 1..Len(toSend) : Whole[arrived + i] = toSend[i])'
        BY WholeIs, PTL
      <4> QED
        BY <4>1
    <3>2. /\ Len(Whole') = last + (n + 1)
          /\ \A i \in 1..(n + 1) : Whole'[last + i] = answer[i]
      BY <1>1, <1>5, <2>3, <2>4, <2>5, <3>1
    <3>3. \A i \in 1..n : answer[i] = Num(asked + 1, i)
      <4>1. \A i \in 1..n : 0 + i = i
        BY <2>6
      <4> QED
        BY <2>3, <4>1 DEF Answer
    <3>4. answer[n + 1] = LF
      <4>1. 0 + n + 1 = n + 1
        BY <2>6
      <4> QED
        BY <2>3, <4>1 DEF Answer
    <3>5. \A i \in 1..n : i \in 1..(n + 1)
      BY <2>6
    <3>6. n + 1 \in 1..(n + 1) /\ last + n + 1 = last + (n + 1)
      BY <2>5, <2>6
    <3> QED
      BY <3>2, <3>3, <3>4, <3>5, <3>6 DEF Answer
  <2>8. Attempt(last, p)'
    <3> DEFINE e == last + n + 1
    <3>1. /\ last + 1 <= e /\ e <= last + Fields + 1 /\ last <= e
          /\ e - last - 1 = n
      BY <2>5, <2>6
    <3>2. since < asked' /\ since' = since /\ asked' - 1 = asked
      <4>1. since \in 0..asked /\ asked \in Nat
        BY <1>2 DEF LinkTypes
      <4> QED
        BY <1>1, <4>1
    <3>3. /\ Past(stream, since, last - p, p, asked' - 1)
          /\ sensor # "blank" => NoBlank(stream, since, last - p, p, asked' - 1)
          /\ sensor = "good" => p = 0
      BY <2>1, <3>2 DEF Asking
    <3>7. sensor = "truncated" => last + 2 <= e
      BY <2>3, <2>5, <2>6
    <3>4. sensor = "good" => e = last + Fields + 1
      BY <2>3, <2>6
    <3>5. p = (last - last) + p
      BY <2>5
    <3> HIDE DEF p, e
    <3>6. /\ Len(Whole') = e /\ Answer(Whole', last, e - last - 1, asked')
      BY <1>1, <2>7, <3>1 DEF e
    <3> QED
      BY <1>1, <2>5, <3>1, <3>2, <3>3, <3>4, <3>5, <3>6, <3>7 DEF Attempt, p
  <2>9. last \in Nat /\ p \in Nat
    BY <2>5
  <2>10. \A i \in DOMAIN dat : dat[i] = (last - Len(dat)) + i
    BY <2>1 DEF SteadyInv
  <2>11. PICK a \in Nat, q \in Nat : a = last /\ q = p
    BY <2>9
  <2>12. a' = a /\ q' = q /\ last' = last /\ p' = p
    BY <1>1
  <2>13. Attempt(a, q)'
    BY <2>8, <2>11, <2>12, <1>1
  <2> QED
    BY <2>2, <2>10, <2>13
<1> QED
  BY <1>1, <1>5, <1>6, <1>7, SamplesLater DEF LinkInv

\* The parts of the answers that were not read yet fit the ring, so nothing is lost.
LEMMA NothingLost ==
  ASSUME LinkInv, Steady, pc \in {"wait", "byte", "event", "drain", "parse"}
  PROVE  Len(Unread) < SERIAL_BUFFER_SIZE
<1>1. LinkTypes /\ UnreadSteady /\ \E a \in Nat, p \in Nat : Attempt(a, p)
  BY DEF LinkInv, SteadyInv
<1>2. PICK a \in Nat, p \in Nat : Attempt(a, p)
  BY <1>1
<1> DEFINE l == Len(Unread)
           e == Len(Whole)
<1>3. e = arrived + Len(toSend) /\ Len(toSend) \in Nat /\ arrived \in Nat /\ last \in Nat
  BY <1>1, WholeIs
<1>4. l \in Nat
  BY <1>1, UnreadIs
<1>5. a <= last /\ e <= a + Fields + 1
  BY <1>2 DEF Attempt
<1>6. last + l = arrived
  BY <1>1 DEF UnreadSteady
<1>7. Fields \in Nat /\ Fields + 1 < SERIAL_BUFFER_SIZE /\ SERIAL_BUFFER_SIZE \in Nat
  BY SensorAssumption
<1> HIDE DEF l, e
<1>8. l <= Fields + 1
  BY <1>3, <1>4, <1>5, <1>6, <1>7
<1>9. l < SERIAL_BUFFER_SIZE
  BY <1>4, <1>7, <1>8
<1> QED
  BY <1>9 DEF l

\* While the answer is read the attempt remains the same.
LEMMA AttemptStays ==
  ASSUME NEW a \in Nat, NEW p \in Nat, Attempt(a, p),
         UNCHANGED <<sensor, stream, toSend, asked, since, calls>>,
         last \in Nat, last' \in Nat, last <= last', last' <= Len(Whole),
         Len(dat') = (last' - a) + p,
         pc' = "byte" => (queue' # <<>> \/ a < last') /\ last' < Len(Whole),
         pc' = "event" => a < last',
         pc' \in {"drain", "parse"} => last' = Len(Whole)
  PROVE  Attempt(a, p)'
<1>1. Whole' = Whole
  BY DEF Whole
<1>2. a <= last'
  <2>1. a <= last
    BY DEF Attempt
  <2> QED
    BY <2>1
<1> QED
  BY <1>1, <1>2 DEF Attempt

\* Receiving keeps the order, and loses nothing of a sensor that is asked only.
LEMMA ReceiveKeeps ==
  ASSUME LinkInv, SerialEvent, pc \in {"wait", "event"}, pc' \in Places,
         UNCHANGED <<sensor, stream, toSend, dat, angle, asked, since, calls>>
  PROVE  /\ LinkTypes' /\ Order' /\ last' = last /\ arrived' = arrived
         /\ Steady => UnreadSteady'
<1>1. LinkTypes /\ Order /\ LoopInv /\ SteadyInv
  BY DEF LinkInv
<1>2. CASE line = <<>> /\ UNCHANGED serial
  <2>1. UNCHANGED <<line, queue, arrived, last>>
    BY <1>2 DEF serial
  <2>2. Unread' = Unread
    BY <2>1 DEF Unread
  <2> QED
    BY <1>1, <2>1, <2>2 DEF LinkTypes, Order, UnreadOrder, SteadyInv, UnreadSteady
<1>3. CASE Serial!Receive
  <2>1. /\ queue' \in Seq(1..arrived) /\ line' \in Seq(1..arrived)
        /\ arrived' = arrived /\ last' = last
    BY <1>1, <1>3, ReceiveMoves
  <2>2. PICK m \in 0..Len(Unread) : Moved(m) /\ (Len(Unread) < SERIAL_BUFFER_SIZE => m = 0)
    BY <1>1, <1>3, ReceiveMoves
  <2>3. LinkTypes'
    BY <1>1, <2>1 DEF LinkTypes
  <2>4. UnreadOrder'
    <3>1. UnreadOrder
      BY <1>1 DEF Order
    <3>4. last' = last
      BY <2>1
    <3>2. last' = last \/ (m # 0 /\ last' = Unread[m])
      BY <3>4
    <3>3. Moved(m)
      BY <2>2
    <3> QED
      BY <1>1, <2>1, <3>1, <3>2, <3>3, MovedOrder
  <2>5. Steady => UnreadSteady'
    <3> SUFFICES ASSUME Steady PROVE UnreadSteady'
      OBVIOUS
    <3>1. m = 0
      BY <2>2, NothingLost
    <3>2. UnreadSteady
      BY <1>1 DEF SteadyInv
    <3>3. last' = IF m = 0 THEN last ELSE Unread[m]
      BY <2>1, <3>1
    <3> QED
      BY <1>1, <2>1, <2>2, <3>2, <3>3, MovedSteady
  <2> QED
    BY <1>1, <2>1, <2>3, <2>4, <2>5 DEF Order
<1> QED
  BY <1>2, <1>3 DEF SerialEvent

\* What is used of an attempt.
LEMMA AttemptFacts ==
  ASSUME LinkTypes, NEW a \in Nat, NEW p \in Nat, Attempt(a, p)
  PROVE  /\ Len(Whole) \in Nat /\ arrived \in Nat /\ arrived <= Len(Whole)
         /\ last \in Nat /\ last <= arrived
         /\ Fields \in Nat /\ 0 < Fields
         /\ p <= a /\ a <= last
         /\ Len(dat) = (last - a) + p /\ Len(dat) \in Nat /\ DOMAIN dat = 1..Len(dat)
         /\ a + 1 <= Len(Whole) /\ Len(Whole) <= a + Fields + 1
         /\ sensor # "blank" => p <= 2 * Fields - 2 /\ asked - since <= Fields
         /\ \A i \in 1..arrived : Symbol(i) = Whole[i]
<1>1. /\ Len(Whole) = arrived + Len(toSend) /\ Len(toSend) \in Nat /\ arrived \in Nat
      /\ last \in Nat /\ last <= arrived /\ \A i \in 1..arrived : Whole[i] = stream[i]
  BY WholeIs
<1>2. Fields \in Nat /\ 0 < Fields
  BY SensorAssumption
<1>6. ASSUME sensor # "blank" PROVE p <= 2 * Fields - 2 /\ asked - since <= Fields
  <2>1. since \in Nat /\ asked \in Nat
    BY DEF LinkTypes
  <2> DEFINE r == asked - 1
             b == a - p
  <2>2. Past(stream, since, b, p, r) /\ NoBlank(stream, since, b, p, r)
    BY <1>6 DEF Attempt
  <2>3. r \in Int
    BY <2>1
  <2> HIDE DEF r, b
  <2>4. p <= 2 * Fields - 2 /\ r - since <= Fields - 1
    BY <2>1, <2>2, <2>3, PastFits
  <2> QED
    BY <1>2, <2>1, <2>4 DEF r
<1>3. Len(dat) \in Nat /\ DOMAIN dat = 1..Len(dat)
  BY LenProperties DEF LinkTypes
<1>4. Len(Whole) \in Nat /\ arrived <= Len(Whole)
  BY <1>1
<1>5. \A i \in 1..arrived : Symbol(i) = Whole[i]
  <2> TAKE i \in 1..arrived
  <2>1. i # 0
    BY <1>1
  <2> QED
    BY <1>1, <2>1 DEF Symbol
<1> QED
  BY <1>1, <1>2, <1>3, <1>4, <1>5, <1>6 DEF Attempt

\* The call waits for a byte.
LEMMA WaitStep == ASSUME LinkInv, Wait PROVE LinkInv'
<1>1. /\ pc = "wait" /\ pc' \in {"wait", "byte"}
      /\ UNCHANGED <<sensor, stream, toSend, dat, angle, asked, since, calls>>
      /\ \/ queue = <<>> /\ Serial!Receive /\ pc' = "wait"
         \/ queue # <<>> /\ pc' = "byte" /\ UNCHANGED <<line, queue, arrived, last>>
  BY DEF Wait, serial
<1>2. LinkTypes /\ Order /\ LoopInv /\ SteadyInv
  BY DEF LinkInv
<1>3. /\ LinkTypes' /\ Order' /\ last' = last /\ arrived' = arrived
      /\ Steady => UnreadSteady'
  <2>1. CASE Serial!Receive
    BY <1>1, <2>1, ReceiveKeeps DEF SerialEvent, Places
  <2>2. CASE UNCHANGED <<line, queue, arrived, last>>
    <3>1. Unread' = Unread
      BY <2>2 DEF Unread
    <3> QED
      BY <1>1, <1>2, <2>2, <3>1
         DEF LinkTypes, Places, Order, UnreadOrder, SteadyInv, UnreadSteady
  <2> QED
    BY <1>1, <2>1, <2>2
<1>4. LoopInv'
  BY <1>1 DEF LoopInv
<1>5. SteadyInv'
  <2> SUFFICES ASSUME Steady
               PROVE  /\ \A i \in DOMAIN dat : dat[i] = (last - Len(dat)) + i
                      /\ \E a \in Nat, p \in Nat : Attempt(a, p)'
    BY <1>1, <1>3 DEF SteadyInv, Steady
  <2>1. PICK a \in Nat, p \in Nat : Attempt(a, p)
    BY <1>1, <1>2 DEF SteadyInv
  <2>2. /\ Len(Whole) \in Nat /\ arrived \in Nat /\ arrived <= Len(Whole)
        /\ last \in Nat /\ last <= arrived
        /\ Len(dat) = (last - a) + p
    BY <1>2, <2>1, AttemptFacts
  <2>3. pc' = "byte" => queue' # <<>> /\ last < Len(Whole)
    <3> SUFFICES ASSUME pc' = "byte" PROVE queue' # <<>> /\ last < Len(Whole)
      OBVIOUS
    <3>1. queue' = queue /\ queue # <<>>
      BY <1>1
    <3>2. Len(queue) \in Nat /\ 0 < Len(queue) /\ Len(line) \in Nat
          /\ Len(Unread) = Len(queue) + Len(line)
      <4>1. queue \in Seq(1..arrived)
        BY <1>2 DEF LinkTypes
      <4>2. Len(queue) # 0
        BY <3>1, <4>1, EmptySeq
      <4>3. Len(queue) \in Nat /\ Len(line) \in Nat /\ Len(Unread) = Len(queue) + Len(line)
        BY <1>2, UnreadIs
      <4>4. 0 < Len(queue)
        BY <4>2, <4>3
      <4> QED
        BY <4>3, <4>4
    <3>3. last + Len(Unread) = arrived
      BY <1>2 DEF SteadyInv, UnreadSteady
    <3>4. last < arrived
      BY <2>2, <3>2, <3>3
    <3>5. last < Len(Whole)
      BY <2>2, <3>4
    <3> QED
      BY <3>1, <3>5
  <2>4. Attempt(a, p)'
    <3>1. last <= last' /\ last' <= Len(Whole) /\ last' \in Nat
      BY <1>3, <2>2
    <3> QED
      BY <1>1, <1>3, <2>1, <2>2, <2>3, <3>1, AttemptStays
  <2>5. \A i \in DOMAIN dat : dat[i] = (last - Len(dat)) + i
    BY <1>2 DEF SteadyInv
  <2> QED
    BY <2>4, <2>5
<1>6. SampleInOrder' /\ FreshSample' /\ SampleFromOwnCall'
  BY <1>1, SamplesLater
<1> QED
  BY <1>3, <1>4, <1>5, <1>6 DEF LinkInv

\* A byte is stored.
LEMMA StoreStep == ASSUME LinkInv, StoreByte PROVE LinkInv'
<1>1. /\ pc = "byte" /\ UNCHANGED <<sensor, stream, toSend, angle, asked, since, calls>>
      /\ \/ /\ queue # <<>> /\ Serial!Read /\ dat' = Append(dat, last')
            /\ pc' = IF Len(dat) = DatSize THEN "overrun" ELSE "event"
         \/ /\ queue = <<>> /\ pc' = "event"
            /\ UNCHANGED <<line, queue, arrived, last, dat>>
  BY DEF StoreByte, serial
<1>2. LinkTypes /\ Order /\ LoopInv /\ SteadyInv
  BY DEF LinkInv
<1>3. SampleInOrder' /\ FreshSample' /\ SampleFromOwnCall'
  BY <1>1, SamplesLater
<1>4. CASE queue = <<>> /\ pc' = "event" /\ UNCHANGED <<line, queue, arrived, last, dat>>
  <2>1. Unread' = Unread
    BY <1>4 DEF Unread
  <2>2. LinkTypes' /\ Order'
    BY <1>1, <1>2, <1>4, <2>1 DEF LinkTypes, Places, Order, UnreadOrder
  <2>3. LoopInv'
    BY <1>1, <1>2, <1>4 DEF LoopInv
  <2>4. ASSUME Steady PROVE \E a \in Nat, p \in Nat : Attempt(a, p)'
    <3>1. PICK a \in Nat, p \in Nat : Attempt(a, p)
      BY <1>1, <1>2, <2>4 DEF SteadyInv
    <3>2. /\ Len(Whole) \in Nat /\ arrived \in Nat /\ arrived <= Len(Whole)
          /\ last \in Nat /\ last <= arrived /\ Len(dat) = (last - a) + p
      BY <1>2, <3>1, AttemptFacts
    <3>3. a < last
      BY <1>1, <1>4, <3>1 DEF Attempt
    <3>4. last <= last' /\ last' <= Len(Whole) /\ last' \in Nat /\ a < last'
      BY <1>4, <3>2, <3>3
    <3>5. Attempt(a, p)'
      BY <1>1, <1>4, <3>1, <3>2, <3>4, AttemptStays
    <3> QED
      BY <3>5
  <2>5. SteadyInv'
    BY <1>1, <1>2, <1>4, <2>1, <2>4 DEF SteadyInv, Steady, UnreadSteady
  <2> QED
    BY <1>3, <2>2, <2>3, <2>5 DEF LinkInv
<1>5. CASE /\ Serial!Read /\ dat' = Append(dat, last')
           /\ pc' = IF Len(dat) = DatSize THEN "overrun" ELSE "event"
  <2>1. /\ queue' \in Seq(1..arrived) /\ line' \in Seq(1..arrived) /\ arrived' = arrived
        /\ 1 \in 1..Len(Unread) /\ last' = Unread[1] /\ Moved(1)
    BY <1>2, <1>5, ReadMoves
  <2>2. /\ last \in Nat /\ arrived \in Nat /\ last' \in 1..arrived /\ last < last'
        /\ Len(Unread) \in Nat /\ 1 \in 0..Len(Unread)
        /\ dat \in Seq(1..last) /\ Len(dat) \in Nat /\ DOMAIN dat = 1..Len(dat)
    <3>1. Unread \in Seq(1..arrived) /\ DOMAIN Unread = 1..Len(Unread) /\ Len(Unread) \in Nat
      BY <1>2, UnreadIs
    <3>2. Unread[1] \in 1..arrived
      BY <2>1, <3>1, ElementOfSeq
    <3>3. last < Unread[1]
      BY <1>2, <2>1, <3>1 DEF Order, UnreadOrder
    <3>4. /\ last \in Nat /\ arrived \in Nat /\ dat \in Seq(1..last)
      BY <1>2, SensorAssumption DEF LinkTypes
    <3>5. Len(dat) \in Nat /\ DOMAIN dat = 1..Len(dat)
      BY <3>4, LenProperties
    <3>6. 1 \in 0..Len(Unread)
      BY <2>1, <3>1
    <3> QED
      BY <2>1, <3>1, <3>2, <3>3, <3>4, <3>5, <3>6
  <2>3. /\ dat' \in Seq(1..last') /\ Len(dat') = Len(dat) + 1
        /\ DOMAIN dat' = 1..(Len(dat) + 1)
        /\ \A i \in 1..Len(dat) : dat'[i] = dat[i] /\ dat[i] \in 1..last
        /\ dat'[Len(dat) + 1] = last'
    <3>1. 1..last \subseteq 1..last' /\ last' \in 1..last'
      BY <2>2
    <3>2. dat \in Seq(1..last')
      BY <2>2, <3>1, SeqWiden
    <3> DEFINE b == last'
               S == 1..last'
    <3>3. dat \in Seq(S) /\ b \in S /\ dat' = Append(dat, b)
      BY <1>5, <3>1, <3>2
    <3> HIDE DEF b, S
    <3>4. /\ dat' \in Seq(S) /\ Len(dat') = Len(dat) + 1
          /\ \A i \in 1..Len(dat) : dat'[i] = dat[i]
          /\ dat'[Len(dat) + 1] = b
      BY <3>3, AppendProperties
    <3>5. DOMAIN dat' = 1..(Len(dat) + 1)
      BY <3>4, LenProperties
    <3>6. \A i \in 1..Len(dat) : dat[i] \in 1..last
      BY <2>2, ElementOfSeq
    <3> QED
      BY <3>4, <3>5, <3>6 DEF b, S
  <2>4. LinkTypes'
    <3>1. last' \in 0..arrived'
      BY <2>1, <2>2
    <3>2. pc' \in Places
      BY <1>5 DEF Places
    <3> QED
      BY <1>1, <1>2, <2>1, <2>3, <3>1, <3>2 DEF LinkTypes
  <2>5. Order'
    <3>1. UnreadOrder'
      <4>1. UnreadOrder
        BY <1>2 DEF Order
      <4>2. last' = last \/ (1 # 0 /\ last' = Unread[1])
        BY <2>1
      <4> QED
        BY <1>2, <2>1, <2>2, <4>1, <4>2, MovedOrder
    <3>2. ASSUME NEW i \in DOMAIN dat', NEW j \in DOMAIN dat', i < j PROVE dat'[i] < dat'[j]
      <4>1. i \in 1..Len(dat) /\ (j \in 1..Len(dat) \/ j = Len(dat) + 1)
        BY <2>2, <2>3, <3>2, SMTT(40)
      <4>2. CASE j \in 1..Len(dat)
        BY <1>2, <2>2, <2>3, <3>2, <4>1, <4>2 DEF Order
      <4>3. CASE j = Len(dat) + 1
        <5>1. dat'[i] \in 1..last /\ dat'[j] = last'
          BY <2>3, <4>1, <4>3
        <5> QED
          BY <2>2, <5>1
      <4> QED
        BY <4>1, <4>2, <4>3
    <3> QED
      BY <3>1, <3>2 DEF Order
  <2>6. LoopInv'
    <3>1. dat' # <<>>
      BY <2>2, <2>3
    <3> QED
      BY <3>1 DEF LoopInv
  <2>7. SteadyInv'
    <3> SUFFICES ASSUME Steady
                 PROVE  /\ pc' = "event" \/ (pc' = "overrun" /\ sensor = "blank")
                        /\ UnreadSteady'
                        /\ \A i \in DOMAIN dat' : dat'[i] = (last' - Len(dat')) + i
                        /\ \E a \in Nat, p \in Nat : Attempt(a, p)'
      BY <1>1 DEF SteadyInv, Steady
    <3>1. PICK a \in Nat, p \in Nat : Attempt(a, p)
      BY <1>1, <1>2 DEF SteadyInv
    <3>2. /\ Len(Whole) \in Nat /\ arrived <= Len(Whole)
          /\ Fields \in Nat /\ a <= last
          /\ sensor # "blank" => p <= 2 * Fields - 2
          /\ Len(Whole) <= a + Fields + 1 /\ Len(dat) = (last - a) + p
      BY <1>2, <3>1, AttemptFacts
    <3>3. UnreadSteady' /\ last' = last + 1
      <4>1. UnreadSteady
        BY <1>2 DEF SteadyInv
      <4>2. last' = IF 1 = 0 THEN last ELSE Unread[1]
        BY <2>1
      <4> QED
        BY <1>2, <2>1, <2>2, <4>1, <4>2, MovedSteady
    <3>4. pc' = "event" \/ (pc' = "overrun" /\ sensor = "blank")
      <4>1. last < Len(Whole)
        BY <1>1, <3>1 DEF Attempt
      <4>2. DatSize \in Nat /\ 3 * Fields - 1 <= DatSize
        BY SensorAssumption
      <4>3. sensor # "blank" => Len(dat) <= 3 * Fields - 2
        BY <2>2, <3>2, <4>1
      <4>4. sensor # "blank" => Len(dat) # DatSize
        BY <2>2, <3>2, <4>2, <4>3
      <4> QED
        BY <1>5, <4>4
    <3>5. ASSUME NEW i \in 1..(Len(dat) + 1) PROVE dat'[i] = (last' - Len(dat')) + i
      <4>1. i \in 1..Len(dat) \/ i = Len(dat) + 1
        BY <2>2
      <4>2. CASE i \in 1..Len(dat)
        <5>1. dat[i] = (last - Len(dat)) + i
          BY <1>2, <2>2, <4>2 DEF SteadyInv
        <5>2. (last - Len(dat)) + i = (last' - Len(dat')) + i
          BY <2>2, <2>3, <3>3, <4>2
        <5> QED
          BY <2>3, <4>2, <5>1, <5>2
      <4>3. CASE i = Len(dat) + 1
        <5>1. (last' - Len(dat')) + i = last'
          BY <2>2, <2>3, <3>3, <4>3
        <5> QED
          BY <2>3, <4>3, <5>1
      <4> QED
        BY <4>1, <4>2, <4>3
    <3>6. Attempt(a, p)'
      <4>1. Len(dat') = (last' - a) + p
        BY <2>2, <2>3, <3>2, <3>3
      <4>2. a < last' /\ last <= last' /\ last' \in Nat /\ last' <= Len(Whole)
        BY <2>2, <3>2, <3>3
      <4> QED
        BY <1>1, <2>2, <3>1, <3>4, <4>1, <4>2, AttemptStays
    <3>7. \E c \in Nat, q \in Nat : Attempt(c, q)'
      BY <3>6
    <3> QED
      BY <2>3, <3>3, <3>4, <3>5, <3>7
  <2> QED
    BY <1>3, <2>4, <2>5, <2>6, <2>7 DEF LinkInv
<1> QED
  BY <1>1, <1>4, <1>5

\* The call receives, and looks at the last byte.
LEMMA EventStep == ASSUME LinkInv, EventInLoop PROVE LinkInv'
<1>1. /\ pc = "event" /\ SerialEvent
      /\ pc' = IF Symbol(dat[Len(dat)]) = LF THEN "drain" ELSE "byte"
      /\ UNCHANGED <<sensor, stream, toSend, dat, angle, asked, since, calls>>
  BY DEF EventInLoop
<1>2. LinkTypes /\ Order /\ LoopInv /\ SteadyInv
  BY DEF LinkInv
<1>3. pc' \in {"drain", "byte"} /\ pc' \in Places
  BY <1>1 DEF Places
<1>4. /\ LinkTypes' /\ Order' /\ last' = last /\ arrived' = arrived
      /\ Steady => UnreadSteady'
  BY <1>1, <1>3, ReceiveKeeps
<1>5. LoopInv'
  BY <1>1, <1>2, <1>3 DEF LoopInv
<1>6. SteadyInv'
  <2> SUFFICES ASSUME Steady
               PROVE  /\ \A i \in DOMAIN dat : dat[i] = (last - Len(dat)) + i
                      /\ \E a \in Nat, p \in Nat : Attempt(a, p)'
    BY <1>1, <1>3, <1>4 DEF SteadyInv, Steady
  <2>1. PICK a \in Nat, p \in Nat : Attempt(a, p)
    BY <1>1, <1>2 DEF SteadyInv
  <2>2. /\ Len(Whole) \in Nat /\ arrived \in Nat /\ arrived <= Len(Whole)
        /\ last \in Nat /\ last <= arrived /\ Len(dat) = (last - a) + p
        /\ Len(dat) \in Nat /\ DOMAIN dat = 1..Len(dat)
        /\ \A i \in 1..arrived : Symbol(i) = Whole[i]
    BY <1>2, <2>1, AttemptFacts
  <2>3. \A i \in DOMAIN dat : dat[i] = (last - Len(dat)) + i
    BY <1>2 DEF SteadyInv
  <2>4. a < last
    BY <1>1, <2>1 DEF Attempt
  <2>5. dat[Len(dat)] = last
    <3>1. Len(dat) \in 1..Len(dat)
      BY <2>2, <2>4
    <3>2. dat[Len(dat)] = (last - Len(dat)) + Len(dat)
      BY <2>2, <2>3, <3>1
    <3> QED
      BY <2>2, <3>2
  <2>6. Symbol(last) = Whole[last]
    BY <2>2, <2>4
  <2>7. Symbol(last) = LF <=> last = Len(Whole)
    <3>1. Answer(Whole, a, Len(Whole) - a - 1, asked)
      BY <2>1 DEF Attempt
    <3>2. CASE last = Len(Whole)
      <4>1. a + (Len(Whole) - a - 1) + 1 = Len(Whole)
        BY <2>2
      <4> QED
        BY <2>6, <3>1, <3>2, <4>1 DEF Answer
    <3>3. CASE last # Len(Whole)
      <4>1. last - a \in 1..(Len(Whole) - a - 1) /\ a + (last - a) = last
        BY <2>2, <2>4, <3>3
      <4>2. Whole[last] = Num(asked, last - a)
        BY <3>1, <4>1 DEF Answer
      <4>3. Num(asked, last - a) # LF
        BY DEF Num, LF
      <4> QED
        BY <2>6, <3>3, <4>2, <4>3
    <3> QED
      BY <3>2, <3>3
  <2>8. pc' = "drain" <=> last = Len(Whole)
    BY <1>1, <2>5, <2>7
  <2>9. Attempt(a, p)'
    <3>1. last <= last' /\ last' <= Len(Whole) /\ last' \in Nat /\ a < last'
      BY <1>4, <2>2, <2>4
    <3>2. pc' = "byte" => last' < Len(Whole)
      BY <1>4, <2>2, <2>8
    <3>3. pc' = "drain" => last' = Len(Whole)
      BY <1>4, <2>8
    <3> QED
      BY <1>1, <1>3, <1>4, <2>1, <2>2, <3>1, <3>2, <3>3, AttemptStays
  <2>10. \E c \in Nat, q \in Nat : Attempt(c, q)'
    BY <2>9
  <2> QED
    BY <2>3, <2>10
<1>7. SampleInOrder' /\ FreshSample' /\ SampleFromOwnCall'
  BY <1>3, SamplesLater
<1> QED
  BY <1>4, <1>5, <1>6, <1>7 DEF LinkInv

\* What came behind the line feed is thrown away.
LEMMA DrainStep == ASSUME LinkInv, Drain PROVE LinkInv'
<1>1. /\ pc = "drain" /\ UNCHANGED <<sensor, stream, toSend, dat, angle, asked, since, calls>>
      /\ \/ queue # <<>> /\ Serial!Read /\ pc' = "drain"
         \/ pc' = "parse" /\ UNCHANGED <<line, queue, arrived, last>>
  BY DEF Drain, serial
<1>2. LinkTypes /\ Order /\ LoopInv /\ SteadyInv
  BY DEF LinkInv
<1>3. SampleInOrder' /\ FreshSample' /\ SampleFromOwnCall'
  BY <1>1, SamplesLater
<1>4. LoopInv'
  BY <1>1 DEF LoopInv
<1>5. CASE pc' = "parse" /\ UNCHANGED <<line, queue, arrived, last>>
  <2>1. Unread' = Unread
    BY <1>5 DEF Unread
  <2>2. LinkTypes' /\ Order'
    BY <1>1, <1>2, <1>5, <2>1 DEF LinkTypes, Places, Order, UnreadOrder
  <2>3. ASSUME Steady PROVE \E a \in Nat, p \in Nat : Attempt(a, p)'
    <3>1. PICK a \in Nat, p \in Nat : Attempt(a, p)
      BY <1>1, <1>2, <2>3 DEF SteadyInv
    <3>2. /\ Len(Whole) \in Nat /\ arrived \in Nat /\ arrived <= Len(Whole)
          /\ last \in Nat /\ last <= arrived /\ Len(dat) = (last - a) + p
      BY <1>2, <3>1, AttemptFacts
    <3>3. last = Len(Whole)
      BY <1>1, <3>1 DEF Attempt
    <3>4. last <= last' /\ last' <= Len(Whole) /\ last' \in Nat /\ last' = Len(Whole)
      BY <1>5, <3>2, <3>3
    <3>5. Attempt(a, p)'
      BY <1>1, <1>5, <3>1, <3>2, <3>4, AttemptStays
    <3> QED
      BY <3>5
  <2>4. SteadyInv'
    BY <1>1, <1>2, <1>5, <2>1, <2>3 DEF SteadyInv, Steady, UnreadSteady
  <2> QED
    BY <1>3, <1>4, <2>2, <2>4 DEF LinkInv
<1>6. CASE Serial!Read /\ pc' = "drain"
  <2>1. /\ queue' \in Seq(1..arrived) /\ line' \in Seq(1..arrived) /\ arrived' = arrived
        /\ 1 \in 1..Len(Unread) /\ last' = Unread[1] /\ Moved(1)
    BY <1>2, <1>6, ReadMoves
  <2>2. /\ last \in Nat /\ arrived \in Nat /\ last' \in 1..arrived /\ last < last'
        /\ Len(Unread) \in Nat /\ 1 \in 0..Len(Unread) /\ dat \in Seq(1..last)
    <3>1. Unread \in Seq(1..arrived) /\ DOMAIN Unread = 1..Len(Unread) /\ Len(Unread) \in Nat
      BY <1>2, UnreadIs
    <3>2. Unread[1] \in 1..arrived
      BY <2>1, <3>1, ElementOfSeq
    <3>3. last < Unread[1]
      BY <1>2, <2>1, <3>1 DEF Order, UnreadOrder
    <3>4. /\ last \in Nat /\ arrived \in Nat /\ dat \in Seq(1..last)
      BY <1>2, SensorAssumption DEF LinkTypes
    <3>5. 1 \in 0..Len(Unread)
      BY <2>1, <3>1
    <3> QED
      BY <2>1, <3>1, <3>2, <3>3, <3>4, <3>5
  <2>3. LinkTypes'
    <3>1. last' \in 0..arrived'
      BY <2>1, <2>2
    <3>2. pc' \in Places
      BY <1>6 DEF Places
    <3>3. 1..last \subseteq 1..last'
      BY <2>2
    <3>4. dat' \in Seq(1..last')
      BY <1>1, <2>2, <3>3, SeqWiden
    <3> QED
      BY <1>1, <1>2, <2>1, <3>1, <3>2, <3>4 DEF LinkTypes
  <2>4. Order'
    <3>1. UnreadOrder
      BY <1>2 DEF Order
    <3>2. last' = last \/ (1 # 0 /\ last' = Unread[1])
      BY <2>1
    <3>3. UnreadOrder'
      BY <1>2, <2>1, <2>2, <3>1, <3>2, MovedOrder
    <3> QED
      BY <1>1, <1>2, <3>3 DEF Order
  <2>5. ~Steady
    <3> SUFFICES ASSUME Steady PROVE FALSE
      OBVIOUS
    <3>1. PICK a \in Nat, p \in Nat : Attempt(a, p)
      BY <1>1, <1>2 DEF SteadyInv
    <3>2. Len(Whole) \in Nat /\ arrived <= Len(Whole)
      BY <1>2, <3>1, AttemptFacts
    <3>3. last = Len(Whole)
      BY <1>1, <3>1 DEF Attempt
    <3> QED
      BY <2>2, <3>2, <3>3
  <2>6. SteadyInv'
    BY <1>1, <2>5 DEF SteadyInv, Steady
  <2> QED
    BY <1>3, <1>4, <2>3, <2>4, <2>6 DEF LinkInv
<1> QED
  BY <1>1, <1>5, <1>6

\* How many numbers the answer behind a has.
Numbers(a) == Len(Whole) - a - 1

\* Where nothing is lost, dat holds the last answer behind those before.
LEMMA DatIs ==
  ASSUME LinkInv, pc = "parse", Steady, NEW a \in Nat, NEW p \in Nat, Attempt(a, p),
         NEW N, N = Numbers(a)
  PROVE  /\ last = Len(Whole) /\ last = arrived /\ last \in Nat /\ toSend = <<>> /\ Unread = <<>>
         /\ N \in Nat /\ N <= Fields /\ last = a + N + 1
         /\ p <= a /\ Len(dat) = p + N + 1 /\ DOMAIN dat = 1..(p + N + 1)
         /\ \A i \in DOMAIN dat : /\ dat[i] = (a - p) + i
                                  /\ Symbol(dat[i]) = stream[(a - p) + i]
                                  /\ i = p + N + 1 => Symbol(dat[i]) = LF
                                  /\ p < i /\ i <= p + N => Symbol(dat[i]) = Num(asked, i - p)
<1>1. LinkTypes /\ SteadyInv
  BY DEF LinkInv
<1>2. /\ Len(Whole) \in Nat /\ arrived \in Nat /\ arrived <= Len(Whole)
      /\ last \in Nat /\ last <= arrived
      /\ Fields \in Nat /\ 0 < Fields
      /\ p <= a /\ a <= last
      /\ Len(dat) = (last - a) + p /\ Len(dat) \in Nat /\ DOMAIN dat = 1..Len(dat)
      /\ a + 1 <= Len(Whole) /\ Len(Whole) <= a + Fields + 1
      /\ \A i \in 1..arrived : Symbol(i) = Whole[i]
  BY <1>1, AttemptFacts
<1>3. last = Len(Whole)
  BY DEF Attempt
<1>4. last = arrived
  BY <1>2, <1>3
<1>5. toSend = <<>>
  <2>1. Len(toSend) \in Nat /\ Len(Whole) = arrived + Len(toSend)
    BY <1>1, WholeIs
  <2> DEFINE l == Len(toSend)
  <2>3. arrived = arrived + l /\ l \in Nat
    BY <1>3, <1>4, <2>1
  <2> HIDE DEF l
  <2>4. l = 0
    BY <1>2, <2>3
  <2>2. Len(toSend) = 0
    BY <2>4 DEF l
  <2> QED
    BY <1>1, <2>2, EmptySeq DEF LinkTypes
<1>6. Unread = <<>>
  <2>1. Unread \in Seq(1..arrived) /\ Len(Unread) \in Nat
    BY <1>1, UnreadIs, LenProperties
  <2>2. last + Len(Unread) = arrived
    BY <1>1 DEF SteadyInv, UnreadSteady
  <2>3. Len(Unread) = 0
    BY <1>2, <1>4, <2>1, <2>2
  <2> QED
    BY <2>1, <2>3, EmptySeq
<1>7. N \in Nat /\ N <= Fields /\ last = a + N + 1 /\ Len(dat) = p + N + 1
  BY <1>2, <1>3 DEF Numbers
<1>14. N \in Int /\ N \in Nat /\ p + N + 1 = Len(dat)
  BY <1>7
<1>8. ASSUME NEW i \in DOMAIN dat PROVE dat[i] = (a - p) + i /\ dat[i] \in 1..arrived
  <2>1. dat[i] = (last - Len(dat)) + i
    BY <1>1 DEF SteadyInv
  <2>2. i \in 1..(p + N + 1) /\ i \in 1..Len(dat) /\ i \in Int
    BY <1>2, <1>14
  <2>3. dat[i] = (a - p) + i
    BY <1>2, <1>7, <1>14, <2>1, <2>2, SMTT(40)
  <2>4. (a - p) + i \in 1..arrived
    <3>1. 1 <= i /\ i <= p + N + 1 /\ i \in Int /\ N \in Int
      BY <1>14, <2>2
    <3>2. p <= a /\ arrived = a + N + 1 /\ arrived \in Int
      BY <1>2, <1>4, <1>7
    <3>3. 1 <= (a - p) + i /\ (a - p) + i <= a + N + 1
      BY <3>1, <3>2
    <3> QED
      BY <3>1, <3>2, <3>3
  <2> QED
    BY <2>3, <2>4
<1>9. Answer(Whole, a, N, asked)
  BY DEF Attempt, Numbers
<1>11. \A i \in 1..arrived : Whole[i] = stream[i]
  BY <1>1, WholeIs
<1>12. ASSUME NEW i \in DOMAIN dat
       PROVE  /\ Symbol(dat[i]) = stream[(a - p) + i]
              /\ i = p + N + 1 => Symbol(dat[i]) = LF
              /\ p < i /\ i <= p + N => Symbol(dat[i]) = Num(asked, i - p)
  <2>1. i \in 1..(p + N + 1) /\ i \in Nat
    BY <1>2, <1>14
  <2>2. Symbol(dat[i]) = Whole[(a - p) + i] /\ Whole[(a - p) + i] = stream[(a - p) + i]
    BY <1>2, <1>8, <1>11
  <2>5. ASSUME i = p + N + 1 PROVE Symbol(dat[i]) = LF
    <3>1. a + N + 1 = (a - p) + i
      <4>1. a \in Int /\ p \in Int /\ N \in Int
        BY <1>2, <1>14
      <4> QED
        BY <2>5, <4>1
    <3> QED
      BY <1>9, <2>2, <3>1 DEF Answer
  <2>6. ASSUME p < i, i <= p + N PROVE Symbol(dat[i]) = Num(asked, i - p)
    <3>1. i - p \in 1..N /\ a + (i - p) = (a - p) + i
      <4>1. i \in Int /\ N \in Int
        BY <1>14, <2>1
      <4> QED
        BY <2>6, <4>1
    <3>2. Whole[a + (i - p)] = Num(asked, i - p)
      BY <1>9, <3>1 DEF Answer
    <3> QED
      BY <2>2, <3>1, <3>2
  <2> QED
    BY <2>2, <2>5, <2>6
<1>13. DOMAIN dat = 1..(p + N + 1)
  BY <1>2, <1>7
<1> QED
  BY <1>2, <1>3, <1>4, <1>5, <1>6, <1>7, <1>8, <1>12, <1>13

\* What sscanf sees of it are the numbers.
LEMMA ShownIs ==
  ASSUME LinkInv, pc = "parse", Steady, NEW a \in Nat, NEW p \in Nat, Attempt(a, p),
         NEW N, N = Numbers(a)
  PROVE  /\ Shown = Said(stream, a - p, p) \cup ((p + 1)..(p + N))
         /\ Shown = Said(stream, a - p, p + N + 1)
         /\ Cardinality(Said(stream, a - p, p)) \in Nat
         /\ Cardinality(Shown) = Cardinality(Said(stream, a - p, p)) + N
         /\ \A i \in DOMAIN dat : stream[(a - p) + i] \in Spoken(since, asked)
         /\ \A i \in Shown : /\ Symbol(dat[i]).kind = "num"
                             /\ Symbol(dat[i]).reply \in (since + 1)..asked
<1>1. /\ N \in Nat /\ DOMAIN dat = 1..(p + N + 1)
      /\ \A i \in DOMAIN dat : /\ Symbol(dat[i]) = stream[(a - p) + i]
                               /\ i = p + N + 1 => Symbol(dat[i]) = LF
                               /\ p < i /\ i <= p + N => Symbol(dat[i]) = Num(asked, i - p)
  BY DatIs
<1>2. \A r, k : /\ Num(r, k) # LF /\ Num(r, k).kind = "num" /\ Num(r, k).reply = r
  BY DEF Num, LF
<1>3. since < asked /\ since \in Nat /\ asked \in Nat
  BY DEF Attempt, LinkInv, LinkTypes
<1> DEFINE A == Said(stream, a - p, p)
           B == (p + 1)..(p + N)
<1>4. Shown = Said(stream, a - p, p + N + 1)
  BY <1>1 DEF Shown, Said
<1>5. ASSUME NEW i PROVE i \in Shown <=> i \in A \cup B
  <2>1. CASE i \notin 1..(p + N + 1)
    <3>1. ~(i \in 1..p) /\ ~(i \in B)
      BY <1>1, <2>1
    <3> QED
      BY <1>1, <2>1, <3>1 DEF Shown, Said
  <2>2. CASE i \in 1..(p + N + 1)
    <3>1. i \in Nat /\ 1 <= i /\ i <= p + N + 1 /\ i \in DOMAIN dat
      BY <1>1, <2>2
    <3>2. i \in Shown <=> stream[(a - p) + i] # LF
      BY <1>1, <3>1 DEF Shown
    <3>3. CASE i <= p
      <4>1. i \in 1..p /\ ~(i \in B)
        BY <3>1, <3>3
      <4> QED
        BY <3>2, <4>1 DEF Said
    <3>4. CASE i = p + N + 1
      <4>1. ~(i \in 1..p) /\ ~(i \in B)
        BY <1>1, <3>1, <3>4
      <4>2. ~(i \in A)
        BY <4>1 DEF Said
      <4> QED
        BY <1>1, <3>1, <3>2, <3>4, <4>1, <4>2
    <3>5. CASE p < i /\ i <= p + N
      <4>1. i \in B
        BY <1>1, <3>1, <3>5
      <4>2. stream[(a - p) + i] = Num(asked, i - p)
        BY <1>1, <3>1, <3>5
      <4> QED
        BY <1>2, <3>2, <4>1, <4>2
    <3> QED
      BY <1>1, <3>1, <3>3, <3>4, <3>5
  <2> QED
    BY <2>1, <2>2
<1>6. Shown = A \cup B
  BY <1>5
<1>7. Cardinality(A) \in Nat /\ Cardinality(Shown) = Cardinality(A) + N
  <2>1. IsFiniteSet(A) /\ Cardinality(A) \in Nat
    BY SaidSize
  <2>2. IsFiniteSet(B) /\ Cardinality(B) = N
    <3>1. p + 1 \in Int /\ p + N \in Int
      BY <1>1
    <3>2. IsFiniteSet(B) /\ Cardinality(B) = IF p + 1 > p + N THEN 0 ELSE (p + N) - (p + 1) + 1
      BY <3>1, FS_Interval
    <3> HIDE DEF A, B
    <3> QED
      BY <1>1, <3>2
  <2>3. A \cap B = {}
    BY <1>1 DEF Said
  <2> HIDE DEF A, B
  <2>4. Cardinality(A \cap B) = 0
    BY <2>3, FS_EmptySet
  <2>5. Cardinality(Shown) = Cardinality(A) + Cardinality(B) - Cardinality(A \cap B)
    BY <1>6, <2>1, <2>2, FS_Union
  <2> QED
    BY <1>1, <2>1, <2>2, <2>4, <2>5
<1>8. ASSUME NEW i \in DOMAIN dat PROVE stream[(a - p) + i] \in Spoken(since, asked)
  <2>1. i \in Nat /\ 1 <= i /\ i <= p + N + 1
    BY <1>1
  <2>2. CASE i <= p
    <3>1. i \in 1..p
      BY <2>1, <2>2
    <3>2. stream[(a - p) + i] \in Spoken(since, asked - 1)
      BY <3>1 DEF Attempt, Past
    <3>3. (since + 1)..(asked - 1) \subseteq (since + 1)..asked
      BY <1>3
    <3>4. Spoken(since, asked - 1) \subseteq Spoken(since, asked)
      BY <3>3 DEF Spoken
    <3> QED
      BY <3>2, <3>4
  <2>3. CASE i = p + N + 1
    BY <1>1, <2>3 DEF Spoken
  <2>4. CASE p < i /\ i <= p + N
    <3>1. stream[(a - p) + i] = Num(asked, i - p)
      BY <1>1, <2>4
    <3>2. i - p \in Nat /\ asked \in (since + 1)..asked
      BY <1>3, <2>1, <2>4
    <3> QED
      BY <3>1, <3>2 DEF Spoken
  <2> QED
    BY <1>1, <2>1, <2>2, <2>3, <2>4
<1>9. ASSUME NEW i \in Shown
      PROVE  /\ Symbol(dat[i]).kind = "num"
             /\ Symbol(dat[i]).reply \in (since + 1)..asked
  <2>1. i \in DOMAIN dat /\ Symbol(dat[i]) # LF
    BY DEF Shown
  <2>2. Symbol(dat[i]) \in Spoken(since, asked)
    BY <1>1, <1>8, <2>1
  <2>3. PICK t \in (since + 1)..asked, k \in Nat : Symbol(dat[i]) = Num(t, k)
    BY <2>1, <2>2 DEF Spoken
  <2> QED
    BY <1>2, <2>3
<1> QED
  BY <1>4, <1>6, <1>7, <1>8, <1>9

\* What sscanf sees, one by one.
LEMMA VisibleIs ==
  ASSUME LinkTypes, NEW n \in Nat, NEW s, s = Visible([k \in 1..n |-> 0])
  PROVE  /\ Cardinality(Shown) \in Nat /\ Len(s) = Cardinality(Shown) + n
         /\ \A k \in 1..Cardinality(Shown) :
               /\ Nth(Shown, k) \in Shown /\ s[k] = dat[Nth(Shown, k)] /\ s[k] \in 1..last
         /\ \A k \in (Cardinality(Shown) + 1)..(Cardinality(Shown) + n) : s[k] = 0
         /\ \A j, k \in 1..Cardinality(Shown) : j < k => Nth(Shown, j) < Nth(Shown, k)
<1> DEFINE V == Picked(dat, Shown)
           C == Cardinality(Shown)
           z == [k \in 1..n |-> 0]
<1>1. dat \in Seq(1..last) /\ Shown \in SUBSET (DOMAIN dat) /\ last \in Nat
  BY SensorAssumption DEF LinkTypes, Shown
<1>2. /\ V \in Seq(1..last) /\ Len(V) = C /\ C \in 0..Len(dat)
      /\ \A k \in 1..C : Nth(Shown, k) \in Shown /\ V[k] = dat[Nth(Shown, k)]
      /\ \A k, l \in 1..C : k < l => Nth(Shown, k) < Nth(Shown, l)
  BY <1>1, PickedIs
<1>3. C \in Nat
  BY <1>1, <1>2, LenProperties
<1>4. z \in Seq({0}) /\ Len(z) = n /\ \A k \in 1..n : z[k] = 0
  OBVIOUS
<1>5. s = V \o z
  BY DEF Visible
<1> HIDE DEF V, C, z
<1>6. V \in Seq(0..last) /\ z \in Seq(0..last)
  <2>1. 1..last \subseteq 0..last /\ {0} \subseteq 0..last
    BY <1>1
  <2> QED
    BY <1>2, <1>4, <2>1, SeqWiden
<1>7. /\ Len(s) = C + n
      /\ \A k \in 1..(C + n) : s[k] = IF k <= C THEN V[k] ELSE z[k - C]
  <2>1. /\ Len(s) = Len(V) + Len(z)
        /\ \A k \in 1..(Len(V) + Len(z)) : s[k] = IF k <= Len(V) THEN V[k] ELSE z[k - Len(V)]
    <3> DEFINE S == 0..last
    <3>1. V \in Seq(S) /\ z \in Seq(S)
      BY <1>6
    <3> HIDE DEF S
    <3>2. /\ Len(V \o z) = Len(V) + Len(z)
          /\ \A k \in 1..(Len(V) + Len(z)) :
                (V \o z)[k] = IF k <= Len(V) THEN V[k] ELSE z[k - Len(V)]
      BY <3>1, ConcatProperties, Zenon
    <3> QED
      BY <1>5, <3>2, Zenon
  <2> QED
    BY <1>2, <1>4, <2>1
<1>8. ASSUME NEW k \in 1..C PROVE s[k] = dat[Nth(Shown, k)] /\ s[k] \in 1..last
  <2>1. k \in 1..(C + n) /\ k <= C
    BY <1>3
  <2>2. s[k] = V[k]
    BY <1>7, <2>1
  <2>3. V[k] \in 1..last
    BY <1>2, ElementOfSeq
  <2> QED
    BY <1>2, <2>2, <2>3
<1>9. ASSUME NEW k \in (C + 1)..(C + n) PROVE s[k] = 0
  <2>1. k \in 1..(C + n) /\ ~(k <= C) /\ k - C \in 1..n
    BY <1>3
  <2> QED
    BY <1>4, <1>7, <2>1
<1> QED
  BY <1>2, <1>3, <1>7, <1>8, <1>9 DEF C

\* The call asks again when it has fewer numbers than it needs.
LEMMA TooFew ==
  ASSUME LinkInv, pc = "parse", Steady, NEW a \in Nat, NEW p \in Nat, Attempt(a, p),
         NEW n \in Nat, NEW s, s = Visible([k \in 1..n |-> 0]), Scanned(s) # 1..Fields
  PROVE  Cardinality(Shown) < Fields
<1> DEFINE C == Cardinality(Shown)
<1>3. \A i \in Shown : Symbol(dat[i]).kind = "num"
  BY ShownIs
<1>4. Fields \in Nat
  BY SensorAssumption
<1>5. /\ Len(s) = C + n /\ C \in Nat
      /\ \A k \in 1..C : Nth(Shown, k) \in Shown /\ s[k] = dat[Nth(Shown, k)]
      /\ \A k \in (C + 1)..(C + n) : s[k] = 0
  BY VisibleIs DEF LinkInv
<1> HIDE DEF C
<1>7. ASSUME Fields <= C PROVE FALSE
  <2>2. ASSUME NEW k \in 1..Fields
        PROVE  k <= Len(s) /\ \A m \in 1..k : Symbol(s[m]).kind = "num"
    <3>1. k <= Len(s)
      BY <1>4, <1>5, <1>7
    <3>2. ASSUME NEW m \in 1..k PROVE Symbol(s[m]).kind = "num"
      <4>1. m \in 1..C
        BY <1>4, <1>5, <1>7
      <4> QED
        BY <1>3, <1>5, <4>1
    <3> QED
      BY <3>1, <3>2
  <2>3. Scanned(s) = 1..Fields
    BY <2>2 DEF Scanned
  <2> QED
    BY <2>3
<1>8. C < Fields
  BY <1>4, <1>5, <1>7
<1> QED
  BY <1>8 DEF C

\* With good answers dat holds the answer to the last request.
LEMMA GoodShown ==
  ASSUME LinkInv, pc = "parse", sensor = "good", NEW k \in 1..Fields
  PROVE  /\ Cardinality(Shown) = Fields
         /\ Symbol(dat[Nth(Shown, k)]) = Num(asked, k)
<1>1. Steady /\ \E a \in Nat, p \in Nat : Attempt(a, p)
  BY DEF LinkInv, SteadyInv, Steady
<1>2. PICK a \in Nat, p \in Nat : Attempt(a, p)
  BY <1>1
<1>12. PICK N : N = Numbers(a)
  OBVIOUS
<1>3. p = 0
  BY <1>2 DEF Attempt
<1>4. Fields \in Nat
  BY SensorAssumption
<1>5. N = Fields
  <2>1. Len(Whole) = a + Fields + 1
    BY <1>2 DEF Attempt
  <2> QED
    BY <1>4, <1>12, <2>1 DEF Numbers
<1>6. /\ Shown = Said(stream, a - p, p) \cup ((p + 1)..(p + N))
      /\ Cardinality(Shown) = Cardinality(Said(stream, a - p, p)) + N
  BY <1>1, <1>2, <1>12, ShownIs
<1>11. Said(stream, a - p, p) = {} /\ Cardinality(Said(stream, a - p, p)) = 0
  <2>1. Said(stream, a - p, p) = {}
    BY <1>3 DEF Said
  <2> QED
    BY <2>1, FS_EmptySet
<1>7. /\ DOMAIN dat = 1..(p + N + 1)
      /\ \A i \in DOMAIN dat : p < i /\ i <= p + N => Symbol(dat[i]) = Num(asked, i - p)
  BY <1>1, <1>2, <1>12, DatIs
<1>8. Shown = 1..Fields /\ Cardinality(Shown) = Fields
  BY <1>3, <1>4, <1>5, <1>6, <1>11
<1>9. Nth(Shown, k) = k
  <2>1. Shown \in SUBSET (1..Fields) /\ k \in Shown
    BY <1>8
  <2>2. Nth(Shown, Rank(Shown, k)) = k
    BY <1>4, <2>1, NthOnto
  <2>3. Upto(Shown, k) = 1..k
    BY <1>4, <1>8 DEF Upto
  <2>4. Rank(Shown, k) = k
    <3>1. k \in Nat /\ 1 <= k
      BY <1>4
    <3>2. Cardinality(1..k) = IF 1 > k THEN 0 ELSE k - 1 + 1
      BY <3>1, FS_Interval
    <3>3. Cardinality(1..k) = k
      BY <3>1, <3>2
    <3> QED
      BY <2>3, <3>3 DEF Rank
  <2> QED
    BY <2>2, <2>4
<1>10. Symbol(dat[k]) = Num(asked, k)
  <2>1. k \in DOMAIN dat /\ p < k /\ k <= p + N /\ k - p = k
    BY <1>3, <1>4, <1>5, <1>7
  <2> QED
    BY <1>7, <2>1
<1> QED
  BY <1>8, <1>9, <1>10

\* The answer is scanned.
LEMMA ParseStep == ASSUME LinkInv, Parse PROVE LinkInv'
<1>1. PICK n \in 0..Fields :
         LET s == Visible([k \in 1..n |-> 0])
         IN  /\ angle' = [k \in 1..Fields |-> IF k \in Scanned(s) THEN s[k] ELSE angle[k]]
             /\ pc' = IF Scanned(s) = 1..Fields THEN "idle" ELSE "ask"
  BY DEF Parse
<1>2. /\ pc = "parse"
      /\ UNCHANGED <<line, queue, arrived, last, sensor, stream, toSend, dat, asked, since, calls>>
  BY DEF Parse, serial
<1>3. PICK s : s = Visible([k \in 1..n |-> 0])
  OBVIOUS
<1>4. /\ angle' = [k \in 1..Fields |-> IF k \in Scanned(s) THEN s[k] ELSE angle[k]]
      /\ pc' = IF Scanned(s) = 1..Fields THEN "idle" ELSE "ask"
  BY <1>1, <1>3
<1>5. LinkTypes /\ Order /\ LoopInv /\ SteadyInv
  BY DEF LinkInv
<1>6. n \in Nat /\ Fields \in Nat /\ arrived \in Nat /\ last \in Nat /\ last <= arrived
  BY <1>5, SensorAssumption DEF LinkTypes
<1> DEFINE C == Cardinality(Shown)
<1>7. /\ C \in Nat /\ Len(s) = C + n
      /\ \A k \in 1..C : /\ Nth(Shown, k) \in Shown /\ s[k] = dat[Nth(Shown, k)]
                         /\ s[k] \in 1..last
      /\ \A k \in (C + 1)..(C + n) : s[k] = 0
      /\ \A j, k \in 1..C : j < k => Nth(Shown, j) < Nth(Shown, k)
  BY <1>3, <1>5, <1>6, VisibleIs
<1> HIDE DEF C
<1>8. \A k \in 1..(C + n) : (k \in 1..C /\ s[k] \in 1..last) \/ (~(k <= C) /\ s[k] = 0)
  <2> TAKE k \in 1..(C + n)
  <2>1. k \in 1..C \/ (k \in (C + 1)..(C + n) /\ ~(k <= C))
    BY <1>6, <1>7
  <2> QED
    BY <1>7, <2>1
<1>9. LinkTypes'
  <2>1. angle' \in [1..Fields -> 0..arrived]
    <3>1. angle \in [1..Fields -> 0..arrived]
      BY <1>5 DEF LinkTypes
    <3>2. ASSUME NEW k \in 1..Fields PROVE k \in Scanned(s) => s[k] \in 0..arrived
      <4>1. k \in Scanned(s) => k \in 1..(C + n)
        BY <1>6, <1>7 DEF Scanned
      <4>2. 1..last \subseteq 0..arrived /\ 0 \in 0..arrived
        BY <1>6
      <4> QED
        BY <1>8, <4>1, <4>2
    <3> QED
      BY <1>4, <3>1, <3>2
  <2>2. pc' \in Places
    BY <1>4 DEF Places
  <2> QED
    BY <1>2, <1>5, <2>1, <2>2 DEF LinkTypes
<1>10. Unread' = Unread /\ Whole' = Whole
  BY <1>2 DEF Unread, Whole
<1>11. Order' /\ LoopInv'
  BY <1>2, <1>4, <1>5, <1>10 DEF Order, UnreadOrder, LoopInv
<1>12. ASSUME Steady
       PROVE  /\ \A i \in DOMAIN dat : dat[i] = (last - Len(dat)) + i
              /\ UnreadSteady' /\ Unread' = <<>> /\ toSend' = <<>>
              /\ \E a \in Nat, p \in Nat : Attempt(a, p)
  <2>1. PICK a \in Nat, p \in Nat : Attempt(a, p)
    BY <1>2, <1>5, <1>12 DEF SteadyInv
  <2>2. toSend = <<>> /\ Unread = <<>>
    BY <1>2, <1>12, <2>1, DatIs
  <2> QED
    BY <1>2, <1>5, <1>10, <1>12, <2>1, <2>2 DEF SteadyInv, UnreadSteady
<1>13. CASE Scanned(s) = 1..Fields
  <2>1. pc' = "idle" /\ \A k \in 1..Fields : angle'[k] = s[k] /\ k \in 1..(C + n)
    <3>1. pc' = "idle" /\ \A k \in 1..Fields : angle'[k] = s[k]
      BY <1>4, <1>13
    <3>2. \A k \in 1..Fields : k \in 1..(C + n)
      <4> TAKE k \in 1..Fields
      <4>1. k \in Scanned(s)
        BY <1>13
      <4>2. k <= C + n
        BY <1>7, <4>1 DEF Scanned
      <4> QED
        BY <1>6, <1>7, <4>2
    <3> QED
      BY <3>1, <3>2
  <2>2. SampleInOrder'
    <3>1. ASSUME NEW j \in 1..Fields, NEW k \in 1..Fields, j < k, angle'[k] # 0
          PROVE  0 < angle'[j] /\ angle'[j] < angle'[k]
      <4>1. k \in 1..C
        BY <1>8, <2>1, <3>1
      <4>2. j \in 1..C
        BY <1>6, <1>7, <3>1, <4>1
      <4>3. Nth(Shown, j) \in DOMAIN dat /\ Nth(Shown, k) \in DOMAIN dat
        BY <1>7, <4>1, <4>2 DEF Shown
      <4>4. Nth(Shown, j) < Nth(Shown, k)
        BY <1>7, <3>1, <4>1, <4>2
      <4>5. dat[Nth(Shown, j)] < dat[Nth(Shown, k)]
        BY <1>5, <4>3, <4>4 DEF Order
      <4>6. s[j] < s[k] /\ s[j] \in 1..last
        BY <1>7, <4>1, <4>2, <4>5
      <4>7. 0 < s[j]
        BY <1>6, <4>6
      <4> QED
        BY <2>1, <4>6, <4>7
    <3> QED
      BY <3>1 DEF SampleInOrder
  <2>3. FreshSample'
    <3> SUFFICES ASSUME sensor' = "good", NEW k \in 1..Fields
                 PROVE  Symbol(angle[k])' = Num(asked', k)
      BY DEF FreshSample
    <3>1. sensor = "good" /\ k \in 1..Fields
      BY <1>2
    <3>2. C = Fields /\ Symbol(dat[Nth(Shown, k)]) = Num(asked, k)
      BY <1>2, <3>1, GoodShown DEF C
    <3>3. angle'[k] = dat[Nth(Shown, k)]
      BY <1>7, <2>1, <3>1, <3>2
    <3>4. Symbol(angle[k])' = Symbol(dat[Nth(Shown, k)])
      BY <1>2, <3>3 DEF Symbol
    <3> QED
      BY <1>2, <3>2, <3>4
  <2>4. SampleFromOwnCall'
    <3> SUFFICES ASSUME Steady', NEW k \in 1..Fields
                 PROVE  Symbol(angle[k])'.reply \in {0} \cup (since' + 1)..asked'
      BY DEF SampleFromOwnCall
    <3>1. Steady
      BY <1>2 DEF Steady
    <3>2. CASE k \in 1..C
      <4>1. PICK a \in Nat, p \in Nat : Attempt(a, p)
        BY <1>12, <3>1
      <4>2. Nth(Shown, k) \in Shown /\ angle'[k] = dat[Nth(Shown, k)]
        BY <1>7, <2>1, <3>2
      <4>3. Symbol(dat[Nth(Shown, k)]).reply \in (since + 1)..asked
        BY <1>2, <3>1, <4>1, <4>2, ShownIs
      <4>4. Symbol(angle[k])' = Symbol(dat[Nth(Shown, k)])
        BY <1>2, <4>2 DEF Symbol
      <4> QED
        BY <1>2, <4>3, <4>4
    <3>3. CASE k \notin 1..C
      <4>1. angle'[k] = 0
        BY <1>8, <2>1, <3>3
      <4> QED
        BY <4>1 DEF Symbol, Num
    <3> QED
      BY <3>2, <3>3
  <2>5. SteadyInv'
    <3> SUFFICES ASSUME Steady PROVE AnswersFit'
      BY <1>2, <1>12, <2>1 DEF SteadyInv, Steady
    <3>1. PICK a \in Nat, p \in Nat : Attempt(a, p)
      BY <1>12
    <3>0. PICK N : N = Numbers(a)
      OBVIOUS
    <3>2. Len(dat) = p + N + 1 /\ N \in Nat /\ N <= Fields
      BY <1>2, <3>0, <3>1, DatIs
    <3>3. sensor # "blank" => p <= 2 * Fields - 2 /\ asked - since <= Fields
      BY <1>5, <3>1, AttemptFacts
    <3>4. sensor # "blank" => Len(dat) <= 3 * Fields - 1
      BY <1>6, <3>2, <3>3
    <3> QED
      BY <1>2, <2>1, <3>3, <3>4 DEF AnswersFit
  <2> QED
    BY <1>9, <1>11, <2>2, <2>3, <2>4, <2>5 DEF LinkInv
<1>14. CASE Scanned(s) # 1..Fields
  <2>1. pc' = "ask"
    BY <1>4, <1>14
  <2>2. SteadyInv'
    <3> SUFFICES ASSUME Steady PROVE Asking
      BY <1>2, <1>12, <2>1 DEF SteadyInv, Steady, Asking
    <3>1. PICK a \in Nat, p \in Nat : Attempt(a, p)
      BY <1>12
    <3>0. PICK N : N = Numbers(a)
      OBVIOUS
    <3>2. Cardinality(Shown) < Fields
      BY <1>2, <1>3, <1>6, <1>14, <3>1, TooFew
    <3> DEFINE b == a - p
               q == p + N + 1
               A == Said(stream, b, p)
               B == Said(stream, b, q)
    <3>3. /\ last \in Nat /\ N \in Nat /\ last = a + N + 1 /\ p <= a /\ Len(dat) = q
          /\ last = Len(Whole) /\ DOMAIN dat = 1..q
      BY <1>2, <3>0, <3>1, DatIs
    <3>4. /\ Shown = B /\ Cardinality(A) \in Nat /\ Cardinality(B) = Cardinality(A) + N
          /\ \A i \in 1..q : stream[b + i] \in Spoken(since, asked)
      <4>1. /\ Shown = B /\ Cardinality(A) \in Nat /\ Cardinality(Shown) = Cardinality(A) + N
            /\ \A i \in DOMAIN dat : stream[b + i] \in Spoken(since, asked)
        BY <1>2, <3>0, <3>1, ShownIs
      <4> HIDE DEF b, q, A, B
      <4> QED
        BY <3>3, <4>1
    <3>5. Past(stream, since, b, q, asked)
      BY <3>2, <3>4 DEF Past
    <3>6. sensor = "good" => FALSE
      <4>1. sensor = "good" => N = Fields
        BY <1>6, <3>0, <3>1, <3>3 DEF Attempt, Numbers
      <4> HIDE DEF A, B
      <4> QED
        BY <1>6, <3>2, <3>4, <4>1
    <3>7. sensor # "blank" => NoBlank(stream, since, b, q, asked)
      <4> SUFFICES ASSUME sensor # "blank" PROVE NoBlank(stream, since, b, q, asked)
        OBVIOUS
      <4>1. p <= 2 * Cardinality(A) /\ asked - 1 <= since + Cardinality(A)
        BY <3>1 DEF Attempt, NoBlank
      <4>2. 0 < N
        <5>1. sensor = "truncated"
          BY <3>6 DEF Steady
        <5>2. a + 2 <= Len(Whole)
          BY <3>1, <5>1 DEF Attempt
        <5> QED
          BY <3>3, <5>2
      <4>3. asked \in Nat /\ since \in Nat
        BY <1>5 DEF LinkTypes
      <4> DEFINE c == Cardinality(A)
                 d == Cardinality(B)
      <4>4. c \in Nat /\ d = c + N /\ p <= 2 * c /\ asked - 1 <= since + c
        BY <3>4, <4>1
      <4> HIDE DEF c, d, A, B
      <4>5. q <= 2 * d /\ asked <= since + d
        BY <3>3, <4>2, <4>3, <4>4
      <4> QED
        BY <4>5 DEF NoBlank, d, B
    <3>8. q <= last /\ last - q = b
      BY <3>3
    <3> HIDE DEF q, b, A, B
    <3> QED
      BY <3>3, <3>5, <3>6, <3>7, <3>8 DEF Asking
  <2>3. SampleInOrder' /\ FreshSample' /\ SampleFromOwnCall'
    BY <2>1, SamplesLater
  <2> QED
    BY <1>9, <1>11, <2>2, <2>3 DEF LinkInv
<1> QED
  BY <1>13, <1>14

-----------------------------------------------------------------------------
(* The theorem.                                                             *)

\* The link begins in order.
LEMMA LinkStarts == ASSUME Init PROVE LinkInv
<1>1. /\ line = <<>> /\ queue = <<>> /\ arrived = 0 /\ last = 0 /\ sensor \in Sensors
      /\ stream = <<>> /\ toSend = <<>> /\ pc = "idle" /\ dat = <<>>
      /\ angle = [k \in 1..Fields |-> 0] /\ asked = 0 /\ since = 0 /\ calls = 0
  BY DEF Init, Serial!Init
<1>2. /\ MaxBytes \in Nat /\ MaxCalls \in Nat /\ Fields \in Nat /\ Sensors \subseteq SensorKinds
  BY SensorAssumption
<1>3. LinkTypes
  <2>1. \A S : <<>> \in Seq(S) /\ Len(<<>>) = 0
    BY EmptySeq
  <2>2. angle \in [1..Fields -> 0..0]
    BY <1>1, <1>2
  <2>3. 0 \in 0..MaxBytes /\ 0 \in 0..MaxCalls /\ 0 \in 0..0 /\ 0 \in Nat
    BY <1>2
  <2> QED
    BY <1>1, <1>2, <2>1, <2>2, <2>3 DEF LinkTypes, Places
<1>4. Unread = <<>>
  BY <1>1 DEF Unread
<1>5. DOMAIN dat = {} /\ DOMAIN Unread = {} /\ Len(dat) = 0 /\ Len(Unread) = 0
  BY <1>1, <1>4
<1>6. Order /\ LoopInv
  BY <1>1, <1>5 DEF Order, UnreadOrder, LoopInv
<1>7. SteadyInv
  <2>1. AnswersFit
    <3>1. 0 < Fields
      BY SensorAssumption
    <3> QED
      BY <1>1, <1>2, <1>5, <3>1 DEF AnswersFit
  <2> QED
    BY <1>1, <1>2, <1>4, <1>5, <2>1 DEF SteadyInv, UnreadSteady
<1>8. SampleInOrder /\ FreshSample /\ SampleFromOwnCall
  BY <1>1 DEF SampleInOrder, FreshSample, SampleFromOwnCall, Returned
<1> QED
  BY <1>3, <1>6, <1>7, <1>8 DEF LinkInv

\* What is not touched stays in order.
LEMMA LinkStays == ASSUME LinkInv, UNCHANGED vars PROVE LinkInv'
<1>1. UNCHANGED <<line, queue, arrived, last, sensor, stream, toSend, pc, dat, angle, asked, since, calls>>
  BY DEF vars, serial
<1>2. Unread' = Unread /\ Whole' = Whole
  BY <1>1 DEF Unread, Whole
<1>3. LinkTypes /\ Order /\ LoopInv /\ SteadyInv
  BY DEF LinkInv
<1>4. LinkTypes' /\ Order' /\ LoopInv'
  BY <1>1, <1>2, <1>3 DEF LinkTypes, Order, UnreadOrder, LoopInv
<1>5. \A a, p : Attempt(a, p) => Attempt(a, p)'
  BY <1>1, <1>2 DEF Attempt
<1>6. SteadyInv'
  <2>1. UnreadSteady => UnreadSteady'
    BY <1>1, <1>2 DEF UnreadSteady
  <2>2. Asking => Asking'
    BY <1>1 DEF Asking
  <2> QED
    BY <1>1, <1>2, <1>3, <1>5, <2>1, <2>2 DEF SteadyInv, Steady, AnswersFit
<1>7. \A b \in 0..arrived : Symbol(b)' = Symbol(b)
  BY <1>1 DEF Symbol
<1>8. SampleInOrder' /\ FreshSample' /\ SampleFromOwnCall'
  BY <1>1, <1>7, SamplesKept
<1> QED
  BY <1>4, <1>6, <1>8 DEF LinkInv

\* What the invariant says of dat and the calls between the steps as well.
LEMMA LinkIsSound == ASSUME LinkInv PROVE SampleSound
<1>1. LinkTypes /\ LoopInv /\ SteadyInv /\ MaxBytes \in Nat
  BY SensorAssumption DEF LinkInv
<1>2. TypeOK
  <2>1. arrived \in 0..MaxBytes /\ last \in 0..arrived /\ 1..arrived \subseteq 1..MaxBytes
        /\ last \in 0..MaxBytes
    BY <1>1 DEF LinkTypes
  <2>2. line \in Seq(1..MaxBytes) /\ queue \in Seq(1..MaxBytes)
    BY <1>1, <2>1, SeqWiden DEF LinkTypes
  <2> QED
    BY <1>1, <2>1, <2>2 DEF TypeOK, LinkTypes, LoopInv, Places
<1>3. AnswersFit
  <2> SUFFICES ASSUME sensor \in {"good", "truncated"} PROVE AnswersFit
    BY DEF AnswersFit
  <2>1. Steady /\ pc # "overrun" /\ pc \in Places
    BY <1>1 DEF Steady, SteadyInv, LinkTypes
  <2>2. /\ Fields \in Nat /\ 0 < Fields /\ asked \in Nat /\ since \in Nat /\ Len(dat) \in Nat
        /\ last \in Nat
    BY <1>1, SensorAssumption, LenProperties DEF LinkTypes
  <2>3. CASE pc = "idle"
    BY <1>1, <2>1, <2>3 DEF SteadyInv
  <2>4. CASE pc = "ask"
    <3> DEFINE p == Len(dat)
               b == last - p
    <3>1. Past(stream, since, b, p, asked) /\ NoBlank(stream, since, b, p, asked)
      BY <1>1, <2>1, <2>4 DEF SteadyInv, Asking
    <3> HIDE DEF b
    <3>2. p <= 2 * Fields - 2 /\ asked - since <= Fields - 1
      BY <2>2, <3>1, PastFits
    <3> QED
      BY <2>1, <2>2, <3>2 DEF AnswersFit
  <2>5. CASE pc \in {"wait", "byte", "event", "drain", "parse"}
    <3>1. PICK a \in Nat, p \in Nat : Attempt(a, p)
      BY <1>1, <2>1, <2>5 DEF SteadyInv
    <3>2. /\ Len(Whole) \in Nat /\ last \in Nat /\ arrived \in Nat /\ last <= arrived
          /\ arrived <= Len(Whole) /\ a <= last
          /\ Len(dat) = (last - a) + p /\ Len(Whole) <= a + Fields + 1
          /\ p <= 2 * Fields - 2 /\ asked - since <= Fields
      BY <1>1, <3>1, AttemptFacts
    <3>3. Len(dat) <= 3 * Fields - 1
      BY <2>2, <3>2
    <3> QED
      BY <2>1, <3>2, <3>3 DEF AnswersFit
  <2> QED
    BY <2>1, <2>3, <2>4, <2>5 DEF Places
<1> QED
  BY <1>2, <1>3 DEF SampleSound, LinkInv

\* Get_Energy: whatever the pace of the line, a sample holds the numbers of the answer
\* to its own request when every request is answered by one full line; numbers of the
\* answers to its own call when lines are cut short anywhere, which are at most one for
\* each field and fit dat when no line is empty; and from any sensor at all bytes in the
\* order they arrived.
THEOREM SampleIsSound == Spec => []SampleSound
<1>1. Init => LinkInv
  BY LinkStarts
<1>2. LinkInv /\ [Next]_vars => LinkInv'
  <2> SUFFICES ASSUME LinkInv, [Next]_vars PROVE LinkInv'
    OBVIOUS
  <2>1. CASE SensorSend
    BY <2>1, SensorSendStep
  <2>2. CASE Call
    BY <2>2, CallStep
  <2>3. CASE Ask
    BY <2>3, AskStep
  <2>4. CASE Wait
    BY <2>4, WaitStep
  <2>5. CASE StoreByte
    BY <2>5, StoreStep
  <2>6. CASE EventInLoop
    BY <2>6, EventStep
  <2>7. CASE Drain
    BY <2>7, DrainStep
  <2>8. CASE Parse
    BY <2>8, ParseStep
  <2>9. CASE UNCHANGED vars
    BY <2>9, LinkStays
  <2> QED
    BY <2>1, <2>2, <2>3, <2>4, <2>5, <2>6, <2>7, <2>8, <2>9 DEF Next, Get_Energy
<1>3. LinkInv => SampleSound
  BY LinkIsSound
<1> QED
  BY <1>1, <1>2, <1>3, PTL DEF Spec

=============================================================================
