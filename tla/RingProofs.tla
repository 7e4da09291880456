-------------------------------- MODULE RingProofs --------------------------------
(***************************************************************************)
(* The two rings the program reads its devices through: the frame buffers  *)
(* it hands back and forth with the camera's driver, for any number of     *)
(* buffers and frames, and the bytes of the serial line, for any buffer    *)
(* size and any split of the stream into blocks.                           *)
(***************************************************************************)
EXTENDS CaptureQueue, SerialRing, SequenceTheorems, TLAPS

-----------------------------------------------------------------------------
(* The ring of frame buffers.                                               *)

\* The buffer j places after buffer a in the ring of count buffers.
Slot(a, j) == IF a + j < count THEN a + j ELSE a + j - count

\* The index the next Video_Capture reduces i to.
NextIndex == IF i = count THEN 0 ELSE i

\* The driver's queue is the ring from buffer `first` on, n buffers long.
QueueIs(first, n) ==
  /\ Len(fifo) = n
  /\ \A j \in 1..n : fifo[j] = Slot(first, j - 1)

\* The granted buffers while the program initialises: queued in order from 0.
InitRing ==
  /\ pc \in {"open", "para", "request"} => mapped = 0 /\ fifo = <<>>
  /\ pc = "map" => mapped < count /\ QueueIs(0, mapped)
  /\ pc = "enqueue" => mapped \in 1..count /\ QueueIs(0, mapped - 1)
  /\ pc = "streamon" => QueueIs(0, count)
  /\ pc \in {"open", "para", "request", "map", "enqueue", "streamon"} =>
        i = 0 /\ done = 0 /\ copied = <<>> /\ frames = 0 /\ ~streaming

\* ... and while it captures: the ring from the buffer it will take next.
CaptureRing ==
  /\ pc = "ready" => i \in 0..count /\ QueueIs(NextIndex, count)
  /\ pc = "dequeue" => i \in 0..(count - 1) /\ QueueIs(i, count)
  /\ pc \in {"copy", "requeue"} =>
        /\ i \in 0..(count - 1)
        /\ i = dq
        /\ Len(fifo) = count - 1
        /\ \A j \in 1..(count - 1) : fifo[j] = Slot(i, j)

RingInv ==
  /\ pc \notin {"open", "para", "request", "failed"} => count > 0
  /\ done <= Len(fifo)
  /\ InitRing
  /\ CaptureRing

CaptureInv == CaptureTypeOK /\ RingInv

-----------------------------------------------------------------------------
\* i %= count, for an index that the last capture left in 0 .. count.
LEMMA IndexReduced ==
  ASSUME NEW n \in Nat \ {0}, NEW a \in 0..n
  PROVE  a % n = IF a = n THEN 0 ELSE a
  <1>1. CASE a = n
    BY <1>1, SMTT(30)
  <1>2. CASE a < n
    BY <1>2, SMTT(30)
  <1>3. QED
    BY <1>1, <1>2

USE CaptureAssumption

\* Every variable keeps its type: in particular no index leaves 0 .. MaxCount.
LEMMA CaptureTypeInit == CaptureInit => CaptureTypeOK
  BY DEF CaptureInit, CaptureTypeOK, Labels

\* Before the device is opened no buffer is mapped and none is queued.
LEMMA CaptureRingInit == CaptureInit => RingInv
  BY DEF CaptureInit, RingInv, InitRing, CaptureRing

\* Each step of the program or of the driver keeps the types and the ring.
LEMMA CaptureStep == CaptureInv /\ [CaptureNext]_capturevars => CaptureInv'
  <1> SUFFICES ASSUME CaptureInv, [CaptureNext]_capturevars PROVE CaptureInv'
    OBVIOUS
  <1> USE DEF CaptureInv, CaptureTypeOK, RingInv, InitRing, CaptureRing, QueueIs, Labels
  <1>1. CASE Video_Open
    BY <1>1 DEF Video_Open, Goto, driver, Slot
  <1>2. CASE Video_Set_Para
    BY <1>2 DEF Video_Set_Para, Goto, driver, Slot
  <1>3. CASE Buffer_Request
    BY <1>3 DEF Buffer_Request, driver, Slot
  <1>4. CASE Buffer_Map
    BY <1>4 DEF Buffer_Map, Goto, driver, Slot
  <1>5. CASE InitEnqueue
    BY <1>5 DEF InitEnqueue, Buffer_Enqueue, Slot
  <1>6. CASE Video_Streamon
    BY <1>6 DEF Video_Streamon, Goto, Slot, NextIndex
  <1>7. CASE StartCapture
    <2>1. /\ count \in Nat \ {0}
          /\ i \in 0..count
          /\ i' = i % count
          /\ pc = "ready" /\ pc' = "dequeue"
          /\ UNCHANGED <<count, mapped, dq, fifo, done, content, frames,
                         streaming, copied>>
      BY <1>7 DEF StartCapture, Goto, driver
    <2>2. i' = NextIndex
      BY <2>1, IndexReduced DEF NextIndex
    <2>3. NextIndex \in 0..(count - 1)
      BY <2>1 DEF NextIndex
    <2>4. CaptureTypeOK'
      <3> HIDE DEF RingInv, InitRing, CaptureRing, QueueIs
      <3>1. QED
        BY <2>1, <2>2, <2>3
    <2>5. QueueIs(i, count)'
      <3> HIDE DEF QueueIs
      <3>1. QueueIs(NextIndex, count)
        BY <2>1
      <3>2. QED
        BY <3>1, <2>1, <2>2 DEF QueueIs, Slot
    <2>6. RingInv'
      BY <2>1, <2>2, <2>3, <2>5
    <2>7. QED
      BY <2>4, <2>6
  <1>8. CASE Buffer_Dequeue
    <2>1. /\ pc = "dequeue" /\ pc' = "copy"
          /\ done > 0 /\ done' = done - 1
          /\ dq' = Head(fifo) /\ fifo' = Tail(fifo)
          /\ UNCHANGED <<count, mapped, i, content, frames, streaming, copied>>
      BY <1>8 DEF Buffer_Dequeue, Goto
    <2>2. /\ Len(fifo) = count /\ count \in Nat \ {0} /\ i \in 0..(count - 1)
          /\ fifo \in Seq(0..MaxCount)
          /\ \A j \in 1..count : fifo[j] = Slot(i, j - 1)
      BY <2>1
    <2>3. /\ Head(fifo) = fifo[1] /\ fifo # <<>>
          /\ Len(Tail(fifo)) = count - 1
          /\ Tail(fifo) \in Seq(0..MaxCount)
          /\ \A j \in 1..(count - 1) : Tail(fifo)[j] = fifo[j + 1]
      BY <2>2
    <2>4. dq' = i /\ dq' \in 0..MaxCount
      BY <2>1, <2>2, <2>3 DEF Slot
    <2>5. ASSUME NEW j \in 1..(count - 1) PROVE fifo'[j] = Slot(i, j)'
      <3>1. j + 1 \in 1..count /\ (j + 1) - 1 = j
        BY <2>2
      <3>2. Tail(fifo)[j] = fifo[j + 1]
        BY <2>3
      <3>3. fifo[j + 1] = Slot(i, j)
        BY <2>2, <3>1
      <3>4. Slot(i, j)' = Slot(i, j)
        BY <2>1 DEF Slot
      <3>5. QED
        BY <2>1, <3>2, <3>3, <3>4
    <2>6. CaptureTypeOK'
      <3> HIDE DEF RingInv, InitRing, CaptureRing, QueueIs
      <3>1. QED
        BY <2>1, <2>3, <2>4
    <2>7. RingInv'
      BY <2>1, <2>2, <2>3, <2>4, <2>5, SMTT(40)
    <2>8. QED
      BY <2>6, <2>7
  <1>9. CASE CopyFrame
    BY <1>9 DEF CopyFrame, Goto, driver, Slot
  <1>10. CASE EndCapture
    <2>1. /\ pc = "requeue" /\ pc' = "ready"
          /\ i \notin Owned /\ fifo' = Append(fifo, i) /\ i' = i + 1
          /\ UNCHANGED <<count, mapped, dq, done, content, frames, streaming,
                         copied>>
      BY <1>10 DEF EndCapture, Goto, Buffer_Enqueue
    <2>2. /\ Len(fifo) = count - 1 /\ count \in Nat \ {0} /\ i \in 0..(count - 1)
          /\ fifo \in Seq(0..MaxCount) /\ i \in 0..MaxCount
          /\ \A j \in 1..(count - 1) : fifo[j] = Slot(i, j)
      BY <2>1
    <2>3. /\ Append(fifo, i) \in Seq(0..MaxCount)
          /\ Len(Append(fifo, i)) = count
          /\ Append(fifo, i)[count] = i
          /\ \A j \in 1..(count - 1) : Append(fifo, i)[j] = fifo[j]
      BY <2>2, SMTT(40)
    <2>4. QueueIs(NextIndex, count)'
      <3>1. Len(fifo') = count'
        BY <2>1, <2>3
      <3>2. ASSUME NEW j \in 1..count'
            PROVE  fifo'[j] = Slot(NextIndex, j - 1)'
        <4>1. count' = count /\ j \in 1..count
          BY <2>1
        <4>2. Slot(NextIndex, j - 1)' =
                IF j = count THEN i ELSE Slot(i, j)
          BY <2>1, <2>2, <4>1 DEF Slot, NextIndex
        <4>3. fifo'[j] = IF j = count THEN i ELSE Slot(i, j)
          <5>1. CASE j = count
            BY <5>1, <2>1, <2>3
          <5>2. CASE j \in 1..(count - 1)
            <6> HIDE DEF Slot
            <6>1. fifo'[j] = fifo[j]
              BY <5>2, <2>1, <2>3
            <6>2. fifo[j] = Slot(i, j) /\ j # count
              BY <5>2, <2>2
            <6>3. QED
              BY <6>1, <6>2
          <5>3. QED
            BY <5>1, <5>2, <4>1, <2>2
        <4>4. QED
          BY <4>2, <4>3
      <3>3. QED
        BY <3>1, <3>2
    <2>5. CaptureTypeOK'
      <3> HIDE DEF RingInv, InitRing, CaptureRing, QueueIs
      <3>1. pc' \in Labels /\ fifo' \in Seq(0..MaxCount) /\ i' \in 0..MaxCount
        BY <2>1, <2>2, <2>3
      <3>2. QED
        BY <2>1, <3>1
    <2>6. RingInv'
      BY <2>1, <2>2, <2>3, <2>4
    <2>7. QED
      BY <2>5, <2>6
  <1>11. CASE Video_Streamoff
    <2>1. /\ pc = "ready" /\ pc' = "close"
          /\ streaming' = FALSE /\ fifo' = <<>> /\ done' = 0
          /\ UNCHANGED <<count, mapped, i, dq, content, frames, copied>>
      BY <1>11 DEF Video_Streamoff, Goto
    <2>2. fifo' \in Seq(0..MaxCount) /\ Len(fifo') = 0
      BY <2>1
    <2>3. CaptureTypeOK'
      <3> HIDE DEF RingInv, InitRing, CaptureRing, QueueIs
      <3>1. QED
        BY <2>1, <2>2
    <2>4. RingInv'
      BY <2>1, <2>2
    <2>5. QED
      BY <2>3, <2>4
  <1>12. CASE Video_Close
    BY <1>12 DEF Video_Close, Goto, driver, Slot
  <1>13. CASE Buffer_Free
    BY <1>13 DEF Buffer_Free, Goto, driver, Slot
  <1>14. CASE DriverFill
    BY <1>14, SMTT(40) DEF DriverFill, Slot, NextIndex
  <1>15. CASE \E label \in Failing : Fail(label)
    BY <1>15 DEF Failing, Fail, driver, Slot
  <1>16. CASE UNCHANGED capturevars
    BY <1>16 DEF capturevars, Slot, NextIndex
  <1>17. QED
    BY <1>1, <1>2, <1>3, <1>4, <1>5, <1>6, <1>7, <1>8, <1>9, <1>10, <1>11,
       <1>12, <1>13, <1>14, <1>15, <1>16 DEF CaptureNext, Program

\* The types and the ring hold in every reachable state: the invariant that the
\* theorems on Video_Capture below are drawn from.
THEOREM CaptureInvariant == CaptureSpec => []CaptureInv
  <1>1. CaptureInit => CaptureInv
    BY CaptureTypeInit, CaptureRingInit DEF CaptureInv
  <1>2. QED
    BY <1>1, CaptureStep, PTL DEF CaptureSpec

\* Every variable of the capture loop keeps its type, whatever the driver grants.
THEOREM CaptureTypeCorrect == CaptureSpec => []CaptureTypeOK
  <1>1. CaptureInv => CaptureTypeOK
    BY DEF CaptureInv
  <1>2. QED
    BY <1>1, CaptureInvariant, PTL

-----------------------------------------------------------------------------
\* The states in which every granted buffer is in the ring.
Capturing == {"ready", "dequeue", "copy", "requeue"}

\* Two places of the ring are two buffers.
LEMMA SlotDistinct ==
  ASSUME count \in Nat \ {0}, NEW a \in 0..(count - 1),
         NEW j \in 0..(count - 1), NEW k \in 0..(count - 1), j # k
  PROVE  Slot(a, j) # Slot(a, k)
  <1>1. CASE a + j < count /\ a + k < count
    BY <1>1 DEF Slot
  <1>2. CASE a + j < count /\ ~(a + k < count)
    BY <1>2 DEF Slot
  <1>3. CASE ~(a + j < count) /\ a + k < count
    BY <1>3 DEF Slot
  <1>4. CASE ~(a + j < count) /\ ~(a + k < count)
    BY <1>4 DEF Slot
  <1>5. QED
    BY <1>1, <1>2, <1>3, <1>4

\* No buffer is queued twice, and the one being copied is not queued.
LEMMA RingDistinct ==
  ASSUME CaptureInv, pc \in Capturing
  PROVE  /\ \A j, k \in 1..Len(fifo) : j # k => fifo[j] # fifo[k]
         /\ pc \in {"copy", "requeue"} => i \notin Owned
  <1> USE DEF CaptureInv, CaptureTypeOK, RingInv, CaptureRing, QueueIs, Capturing
  <1>1. CASE pc \in {"ready", "dequeue"}
    <2>1. PICK a \in 0..(count - 1) :
             \A j \in 1..count : fifo[j] = Slot(a, j - 1)
      <3>1. NextIndex \in 0..(count - 1) /\ count \in Nat \ {0}
        BY <1>1 DEF NextIndex
      <3>2. pc = "ready" => \A j \in 1..count : fifo[j] = Slot(NextIndex, j - 1)
        OBVIOUS
      <3>3. pc = "dequeue" => /\ i \in 0..(count - 1)
                              /\ \A j \in 1..count : fifo[j] = Slot(i, j - 1)
        OBVIOUS
      <3>4. QED
        BY <3>1, <3>2, <3>3, <1>1
    <2>2. Len(fifo) = count /\ count \in Nat \ {0}
      BY <1>1
    <2>3. ASSUME NEW j \in 1..count, NEW k \in 1..count, j # k
          PROVE  fifo[j] # fifo[k]
      <3>1. /\ fifo[j] = Slot(a, j - 1) /\ fifo[k] = Slot(a, k - 1)
            /\ j - 1 \in 0..(count - 1) /\ k - 1 \in 0..(count - 1)
            /\ j - 1 # k - 1
        <4> HIDE DEF CaptureInv
        <4>1. QED
          BY <2>1, <2>2, <2>3
      <3>2. QED
        BY <3>1, <2>2, SlotDistinct
    <2>4. QED
      BY <1>1, <2>2, <2>3
  <1>2. CASE pc \in {"copy", "requeue"}
    <2>1. /\ Len(fifo) = count - 1 /\ count \in Nat \ {0} /\ i \in 0..(count - 1)
          /\ \A j \in 1..(count - 1) : fifo[j] = Slot(i, j)
      BY <1>2
    <2>2. \A j \in 1..(count - 1) : fifo[j] # i
      <3>1. i = Slot(i, 0)
        BY <2>1 DEF Slot
      <3>2. \A j \in 1..(count - 1) : Slot(i, j) # Slot(i, 0)
        BY <2>1, SlotDistinct
      <3>3. QED
        BY <2>1, <3>1, <3>2
    <2>3. ASSUME NEW j \in 1..(count - 1), NEW k \in 1..(count - 1), j # k
          PROVE  fifo[j] # fifo[k]
      <3>1. /\ fifo[j] = Slot(i, j) /\ fifo[k] = Slot(i, k)
            /\ j \in 0..(count - 1) /\ k \in 0..(count - 1)
        BY <2>1
      <3>2. QED
        BY <3>1, <2>1, <2>3, SlotDistinct
    <2>4. QED
      BY <1>2, <2>1, <2>2, <2>3 DEF Owned
  <1>3. QED
    BY <1>1, <1>2

\* Video_Capture reads and queues the very buffer the driver dequeued.
THEOREM CaptureSafe == CaptureSpec => []CopiesDequeuedBuffer
  <1>1. CaptureInv => CopiesDequeuedBuffer
    <2> SUFFICES ASSUME CaptureInv, pc \in {"copy", "requeue"}
                 PROVE  i = dq /\ i \notin Owned
      BY DEF CopiesDequeuedBuffer
    <2>1. i = dq
      BY DEF CaptureInv, RingInv, CaptureRing
    <2>2. i \notin Owned
      BY RingDistinct DEF Capturing
    <2>3. QED
      BY <2>1, <2>2
  <1>2. QED
    BY <1>1, CaptureInvariant, PTL

\* Whenever the program blocks for a frame, the driver has every buffer.
THEOREM NoLeak == CaptureSpec => []NoBufferLeaked
  <1>1. CaptureInv => NoBufferLeaked
    BY DEF CaptureInv, RingInv, CaptureRing, QueueIs, NoBufferLeaked
  <1>2. QED
    BY <1>1, CaptureInvariant, PTL

-----------------------------------------------------------------------------
\* 1 while a dequeued frame waits to be copied.
Pending == IF pc = "copy" THEN 1 ELSE 0

\* The frames produced are those copied, the one being copied and those queued,
\* and each filled buffer holds the frame that its place in the queue announces.
FrameInv ==
  /\ EveryFrameOnce
  /\ pc \in Capturing =>
       /\ frames = Len(copied) + Pending + done
       /\ pc = "copy" => content[i] = Len(copied) + 1
       /\ \A j \in 1..done : content[fifo[j]] = Len(copied) + Pending + j

\* Each step keeps the frame numbers in line: filling, dequeuing, copying and
\* queueing again move a frame along the ring and renumber none.
LEMMA FrameStep == CaptureInv /\ FrameInv /\ [CaptureNext]_capturevars => FrameInv'
  <1> SUFFICES ASSUME CaptureInv, FrameInv, [CaptureNext]_capturevars PROVE FrameInv'
    OBVIOUS
  <1>0. EveryFrameOnce'
    <2>1. CASE CopyFrame
      <3>1. copied \in Seq(Nat) /\ copied' = Append(copied, content[i]) /\ content[i] \in Nat
        BY <2>1 DEF CopyFrame, CaptureInv, CaptureTypeOK
      <3>2. content[i] = Len(copied) + 1
        BY <2>1 DEF CopyFrame, Goto, FrameInv, Capturing
      <3>3. \A k \in 1..Len(copied) : copied[k] = k
        BY DEF FrameInv, EveryFrameOnce
      <3>4. QED
        BY <3>1, <3>2, <3>3 DEF EveryFrameOnce
    <2>2. CASE ~CopyFrame
      <3>1. copied' = copied
        BY <2>2 DEF CaptureNext, Program, capturevars, Video_Open, Video_Set_Para,
           Buffer_Request, Buffer_Map, InitEnqueue, Video_Streamon, StartCapture,
           Buffer_Dequeue, EndCapture, Video_Streamoff, Video_Close, Buffer_Free,
           DriverFill, Fail
      <3>2. QED
        BY <3>1 DEF FrameInv, EveryFrameOnce
    <2>3. QED
      BY <2>1, <2>2
  <1> SUFFICES ASSUME pc' \in Capturing
               PROVE  /\ frames' = Len(copied') + Pending' + done'
                      /\ pc' = "copy" => content'[i'] = Len(copied') + 1
                      /\ \A j \in 1..done' : content'[fifo'[j]] = Len(copied') + Pending' + j
    BY <1>0 DEF FrameInv
  <1> USE DEF FrameInv, Pending, Capturing
  <1>1. CASE \/ Video_Open \/ Video_Set_Para \/ Buffer_Request \/ Buffer_Map
             \/ InitEnqueue \/ Video_Streamoff \/ Video_Close \/ Buffer_Free
             \/ \E label \in Failing : Fail(label)
    BY <1>1 DEF Video_Open, Video_Set_Para, Buffer_Request, Buffer_Map,
       InitEnqueue, Video_Streamoff, Video_Close, Buffer_Free, Fail, Goto
  <1>2. CASE Video_Streamon
    BY <1>2 DEF Video_Streamon, Goto, CaptureInv, CaptureTypeOK, RingInv, InitRing
  <1>3. CASE StartCapture
    BY <1>3 DEF StartCapture, Goto, driver
  <1>4. CASE Buffer_Dequeue
    <2>1. /\ pc = "dequeue" /\ pc' = "copy"
          /\ done > 0 /\ done' = done - 1 /\ fifo' = Tail(fifo)
          /\ UNCHANGED <<count, i, content, frames, copied>>
      BY <1>4 DEF Buffer_Dequeue, Goto
    <2>2. /\ fifo \in Seq(0..MaxCount) /\ done \in Nat /\ done <= Len(fifo)
          /\ Len(fifo) > 0 /\ fifo[1] = i /\ Len(copied) \in Nat
      <3>1. /\ fifo \in Seq(0..MaxCount) /\ done \in Nat /\ copied \in Seq(Nat)
            /\ done <= Len(fifo) /\ Len(fifo) = count /\ count \in Nat
        BY <2>1 DEF CaptureInv, CaptureTypeOK, RingInv, CaptureRing, QueueIs
      <3>2. fifo[1] = Slot(i, 1 - 1) /\ i \in 0..(count - 1)
        <4>1. 1 \in 1..count
          BY <2>1, <3>1
        <4>2. QED
          BY <2>1, <4>1 DEF CaptureInv, RingInv, CaptureRing, QueueIs
      <3>3. fifo[1] = i
        BY <3>1, <3>2 DEF Slot
      <3>4. QED
        BY <2>1, <3>1, <3>3
    <2>3. \A j \in 1..(done - 1) : Tail(fifo)[j] = fifo[j + 1]
      BY <2>2
    <2>4. content[i] = Len(copied) + 1 /\ frames = Len(copied) + done
      BY <2>1, <2>2
    <2>5. \A j \in 1..done' : content[fifo'[j]] = Len(copied) + 1 + j
      <3>1. TAKE j \in 1..done'
      <3>2. j \in 1..(done - 1) /\ j + 1 \in 1..done
        BY <2>1, <2>2, <3>1
      <3>3. content[fifo[j + 1]] = Len(copied) + 0 + (j + 1)
        BY <2>1, <3>2
      <3>4. fifo'[j] = fifo[j + 1]
        BY <2>1, <2>3, <3>2
      <3>5. QED
        BY <2>2, <3>2, <3>3, <3>4
    <2>6. Pending' = 1 /\ frames' = Len(copied) + 1 + (done - 1)
      BY <2>1, <2>2, <2>4
    <2>7. QED
      BY <2>1, <2>4, <2>5, <2>6
  <1>5. CASE CopyFrame
    BY <1>5 DEF CopyFrame, Goto, driver, CaptureInv, CaptureTypeOK
  <1>6. CASE EndCapture
    <2>1. /\ pc = "requeue" /\ pc' = "ready" /\ fifo' = Append(fifo, i)
          /\ UNCHANGED <<count, done, content, frames, copied>>
      BY <1>6 DEF EndCapture, Goto, Buffer_Enqueue
    <2>2. /\ fifo \in Seq(0..MaxCount) /\ done \in Nat /\ done <= Len(fifo)
          /\ i \in 0..MaxCount
      BY <2>1 DEF CaptureInv, CaptureTypeOK, RingInv
    <2>3. \A j \in 1..done : Append(fifo, i)[j] = fifo[j]
      BY <2>2
    <2>4. QED
      BY <2>1, <2>2, <2>3
  <1>7. CASE DriverFill
    <2>1. /\ done < Len(fifo)
          /\ frames' = frames + 1 /\ done' = done + 1
          /\ content' = [content EXCEPT ![fifo[done + 1]] = frames + 1]
          /\ UNCHANGED <<pc, count, i, fifo, copied>>
      BY <1>7 DEF DriverFill
    <2>2. /\ content \in [0..MaxCount -> Nat] /\ done \in Nat /\ Len(copied) \in Nat
          /\ fifo \in Seq(0..MaxCount) /\ i \in 0..MaxCount
          /\ pc \in Capturing
      BY <2>1 DEF CaptureInv, CaptureTypeOK
    <2>3. /\ \A j \in 1..done : fifo[j] # fifo[done + 1]
          /\ pc = "copy" => i # fifo[done + 1]
      <3>1. done + 1 \in 1..Len(fifo) /\ 1..done \subseteq 1..Len(fifo)
        BY <2>1, <2>2
      <3>2. \A j \in 1..done : j \in 1..Len(fifo) /\ j # done + 1
        BY <2>1, <2>2
      <3>3. \A j \in 1..done : fifo[j] # fifo[done + 1]
        BY <3>1, <3>2, <2>2, RingDistinct
      <3>4. pc = "copy" => i \notin Owned
        BY <2>2, RingDistinct
      <3>5. QED
        BY <3>1, <3>3, <3>4 DEF Owned
    <2>4. /\ content'[fifo[done + 1]] = frames + 1
          /\ \A b \in 0..MaxCount : b # fifo[done + 1] => content'[b] = content[b]
      <3>1. done + 1 \in 1..Len(fifo)
        BY <2>1, <2>2
      <3>2. fifo[done + 1] \in 0..MaxCount
        BY <2>2, <3>1
      <3> HIDE DEF FrameInv, Pending, Capturing
      <3>3. QED
        BY <2>1, <2>2, <3>2
    <2>5. \A j \in 1..done : content'[fifo[j]] = Len(copied) + Pending + j
      <3>1. \A j \in 1..done : fifo[j] \in 0..MaxCount
        <4>1. \A j \in 1..done : j \in 1..Len(fifo)
          BY <2>1, <2>2
        <4>2. \A j \in 1..Len(fifo) : fifo[j] \in 0..MaxCount
          BY <2>2
        <4>3. QED
          BY <4>1, <4>2
      <3>2. \A j \in 1..done : content[fifo[j]] = Len(copied) + Pending + j
        BY <2>2
      <3>3. QED
        BY <3>1, <3>2, <2>3, <2>4
    <2>6. pc = "copy" => content'[i] = Len(copied) + 1
      BY <2>2, <2>3, <2>4
    <2>7. frames = Len(copied) + Pending + done /\ Pending' = Pending
      BY <2>1, <2>2
    <2>8. ASSUME NEW j \in 1..done' PROVE content'[fifo'[j]] = Len(copied) + Pending + j
      <3> HIDE DEF Pending
      <3>1. CASE j = done + 1
        <4>1. content'[fifo'[j]] = frames + 1
          BY <3>1, <2>1, <2>4
        <4>2. Pending \in Nat
          BY DEF Pending
        <4>3. QED
          BY <3>1, <4>1, <4>2, <2>2, <2>7
      <3>2. CASE j \in 1..done
        BY <3>2, <2>1, <2>5
      <3>3. QED
        BY <3>1, <3>2, <2>1, <2>2
    <2>9. frames' = Len(copied') + Pending' + done'
      <3>1. Pending \in Nat
        OBVIOUS
      <3> HIDE DEF FrameInv, Pending, Capturing
      <3>2. QED
        BY <2>1, <2>2, <2>7, <3>1
    <2>10. QED
      <3> HIDE DEF Pending
      <3>1. \A j \in 1..done' : content'[fifo'[j]] = Len(copied') + Pending' + j
        BY <2>8, <2>1, <2>7
      <3>2. QED
        BY <3>1, <2>9, <2>6, <2>1
  <1>8. CASE UNCHANGED capturevars
    BY <1>8 DEF capturevars
  <1>9. QED
    BY <1>1, <1>2, <1>3, <1>4, <1>5, <1>6, <1>7, <1>8 DEF CaptureNext, Program

\* Frames are copied in the order the camera produced them, each exactly once.
THEOREM FramesInOrder == CaptureSpec => []EveryFrameOnce
  <1>1. CaptureInit => FrameInv
    BY DEF CaptureInit, FrameInv, EveryFrameOnce, Capturing
  <1>2. FrameInv => EveryFrameOnce
    BY DEF FrameInv
  <1>3. QED
    BY <1>1, <1>2, CaptureInvariant, FrameStep, PTL DEF CaptureSpec

-----------------------------------------------------------------------------
(* The ring of bytes.                                                       *)

\* What was read was read in order and lies before everything that is unread.
HandedInv ==
  /\ \A k \in 1..Len(handed) : handed[k] + available + Len(line) <= arrived
  /\ ReadsAdvance

IInv == TypeOK /\ UnreadIsSuffix /\ HandedInv

-----------------------------------------------------------------------------
\* (k + 1) % SERIAL_BUFFER_SIZE for an index of the buffer.
LEMMA Wrap ==
  ASSUME NEW n \in Nat \ {0}, NEW k \in 0..(n - 1)
  PROVE  (k + 1) % n = IF k = n - 1 THEN 0 ELSE k + 1
  <1>1. ASSUME NEW m \in 1..n PROVE m % n = IF m = n THEN 0 ELSE m
    BY SMTT(30)
  <1>2. k + 1 \in 1..n
    OBVIOUS
  <1>3. QED
    BY <1>1, <1>2

USE RingAssumption

\* available is the length of Contents and less than SERIAL_BUFFER_SIZE.
LEMMA AvailableRange ==
  ASSUME TypeOK
  PROVE  available \in 0..(SERIAL_BUFFER_SIZE - 1)
  BY DEF TypeOK, available, Index

AvailableOK == available \in 0..(SERIAL_BUFFER_SIZE - 1)

\* The same as an implication.
LEMMA AvailableType == TypeOK => AvailableOK
  BY AvailableRange DEF AvailableOK

\* ... in the next state as well.
LEMMA AvailableNext == TypeOK' => AvailableOK'
  BY AvailableType, PTL

\* A byte that lies before a unread bytes of r, and then before b of t.
LEMMA StaysBefore ==
  ASSUME NEW h \in Nat, NEW a \in Nat, NEW l \in Nat, NEW r \in Nat,
         NEW b \in Nat, NEW m \in Nat, NEW t \in Nat,
         h + a + l <= r, b + m + r <= a + l + t
  PROVE  h + b + m <= t
  OBVIOUS

\* A step that reads nothing, and after which no more bytes are unread than have
\* arrived in it, leaves what was read before what is unread.
LEMMA HandedKept ==
  ASSUME TypeOK, TypeOK', HandedInv, handed' = handed,
         available' + Len(line') + arrived <= available + Len(line) + arrived'
  PROVE  HandedInv'
  <1>1. /\ available \in Nat /\ Len(line) \in Nat /\ arrived \in Nat
        /\ handed \in Seq(Nat)
    BY AvailableRange, LenProperties DEF TypeOK
  <1>2. available' \in Nat /\ Len(line') \in Nat /\ arrived' \in Nat
    <2>1. available' \in 0..(SERIAL_BUFFER_SIZE - 1)
      BY AvailableNext DEF AvailableOK
    <2>2. QED
      BY <2>1, LenProperties DEF TypeOK
  <1>3. ASSUME NEW k \in 1..Len(handed')
        PROVE  handed'[k] + available' + Len(line') <= arrived'
    <2>1. k \in 1..Len(handed) /\ handed'[k] = handed[k]
      OBVIOUS
    <2>2. handed[k] \in Nat
      BY <1>1, <2>1
    <2>3. handed[k] + available + Len(line) <= arrived
      BY <2>1 DEF HandedInv
    <2>4. handed[k] + available' + Len(line') <= arrived'
      BY <1>1, <1>2, <2>2, <2>3, StaysBefore
    <2>5. QED
      BY <2>1, <2>4
  <1>4. ReadsAdvance'
    BY DEF HandedInv, ReadsAdvance
  <1>5. QED
    BY <1>3, <1>4 DEF HandedInv

\* read() hands out the first unread byte, which comes after all that were read.
LEMMA HandedGrows ==
  ASSUME TypeOK, HandedInv, NEW b \in Nat,
         available # 0, b = arrived - (available + Len(line)) + 1,
         handed' = Append(handed, b),
         available' = available - 1, UNCHANGED <<line, arrived>>
  PROVE  HandedInv'
  <1>1. /\ available \in Nat /\ Len(line) \in Nat /\ arrived \in Nat
        /\ handed \in Seq(Nat)
    BY AvailableRange, LenProperties DEF TypeOK
  <1> DEFINE n == Len(handed)
  <1>2. /\ n \in Nat /\ Len(handed') = n + 1 /\ handed'[n + 1] = b
        /\ \A k \in 1..n : handed'[k] = handed[k] /\ handed[k] \in Nat
    BY <1>1, AppendProperties, LenProperties, SMTT(40)
  <1>3. \A k \in 1..n : handed[k] + available + Len(line) <= arrived
    BY DEF HandedInv
  <1>4. \A j, k \in 1..n : j < k => handed[j] < handed[k]
    BY DEF HandedInv, ReadsAdvance
  <1> HIDE DEF n
  <1>5. \A k \in 1..n : handed[k] < b
    BY <1>1, <1>2, <1>3, SMTT(40)
  <1>6. ASSUME NEW k \in 1..(n + 1)
        PROVE  handed'[k] + available' + Len(line') <= arrived'
    <2>1. CASE k = n + 1
      BY <1>1, <1>2, <2>1
    <2>2. CASE k \in 1..n
      <3>1. handed[k] \in Nat /\ handed'[k] = handed[k] /\ handed[k] + available + Len(line) <= arrived
        BY <1>2, <1>3, <2>2
      <3>2. available - 1 \in Nat /\ (available - 1) + Len(line) + arrived <= available + Len(line) + arrived
        BY <1>1
      <3>3. handed[k] + (available - 1) + Len(line) <= arrived
        BY <1>1, <3>1, <3>2, StaysBefore
      <3>4. QED
        BY <3>1, <3>3
    <2>3. QED
      BY <1>2, <2>1, <2>2
  <1>7. ASSUME NEW j \in 1..(n + 1), NEW k \in 1..(n + 1), j < k
        PROVE  handed'[j] < handed'[k]
    <2>1. j \in 1..n /\ (k = n + 1 \/ k \in 1..n)
      BY <1>2, <1>7
    <2>2. CASE k = n + 1
      BY <1>2, <1>5, <2>1, <2>2
    <2>3. CASE k \in 1..n
      BY <1>2, <1>4, <1>7, <2>1, <2>3
    <2>4. QED
      BY <2>1, <2>2, <2>3
  <1>8. QED
    BY <1>2, <1>6, <1>7 DEF HandedInv, ReadsAdvance

\* HwSerial starts with an empty ring.
LEMMA InvInit == Init => IInv
  <1> SUFFICES ASSUME Init PROVE IInv
    OBVIOUS
  <1>1. TypeOK
    BY DEF Init, TypeOK, Index
  <1>2. available = 0 /\ Len(line) = 0
    BY DEF Init, available
  <1>3. QED
    BY <1>1, <1>2 DEF Init, IInv, UnreadIsSuffix, HandedInv, ReadsAdvance

\* process_recv keeps the unread bytes consecutive: each slot of the new block is
\* where At and Offset agree, on both sides of the wrap.
LEMMA ReceiveStep == IInv /\ process_recv => IInv'
  <1> SUFFICES ASSUME IInv, process_recv PROVE IInv'
    OBVIOUS
  <1> USE DEF IInv, TypeOK, Index
  <1>1. PICK n \in 1..Len(line) :
          /\ n <= SERIAL_BUFFER_SIZE - available
          /\ buffer' = [k \in Index |->
                          IF Offset(k) < n THEN line[Offset(k) + 1] ELSE buffer[k]]
          /\ tail' = IF n >= SERIAL_BUFFER_SIZE - tail
                       THEN n - (SERIAL_BUFFER_SIZE - tail)
                       ELSE tail + n
          /\ line' = SubSeq(line, n + 1, Len(line))
          /\ UNCHANGED <<head, arrived, handed>>
    BY DEF process_recv
  <1>2. available \in 0..(SERIAL_BUFFER_SIZE - 1)
    BY AvailableRange
  <1>3. /\ line' \in Seq(Nat) /\ Len(line') = Len(line) - n
        /\ \A j \in 1..Len(line') : j + n \in 1..Len(line) /\ line'[j] = line[j + n]
    BY <1>1, SMTT(40)
  <1>4. tail' \in Index
    <2>1. n \in Nat \ {0} /\ n <= SERIAL_BUFFER_SIZE - available
      BY <1>1
    <2>2. tail' = IF n >= SERIAL_BUFFER_SIZE - tail
                    THEN n - (SERIAL_BUFFER_SIZE - tail)
                    ELSE tail + n
      BY <1>1
    <2>3. QED
      BY <1>2, <2>1, <2>2
  <1>5. \A k \in Index : Offset(k) \in Nat
    BY DEF Offset
  <1>6. /\ n \in Nat \ {0} /\ Len(line) \in Nat /\ n <= Len(line)
        /\ available + n <= SERIAL_BUFFER_SIZE
        /\ arrived' = arrived /\ head' = head
    BY <1>1, <1>2
  <1>7. buffer' \in [Index -> Nat]
    <2>1. ASSUME NEW k \in Index
          PROVE  (IF Offset(k) < n THEN line[Offset(k) + 1] ELSE buffer[k]) \in Nat
      <3>1. CASE Offset(k) < n
        <4>1. Offset(k) + 1 \in 1..Len(line)
          <5>1. Offset(k) \in Nat
            BY <1>5
          <5>2. QED
            BY <5>1, <1>6, <3>1
        <4>2. QED
          BY <3>1, <4>1, SMTT(40)
      <3>2. CASE ~(Offset(k) < n)
        BY <3>2
      <3>3. QED
        BY <3>1, <3>2
    <2>2. QED
      BY <1>1, <2>1
  <1>8. TypeOK'
    BY <1>1, <1>3, <1>4, <1>7
  <1>9. available' = IF available + n = SERIAL_BUFFER_SIZE THEN 0 ELSE available + n
    <2>1. tail' = IF n >= SERIAL_BUFFER_SIZE - tail
                    THEN n - (SERIAL_BUFFER_SIZE - tail)
                    ELSE tail + n
      BY <1>1
    <2>2. head \in 0..(SERIAL_BUFFER_SIZE - 1) /\ tail \in 0..(SERIAL_BUFFER_SIZE - 1)
      OBVIOUS
    <2>3. n \in Nat \ {0} /\ n <= SERIAL_BUFFER_SIZE - available /\ head' = head
      BY <1>1
    <2> HIDE DEF IInv, TypeOK
    <2>4. QED
      BY <2>1, <2>2, <2>3 DEF available
  <1>10. HandedInv'
    <2>1. Len(line') = Len(line) - n
      BY <1>3
    <2>2. available' + Len(line') + arrived <= available + Len(line) + arrived'
      BY <1>2, <1>6, <1>9, <2>1
    <2>3. QED
      BY <1>1, <1>8, <2>2, HandedKept
  <1>11. UnreadIsSuffix'
    <2>1. available' + Len(line') <= arrived'
      <3>1. Len(line') = Len(line) - n /\ available + Len(line) <= arrived
        BY <1>3 DEF UnreadIsSuffix
      <3>2. QED
        BY <1>2, <1>6, <1>9, <3>1
    <2>2. ASSUME NEW j \in 1..available'
          PROVE  buffer'[At(j - 1)'] = arrived' - (available' + Len(line')) + j
      <3>1. available' = available + n /\ available + n < SERIAL_BUFFER_SIZE
        BY <1>1, <1>2, <1>9, <2>2
      <3>2. At(j - 1)' = At(j - 1) /\ At(j - 1) \in Index
        BY <1>1, <1>2, <3>1 DEF At
      <3>3. CASE j <= available
        <4>1. ~(Offset(At(j - 1)) < n)
          BY <1>1, <1>2, <3>1, <3>3 DEF At, Offset, available
        <4>2. buffer'[At(j - 1)] = buffer[At(j - 1)]
          BY <1>1, <3>2, <4>1
        <4>3. buffer[At(j - 1)] = arrived - (available + Len(line)) + j
          BY <1>2, <3>3 DEF UnreadIsSuffix
        <4>4. Len(line') = Len(line) - n
          BY <1>3
        <4>5. QED
          BY <1>2, <1>6, <3>1, <3>2, <4>2, <4>3, <4>4
      <3>4. CASE j > available
        <4>1. Offset(At(j - 1)) = j - 1 - available
          BY <1>1, <1>2, <3>1, <3>4 DEF At, Offset, available
        <4>2. j - available \in 1..n /\ j - available \in 1..Len(line)
          BY <1>1, <1>2, <3>1, <3>4
        <4>3. buffer'[At(j - 1)] = line[j - available]
          BY <1>1, <1>2, <3>2, <4>1, <4>2, SMTT(40)
        <4>4. line[j - available] = arrived - Len(line) + (j - available)
          BY <4>2 DEF UnreadIsSuffix
        <4>5. Len(line') = Len(line) - n
          BY <1>3
        <4>6. QED
          BY <1>2, <1>6, <3>1, <3>2, <4>3, <4>4, <4>5
      <3>5. QED
        BY <1>2, <3>3, <3>4
    <2>3. ASSUME NEW j \in 1..Len(line')
          PROVE  line'[j] = arrived' - Len(line') + j
      <3>1. line'[j] = line[j + n] /\ j + n \in 1..Len(line)
        BY <1>3
      <3>2. line[j + n] = arrived - Len(line) + (j + n)
        BY <3>1 DEF UnreadIsSuffix
      <3>3. Len(line') = Len(line) - n /\ j \in Nat
        BY <1>3
      <3>4. QED
        BY <1>6, <3>1, <3>2, <3>3
    <2>4. QED
      BY <2>1, <2>2, <2>3 DEF UnreadIsSuffix
  <1>12. QED
    BY <1>8, <1>10, <1>11

\* read takes the first unread byte.
LEMMA ReadStep ==
  IInv /\ read => IInv' /\ available # 0 /\ handed' = Append(handed, Contents[1])
  <1> SUFFICES ASSUME IInv, read
               PROVE  IInv' /\ available # 0 /\ handed' = Append(handed, Contents[1])
    OBVIOUS
  <1> USE DEF IInv, TypeOK, Index
  <1>1. /\ head # tail /\ handed' = Append(handed, buffer[head])
        /\ head' = (head + 1) % SERIAL_BUFFER_SIZE
        /\ UNCHANGED <<buffer, tail, line, arrived>>
    BY DEF read
  <1>2. head' = IF head = SERIAL_BUFFER_SIZE - 1 THEN 0 ELSE head + 1
    BY <1>1, Wrap
  <1>3. available \in 1..(SERIAL_BUFFER_SIZE - 1) /\ available' = available - 1
    <2>1. head # tail /\ tail' = tail
      BY <1>1
    <2>2. QED
      BY <1>2, <2>1 DEF available
  <1>4. TypeOK'
    <2>1. buffer[head] \in Nat /\ head' \in Index
      BY <1>1, <1>2
    <2>2. handed' \in Seq(Nat)
      BY <1>1, <2>1, AppendProperties
    <2>3. QED
      BY <1>1, <2>1, <2>2
  <1>5. buffer[head] = buffer[At(1 - 1)] /\ buffer[head] = Contents[1] /\ buffer[head] \in Nat
    BY <1>1, <1>3 DEF At, Contents
  <1>6. buffer[head] = arrived - (available + Len(line)) + 1
    <2>1. 1 \in 1..available
      BY <1>3
    <2>2. buffer[At(1 - 1)] = arrived - (available + Len(line)) + 1
      BY <2>1 DEF UnreadIsSuffix
    <2>3. QED
      BY <1>5, <2>2
  <1>7. HandedInv'
    <2>1. available # 0 /\ available' = available - 1
      BY <1>3
    <2> HIDE DEF IInv, TypeOK, Index
    <2>2. TypeOK /\ HandedInv
      BY DEF IInv
    <2>3. QED
      BY <1>1, <1>5, <1>6, <2>1, <2>2, HandedGrows
  <1>8. UnreadIsSuffix'
    <2>1. ASSUME NEW j \in 1..available'
          PROVE  buffer'[At(j - 1)'] = arrived' - (available' + Len(line')) + j
      <3>1. j + 1 \in 1..available /\ j \in Nat \ {0}
        BY <1>3
      <3>2. At(j - 1)' = At((j + 1) - 1)
        <4>1. j - 1 \in Nat /\ (j + 1) - 1 = j /\ j < SERIAL_BUFFER_SIZE
          BY <1>3, <3>1
        <4>2. QED
          BY <1>2, <4>1 DEF At
      <3>3. buffer[At((j + 1) - 1)] = arrived - (available + Len(line)) + (j + 1)
        BY <3>1 DEF UnreadIsSuffix
      <3>4. QED
        BY <1>1, <1>3, <3>1, <3>2, <3>3
    <2>2. available' + Len(line') <= arrived'
      BY <1>1, <1>3 DEF UnreadIsSuffix
    <2>3. QED
      BY <1>1, <2>1, <2>2 DEF UnreadIsSuffix
  <1>9. available # 0
    BY <1>3
  <1>10. QED
    BY <1>1, <1>4, <1>5, <1>7, <1>8, <1>9

\* Bytes that arrive, and a flush, keep it too.
LEMMA OtherStep == IInv /\ (Arrive \/ flush \/ UNCHANGED vars) => IInv'
  <1> USE DEF IInv, TypeOK, Index
  <1>1. ASSUME IInv, Arrive PROVE IInv'
    <2>1. /\ arrived' = arrived + 1 /\ line' = Append(line, arrived + 1)
          /\ UNCHANGED <<buffer, head, tail, handed>>
      BY <1>1 DEF Arrive
    <2>2. /\ line' \in Seq(Nat) /\ Len(line') = Len(line) + 1 /\ Len(line) \in Nat
          /\ \A j \in 1..Len(line) : line'[j] = line[j]
          /\ line'[Len(line) + 1] = arrived + 1
      BY <1>1, <2>1
    <2>3. TypeOK' /\ available' = available /\ available \in Nat
      BY <1>1, <2>1, <2>2, AvailableRange DEF available
    <2>4. \A j \in 1..available : At(j - 1)' = At(j - 1)
      BY <2>1 DEF At
    <2>5. HandedInv'
      <3>1. available' + Len(line') + arrived <= available + Len(line) + arrived'
        BY <1>1, <2>1, <2>2, <2>3
      <3>2. QED
        BY <1>1, <2>1, <2>3, <3>1, HandedKept
    <2>6. UnreadIsSuffix'
      <3>1. available' + Len(line') <= arrived'
        BY <1>1, <2>1, <2>2, <2>3 DEF UnreadIsSuffix
      <3>2. ASSUME NEW j \in 1..available'
            PROVE  buffer'[At(j - 1)'] = arrived' - (available' + Len(line')) + j
        <4>1. j \in 1..available /\ buffer'[At(j - 1)'] = buffer[At(j - 1)]
          BY <2>1, <2>3, <2>4
        <4>2. buffer[At(j - 1)] = arrived - (available + Len(line)) + j
          BY <1>1, <4>1 DEF UnreadIsSuffix
        <4>3. QED
          BY <1>1, <2>1, <2>2, <2>3, <4>1, <4>2
      <3>3. ASSUME NEW j \in 1..Len(line')
            PROVE  line'[j] = arrived' - Len(line') + j
        <4>1. CASE j = Len(line) + 1
          BY <1>1, <2>1, <2>2, <4>1
        <4>2. CASE j # Len(line) + 1
          <5>1. j \in 1..Len(line) /\ line'[j] = line[j]
            BY <2>2, <4>2
          <5>2. line[j] = arrived - Len(line) + j
            BY <1>1, <5>1 DEF UnreadIsSuffix
          <5>3. QED
            BY <1>1, <2>1, <2>2, <5>1, <5>2
        <4>3. QED
          BY <4>1, <4>2
      <3>4. QED
        BY <3>1, <3>2, <3>3 DEF UnreadIsSuffix
    <2>7. QED
      BY <2>3, <2>5, <2>6
  <1>2. ASSUME IInv, flush PROVE IInv'
    <2>1. /\ head' = 0 /\ tail' = 0 /\ line' = <<>> /\ UNCHANGED <<buffer, arrived, handed>>
      BY <1>2 DEF flush
    <2>2. available' = 0 /\ Len(line') = 0
      BY <2>1 DEF available
    <2>3. TypeOK'
      BY <1>2, <2>1
    <2>4. available \in Nat /\ Len(line) \in Nat
      BY <1>2, AvailableRange
    <2>5. HandedInv'
      <3>1. available' + Len(line') + arrived <= available + Len(line) + arrived'
        BY <1>2, <2>1, <2>2, <2>4
      <3>2. QED
        BY <1>2, <2>1, <2>3, <3>1, HandedKept
    <2>6. QED
      BY <1>2, <2>1, <2>2, <2>3, <2>5 DEF UnreadIsSuffix
  <1>3. ASSUME IInv, UNCHANGED vars PROVE IInv'
    BY <1>3 DEF vars, available, At, UnreadIsSuffix, HandedInv, ReadsAdvance
  <1>4. QED
    BY <1>1, <1>2, <1>3

\* The invariant holds in every reachable state.
THEOREM RingInvariant == Spec => []IInv
  <1>1. IInv /\ [Next]_vars => IInv'
    BY ReceiveStep, ReadStep, OtherStep DEF Next
  <1>2. QED
    BY <1>1, InvInit, PTL DEF Spec

\* head and tail never leave the buffer, whatever the blocks that arrive.
THEOREM TypeCorrect == Spec => []TypeOK
  <1>1. IInv => TypeOK
    BY DEF IInv
  <1>2. QED
    BY <1>1, RingInvariant, PTL

\* What is unread is always the end of the stream, in order and without a gap.
THEOREM SuffixUnread == Spec => []UnreadIsSuffix
  <1>1. IInv => UnreadIsSuffix
    BY DEF IInv
  <1>2. QED
    BY <1>1, RingInvariant, PTL

\* read() never hands out a byte twice or after a later one.
THEOREM ReadsInOrder == Spec => []ReadsAdvance
  <1>1. IInv => ReadsAdvance
    BY DEF IInv, HandedInv
  <1>2. QED
    BY <1>1, RingInvariant, PTL

-----------------------------------------------------------------------------
\* The sequence Contents, slot by slot.
ContentsOK ==
  /\ Contents \in Seq(Nat) /\ Len(Contents) = available
  /\ \A j \in 1..available : Contents[j] = buffer[At(j - 1)]

\* Contents is a sequence of bytes, as long as available says.
LEMMA ContentsSeq == TypeOK => ContentsOK
  <1> SUFFICES ASSUME TypeOK PROVE ContentsOK
    OBVIOUS
  <1>1. available \in Nat
    BY AvailableRange
  <1>2. ASSUME NEW j \in 1..available PROVE buffer[At(j - 1)] \in Nat
    <2>1. At(j - 1) \in Index
      BY DEF TypeOK, Index, At, available
    <2>2. QED
      BY <2>1 DEF TypeOK
  <1>3. QED
    BY <1>1, <1>2 DEF Contents, ContentsOK

\* ... in the next state as well.
LEMMA ContentsSeqNext == TypeOK' => ContentsOK'
  BY ContentsSeq, PTL

\* process_recv appends its block to the queue, or loses the queue when it fills it.
LEMMA ReceiveRefines == IInv /\ process_recv => Fifo!Receive
  <1> SUFFICES ASSUME IInv, process_recv PROVE Fifo!Receive
    OBVIOUS
  <1>1. TypeOK /\ TypeOK' /\ UnreadIsSuffix /\ UnreadIsSuffix'
    BY ReceiveStep DEF IInv
  <1>2. PICK n \in 1..Len(line) :
          /\ n <= SERIAL_BUFFER_SIZE - available
          /\ tail' = IF n >= SERIAL_BUFFER_SIZE - tail
                       THEN n - (SERIAL_BUFFER_SIZE - tail)
                       ELSE tail + n
          /\ line' = SubSeq(line, n + 1, Len(line))
          /\ UNCHANGED <<head, arrived, handed>>
    BY DEF process_recv
  <1>3. available \in 0..(SERIAL_BUFFER_SIZE - 1) /\ Len(line) \in Nat /\ arrived \in Nat
    BY <1>1, AvailableRange DEF TypeOK
  <1>4. available' = IF available + n = SERIAL_BUFFER_SIZE THEN 0 ELSE available + n
    <2>1. n \in Nat \ {0} /\ n <= SERIAL_BUFFER_SIZE - available /\ head' = head
      BY <1>2
    <2>2. tail' = IF n >= SERIAL_BUFFER_SIZE - tail
                    THEN n - (SERIAL_BUFFER_SIZE - tail)
                    ELSE tail + n
      BY <1>2
    <2>3. head \in 0..(SERIAL_BUFFER_SIZE - 1) /\ tail \in 0..(SERIAL_BUFFER_SIZE - 1)
      BY <1>1 DEF TypeOK, Index
    <2>4. QED
      BY <2>1, <2>2, <2>3 DEF available
  <1>5. Len(line') = Len(line) - n
    BY <1>1, <1>2 DEF TypeOK
  <1>6. /\ Contents \in Seq(Nat) /\ Len(Contents) = available
        /\ \A j \in 1..available : Contents[j] = buffer[At(j - 1)]
    BY <1>1, ContentsSeq DEF ContentsOK
  <1>7. Contents' \in Seq(Nat) /\ Len(Contents') = available'
        /\ \A j \in 1..available' : Contents'[j] = buffer'[At(j - 1)']
    BY <1>1, ContentsSeqNext DEF ContentsOK
  <1>8. Contents' = Fifo!Received(Contents, line, n)
    <2>1. CASE available + n = SERIAL_BUFFER_SIZE
      BY <1>4, <1>6, <1>7, <2>1 DEF Fifo!Received
    <2>2. CASE available + n # SERIAL_BUFFER_SIZE
      <3>1. /\ SubSeq(line, 1, n) \in Seq(Nat) /\ Len(SubSeq(line, 1, n)) = n
            /\ \A j \in 1..n : SubSeq(line, 1, n)[j] = line[j]
        <4>1. line \in Seq(Nat) /\ n \in 1..Len(line)
          BY <1>1 DEF TypeOK
        <4>2. QED
          BY <4>1
      <3> DEFINE both == Contents \o SubSeq(line, 1, n)
      <3>2. /\ both \in Seq(Nat) /\ Len(both) = available + n
            /\ \A j \in 1..available : both[j] = Contents[j]
            /\ \A j \in (available + 1)..(available + n) :
                 both[j] = SubSeq(line, 1, n)[j - available]
        <4>1. n \in Nat /\ available \in Nat /\ Contents \in Seq(Nat) /\ Len(Contents) = available
          BY <1>2, <1>3, <1>6
        <4>2. /\ both \in Seq(Nat) /\ Len(both) = Len(Contents) + Len(SubSeq(line, 1, n))
              /\ \A j \in 1..(Len(Contents) + Len(SubSeq(line, 1, n))) :
                   both[j] = IF j <= Len(Contents) THEN Contents[j]
                             ELSE SubSeq(line, 1, n)[j - Len(Contents)]
          BY <3>1, <4>1, ConcatProperties
        <4> HIDE DEF both
        <4>3. /\ both \in Seq(Nat) /\ Len(both) = available + n
              /\ \A j \in 1..(available + n) :
                   both[j] = IF j <= available THEN Contents[j]
                             ELSE SubSeq(line, 1, n)[j - available]
          BY <3>1, <4>1, <4>2
        <4>4. QED
          BY <4>1, <4>3
      <3>3. Len(Contents') = available + n
        BY <1>4, <1>7, <2>2
      <3>4. ASSUME NEW j \in 1..(available + n)
            PROVE  both[j] = Contents'[j]
        <4>1. Contents'[j] = arrived - (available + Len(line)) + j
          <5>1. j \in 1..available' /\ arrived' = arrived
                /\ available' + Len(line') = available + Len(line)
            <6>1. available' = available + n /\ n \in Nat
              BY <1>4, <2>2
            <6>2. arrived' = arrived
              BY <1>2
            <6>3. QED
              BY <1>3, <1>5, <6>1, <6>2
          <5>2. buffer'[At(j - 1)'] = arrived' - (available' + Len(line')) + j
            BY <1>1, <5>1 DEF UnreadIsSuffix
          <5>3. QED
            BY <1>7, <5>1, <5>2
        <4>2. CASE j <= available
          <5>1. both[j] = buffer[At(j - 1)] /\ j \in 1..available
            BY <1>3, <1>6, <3>2, <4>2
          <5>2. QED
            BY <1>1, <4>1, <5>1 DEF UnreadIsSuffix
        <4>3. CASE j > available
          <5>1. j \in (available + 1)..(available + n) /\ j - available \in 1..n
                /\ j - available \in 1..Len(line)
            BY <1>2, <1>3, <4>3
          <5>2. both[j] = line[j - available]
            BY <3>1, <3>2, <5>1
          <5>3. line[j - available] = arrived - Len(line) + (j - available)
            BY <1>1, <5>1 DEF UnreadIsSuffix
          <5>4. j \in Nat
            OBVIOUS
          <5>5. Contents'[j] = line[j - available]
            BY <1>3, <4>1, <5>3, <5>4
          <5>6. QED
            BY <5>2, <5>5
        <4>4. QED
          <5>1. j \in Nat /\ available \in Nat
            BY <1>3
          <5>2. j <= available \/ j > available
            BY <5>1
          <5>3. QED
            BY <4>2, <4>3, <5>2
      <3>5. both = Contents'
        <4> HIDE DEF both
        <4>1. QED
          BY <1>7, <3>2, <3>3, <3>4, SeqEqual
      <3>6. QED
        BY <1>3, <1>6, <2>2, <3>5 DEF Fifo!Received
    <2>3. QED
      BY <2>1, <2>2
  <1>9. /\ n \in 1..Len(line) /\ Len(Contents) + n <= SERIAL_BUFFER_SIZE
        /\ line' = SubSeq(line, n + 1, Len(line)) /\ UNCHANGED <<arrived, Latest>>
    <2>1. Len(Contents) + n <= SERIAL_BUFFER_SIZE
      <3>1. n <= SERIAL_BUFFER_SIZE - available /\ n \in Nat
        BY <1>2
      <3>2. QED
        BY <1>3, <1>6, <3>1
    <2>2. UNCHANGED Latest
      BY <1>2 DEF Latest
    <2>3. QED
      BY <1>2, <2>1, <2>2
  <1>10. QED
    BY <1>8, <1>9, Zenon DEF Fifo!Receive

\* read takes the head of the queue.
LEMMA ReadRefines == IInv /\ read => Fifo!Read
  <1> SUFFICES ASSUME IInv, read PROVE Fifo!Read
    OBVIOUS
  <1>1. TypeOK /\ TypeOK' /\ UnreadIsSuffix /\ UnreadIsSuffix'
    BY ReadStep DEF IInv
  <1>2. head # tail /\ UNCHANGED <<line, arrived>> /\ head' = (head + 1) % SERIAL_BUFFER_SIZE
        /\ tail' = tail
    BY DEF read
  <1>3. /\ Contents \in Seq(Nat) /\ Len(Contents) = available
        /\ \A j \in 1..available : Contents[j] = buffer[At(j - 1)]
    BY <1>1, ContentsSeq DEF ContentsOK
  <1>4. /\ Contents' \in Seq(Nat) /\ Len(Contents') = available'
        /\ \A j \in 1..available' : Contents'[j] = buffer'[At(j - 1)']
    BY <1>1, ContentsSeqNext DEF ContentsOK
  <1>5. available \in 1..(SERIAL_BUFFER_SIZE - 1) /\ available' = available - 1
    <2>1. head' = IF head = SERIAL_BUFFER_SIZE - 1 THEN 0 ELSE head + 1
      BY <1>1, <1>2, Wrap DEF TypeOK, Index
    <2>2. QED
      <3>1. head # tail /\ tail' = tail
        BY <1>2
      <3>2. QED
        BY <1>1, <2>1, <3>1 DEF available, TypeOK, Index
  <1>6. Contents # <<>> /\ Latest' = Head(Contents)
    <2>1. handed' = Append(handed, Contents[1]) /\ handed \in Seq(Nat) /\ 1 \in 1..available
      BY <1>1, <1>5, ReadStep DEF TypeOK
    <2>2. Contents[1] \in Nat /\ Head(Contents) = Contents[1] /\ Contents # <<>>
      BY <1>3, <1>5, <2>1
    <2>3. handed' # <<>> /\ handed'[Len(handed')] = Contents[1]
      BY <2>1, <2>2, AppendProperties
    <2>4. QED
      BY <2>2, <2>3 DEF Latest
  <1>7. Tail(Contents) = Contents'
    <2>1. /\ Tail(Contents) \in Seq(Nat) /\ Len(Tail(Contents)) = available'
          /\ \A j \in 1..available' : Tail(Contents)[j] = Contents[j + 1]
      BY <1>3, <1>5, <1>6
    <2>2. ASSUME NEW j \in 1..available' PROVE Tail(Contents)[j] = Contents'[j]
      <3>1. j + 1 \in 1..available /\ Len(line') = Len(line) /\ arrived' = arrived
        BY <1>2, <1>5
      <3>2. Contents[j + 1] = arrived - (available + Len(line)) + (j + 1)
        BY <1>1, <1>3, <3>1 DEF UnreadIsSuffix
      <3>3. Contents'[j] = arrived' - (available' + Len(line')) + j
        BY <1>1, <1>4 DEF UnreadIsSuffix
      <3>4. arrived \in Nat /\ Len(line) \in Nat
        BY <1>1 DEF TypeOK
      <3>5. QED
        BY <1>5, <2>1, <3>1, <3>2, <3>3, <3>4
    <2>3. QED
      BY <1>4, <2>1, <2>2, SeqEqual
  <1>8. QED
    BY <1>2, <1>6, <1>7 DEF Fifo!Read

\* The ring implements the queue that Get_Energy is modelled on: every step of the
\* ring is the step of the queue with the same name.
THEOREM RingRefinesFifo == Spec => ImplementsFifo
  <1>1. Init => Fifo!Init
    <2>1. ASSUME Init PROVE TypeOK /\ available = 0
      BY <2>1, InvInit DEF IInv, Init, available
    <2>2. ASSUME Init PROVE Contents = <<>>
      BY <2>1, <2>2, ContentsSeq DEF ContentsOK
    <2>3. QED
      BY <2>2 DEF Init, Latest, Fifo!Init
  <1>2. IInv /\ [Next]_vars => [Fifo!Next]_Fifo!fifoVars
    <2> SUFFICES ASSUME IInv, [Next]_vars PROVE [Fifo!Next]_Fifo!fifoVars
      OBVIOUS
    <2>1. CASE Arrive
      <3>1. Contents' = Contents
        BY <2>1 DEF Arrive, Contents, available, At
      <3>2. QED
        BY <2>1, <3>1 DEF Arrive, Latest, Fifo!Next, Fifo!Arrive
    <2>2. CASE process_recv
      BY <2>2, ReceiveRefines DEF Fifo!Next
    <2>3. CASE read
      BY <2>3, ReadRefines DEF Fifo!Next
    <2>4. CASE flush
      <3>1. TypeOK' /\ available' = 0
        BY <2>4, OtherStep DEF IInv, flush, available
      <3>2. Contents' = <<>>
        BY <3>1, ContentsSeqNext DEF ContentsOK
      <3>3. QED
        BY <2>4, <3>2 DEF flush, Latest, Fifo!Next, Fifo!Flush
    <2>5. CASE UNCHANGED vars
      BY <2>5 DEF vars, Latest, Fifo!fifoVars, Contents, available, At
    <2>6. QED
      BY <2>1, <2>2, <2>3, <2>4, <2>5 DEF Next
  <1>3. QED
    BY <1>1, <1>2, RingInvariant, PTL DEF Spec, ImplementsFifo, Fifo!Spec
=============================================================================
