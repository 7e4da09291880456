---------------------------- MODULE CaptureQueue ----------------------------
(***************************************************************************)
(* The camera side of the program, codes/scr/capture.cpp: a ring of mmap'ed *)
(* V4L2 buffers that the program and the driver pass back and forth.       *)
(*                                                                         *)
(* The program keeps a static index i and ASSUMES that the buffer the      *)
(* driver hands back is buffer i: Buffer_Dequeue(i) writes i in the query, *)
(* the driver overwrites it with the buffer it really dequeues, and nobody *)
(* compares the two.  The properties say when that assumption is safe.     *)
(*                                                                         *)
(* The driver (external: no V4L2 code under src/) is the FIFO that the     *)
(* program relies on: buffers are filled in the order they were queued,    *)
(* VIDIOC_DQBUF returns the oldest filled one.                             *)
(***************************************************************************)
EXTENDS Naturals, Sequences

CONSTANTS
  BUFFER_FRAME_NUM,  \* buffers the program asks for
  MaxCount,          \* bound: the largest count the driver may grant
  MaxFrames          \* bound: frames the camera produces

ASSUME CaptureAssumption ==
  /\ BUFFER_FRAME_NUM \in Nat \ {0}
  /\ MaxCount \in Nat
  /\ MaxFrames \in Nat

VARIABLES
  pc,        \* where the (single) program thread is
  count,     \* video.buffer.req.count, the number the driver granted
  mapped,    \* buffers mapped so far: 0 .. mapped - 1
  i,         \* the static index of Video_Capture
  dq,        \* the index VIDIOC_DQBUF returned in video.buffer.query
  fifo,      \* driver: queued buffers, oldest first
  done,      \* driver: how many at the head of fifo hold a frame
  content,   \* driver: the frame each buffer holds, 0 for none
  frames,    \* driver: frames produced
  streaming, \* driver: between STREAMON and STREAMOFF
  copied     \* history: the frame each Video_Capture copied, in that order

capturevars == <<pc, count, mapped, i, dq, fifo, done, content, frames, streaming, copied>>
driver == <<fifo, done, content, frames, streaming>>

Labels == {"open", "para", "request", "map", "enqueue", "streamon", "ready",
           "dequeue", "copy", "requeue", "close", "free", "end", "failed"}

\* Buffers the driver owns: the program must not read or queue them.
Owned == {fifo[j] : j \in 1..Len(fifo)}

CaptureInit ==
  /\ pc = "open"
  /\ count = 0
  /\ mapped = 0
  /\ i = 0
  /\ dq = 0
  /\ fifo = <<>>
  /\ done = 0
  /\ content = [b \in 0..MaxCount |-> 0]
  /\ frames = 0
  /\ streaming = FALSE
  /\ copied = <<>>

\* Every system call is checked for -1 and ends the program with perror and
\* exit(); QBUF of a buffer the driver owns, refused below, can only end here.
Fail(label) ==
  /\ pc = label
  /\ pc' = "failed"
  /\ UNCHANGED <<count, mapped, i, dq, driver, copied>>

Goto(from, to) == pc = from /\ pc' = to

-----------------------------------------------------------------------------
Video_Open ==
  /\ Goto("open", "para")
  /\ UNCHANGED <<count, mapped, i, dq, driver, copied>>

Video_Set_Para ==
  /\ Goto("para", "request")
  /\ UNCHANGED <<count, mapped, i, dq, driver, copied>>

\* The driver may grant fewer buffers (the program gives up) or more.
Buffer_Request ==
  /\ pc = "request"
  /\ count' \in 1..MaxCount
  /\ pc' = IF count' < BUFFER_FRAME_NUM THEN "failed" ELSE "map"
  /\ UNCHANGED <<mapped, i, dq, driver, copied>>

Buffer_Map ==
  /\ Goto("map", "enqueue")
  /\ mapped' = mapped + 1
  /\ UNCHANGED <<count, i, dq, driver, copied>>

\* VIDIOC_QBUF of buffer b: the driver refuses one it already owns.
Buffer_Enqueue(b) ==
  /\ b \notin Owned
  /\ fifo' = Append(fifo, b)
  /\ UNCHANGED <<done, content, frames, streaming>>

\* The body of Buffer_Init's loop after Buffer_Map: queue, then the next one.
InitEnqueue ==
  /\ pc = "enqueue"
  /\ Buffer_Enqueue(mapped - 1)
  /\ pc' = IF mapped < count THEN "map" ELSE "streamon"
  /\ UNCHANGED <<count, mapped, i, dq, copied>>

Video_Streamon ==
  /\ Goto("streamon", "ready")
  /\ streaming' = TRUE
  /\ UNCHANGED <<count, mapped, i, dq, fifo, done, content, frames, copied>>

-----------------------------------------------------------------------------
\* Bug: the index is reduced by the number of buffers asked for.
StartCaptureAsked ==
  /\ Goto("ready", "dequeue")
  /\ i' = i % BUFFER_FRAME_NUM
  /\ UNCHANGED <<count, mapped, dq, driver, copied>>

\* Video_Capture: reduce the index, dequeue, copy, queue again, advance.
StartCapture ==
  /\ Goto("ready", "dequeue")
  /\ i' = i % count
  /\ UNCHANGED <<count, mapped, dq, driver, copied>>

\* Blocks until the driver has a filled buffer.
Buffer_Dequeue ==
  /\ Goto("dequeue", "copy")
  /\ done > 0
  /\ dq' = Head(fifo)
  /\ fifo' = Tail(fifo)
  /\ done' = done - 1
  /\ UNCHANGED <<count, mapped, i, content, frames, streaming, copied>>

CopyFrame ==
  /\ Goto("copy", "requeue")
  /\ copied' = Append(copied, content[i])
  /\ UNCHANGED <<count, mapped, i, dq, driver>>

\* Bug: the buffer is not queued again.
EndCaptureKeeps ==
  /\ Goto("requeue", "ready")
  /\ i' = i + 1
  /\ UNCHANGED <<count, mapped, dq, driver, copied>>

\* Bug: the index is not advanced, so the next capture copies the same buffer.
EndCaptureStays ==
  /\ Goto("requeue", "ready")
  /\ Buffer_Enqueue(i)
  /\ UNCHANGED <<count, mapped, i, dq, copied>>

EndCapture ==
  /\ Goto("requeue", "ready")
  /\ Buffer_Enqueue(i)
  /\ i' = i + 1
  /\ UNCHANGED <<count, mapped, dq, copied>>

-----------------------------------------------------------------------------
\* Video_Exit: STREAMOFF takes every buffer away from the driver's queues.
Video_Streamoff ==
  /\ Goto("ready", "close")
  /\ streaming' = FALSE
  /\ fifo' = <<>>
  /\ done' = 0
  /\ UNCHANGED <<count, mapped, i, dq, content, frames, copied>>

Video_Close ==
  /\ Goto("close", "free")
  /\ UNCHANGED <<count, mapped, i, dq, driver, copied>>

Buffer_Free ==
  /\ Goto("free", "end")
  /\ mapped' = 0
  /\ UNCHANGED <<count, i, dq, driver, copied>>

-----------------------------------------------------------------------------
\* The driver fills the oldest empty buffer with the next frame.
DriverFill ==
  /\ streaming
  /\ done < Len(fifo)
  /\ frames < MaxFrames
  /\ frames' = frames + 1
  /\ content' = [content EXCEPT ![fifo[done + 1]] = frames + 1]
  /\ done' = done + 1
  /\ UNCHANGED <<pc, count, mapped, i, dq, fifo, streaming, copied>>

Failing == {"open", "para", "request", "map", "enqueue", "streamon",
            "dequeue", "requeue", "ready"}

Program ==
  \/ Video_Open \/ Video_Set_Para \/ Buffer_Request \/ Buffer_Map \/ InitEnqueue
  \/ Video_Streamon
  \/ StartCapture \/ Buffer_Dequeue \/ CopyFrame \/ EndCapture
  \/ Video_Streamoff \/ Video_Close \/ Buffer_Free

CaptureNext ==
  \/ Program
  \/ DriverFill
  \/ \E label \in Failing : Fail(label)

CaptureSpec == CaptureInit /\ [][CaptureNext]_capturevars

\* Fairness: the program's thread runs whenever its system call can return (it
\* is never suspended for ever), and a streaming camera keeps filling buffers.
FairSpec == CaptureSpec /\ WF_capturevars(Program) /\ WF_capturevars(DriverFill)

-----------------------------------------------------------------------------
\* Types and ranges: the index of Video_Capture stays below the array's bound.
CaptureTypeOK ==
  /\ pc \in Labels
  /\ count \in 0..MaxCount
  /\ mapped \in 0..MaxCount
  /\ i \in 0..MaxCount
  /\ dq \in 0..MaxCount
  /\ fifo \in Seq(0..MaxCount)
  /\ done \in Nat
  /\ content \in [0..MaxCount -> Nat]
  /\ frames \in Nat
  /\ streaming \in BOOLEAN
  /\ copied \in Seq(Nat)

\* Video_Capture copies from, and queues again, exactly the buffer that the
\* driver dequeued, although it never looks at the index the driver returned:
\* the copy never reads memory the driver may be writing.
CopiesDequeuedBuffer ==
  pc \in {"copy", "requeue"} => i = dq /\ i \notin Owned

\* When the program blocks in VIDIOC_DQBUF every granted buffer is with the
\* driver, so none has leaked and the camera always has somewhere to write.
NoBufferLeaked ==
  pc = "dequeue" => Len(fifo) = count

\* The k-th Video_Capture copies the k-th frame that the camera produced: none is
\* copied again, skipped or copied before an earlier one.
EveryFrameOnce == \A k \in 1..Len(copied) : copied[k] = k

\* A capture that was started ends, unless a system call fails or the camera
\* has produced all its frames (the bound of the model): the program cannot
\* wait for a frame that no buffer is there to receive.
CaptureEnds ==
  pc = "dequeue" ~> pc \in {"copy", "failed"} \/ frames = MaxFrames
=============================================================================
