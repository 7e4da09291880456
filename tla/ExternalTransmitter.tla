------------------------- MODULE ExternalTransmitter --------------------------
(***************************************************************************)
(* RTPExternalTransmitter: packets are injected by threads of the          *)
(* application and taken by the poll thread, which sleeps in select on the *)
(* reading end of a pipe.  Every injection writes a byte to it.            *)
(*                                                                         *)
(* A section that holds the main mutex is one step, unless it waits inside *)
(* for the wait mutex or for room in the pipe.  Destroy unlocks the main   *)
(* mutex a second time when a wait was going on; such an unlock is taken   *)
(* to release the mutex whoever holds it.  Allocation failures are left    *)
(* out: the default allocator throws.                                      *)
(***************************************************************************)
EXTENDS Integers, Sequences

CONSTANTS
    Injector,       \* threads that inject packets
    PipeCapacity,   \* 65536
    MaxInjections   \* bound of the model

ASSUME ThreadAssumption == Injector \cap {"nobody", "waiter", "closer"} = {}
ASSUME CapacityAssumption == PipeCapacity \in Nat \ {0} /\ MaxInjections \in Nat

Nobody == "nobody"
Waiter == "waiter"
Closer == "closer"
NoPacket == [id |-> 0, rtp |-> FALSE]

VARIABLES
    main, waitmutex,       \* their holders
    created, waitingfordata,
    rawpacketlist,
    pipe,                  \* bytes in the pipe; none once it is closed
    pc,                    \* where each thread is
    held,                  \* the packet each injector is about to add
    count                  \* packets injected so far

externalvars == <<main, waitmutex, created, waitingfordata, rawpacketlist, pipe, pc, held, count>>
fields == <<created, waitingfordata, rawpacketlist, pipe>>

Thread == Injector \cup {Waiter, Closer}

Goto(t, l) == pc' = [pc EXCEPT ![t] = l]

\* After Init and Create.
ExternalInit ==
    /\ main = Nobody /\ waitmutex = Nobody
    /\ created = TRUE /\ waitingfordata = FALSE
    /\ rawpacketlist = <<>> /\ pipe = 0
    /\ pc = [t \in Thread |-> "idle"]
    /\ held = [t \in Injector |-> NoPacket]
    /\ count = 0

-----------------------------------------------------------------------------
(* The poll thread: WaitForIncomingData, then GetNextPacket until it has     *)
(* all, and again.                                                          *)

StartWait ==
    /\ pc[Waiter] = "idle" /\ main = Nobody
    /\ IF ~created THEN Goto(Waiter, "done") /\ UNCHANGED <<waitingfordata, main>>
       ELSE IF rawpacketlist # <<>>
       THEN Goto(Waiter, "take") /\ UNCHANGED <<waitingfordata, main>>
       ELSE /\ waitingfordata' = TRUE /\ main' = Waiter
            /\ Goto(Waiter, "waitlock")
    /\ UNCHANGED <<waitmutex, created, rawpacketlist, pipe, held, count>>

\* WAITMUTEX_LOCK inside the main mutex, which is then unlocked.
EnterWait ==
    /\ pc[Waiter] = "waitlock" /\ waitmutex = Nobody
    /\ waitmutex' = Waiter
    /\ main' = Nobody
    /\ Goto(Waiter, "select")
    /\ UNCHANGED <<fields, held, count>>

\* select returns at a byte in the pipe or when the delay has passed.  Once the pipe
\* is closed the delay alone is sure to end it; should it fail then, the wait ends in
\* the same way.
SelectReturns ==
    /\ pc[Waiter] = "select"
    /\ Goto(Waiter, IF pipe > 0 THEN "aborted" ELSE "timeout")
    /\ UNCHANGED <<main, waitmutex, fields, held, count>>

\* Bug: a wait that ends after Destroy does not unlock the wait mutex.
EndWaitKeepsLock ==
    /\ pc[Waiter] \in {"aborted", "timeout"} /\ main = Nobody
    /\ waitingfordata' = FALSE
    /\ pipe' = IF created /\ pc[Waiter] = "aborted" THEN 0 ELSE pipe
    /\ waitmutex' = IF created THEN Nobody ELSE waitmutex
    /\ Goto(Waiter, "take")
    /\ UNCHANGED <<main, created, rawpacketlist, held, count>>

EndWait ==
    /\ pc[Waiter] \in {"aborted", "timeout"} /\ main = Nobody
    /\ waitingfordata' = FALSE
    /\ pipe' = IF created /\ pc[Waiter] = "aborted" THEN 0 ELSE pipe
    /\ waitmutex' = Nobody
    /\ Goto(Waiter, "take")
    /\ UNCHANGED <<main, created, rawpacketlist, held, count>>

\* GetNextPacket; there is none when the transmitter was destroyed.
ExternalGetNextPacket ==
    /\ pc[Waiter] = "take" /\ main = Nobody
    /\ IF rawpacketlist = <<>> THEN Goto(Waiter, "idle") /\ UNCHANGED rawpacketlist
       ELSE rawpacketlist' = Tail(rawpacketlist) /\ UNCHANGED pc
    /\ UNCHANGED <<main, waitmutex, created, waitingfordata, pipe, held, count>>

-----------------------------------------------------------------------------
(* The application's threads.                                               *)

\* The caller knows what it injects (InjectRTP, InjectRTCP), or the second byte
\* tells it (InjectRTPorRTCP).
InjectRTP(t) == held' = [held EXCEPT ![t] = [id |-> count + 1, rtp |-> TRUE]]
InjectRTCP(t) == held' = [held EXCEPT ![t] = [id |-> count + 1, rtp |-> FALSE]]
InjectRTPorRTCP(t, second) ==
    held' = [held EXCEPT ![t] = [id |-> count + 1, rtp |-> second \notin 200..204]]

Inject(t) ==
    /\ pc[t] = "idle" /\ main = Nobody
    /\ IF ~created THEN UNCHANGED <<main, held, count, pc>>
       ELSE /\ count < MaxInjections
            /\ InjectRTP(t) \/ InjectRTCP(t) \/ \E b \in {96, 200} : InjectRTPorRTCP(t, b)
            /\ count' = count + 1
            /\ main' = t
            /\ Goto(t, "inside")
    /\ UNCHANGED <<waitmutex, fields>>

\* The packet is added, and AbortWaitInternal is called.
PushPacket(t) ==
    /\ pc[t] = "inside"
    /\ rawpacketlist' = Append(rawpacketlist, held[t])
    /\ Goto(t, "write")
    /\ UNCHANGED <<main, waitmutex, created, waitingfordata, pipe, held, count>>

\* write blocks while the pipe is full; the main mutex is held.
WriteByte(t) ==
    /\ pc[t] = "write"
    /\ pipe < PipeCapacity
    /\ pipe' = pipe + 1
    /\ held' = [held EXCEPT ![t] = NoPacket]
    /\ main' = Nobody
    /\ Goto(t, "idle")
    /\ UNCHANGED <<waitmutex, created, waitingfordata, rawpacketlist, count>>

\* AbortWait, by the thread that will destroy the transmitter.
AbortWait ==
    /\ pc[Closer] = "idle" /\ main = Nobody
    /\ created /\ waitingfordata
    /\ main' = Closer
    /\ Goto(Closer, "abort")
    /\ UNCHANGED <<waitmutex, fields, held, count>>

AbortWrite ==
    /\ pc[Closer] = "abort"
    /\ pipe < PipeCapacity
    /\ pipe' = pipe + 1
    /\ main' = Nobody
    /\ Goto(Closer, "aborted")
    /\ UNCHANGED <<waitmutex, created, waitingfordata, rawpacketlist, held, count>>

\* Bug: created stays set when a wait is going on.
DestroyLate ==
    /\ pc[Closer] \in {"idle", "aborted"} /\ main = Nobody
    /\ created' = waitingfordata
    /\ rawpacketlist' = <<>>
    /\ IF waitingfordata
       THEN main' = Closer /\ Goto(Closer, "wake") /\ UNCHANGED pipe
       ELSE main' = Nobody /\ Goto(Closer, "done") /\ pipe' = 0
    /\ UNCHANGED <<waitmutex, waitingfordata, held, count>>

\* Bug: Destroy closes the pipe and waits for the end of a wait that nothing aborts.
DestroyNoWake ==
    /\ pc[Closer] \in {"idle", "aborted"} /\ main = Nobody
    /\ created' = FALSE
    /\ rawpacketlist' = <<>>
    /\ IF waitingfordata
       THEN main' = Closer /\ Goto(Closer, "close") /\ UNCHANGED pipe
       ELSE main' = Nobody /\ Goto(Closer, "done") /\ pipe' = 0
    /\ UNCHANGED <<waitmutex, waitingfordata, held, count>>

\* Destroy; without a wait the pipe is closed at once.  The byte written for a wait
\* that is going on may have to wait for room in the pipe.
ExternalDestroy ==
    /\ pc[Closer] \in {"idle", "aborted"} /\ main = Nobody
    /\ created' = FALSE
    /\ rawpacketlist' = <<>>
    /\ IF waitingfordata
       THEN main' = Closer /\ Goto(Closer, "wake") /\ UNCHANGED pipe
       ELSE main' = Nobody /\ Goto(Closer, "done") /\ pipe' = 0
    /\ UNCHANGED <<waitmutex, waitingfordata, held, count>>

DestroyWakes ==
    /\ pc[Closer] = "wake"
    /\ pipe < PipeCapacity
    /\ pipe' = pipe + 1
    /\ Goto(Closer, "close")
    /\ UNCHANGED <<main, waitmutex, created, waitingfordata, rawpacketlist, held, count>>

\* DestroyAbortDescriptors closes both ends of the pipe, under a poll thread that
\* may still be in select; then the main mutex is unlocked.
DestroyCloses ==
    /\ pc[Closer] = "close"
    /\ pipe' = 0
    /\ main' = Nobody
    /\ Goto(Closer, "join")
    /\ UNCHANGED <<waitmutex, created, waitingfordata, rawpacketlist, held, count>>

\* The wait mutex is locked and unlocked to see the wait ended; then the main
\* mutex is unlocked, which was done before.
DestroyJoins ==
    /\ pc[Closer] = "join" /\ waitmutex = Nobody
    /\ main' = Nobody
    /\ Goto(Closer, "done")
    /\ UNCHANGED <<waitmutex, fields, held, count>>

-----------------------------------------------------------------------------
PollThread == StartWait \/ EnterWait \/ SelectReturns \/ EndWait \/ ExternalGetNextPacket
Injecting(t) == Inject(t) \/ PushPacket(t) \/ WriteByte(t)
Closing ==
    \/ AbortWait \/ AbortWrite
    \/ ExternalDestroy \/ DestroyWakes \/ DestroyCloses \/ DestroyJoins

ExternalNext ==
    \/ PollThread
    \/ \E t \in Injector : Injecting(t)
    \/ Closing

\* The poll thread runs and select has a delay; a thread that is inside an
\* operation goes on.
ExternalFairness ==
    /\ WF_externalvars(PollThread)
    /\ \A t \in Injector : WF_externalvars(PushPacket(t) \/ WriteByte(t))
    /\ WF_externalvars(AbortWrite \/ DestroyWakes \/ DestroyCloses \/ DestroyJoins)

ExternalSpec == ExternalInit /\ [][ExternalNext]_externalvars /\ ExternalFairness

-----------------------------------------------------------------------------
ExternalTypeOK ==
    /\ main \in Thread \cup {Nobody} /\ waitmutex \in {Waiter, Nobody}
    /\ created \in BOOLEAN /\ waitingfordata \in BOOLEAN
    /\ pipe \in 0..PipeCapacity
    /\ count \in 0..MaxInjections

\* No wake-up is lost.  A thread that sleeps while there are packets has a byte to
\* wake it, or the one who will write it is at it.  When the transmitter goes under a
\* sleeping thread, Destroy writes a byte before it closes the pipe, and has not
\* returned.  (What the closing leaves of the byte for a thread that has not come out
\* of select yet is the system's affair; its delay ends the wait then.)
WakeupNotLost ==
    pc[Waiter] = "select" =>
        /\ rawpacketlist # <<>> => pipe > 0 \/ \E t \in Injector : pc[t] = "write"
        /\ ~created => \/ pc[Closer] = "wake"
                       \/ pc[Closer] = "close" /\ pipe > 0
                       \/ pc[Closer] = "join"

\* Destroy's second unlock of the main mutex never lets two threads change a
\* transmitter at the same time: when it is done, nobody works inside.
SectionsApart ==
    LET inside == {t \in Injector : pc[t] \in {"inside", "write"}}
                  \cup {t \in {Waiter} : pc[t] = "waitlock"}
                  \cup {t \in {Closer} : pc[t] \in {"abort", "wake", "close"}}
    IN  \A t \in inside : main = t

\* The byte of an injection is read by a wait alone, and a wait that finds packets
\* in the list returns before it reads.  When PipeCapacity bytes
\* are written before the list is found empty, the writer stops with the main
\* mutex held.
Stuck == pipe = PipeCapacity /\ \E t \in Thread : pc[t] \in {"write", "abort", "wake"}

\* Every packet is taken or flushed, and Destroy ends, unless a writer is stuck.
PacketsTaken ==
    \/ <>[]Stuck
    \/ /\ []<>(rawpacketlist = <<>>)
       /\ pc[Closer] = "wake" ~> pc[Closer] = "done"

=============================================================================
