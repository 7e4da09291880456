------------------------------- MODULE SessionProofs -------------------------------
(***************************************************************************)
(* The RTP session.  The program and the poll thread: types, locks and     *)
(* BYEs, for any number of packets and collisions and for short and long   *)
(* waits.  Create, Destroy and SetMaximumPacketSize: a session is there as *)
(* a whole or not at all, for any set of packet sizes.  The list of own    *)
(* collisions: the pace at which we change our SSRC, for any addresses,    *)
(* delays and times, and the arithmetic of the times it rests on.          *)
(***************************************************************************)
EXTENDS RtpSession, SessionSetup, RtpCollisionList, CommonProofs, SequenceTheorems, TLAPS

\* Where main may still send, and where it takes the session apart.
Sending == {"app", "sending", "sent", "flag", "abort", "stopping"}
Leaving == {"bye", "byeloop", "destroy", "waitlock", "left"}

\* Where the poll thread processes what it received, and where it has none of it.
Processing == {"packet", "collision", "collbye", "newssrc", "unsent", "istime", "rtcp",
               "rtcpsent", "unlock"}
Colliding  == {"collision", "collbye", "newssrc"}
Waiting    == {"select", "woken", "unwait", "dead"}

\* Each mutex is held exactly where its holder's program counter says so.
LockInv ==
  /\ owner["builder"] = IF mpc = "sending" THEN "main" ELSE "none"
  /\ owner["sched"] = IF ppc \in {"sources", "delay"} THEN "poll" ELSE "none"
  /\ owner["sources"] = IF ppc \in Processing \cup {"delay"} THEN "poll" ELSE "none"
  /\ owner["main"] = IF ppc = "waitlock" THEN "poll" ELSE "none"
  /\ owner["wait"] = IF ppc \in Waiting THEN "poll" ELSE "none"
  /\ owner["packsent"] = "none"

\* The poll thread has ended, or was killed, when main goes on to leave.
StopInv ==
  /\ running <=> ppc \notin {"ended", "dead"}
  /\ mpc \in Leaving => ~running
  /\ mpc \in {"abort", "stopping"} => stop

\* An abort byte is written by AbortWait and by Destroy, once each.
AbortInv ==
  /\ mpc \in {"app", "sending", "sent", "flag", "abort"} => aborts = 0
  /\ mpc \in {"stopping", "bye", "byeloop", "destroy"} => aborts <= 1

\* A collision is pending only for an SSRC that still has one to come.
CollisionInv ==
  /\ raw = "collision" => ssrc <= Collisions
  /\ ppc \in Colliding => ssrc <= Collisions /\ raw = "none"

\* The BYE timer runs exactly while a BYE waits, except where the poll thread sends.
ByeTimerInv ==
  IF ppc \in {"rtcp", "rtcpsent"} THEN ~byescheduled
                                  ELSE byescheduled <=> byepackets # <<>>

\* A BYE that waits, or was sent, is for an earlier SSRC, or for the one that is
\* about to be replaced.
ByeSsrcInv ==
  mpc \in Sending =>
    /\ \A b \in byes : b < ssrc
    /\ \A j \in 1..Len(byepackets) :
         byepackets[j] < ssrc \/ (byepackets[j] = ssrc /\ ppc = "newssrc")

IInv == TypeOK /\ LockInv /\ StopInv /\ AbortInv /\ CollisionInv /\ ByeTimerInv /\ ByeSsrcInv

-----------------------------------------------------------------------------
USE SessionAssumption DEF Sending, Leaving, Processing, Colliding, Waiting

\* When the session has been created, no mutex is held and no BYE waits.
LEMMA InvInit == Init => IInv
  <1> SUFFICES ASSUME Init PROVE IInv
    OBVIOUS
  <1> USE DEF Init
  <1>1. TypeOK
    <2>1. owner \in [Mutexes -> Holders]
      BY DEF Holders
    <2>2. ThreadsOK
      BY <2>1 DEF ThreadsOK
    <2>3. TransOK
      <3>1. waitingfordata \in BOOLEAN
        BY Zenon
      <3>2. QED
        BY <3>1 DEF TransOK
    <2>4. SessionOK
      <3>1. byepackets \in Seq(1..ssrc) /\ ssrc \in 1..(Collisions + 1)
        OBVIOUS
      <3>2. sentpackets \in BOOLEAN /\ byescheduled \in BOOLEAN /\ hassent \in BOOLEAN
        BY Zenon
      <3>3. QED
        BY <3>1, <3>2 DEF SessionOK
    <2>5. QED
      BY <2>2, <2>3, <2>4 DEF TypeOK
  <1>2. LockInv
    BY DEF LockInv, Mutexes
  <1>3. StopInv /\ AbortInv /\ CollisionInv /\ ByeTimerInv /\ ByeSsrcInv
    BY DEF StopInv, AbortInv, CollisionInv, ByeTimerInv, ByeSsrcInv
  <1>4. QED
    BY <1>1, <1>2, <1>3 DEF IInv

USE DEF Free, Set, MainGoto, PollGoto, vars, threads, trans, session, history

\* Each step takes and releases the mutexes as the program counters say.
LEMMA LockStep == TypeOK /\ LockInv /\ [Next]_vars => LockInv'
  <1> SUFFICES ASSUME TypeOK, LockInv, [Next]_vars PROVE LockInv'
    OBVIOUS
  <1> USE DEF TypeOK, ThreadsOK, LockInv, Mutexes, Holders
  <1>1. CASE Main
    BY <1>1 DEF Main, SendBuild, SendRTPData, SentRTPPacket, SetSentPackets, Stop, AbortWait,
       Stopped, Kill, BuildBYE, ByeIsTime, ByeDone, Destroy, WaitLock
  <1>2. CASE PollThread
    <2>1. CASE ReadStop \/ ThreadEnd \/ SelectReturns \/ WaitEnd \/ PollSockets
      BY <2>1 DEF ReadStop, ThreadEnd, SelectReturns, WaitEnd, PollSockets
    <2>2. CASE LockSched \/ LockSources \/ GetTransmissionDelay
      BY <2>2 DEF LockSched, LockSources, GetTransmissionDelay
    <2>3. CASE WaitBegin \/ LockWait \/ SelectFails \/ UnlockWait
      BY <2>3 DEF WaitBegin, LockWait, SelectFails, UnlockWait
    <2>4. CASE LockTable \/ UnlockTable
      BY <2>4 DEF LockTable, UnlockTable
    <2>5. CASE ProcessRawPacket \/ ReadSentPackets \/ CollisionBYE \/ CreateNewSSRC
               \/ ClearSentPackets \/ IsTime \/ SendRTCPData \/ SentRTCP
      BY <2>5 DEF ProcessRawPacket, ReadSentPackets, CollisionBYE, CreateNewSSRC,
         ClearSentPackets, IsTime, SendRTCPData, SentRTCP
    <2>6. QED
      BY <1>2, <2>1, <2>2, <2>3, <2>4, <2>5 DEF PollThread
  <1>3. CASE UNCHANGED vars
    BY <1>3
  <1>4. QED
    BY <1>1, <1>2, <1>3 DEF Next, Done

\* Each step keeps the program counters, mutexes and flags in their ranges.
LEMMA ThreadsStep == IInv /\ [Next]_vars => ThreadsOK'
  <1> SUFFICES ASSUME IInv, [Next]_vars PROVE ThreadsOK'
    OBVIOUS
  <1> USE DEF IInv, TypeOK, ThreadsOK, Mutexes, Holders
  <1>1. CASE SendBuild \/ SendRTPData \/ SentRTPPacket \/ SetSentPackets
    BY <1>1 DEF SendBuild, SendRTPData, SentRTPPacket, SetSentPackets
  <1>2. CASE Stop \/ AbortWait \/ Stopped \/ Kill
    BY <1>2 DEF Stop, AbortWait, Stopped, Kill
  <1>3. CASE BuildBYE \/ ByeIsTime \/ ByeDone \/ Destroy \/ WaitLock
    BY <1>3 DEF BuildBYE, ByeIsTime, ByeDone, Destroy, WaitLock
  <1>4. CASE ReadStop \/ ThreadEnd \/ LockSched \/ LockSources \/ GetTransmissionDelay
    <2>1. CASE ReadStop \/ LockSched \/ LockSources
      BY <2>1 DEF ReadStop, LockSched, LockSources
    <2>2. CASE ThreadEnd
      BY <2>2 DEF ThreadEnd
    <2>3. CASE GetTransmissionDelay
      BY <2>3 DEF GetTransmissionDelay
    <2>4. QED
      BY <1>4, <2>1, <2>2, <2>3
  <1>5. CASE WaitBegin \/ LockWait \/ SelectReturns \/ SelectFails \/ WaitEnd \/ UnlockWait
    BY <1>5 DEF WaitBegin, LockWait, SelectReturns, SelectFails, WaitEnd, UnlockWait
  <1>6. CASE PollSockets \/ LockTable \/ ProcessRawPacket \/ ReadSentPackets
    BY <1>6 DEF PollSockets, LockTable, ProcessRawPacket, ReadSentPackets
  <1>7. CASE CollisionBYE \/ CreateNewSSRC \/ ClearSentPackets \/ IsTime
    BY <1>7 DEF CollisionBYE, CreateNewSSRC, ClearSentPackets, IsTime
  <1>8. CASE SendRTCPData \/ SentRTCP \/ UnlockTable
    BY <1>8 DEF SendRTCPData, SentRTCP, UnlockTable
  <1>9. CASE UNCHANGED vars
    BY <1>9
  <1>10. QED
    BY <1>1, <1>2, <1>3, <1>4, <1>5, <1>6, <1>7, <1>8, <1>9 DEF Next, Done, Main, PollThread

\* ... and the transmitter's variables.
LEMMA TransStep == IInv /\ [Next]_vars => TransOK'
  <1> SUFFICES ASSUME IInv, [Next]_vars PROVE TransOK'
    OBVIOUS
  <1> USE DEF IInv, TypeOK, TransOK, AbortInv
  <1>1. CASE SendBuild \/ SendRTPData \/ SentRTPPacket \/ SetSentPackets
    BY <1>1 DEF SendBuild, SendRTPData, SentRTPPacket, SetSentPackets
  <1>2. CASE Stop \/ AbortWait \/ Stopped \/ Kill
    BY <1>2 DEF Stop, AbortWait, Stopped, Kill
  <1>3. CASE BuildBYE \/ ByeIsTime \/ ByeDone \/ Destroy \/ WaitLock
    BY <1>3 DEF BuildBYE, ByeIsTime, ByeDone, Destroy, WaitLock
  <1>4. CASE ReadStop \/ ThreadEnd \/ LockSched \/ LockSources \/ GetTransmissionDelay
    BY <1>4 DEF ReadStop, ThreadEnd, LockSched, LockSources, GetTransmissionDelay
  <1>5. CASE WaitBegin \/ LockWait \/ SelectReturns \/ SelectFails \/ WaitEnd \/ UnlockWait
    <2>1. CASE WaitBegin \/ SelectFails
      BY <2>1 DEF WaitBegin, SelectFails
    <2>2. CASE WaitEnd
      <3>1. aborts' \in 0..2
        BY <2>2 DEF WaitEnd
      <3>2. waitingfordata' \in BOOLEAN /\ UNCHANGED <<delay, raw>>
        BY <2>2, Zenon DEF WaitEnd
      <3>3. QED
        BY <3>1, <3>2
    <2>3. CASE LockWait \/ SelectReturns \/ UnlockWait
      BY <2>3 DEF LockWait, SelectReturns, UnlockWait
    <2>4. QED
      BY <1>5, <2>1, <2>2, <2>3
  <1>6. CASE PollSockets \/ LockTable \/ ProcessRawPacket \/ ReadSentPackets
    BY <1>6 DEF PollSockets, LockTable, ProcessRawPacket, ReadSentPackets
  <1>7. CASE CollisionBYE \/ CreateNewSSRC \/ ClearSentPackets \/ IsTime
    BY <1>7 DEF CollisionBYE, CreateNewSSRC, ClearSentPackets, IsTime
  <1>8. CASE SendRTCPData \/ SentRTCP \/ UnlockTable
    BY <1>8 DEF SendRTCPData, SentRTCP, UnlockTable
  <1>9. CASE UNCHANGED vars
    BY <1>9
  <1>10. QED
    BY <1>1, <1>2, <1>3, <1>4, <1>5, <1>6, <1>7, <1>8, <1>9 DEF Next, Done, Main, PollThread

\* ... and the session's: the list of BYEs and the sets of SSRCs grow with ssrc.
LEMMA SessionStep == IInv /\ [Next]_vars => SessionOK'
  <1> SUFFICES ASSUME IInv, [Next]_vars PROVE SessionOK'
    OBVIOUS
  <1> USE DEF IInv, TypeOK, SessionOK
  <1>1. CASE BuildBYE \/ CollisionBYE
    <2>1. UNCHANGED <<ssrc, sentpackets, hassent, history>>
      BY <1>1 DEF BuildBYE, CollisionBYE
    <2>2. \/ UNCHANGED <<byepackets, byescheduled>>
          \/ QueueBye(ssrc)
      BY <1>1 DEF BuildBYE, CollisionBYE
    <2>3. byepackets' \in Seq(1..ssrc)
      BY <2>2 DEF QueueBye
    <2>4. byescheduled' \in BOOLEAN
      BY <2>2, Zenon DEF QueueBye
    <2>5. QED
      BY <2>1, <2>3, <2>4
  <1>2. CASE ByeIsTime
    <2>1. Head(byepackets) \in 1..ssrc /\ Tail(byepackets) \in Seq(1..ssrc)
      BY <1>2 DEF ByeIsTime
    <2>2. /\ byes' = byes \cup {Head(byepackets)} /\ byepackets' = Tail(byepackets)
          /\ byescheduled' = (Tail(byepackets) # <<>>)
          /\ UNCHANGED <<ssrc, sentpackets, hassent, left, used>>
      BY <1>2 DEF ByeIsTime
    <2>3. QED
      BY <2>1, <2>2
  <1>3. CASE SendRTCPData
    <2>1. CASE byepackets = <<>>
      <3>1. /\ used' = used \cup {ssrc}
            /\ UNCHANGED <<ssrc, sentpackets, byepackets, byescheduled, hassent, byes, left>>
        BY <1>3, <2>1 DEF SendRTCPData
      <3>2. QED
        BY <3>1
    <2>2. CASE byepackets # <<>>
      <3>1. Head(byepackets) \in 1..ssrc /\ Tail(byepackets) \in Seq(1..ssrc)
        BY <2>2
      <3>2. QED
        BY <1>3, <2>2, <3>1 DEF SendRTCPData
    <2>3. QED
      BY <2>1, <2>2
  <1>4. CASE CreateNewSSRC
    BY <1>4 DEF CreateNewSSRC, CollisionInv
  <1>5. CASE SendBuild \/ SendRTPData
    <2>1. CASE SendBuild
      BY <2>1 DEF SendBuild
    <2>2. CASE SendRTPData
      BY <2>2 DEF SendRTPData
    <2>3. QED
      BY <1>5, <2>1, <2>2
  <1>6. CASE SetSentPackets \/ ReadSentPackets \/ ClearSentPackets \/ IsTime \/ SentRTCP
    BY <1>6 DEF SetSentPackets, ReadSentPackets, ClearSentPackets, IsTime, SentRTCP
  <1>7. CASE UNCHANGED <<session, history>>
    BY <1>7
  <1>8. QED
    BY <1>1, <1>2, <1>3, <1>4, <1>5, <1>6, <1>7 DEF Next, Done, Main, PollThread,
       SentRTPPacket, Stop, AbortWait, Stopped, Kill, ByeDone, Destroy, WaitLock,
       ReadStop, ThreadEnd, LockSched, LockSources, GetTransmissionDelay, WaitBegin, LockWait,
       SelectReturns, SelectFails, WaitEnd, UnlockWait, PollSockets, LockTable,
       ProcessRawPacket, UnlockTable

\* The flags of the way out agree with where the threads are.
LEMMA StopStep == IInv /\ [Next]_vars => StopInv' /\ AbortInv'
  <1> SUFFICES ASSUME IInv, [Next]_vars PROVE StopInv' /\ AbortInv'
    OBVIOUS
  <1> USE DEF IInv, TypeOK, ThreadsOK, TransOK, StopInv, AbortInv
  <1>1. CASE Main
    BY <1>1 DEF Main, SendBuild, SendRTPData, SentRTPPacket, SetSentPackets, Stop, AbortWait,
       Stopped, Kill, BuildBYE, ByeIsTime, ByeDone, Destroy, WaitLock
  <1>2. CASE PollThread
    BY <1>2 DEF PollThread, ReadStop, ThreadEnd, LockSched, LockSources, GetTransmissionDelay,
       WaitBegin, LockWait, SelectReturns, SelectFails, WaitEnd, UnlockWait, PollSockets,
       LockTable, ProcessRawPacket, ReadSentPackets, CollisionBYE, CreateNewSSRC,
       ClearSentPackets, IsTime, SendRTCPData, SentRTCP, UnlockTable
  <1>3. CASE UNCHANGED vars
    BY <1>3
  <1>4. QED
    BY <1>1, <1>2, <1>3 DEF Next, Done

\* A collision is processed before the SSRC it is about changes.
LEMMA CollisionStep == IInv /\ [Next]_vars => CollisionInv'
  <1> SUFFICES ASSUME IInv, [Next]_vars PROVE CollisionInv'
    OBVIOUS
  <1> USE DEF IInv, TypeOK, TransOK, SessionOK, CollisionInv
  <1>1. CASE Main
    BY <1>1 DEF Main, SendBuild, SendRTPData, SentRTPPacket, SetSentPackets, Stop, AbortWait,
       Stopped, Kill, BuildBYE, ByeIsTime, ByeDone, Destroy, WaitLock
  <1>2. CASE PollThread
    BY <1>2 DEF PollThread, ReadStop, ThreadEnd, LockSched, LockSources, GetTransmissionDelay,
       WaitBegin, LockWait, SelectReturns, SelectFails, WaitEnd, UnlockWait, PollSockets,
       LockTable, ProcessRawPacket, ReadSentPackets, CollisionBYE, CreateNewSSRC,
       ClearSentPackets, IsTime, SendRTCPData, SentRTCP, UnlockTable
  <1>3. CASE UNCHANGED vars
    BY <1>3
  <1>4. QED
    BY <1>1, <1>2, <1>3 DEF Next, Done

\* The BYE timer keeps running exactly while a BYE waits.
LEMMA ByeTimerStep == IInv /\ [Next]_vars => ByeTimerInv'
  <1> SUFFICES ASSUME IInv, [Next]_vars PROVE ByeTimerInv'
    OBVIOUS
  <1> USE DEF IInv, TypeOK, ByeTimerInv, StopInv
  <1>1. CASE BuildBYE \/ CollisionBYE
    <2>1. ppc' \notin {"rtcp", "rtcpsent"} /\ ppc \notin {"rtcp", "rtcpsent"}
      BY <1>1 DEF BuildBYE, CollisionBYE
    <2>2. ASSUME QueueBye(ssrc)
          PROVE  byepackets' # <<>> /\ byescheduled'
      <3>1. byepackets' # <<>>
        BY <2>2 DEF QueueBye, SessionOK
      <3>2. byescheduled'
        BY <2>1, <2>2, Zenon DEF QueueBye
      <3>3. QED
        BY <3>1, <3>2
    <2>3. QueueBye(ssrc) \/ UNCHANGED <<byepackets, byescheduled>>
      BY <1>1 DEF BuildBYE, CollisionBYE
    <2>4. QED
      BY <2>1, <2>2, <2>3 DEF SessionOK
  <1>2. CASE ByeIsTime
    BY <1>2 DEF ByeIsTime
  <1>3. CASE IsTime \/ SendRTCPData \/ SentRTCP
    <2>1. CASE IsTime
      BY <2>1 DEF IsTime
    <2>2. CASE SendRTCPData
      BY <2>2 DEF SendRTCPData
    <2>3. CASE SentRTCP
      BY <2>3, Zenon DEF SentRTCP
    <2>4. QED
      BY <1>3, <2>1, <2>2, <2>3
  <1>4. CASE CreateNewSSRC
    BY <1>4 DEF CreateNewSSRC
  <1>5. CASE /\ UNCHANGED <<byepackets, byescheduled>>
             /\ ppc \notin {"rtcp", "rtcpsent"} /\ ppc' \notin {"rtcp", "rtcpsent"}
    BY <1>5
  <1>6. CASE UNCHANGED <<ppc, byepackets, byescheduled>>
    BY <1>6
  <1>7. QED
    BY <1>1, <1>2, <1>3, <1>4, <1>5, <1>6 DEF Next, Done, Main, PollThread,
       SendBuild, SendRTPData, SentRTPPacket, SetSentPackets, Stop, AbortWait, Stopped, Kill,
       ByeDone, Destroy, WaitLock,
       ReadStop, ThreadEnd, LockSched, LockSources, GetTransmissionDelay, WaitBegin, LockWait,
       SelectReturns, SelectFails, WaitEnd, UnlockWait, PollSockets, LockTable,
       ProcessRawPacket, ReadSentPackets, ClearSentPackets, UnlockTable

\* BYEs stay behind the SSRC main sends with: the new SSRC is greater than every
\* one listed or sent, and a BYE is sent only after its SSRC was replaced.
LEMMA ByeSsrcStep == IInv /\ [Next]_vars => ByeSsrcInv'
  <1> SUFFICES ASSUME IInv, [Next]_vars, mpc' \in Sending PROVE ByeSsrcInv'
    BY DEF ByeSsrcInv
  <1> USE DEF IInv, TypeOK, SessionOK, ByeSsrcInv
  <1>1. CASE CollisionBYE
    <2>1. CASE UNCHANGED byepackets
      BY <1>1, <2>1 DEF CollisionBYE
    <2>2. CASE QueueBye(ssrc)
      <3>1. /\ byepackets' = Append(byepackets, ssrc) /\ ppc = "collbye" /\ ppc' = "newssrc"
            /\ UNCHANGED <<mpc, ssrc, byes>>
        BY <1>1, <2>2 DEF CollisionBYE, QueueBye
      <3>2. \A j \in 1..Len(byepackets') : byepackets'[j] <= ssrc
        BY <3>1
      <3>3. QED
        BY <3>1, <3>2
    <2>3. QED
      BY <1>1, <2>1, <2>2 DEF CollisionBYE
  <1>2. CASE CreateNewSSRC
    BY <1>2 DEF CreateNewSSRC
  <1>3. CASE SendRTCPData
    <2>1. CASE UNCHANGED <<byepackets, byes>>
      BY <1>3, <2>1 DEF SendRTCPData
    <2>2. CASE byepackets # <<>>
      <3>1. /\ byes' = byes \cup {byepackets[1]} /\ byepackets' = Tail(byepackets)
            /\ ppc = "rtcp" /\ UNCHANGED <<mpc, ssrc>>
        BY <1>3, <2>2 DEF SendRTCPData
      <3>2. \A j \in 1..Len(byepackets) : byepackets[j] < ssrc
        BY <3>1
      <3>3. \A j \in 1..Len(Tail(byepackets)) :
              j + 1 \in 1..Len(byepackets) /\ Tail(byepackets)[j] = byepackets[j + 1]
        OBVIOUS
      <3>4. QED
        BY <2>2, <3>1, <3>2, <3>3
    <2>3. QED
      BY <1>3, <2>1, <2>2 DEF SendRTCPData
  <1>4. CASE UNCHANGED <<byepackets, byes, ssrc>> /\ mpc \in Sending /\ ppc # "newssrc"
    BY <1>4
  <1>5. CASE UNCHANGED <<byepackets, byes, ssrc, ppc>> /\ mpc \in Sending
    BY <1>5
  <1>6. QED
    BY <1>1, <1>2, <1>3, <1>4, <1>5 DEF Next, Done, Main, PollThread, BuildBYE, ByeIsTime,
       IsTime, SentRTCP, SendBuild, SendRTPData, SentRTPPacket, SetSentPackets, Stop, AbortWait,
       Stopped, Kill,
       ByeDone, Destroy, WaitLock,
       ReadStop, ThreadEnd, LockSched, LockSources, GetTransmissionDelay, WaitBegin, LockWait,
       SelectReturns, SelectFails, WaitEnd, UnlockWait, PollSockets, LockTable,
       ProcessRawPacket, ReadSentPackets, ClearSentPackets, UnlockTable

\* The whole invariant is inductive.
LEMMA StepInv == IInv /\ [Next]_vars => IInv'
  <1> SUFFICES ASSUME IInv, [Next]_vars PROVE IInv'
    OBVIOUS
  <1>1. TypeOK'
    BY ThreadsStep, TransStep, SessionStep DEF TypeOK
  <1>2. LockInv'
    BY LockStep DEF IInv
  <1>3. QED
    BY <1>1, <1>2, StopStep, CollisionStep, ByeTimerStep, ByeSsrcStep DEF IInv

-----------------------------------------------------------------------------
\* The invariant holds in every reachable state; the theorems below follow from it.
THEOREM SessionInvariant == Spec => []IInv
  <1>1. Init => IInv
    BY InvInit
  <1>2. QED
    BY <1>1, StepInv, PTL DEF Spec

\* Every variable of the session keeps its type, for any number of packets and
\* collisions: the list of BYEs names only SSRCs that the builder has had.
THEOREM TypeCorrect == Spec => []TypeOK
  <1>1. IInv => TypeOK
    BY DEF IInv
  <1>2. QED
    BY <1>1, SessionInvariant, PTL

\* BYEDestroy tears the session down alone: the poll thread is past its last
\* access, or died in select, and no mutex but the one of the wait is held.
THEOREM TornDownAlone == Spec => []DestroyAlone
  <1>1. IInv => DestroyAlone
    BY DEF IInv, TypeOK, ThreadsOK, LockInv, StopInv, DestroyAlone, Mutexes
  <1>2. QED
    BY <1>1, SessionInvariant, PTL

\* Until main leaves, no packet goes out with an SSRC that has said BYE.
THEOREM DataBeforeBYE == Spec => []NoDataAfterBYE
  <1>1. IInv => NoDataAfterBYE
    BY DEF IInv, TypeOK, SessionOK, ByeSsrcInv, NoDataAfterBYE
  <1>2. QED
    BY <1>1, SessionInvariant, PTL

\* A BYE waits in the list exactly while the BYE timer runs.
THEOREM BYEsAreTimed == Spec => []BYEIsScheduled
  <1>1. IInv => BYEIsScheduled
    BY DEF IInv, ByeTimerInv, BYEIsScheduled
  <1>2. QED
    BY <1>1, SessionInvariant, PTL

\* After AbortWait the poll thread begins no further round.
THEOREM LastRound == Spec => NoNewRound
  <1>1. IInv /\ [Next]_vars =>
          (mpc = "stopping" => ~(ppc \in {"start", "step"} /\ ppc' = "sched"))
    BY DEF IInv, StopInv, Next, Main, PollThread, Done, SendBuild, SendRTPData, SentRTPPacket,
       SetSentPackets, Stop, AbortWait, Stopped, Kill, BuildBYE, ByeIsTime, ByeDone, Destroy,
       WaitLock, ReadStop, ThreadEnd, LockSched, LockSources, GetTransmissionDelay, WaitBegin,
       LockWait, SelectReturns, SelectFails, WaitEnd, UnlockWait, PollSockets, LockTable,
       ProcessRawPacket, ReadSentPackets, CollisionBYE, CreateNewSSRC, ClearSentPackets,
       IsTime, SendRTCPData, SentRTCP, UnlockTable
  <1>2. QED
    BY <1>1, SessionInvariant, PTL DEF Spec, NoNewRound

-----------------------------------------------------------------------------
(* How a session comes to be and goes.                                      *)

-----------------------------------------------------------------------------
(* The inductive invariant.                                                 *)

Ending == doing \in {"Destroy", "BYEDestroy"}
Resizing == doing \in {"SetMaximumPacketSize", "restore"}

\* A call that takes several steps is one on a session that is there.
CallsNeedSession == doing # "nothing" => created

\* Nothing is left of a session that is gone.
NothingLeft == ~created => live = {} /\ thread = "none" /\ queued = FALSE

\* The parts are there until the last step of Destroy, the thread only until the
\* first; a transmitter that is held is our own.
PartsThere ==
    /\ created => Whole \subseteq live
    /\ thread # "none" => "pollthread" \in live /\ ~Ending
    /\ "pollthread" \in live => ~Ending
    /\ "transmitter" \in live => owned

\* While the size is being changed only the transmitter's differs.
SizesFollow ==
    created =>
        \A x \in Sized : size[x] = size["session"] \/ (x = "transmitter" /\ Resizing)

SetupInv == SetupTypeOK /\ CallsNeedSession /\ NothingLeft /\ PartsThere /\ SizesFollow

-----------------------------------------------------------------------------
\* A step that fails leaves nothing of the steps before it behind.
LEMMA FailureUndone ==
    ASSUME NEW k \in 1..11
    PROVE  Before(k) \cap Holding \subseteq Undone(Steps[k])
  <1>1. k \in {1, 2, 3, 4, 5, 6, 7, 8, 9, 10, 11}
    OBVIOUS
  <1> QED
    BY <1>1, SMTT(60) DEF Before, Holding, Undone, Steps

\* The steps that every session goes through set up its three parts, the further
\* ones only the thread.
LEMMA StepsComplete ==
    /\ Before(7) \cap Holding = {"packetbuilder", "sources", "rtcpbuilder"}
    /\ Before(12) \cap Holding = Holding
    /\ "pollthread" \notin Before(7) /\ "pollthread" \in Before(12)
  BY SMTT(60) DEF Before, Holding, Steps

\* Before the first session there is nothing.
LEMMA InitSetupInv == SetupInit => SetupInv
  <1> SUFFICES ASSUME SetupInit PROVE SetupInv
    OBVIOUS
  <1>1. PICK s \in Size : size = [x \in Sized |-> s]
    BY DEF SetupInit
  <1>2. SetupTypeOK
    BY <1>1 DEF SetupInit, SetupTypeOK
  <1>3. CallsNeedSession /\ NothingLeft /\ PartsThere /\ SizesFollow
    BY DEF SetupInit, CallsNeedSession, NothingLeft, PartsThere, SizesFollow, Ending
  <1> QED
    BY <1>2, <1>3 DEF SetupInv

\* An attempt that fails at a step finds and leaves nothing.
LEMMA FailsSetupInv ==
    ASSUME SetupInv, NEW s \in Size, NEW own \in BOOLEAN, NEW k \in 1..11,
           doing = "nothing", ~created, CreateFails(k),
           size' = [x \in Sized |-> s], owned' = own,
           UNCHANGED <<doing, queued, named>>
    PROVE  SetupInv'
  <1>1. live = {} /\ thread = "none" /\ queued = FALSE
    BY DEF SetupInv, NothingLeft
  <1>2. live' = {} /\ UNCHANGED <<created, thread>> /\ mutexes' \subseteq Mutex
    BY <1>1, FailureUndone DEF CreateFails, SetupInv, SetupTypeOK
  <1>3. SetupTypeOK'
    BY <1>1, <1>2 DEF SetupInv, SetupTypeOK
  <1>4. (CallsNeedSession /\ NothingLeft /\ PartsThere /\ SizesFollow)'
    BY <1>1, <1>2 DEF CallsNeedSession, NothingLeft, PartsThere, SizesFollow, Ending
  <1> QED
    BY <1>3, <1>4 DEF SetupInv

\* An attempt that succeeds ends with every part.
LEMMA SucceedsSetupInv ==
    ASSUME SetupInv, NEW s \in Size, NEW own \in BOOLEAN, NEW polling \in BOOLEAN,
           doing = "nothing", ~created, CreateSucceeds(LastStep(polling) + 1),
           size' = [x \in Sized |-> s], owned' = own,
           UNCHANGED <<doing, queued, named>>
    PROVE  SetupInv'
  <1> DEFINE k == IF polling THEN 12 ELSE 7
  <1>1. live = {} /\ thread = "none" /\ queued = FALSE /\ mutexes \subseteq Mutex
    BY DEF SetupInv, NothingLeft, SetupTypeOK
  <1>2. k = LastStep(polling) + 1
    BY DEF LastStep
  <1>3. /\ live' = (Before(k) \cap Holding) \cup (IF own THEN {"transmitter"} ELSE {})
        /\ mutexes' \subseteq Mutex
        /\ thread' = IF "pollthread" \in Before(k) THEN "running" ELSE "none"
        /\ created' = TRUE
    BY <1>1, <1>2 DEF CreateSucceeds
  <1>4. /\ Whole' \subseteq live'
        /\ live' \subseteq Holding \cup {"transmitter"}
        /\ thread' \in {"none", "running"}
        /\ thread' # "none" => "pollthread" \in live'
        /\ "transmitter" \in live' => own
    <2>1. CASE polling
      BY <2>1, <1>3, StepsComplete DEF Whole, Holding
    <2>2. CASE ~polling
      BY <2>2, <1>3, StepsComplete DEF Whole, Holding
    <2> QED
      BY <2>1, <2>2
  <1> HIDE DEF k
  <1>5. SetupTypeOK'
    BY <1>1, <1>3, <1>4 DEF SetupInv, SetupTypeOK
  <1>6. (CallsNeedSession /\ NothingLeft /\ PartsThere)'
    BY <1>3, <1>4 DEF CallsNeedSession, NothingLeft, PartsThere, Ending
  <1>7. SizesFollow'
    BY DEF SizesFollow, Sized
  <1> QED
    BY <1>5, <1>6, <1>7 DEF SetupInv

\* Create, however it ends.
LEMMA CreateSetupInv ==
    ASSUME SetupInv, NEW s \in Size, NEW own \in BOOLEAN, NEW polling \in BOOLEAN,
           Create(s, own, polling)
    PROVE  SetupInv'
  <1>1. CASE size' = [size EXCEPT !["session"] = s]
             /\ UNCHANGED <<owned, live, mutexes, thread, created>>
    BY <1>1, SMTT(60) DEF Create, SetupInv, SetupTypeOK, CallsNeedSession, NothingLeft, PartsThere,
       SizesFollow, Ending, Resizing, Whole, Sized
  <1>2. ASSUME size' = [x \in Sized |-> s], owned' = own,
               NEW k \in 1..LastStep(polling), CreateFails(k)
        PROVE  SetupInv'
    <2>1. k \in 1..11
      BY DEF LastStep
    <2> QED
      BY <2>1, <1>2, FailsSetupInv DEF Create
  <1>3. CASE size' = [x \in Sized |-> s] /\ owned' = own
             /\ CreateSucceeds(LastStep(polling) + 1)
    BY <1>3, SucceedsSetupInv DEF Create
  <1> QED
    BY <1>1, <1>2, <1>3 DEF Create

\* Ending takes the thread first and the rest at the end.
LEMMA DestroySetupInv ==
    ASSUME SetupInv,
           (\E call \in {"Destroy", "BYEDestroy"} : StopThread(call)) \/ SendByes \/ DestroyRest
    PROVE  SetupInv'
  <1> USE DEF SetupInv, SetupTypeOK, CallsNeedSession, NothingLeft, PartsThere, SizesFollow, Ending,
              Resizing, Whole
  <1>1. CASE \E call \in {"Destroy", "BYEDestroy"} : StopThread(call)
    BY <1>1, SMTT(60) DEF StopThread
  <1>2. CASE SendByes
    BY <1>2, SMTT(60) DEF SendByes
  <1>3. CASE DestroyRest
    <2>1. live' = {} /\ thread' = "none" /\ queued' = FALSE /\ created' = FALSE
      BY <1>3, SMTT(60) DEF DestroyRest, Holding
    <2>2. SetupTypeOK'
      BY <1>3, <2>1 DEF DestroyRest
    <2>3. (CallsNeedSession /\ NothingLeft /\ PartsThere /\ SizesFollow)'
      BY <1>3, <2>1 DEF DestroyRest
    <2> QED
      BY <2>2, <2>3
  <1> QED
    BY <1>1, <1>2, <1>3

\* A new packet size is taken by all parts or by none.
LEMMA ResizeSetupInv ==
    ASSUME SetupInv,
           (\E s \in Size : SetMaximumPacketSize(s)) \/ ResizeBuilders \/ RestoreTransmitter
    PROVE  SetupInv'
  <1> USE DEF SetupInv, SetupTypeOK, CallsNeedSession, NothingLeft, PartsThere, SizesFollow, Ending,
              Resizing, Whole, Sized
  <1>1. CASE \E s \in Size : SetMaximumPacketSize(s)
    BY <1>1, SMTT(60) DEF SetMaximumPacketSize
  <1>2. CASE ResizeBuilders
    BY <1>2, SMTT(60) DEF ResizeBuilders
  <1>3. CASE RestoreTransmitter
    BY <1>3, SMTT(60) DEF RestoreTransmitter
  <1> QED
    BY <1>1, <1>2, <1>3

\* Names, collisions and the end of the thread change none of the parts.
LEMMA OtherSetupInv ==
    ASSUME SetupInv, SetLocalItem \/ NoteCollision \/ RTCPRefused
    PROVE  SetupInv'
  <1> USE DEF SetupInv, SetupTypeOK, CallsNeedSession, NothingLeft, PartsThere, SizesFollow, Ending,
              Resizing, Whole
  <1>1. CASE SetLocalItem
    BY <1>1, SMTT(60) DEF SetLocalItem
  <1>2. CASE NoteCollision
    BY <1>2, SMTT(60) DEF NoteCollision
  <1>3. CASE RTCPRefused
    BY <1>3, SMTT(60) DEF RTCPRefused
  <1> QED
    BY <1>1, <1>2, <1>3

\* Every step keeps the invariant.
LEMMA NextSetupInv == SetupInv /\ [SetupNext]_setupvars => SetupInv'
  <1> SUFFICES ASSUME SetupInv, [SetupNext]_setupvars PROVE SetupInv'
    OBVIOUS
  <1>1. CASE UNCHANGED setupvars
    BY <1>1, SMTT(60) DEF setupvars, SetupInv, SetupTypeOK, CallsNeedSession, NothingLeft, PartsThere,
       SizesFollow, Ending, Resizing, Whole
  <1>2. CASE SetupNext
    BY <1>2, CreateSetupInv, DestroySetupInv, ResizeSetupInv, OtherSetupInv DEF SetupNext
  <1> QED
    BY <1>1, <1>2

\* The invariant says that a session is whole or not there, between calls and while
\* the thread runs.
LEMMA InvSetupWhole == SetupInv => SetupWhole
  <1> SUFFICES ASSUME SetupInv PROVE SetupWhole
    OBVIOUS
  <1>1. AllOrNothing
    BY DEF SetupInv, NothingLeft, PartsThere, AllOrNothing
  <1>2. ThreadHasAll
    BY DEF SetupInv, NothingLeft, PartsThere, ThreadHasAll, SetupTypeOK
  <1>3. SizesAgree
    BY DEF SetupInv, SizesFollow, SizesAgree, Resizing
  <1> QED
    BY <1>1, <1>2, <1>3 DEF SetupWhole, SetupInv

\* Whatever Create, Destroy, BYEDestroy and SetMaximumPacketSize have done, and
\* wherever they failed, a session is there as a whole or not at all, the thread has
\* all it uses and the parts agree on the packet size.
THEOREM SetupIsWhole == SetupSpec => []SetupWhole
  <1>1. SetupSpec => []SetupInv
    BY InitSetupInv, NextSetupInv, PTL DEF SetupSpec
  <1> QED
    BY <1>1, InvSetupWhole, PTL

-----------------------------------------------------------------------------
\* Seconds and microseconds are the digits of a number of microseconds.
LEMMA Digits ==
  ASSUME NEW x \in Int, NEW y \in 0..(Micro - 1)
  PROVE  (x * Micro + y) % (Seconds * Micro) = (x % Seconds) * Micro + y
<1> DEFINE q == x \div Seconds
           r == x % Seconds
           n == Seconds * Micro
           m == r * Micro + y
<1>1. Seconds \in Nat \ {0} /\ Micro \in Nat \ {0}
  BY WordAssumption
<1>2. q \in Int /\ r \in 0..(Seconds - 1) /\ x = Seconds * q + r
  BY <1>1, Divided
<1> HIDE DEF q, r
<1>3. n \in Nat \ {0}
  BY <1>1, SMT
<1>4. m \in 0..(n - 1)
  <2>1. r * Micro >= 0 /\ r * Micro \in Int
    BY <1>1, <1>2, SMT
  <2>2. r * Micro <= (Seconds - 1) * Micro
    BY <1>1, <1>2, SMT
  <2>3. (Seconds - 1) * Micro = n - Micro
    BY <1>1, SMT
  <2> HIDE DEF n
  <2> QED
    BY <1>1, <1>3, <2>1, <2>2, <2>3
<1>5. x * Micro + y = n * q + m
  <2>1. x * Micro = (Seconds * q + r) * Micro
    BY <1>2
  <2>2. (Seconds * q + r) * Micro = (Seconds * Micro) * q + r * Micro
    BY <1>1, <1>2, SMT
  <2>3. (Seconds * Micro) * q \in Int /\ r * Micro \in Int
    BY <1>1, <1>2, SMT
  <2> QED
    BY <2>1, <2>2, <2>3
<1> HIDE DEF n, m
<1>6. (n * q + m) % n = m
  BY <1>2, <1>3, <1>4, RemainderIs
<1> QED
  BY <1>5, <1>6 DEF n, m, r

\* A time is its number of microseconds.
LEMMA ValueIs ==
  ASSUME NEW t \in RTPTime
  PROVE  /\ Value(t) \in Nat /\ t.sec \in 0..(Seconds - 1) /\ t.microsec \in 0..(Micro - 1)
         /\ Seconds \in Nat \ {0} /\ Micro \in Nat \ {0} /\ t.sec * Micro \in Nat
<1>1. Seconds \in Nat \ {0} /\ Micro \in Nat \ {0}
  BY WordAssumption
<1>2. t.sec \in 0..(Seconds - 1) /\ t.microsec \in 0..(Micro - 1)
  BY DEF RTPTime
<1>3. t.sec * Micro \in Nat
  BY <1>1, <1>2, SMT
<1> QED
  BY <1>1, <1>2, <1>3 DEF Value

\* operator< compares the numbers of microseconds.
LEMMA LessIs ==
  ASSUME NEW a \in RTPTime, NEW b \in RTPTime
  PROVE  Less(a, b) <=> Value(a) < Value(b)
<1> DEFINE s == a.sec
           t == b.sec
           u == a.microsec
           v == b.microsec
           M == Micro
<1>1. /\ s \in Int /\ t \in Int /\ M \in Nat \ {0}
      /\ u \in 0..(M - 1) /\ v \in 0..(M - 1) /\ s * M \in Nat /\ t * M \in Nat
  BY ValueIs
<1>2. Value(a) = s * M + u /\ Value(b) = t * M + v
  BY DEF Value
<1>3. Less(a, b) <=> s < t \/ (s = t /\ u < v)
  BY DEF Less
<1> HIDE DEF s, t, u, v, M
<1>4. CASE s < t
  <2>1. (s + 1) * M <= t * M
    BY <1>1, <1>4, SMT
  <2>2. (s + 1) * M = s * M + M
    BY <1>1, SMT
  <2> QED
    BY <1>1, <1>2, <1>3, <1>4, <2>1, <2>2
<1>5. CASE s = t
  BY <1>1, <1>2, <1>3, <1>5
<1>6. CASE s > t
  <2>1. (t + 1) * M <= s * M
    BY <1>1, <1>6, SMT
  <2>2. (t + 1) * M = t * M + M
    BY <1>1, SMT
  <2> QED
    BY <1>1, <1>2, <1>3, <1>6, <2>1, <2>2
<1> QED
  BY <1>1, <1>4, <1>5, <1>6

\* Two times behave as numbers of microseconds: operator+=, operator-= and the four
\* comparisons.
LEMMA TimesAreNumbers ==
  ASSUME NEW a \in RTPTime, NEW b \in RTPTime
  PROVE  Arithmetic(a, b)
<1> DEFINE borrow == IF b.microsec > a.microsec THEN 1 ELSE 0
           sum == a.microsec + b.microsec
           carry == IF sum >= Micro THEN 1 ELSE 0
           M == Micro
           x == a.sec - b.sec - borrow
           y == a.microsec + borrow * M - b.microsec
           z == a.sec + b.sec + carry
           w == sum - carry * M
<1>1. /\ a.sec \in 0..(Seconds - 1) /\ a.microsec \in 0..(Micro - 1)
      /\ b.sec \in 0..(Seconds - 1) /\ b.microsec \in 0..(Micro - 1)
      /\ Seconds \in Nat \ {0} /\ Micro \in Nat \ {0}
      /\ a.sec * Micro \in Nat /\ b.sec * Micro \in Nat
  BY ValueIs
<1>2. borrow \in {0, 1} /\ carry \in {0, 1}
  OBVIOUS
<1>3. x \in Int /\ y \in 0..(M - 1)
  BY <1>1
<1>4. z \in Int /\ w \in 0..(M - 1)
  BY <1>1
<1>5. x % Seconds \in 0..(Seconds - 1) /\ z % Seconds \in 0..(Seconds - 1)
  <2> HIDE DEF x, z
  <2> QED
    BY <1>1, <1>3, <1>4, Divided
<1>6. /\ Minus(a, b) = [sec |-> x % Seconds, microsec |-> y]
      /\ Plus(a, b) = [sec |-> z % Seconds, microsec |-> w]
  BY DEF Minus, Plus
<1>7. Minus(a, b) \in RTPTime /\ Plus(a, b) \in RTPTime
  <2> HIDE DEF x, y, z, w
  <2> QED
    BY <1>3, <1>4, <1>5, <1>6 DEF RTPTime
<1>8. Value(Minus(a, b)) = (Value(a) - Value(b)) % (Seconds * Micro)
  <2>1. x * M + y = Value(a) - Value(b)
    <3> DEFINE s == a.sec
               t == b.sec
               u == a.microsec
               v == b.microsec
               k == borrow
    <3>1. s \in Int /\ t \in Int /\ u \in Int /\ v \in Int /\ k \in Int /\ M \in Int
      BY <1>1, <1>2
    <3>2. Value(a) = s * M + u /\ Value(b) = t * M + v
      BY DEF Value
    <3>3. x = s - t - k /\ y = u + k * M - v
      OBVIOUS
    <3> HIDE DEF s, t, u, v, k, x, y, M
    <3>4. (s - t - k) * M = s * M - t * M - k * M
      BY <3>1, SMT
    <3>5. s * M \in Int /\ t * M \in Int /\ k * M \in Int
      BY <3>1, SMT
    <3> QED
      BY <3>1, <3>2, <3>3, <3>4, <3>5
  <2> HIDE DEF x, y
  <2>2. (x * Micro + y) % (Seconds * Micro) = (x % Seconds) * Micro + y
    BY <1>3, Digits
  <2>3. Value(Minus(a, b)) = (x % Seconds) * Micro + y
    BY <1>6 DEF Value
  <2> QED
    BY <2>1, <2>2, <2>3
<1>9. Value(Plus(a, b)) = (Value(a) + Value(b)) % (Seconds * Micro)
  <2>1. z * M + w = Value(a) + Value(b)
    <3> DEFINE s == a.sec
               t == b.sec
               u == a.microsec
               v == b.microsec
               k == carry
    <3>1. s \in Int /\ t \in Int /\ u \in Int /\ v \in Int /\ k \in Int /\ M \in Int
      BY <1>1, <1>2
    <3>2. Value(a) = s * M + u /\ Value(b) = t * M + v
      BY DEF Value
    <3>3. z = s + t + k /\ w = (u + v) - k * M
      OBVIOUS
    <3> HIDE DEF s, t, u, v, k, z, w, M
    <3>4. (s + t + k) * M = s * M + t * M + k * M
      BY <3>1, SMT
    <3>5. s * M \in Int /\ t * M \in Int /\ k * M \in Int
      BY <3>1, SMT
    <3> QED
      BY <3>1, <3>2, <3>3, <3>4, <3>5
  <2> HIDE DEF z, w
  <2>2. (z * Micro + w) % (Seconds * Micro) = (z % Seconds) * Micro + w
    BY <1>4, Digits
  <2>3. Value(Plus(a, b)) = (z % Seconds) * Micro + w
    BY <1>6 DEF Value
  <2> QED
    BY <2>1, <2>2, <2>3
<1>10. Less(a, b) <=> Value(a) < Value(b)
  BY LessIs
<1>11. /\ Greater(a, b) <=> ~AtMost(a, b)
       /\ AtLeast(a, b) <=> ~Less(a, b)
       /\ AtMost(a, b) <=> Less(a, b) \/ (a.sec = b.sec /\ a.microsec = b.microsec)
  <2>1. a.sec \in Int /\ b.sec \in Int /\ a.microsec \in Int /\ b.microsec \in Int
    BY <1>1
  <2>2. Greater(a, b) <=> ~AtMost(a, b)
    BY <2>1 DEF Greater, AtMost
  <2>3. AtLeast(a, b) <=> ~Less(a, b)
    BY <2>1 DEF AtLeast, Less
  <2>4. AtMost(a, b) <=> Less(a, b) \/ (a.sec = b.sec /\ a.microsec = b.microsec)
    BY <2>1 DEF AtMost, Less
  <2> QED
    BY <2>2, <2>3, <2>4
<1>12. a = b <=> a.sec = b.sec /\ a.microsec = b.microsec
  BY DEF RTPTime
<1> HIDE DEF x, y, z, w
<1> QED
  BY <1>7, <1>8, <1>9, <1>10, <1>11, <1>12 DEF Arithmetic

\* A multiple of the divisor lies no higher than the number.
LEMMA QuotientType ==
  ASSUME NEW a \in Nat, NEW b \in Nat \ {0}
  PROVE  a \div b \in Nat
<1> DEFINE q == a \div b
           r == a % b
<1>1. q \in Int /\ r \in 0..(b - 1) /\ a = b * q + r
  BY Divided
<1> HIDE DEF q, r
<1>2. CASE q < 0
  <2>1. b * q <= b * (-1)
    BY <1>1, <1>2, SMT
  <2>2. b * (-1) = -b /\ b * q \in Int
    BY <1>1, SMT
  <2> QED
    BY <1>1, <2>1, <2>2
<1> QED
  BY <1>1, <1>2 DEF q

\* A remainder stays itself, also when the divisor is added once.
LEMMA RemainderStays ==
  ASSUME NEW n \in Nat \ {0}, NEW r \in 0..(n - 1)
  PROVE  r % n = r /\ (n + r) % n = r
<1> DEFINE none == 0
           one == 1
<1>1. none \in Int /\ one \in Int /\ n * none = 0 /\ n * one = n /\ r \in Int
  BY SMT
<1>2. n * none + r = r /\ n * one + r = n + r
  BY <1>1
<1> HIDE DEF none, one
<1>3. (n * none + r) % n = r /\ (n * one + r) % n = r
  BY <1>1, RemainderIs
<1> QED
  BY <1>2, <1>3

\* A delay from a quotient is the quotient rounded down.
LEMMA QuotientIs ==
  ASSUME NEW n \in Nat, NEW d \in Nat \ {0}
  PROVE  QuotientRounded(n, d)
<1> DEFINE M == Micro
           q == n \div d
           r == n % d
           e == (r * M) \div d
           f == (r * M) % d
           v == q * M + e
<1>1. M \in Nat \ {0}
  BY WordAssumption
<1>2. q \in Int /\ r \in 0..(d - 1) /\ n = d * q + r
  BY Divided
<1>3. r * M \in Int
  <2> HIDE DEF r
  <2> QED
    BY <1>1, <1>2, SMT
<1>4. e \in Int /\ f \in 0..(d - 1) /\ r * M = d * e + f
  <2> DEFINE z == r * M
  <2> HIDE DEF z
  <2>1. z \div d \in Int /\ z % d \in 0..(d - 1) /\ z = d * (z \div d) + (z % d)
    BY <1>3, Divided DEF z
  <2> QED
    BY <2>1, Zenon DEF z
<1>5. Value(OfQuotient(n, d)) = v
  BY DEF Value, OfQuotient
<1> HIDE DEF M, q, r, e, f, v
<1>6. v \in Int /\ v * d \in Int /\ q * M \in Int /\ n * M \in Int
  BY <1>1, <1>2, <1>4, SMT DEF v
<1>7. n * M = v * d + f
  <2>1. n * M = (d * q + r) * M
    BY <1>2
  <2>2. (d * q + r) * M = (q * M) * d + r * M
    BY <1>1, <1>2, SMT
  <2>3. v * d = (q * M) * d + d * e
    BY <1>1, <1>2, <1>4, SMT DEF v
  <2>4. (q * M) * d \in Int /\ d * e \in Int
    BY <1>4, <1>6, SMT
  <2> QED
    BY <1>4, <1>6, <2>1, <2>2, <2>3, <2>4
<1>8. (v + 1) * d = v * d + d
  BY <1>6, SMT
<1>9. v * d <= n * M /\ n * M < (v + 1) * d
  BY <1>4, <1>6, <1>7, <1>8
<1> QED
  BY <1>5, <1>9, Zenon DEF QuotientRounded, M

\* A time that was sent as an NTP timestamp loses at most one microsecond.
LEMMA RoundTripIs ==
  ASSUME NEW t \in RTPTime
  PROVE  NTPRoundTrip(t)
<1> DEFINE u == t.microsec
           s == t.sec
           M == Micro
           F == Fraction
           l == (u * F) \div M
           r == (u * F) % M
           b == (l * M) \div F
           g == (l * M) % F
           back == OfNTPTime(NTPTime(t))
<1>1. /\ s \in 0..(Seconds - 1) /\ u \in 0..(M - 1) /\ M \in Nat \ {0} /\ F \in Nat \ {0}
      /\ M <= F /\ Offset \in 0..(Seconds - 1) /\ Seconds \in Nat \ {0}
  BY ValueIs, WordAssumption
<1>2. NTPTime(t) = [msw |-> (s + Offset) % Seconds, lsw |-> l]
  BY DEF NTPTime
<1>3. CASE s + Offset < Seconds
  <2>1. (s + Offset) % Seconds = s + Offset
    <3> DEFINE z == s + Offset
    <3>1. z \in 0..(Seconds - 1)
      BY <1>1, <1>3
    <3> HIDE DEF z
    <3>2. z % Seconds = z
      BY <1>1, <3>1, RemainderStays
    <3> QED
      BY <3>2 DEF z
  <2>2. back = [sec |-> s, microsec |-> b]
    <3>1. ~(s + Offset < Offset) /\ (s + Offset) - Offset = s
      BY <1>1
    <3> QED
      BY <1>2, <2>1, <3>1 DEF OfNTPTime
  <2>3. u * F \in Int
    <3> HIDE DEF u, F
    <3> QED
      BY <1>1, SMT
  <2>4. l \in Int /\ r \in 0..(M - 1) /\ u * F = M * l + r
    <3> DEFINE z == u * F
    <3> HIDE DEF z
    <3>1. z \div M \in Int /\ z % M \in 0..(M - 1) /\ z = M * (z \div M) + (z % M)
      BY <1>1, <2>3, Divided DEF z
    <3> QED
      BY <3>1, Zenon DEF z
  <2>5. l * M \in Int
    <3> HIDE DEF l, M
    <3> QED
      BY <1>1, <2>4, SMT
  <2>6. b \in Int /\ g \in 0..(F - 1) /\ l * M = F * b + g
    <3> DEFINE z == l * M
    <3> HIDE DEF z
    <3>1. z \div F \in Int /\ z % F \in 0..(F - 1) /\ z = F * (z \div F) + (z % F)
      BY <1>1, <2>5, Divided DEF z
    <3> QED
      BY <3>1, Zenon DEF z
  <2>7. Value(t) - Value(back) = u - b
    <3>1. Value(t) = s * M + u /\ Value(back) = s * M + b /\ s * M \in Int
      BY <2>2, ValueIs DEF Value
    <3> HIDE DEF s, u, b, M, back
    <3> QED
      BY <1>1, <2>6, <3>1
  <2> DEFINE h == u - b
  <2> HIDE DEF s, u, l, r, b, g, M, F
  <2>8. h \in Int /\ h * F = u * F - F * b
    BY <1>1, <2>6, SMT
  <2>9. h * F = r + g
    <3>1. M * l = l * M /\ M * l \in Int /\ F * b \in Int
      BY <1>1, <2>4, <2>6, SMT
    <3> QED
      BY <2>3, <2>4, <2>6, <2>8, <3>1
  <2> HIDE DEF h
  <2>10. h > -1
    <3>1. SUFFICES ASSUME h <= -1 PROVE FALSE
      BY <2>8
    <3>2. h * F <= (-1) * F
      BY <1>1, <2>8, <3>1, SMT
    <3>3. (-1) * F = -F
      BY <1>1, SMT
    <3> QED
      BY <1>1, <2>4, <2>6, <2>9, <3>2, <3>3
  <2>11. h < 2
    <3>1. SUFFICES ASSUME h >= 2 PROVE FALSE
      BY <2>8
    <3>2. h * F >= 2 * F
      BY <1>1, <2>8, <3>1, SMT
    <3> QED
      BY <1>1, <2>4, <2>6, <2>9, <3>2
  <2>12. h \in {0, 1}
    BY <2>8, <2>10, <2>11
  <2> QED
    BY <1>3, <2>7, <2>12, Zenon DEF NTPRoundTrip, h, s
<1>4. CASE ~(s + Offset < Seconds)
  <2>1. (s + Offset) % Seconds = s + Offset - Seconds
    <3> DEFINE z == s + Offset - Seconds
    <3>1. z \in 0..(Seconds - 1)
      BY <1>1, <1>4
    <3>2. Seconds + z = s + Offset
      BY <1>1
    <3>3. (Seconds + z) % Seconds = z
      <4> HIDE DEF z
      <4> QED
        BY <1>1, <3>1, RemainderStays
    <3> QED
      BY <3>2, <3>3
  <2>2. s + Offset - Seconds < Offset
    BY <1>1
  <2>3. back = [sec |-> 0, microsec |-> 0]
    BY <1>2, <2>1, <2>2 DEF OfNTPTime
  <2>4. Value(back) = 0
    <3>1. 0 * M = 0
      <4> HIDE DEF M
      <4> QED
        BY <1>1, SMT
    <3> QED
      BY <2>3, <3>1 DEF Value
  <2> QED
    BY <1>4, <2>4, Zenon DEF NTPRoundTrip, s
<1> QED
  BY <1>3, <1>4

\* The parts of TimeSound hold of every moment.
LEMMA TimesAreSound ==
  ASSUME clock \in RTPTime
  PROVE  TimeSound
<1>1. Value(clock) \in Nat
  BY ValueIs
<1>2. \A t \in RTPTime : Arithmetic(clock, t)
  BY TimesAreNumbers
<1>3. NTPRoundTrip(clock)
  BY RoundTripIs
<1>4. \A d \in 1..3 : QuotientRounded(Value(clock), d)
  <2>1. \A d \in 1..3 : d \in Nat \ {0}
    OBVIOUS
  <2> QED
    BY <1>1, <2>1, QuotientIs
<1> QED
  BY <1>2, <1>3, <1>4 DEF TimeSound

-----------------------------------------------------------------------------
\* The list holds the time of the last packet of each of its addresses.
TimesKept ==
    \A i \in DOMAIN addresslist : heard[addresslist[i].addr] = addresslist[i].recvtime

\* No packet comes from the future.
HeardBefore == \A a \in Address : heard[a] # Never => AtMost(heard[a], clock)

\* What is forgotten has been silent for longer than the shortest timeout.
ForgottenSilent ==
    \A a \in Address :
       ~Known(a) /\ heard[a] # Never => Greater(Minus(clock, heard[a]), Shortest)

CollisionTypes ==
    /\ addresslist \in Seq([addr : Address, recvtime : RTPTime])
    /\ clock \in RTPTime /\ clock.sec <= EndSecond /\ AtMost(StartTime, clock)
    /\ current \in {0, 1}
    /\ heard \in [Address -> RTPTime \cup {Never}]

PaceInv == CollisionTypes /\ TimesKept /\ HeardBefore /\ ForgottenSilent

\* Every moment is below the wrap of the clock.
LEMMA ValueBound ==
  ASSUME NEW t \in RTPTime
  PROVE  /\ Value(t) \in 0..(Seconds * Micro - 1) /\ Seconds * Micro \in Nat \ {0}
<1> DEFINE M == Micro
           n == Seconds * M
           s == t.sec
<1>1. Value(t) \in Nat /\ s \in 0..(Seconds - 1) /\ t.microsec \in 0..(M - 1)
      /\ Seconds \in Nat \ {0} /\ M \in Nat \ {0} /\ s * M \in Nat
  BY ValueIs
<1>2. Value(t) = s * M + t.microsec
  BY DEF Value
<1> HIDE DEF M, s
<1>3. s * M <= (Seconds - 1) * M
  BY <1>1, SMT
<1>4. (Seconds - 1) * M = n - M /\ n \in Nat \ {0}
  BY <1>1, SMT
<1> HIDE DEF n
<1>5. Value(t) \in 0..(n - 1) /\ n \in Nat \ {0}
  BY <1>1, <1>2, <1>3, <1>4
<1> QED
  BY <1>5 DEF n, M

\* The four comparisons are those of the numbers of microseconds.
LEMMA CompareIs ==
  ASSUME NEW a \in RTPTime, NEW b \in RTPTime
  PROVE  /\ Less(a, b) <=> Value(a) < Value(b)
         /\ Greater(a, b) <=> Value(a) > Value(b)
         /\ AtMost(a, b) <=> Value(a) <= Value(b)
<1>1. Less(a, b) <=> Value(a) < Value(b)
  BY LessIs
<1>2. Less(b, a) <=> Value(b) < Value(a)
  BY LessIs
<1>3. Value(a) \in Nat /\ Value(b) \in Nat /\ a.sec \in Int /\ b.sec \in Int
      /\ a.microsec \in Int /\ b.microsec \in Int
  BY ValueIs
<1>4. Greater(a, b) <=> Less(b, a)
  BY <1>3 DEF Greater, Less
<1>5. AtMost(a, b) <=> ~Less(b, a)
  BY <1>3 DEF AtMost, Less
<1> QED
  BY <1>1, <1>2, <1>3, <1>4, <1>5

\* The time since a moment that is over.
LEMMA SinceIs ==
  ASSUME NEW a \in RTPTime, NEW b \in RTPTime, Value(b) <= Value(a)
  PROVE  Minus(a, b) \in RTPTime /\ Value(Minus(a, b)) = Value(a) - Value(b)
<1> DEFINE n == Seconds * Micro
           d == Value(a) - Value(b)
<1>1. Value(a) \in 0..(n - 1) /\ Value(b) \in 0..(n - 1) /\ n \in Nat \ {0}
  BY ValueBound
<1>2. Minus(a, b) \in RTPTime /\ Value(Minus(a, b)) = d % n
  BY TimesAreNumbers DEF Arithmetic
<1> HIDE DEF n
<1>3. d \in 0..(n - 1)
  BY <1>1
<1> HIDE DEF d
<1>4. d % n = d
  BY <1>1, <1>3, RemainderStays
<1> QED
  BY <1>2, <1>4 DEF d

\* The shortest delay is one of them, and none is shorter.
LEMMA ShortestIs ==
  /\ Shortest \in TimeoutDelay /\ Shortest \in RTPTime
  /\ \A e \in TimeoutDelay : e \in RTPTime /\ Value(Shortest) <= Value(e)
<1> DEFINE T == {Value(d) : d \in TimeoutDelay}
<1>1. TimeoutDelay \subseteq RTPTime /\ TimeoutDelay # {}
  BY CollisionAssumption
<1>2. \A d \in TimeoutDelay : Value(d) \in Nat
  BY <1>1, ValueIs
<1>3. T \in SUBSET Nat /\ T # {}
  BY <1>1, <1>2
<1>4. PICK x \in T : \A y \in T : x <= y
  <2> HIDE DEF T
  <2> QED
    BY <1>3, LeastNat
<1>5. PICK d \in TimeoutDelay : x = Value(d)
  BY <1>4
<1>6. \A e \in TimeoutDelay : Value(d) <= Value(e)
  BY <1>4, <1>5
<1>7. \A e \in TimeoutDelay : AtMost(d, e)
  BY <1>1, <1>5, <1>6, CompareIs
<1>8. Shortest \in TimeoutDelay /\ \A e \in TimeoutDelay : AtMost(Shortest, e)
  BY <1>5, <1>7 DEF Shortest
<1> QED
  BY <1>1, <1>8, CompareIs

\* Nothing was heard and nothing is known when the session is created.
LEMMA PaceStart == CollisionInit => PaceInv
<1> SUFFICES ASSUME CollisionInit PROVE PaceInv
  OBVIOUS
<1>1. addresslist \in Seq([addr : Address, recvtime : RTPTime]) /\ DOMAIN addresslist = {}
  BY EmptySeq DEF CollisionInit
<1>2. clock \in RTPTime /\ clock.sec <= EndSecond /\ clock = StartTime
  BY CollisionAssumption DEF CollisionInit
<1>3. AtMost(StartTime, clock)
  <2>1. clock.sec \in Int /\ clock.microsec \in Int
    BY <1>2, ValueIs
  <2> QED
    BY <1>2, <2>1 DEF AtMost
<1>4. heard \in [Address -> RTPTime \cup {Never}] /\ \A a \in Address : heard[a] = Never
  BY DEF CollisionInit
<1>5. current \in {0, 1}
  BY DEF CollisionInit
<1> QED
  BY <1>1, <1>2, <1>3, <1>4, <1>5
  DEF PaceInv, CollisionTypes, TimesKept, HeardBefore, ForgottenSilent

\* UpdateAddress: the address is known then, with the time of this packet, and
\* nothing changes for the others.
LEMMA UpdatedIs ==
  ASSUME CollisionTypes, NEW a \in Address
  PROVE  LET new == UpdateAddress(a)
         IN  /\ new \in Seq([addr : Address, recvtime : RTPTime])
             /\ \A i \in DOMAIN new :
                   IF new[i].addr = a THEN new[i].recvtime = clock
                   ELSE i \in DOMAIN addresslist /\ new[i] = addresslist[i]
             /\ \A i \in DOMAIN addresslist :
                   i \in DOMAIN new /\ new[i].addr = addresslist[i].addr
             /\ \E i \in DOMAIN new : new[i].addr = a
<1> DEFINE E == [addr : Address, recvtime : RTPTime]
           s == addresslist
           new == UpdateAddress(a)
           e == [addr |-> a, recvtime |-> clock]
<1>1. s \in Seq(E) /\ clock \in RTPTime /\ e \in E
  BY DEF CollisionTypes
<1>2. Len(s) \in Nat /\ DOMAIN s = 1..Len(s) /\ \A i \in DOMAIN s : s[i] \in E
  <2> HIDE DEF E, s
  <2> QED
    BY <1>1, LenProperties, ElementOfSeq
<1>3. CASE Known(a)
  <2> DEFINE f(i) == IF s[i].addr = a THEN [s[i] EXCEPT !.recvtime = clock] ELSE s[i]
  <2>1. new = [i \in DOMAIN s |-> f(i)]
    BY <1>3 DEF UpdateAddress
  <2>2. \A i \in DOMAIN s : /\ f(i) \in E /\ f(i).addr = s[i].addr
                            /\ IF s[i].addr = a THEN f(i).recvtime = clock ELSE f(i) = s[i]
    BY <1>1, <1>2
  <2> HIDE DEF f, new, e
  <2>3. DOMAIN new = DOMAIN s /\ \A i \in DOMAIN s : new[i] = f(i)
    BY <2>1
  <2>4. new \in Seq(E)
    <3> HIDE DEF E
    <3>1. new = [i \in 1..Len(s) |-> f(i)] /\ \A i \in 1..Len(s) : f(i) \in E
      BY <1>2, <2>1, <2>2
    <3>2. new \in [1..Len(s) -> E]
      BY <3>1
    <3> QED
      BY <1>2, <3>2, SeqDef
  <2>5. \E i \in DOMAIN s : s[i].addr = a
    BY <1>3 DEF Known
  <2> QED
    BY <2>2, <2>3, <2>4, <2>5 DEF E, new
<1>4. CASE ~Known(a)
  <2>1. new = Append(s, e)
    BY <1>4 DEF UpdateAddress
  <2>2. e.addr = a /\ e.recvtime = clock
    OBVIOUS
  <2>3. \A i \in DOMAIN s : s[i].addr # a
    BY <1>4 DEF Known
  <2> HIDE DEF E, e, new
  <2>4. /\ new \in Seq(E) /\ Len(new) = Len(s) + 1
        /\ \A i \in 1..Len(s) : new[i] = s[i]
        /\ new[Len(s) + 1] = e
    BY <1>1, <2>1, AppendProperties
  <2>5. DOMAIN new = 1..(Len(s) + 1)
    BY <2>4, LenProperties
  <2>6. \A i \in DOMAIN new : i \in DOMAIN s \/ i = Len(s) + 1
    BY <1>2, <2>5
  <2>7. Len(s) + 1 \in DOMAIN new /\ \A i \in DOMAIN s : i \in DOMAIN new
    BY <1>2, <2>5
  <2> QED
    BY <1>2, <2>2, <2>3, <2>4, <2>6, <2>7 DEF E, new
<1> QED
  BY <1>3, <1>4

\* The number of microseconds of the next moment.
LEMMA TickIs ==
  ASSUME CollisionTypes, Tick
  PROVE  /\ clock' \in RTPTime /\ clock'.sec <= EndSecond
         /\ Value(clock') = Value(clock) + 1
<1> DEFINE M == Micro
           s == clock.sec
           u == clock.microsec
           carry == IF u + 1 >= M THEN 1 ELSE 0
<1>1. /\ s \in 0..(Seconds - 1) /\ u \in 0..(M - 1) /\ s < EndSecond
      /\ EndSecond \in 0..(Seconds - 1) /\ Seconds \in Nat \ {0} /\ M \in Nat \ {0}
      /\ s * M \in Nat
  BY ValueIs, CollisionAssumption DEF CollisionTypes, Tick
<1>2. carry \in {0, 1} /\ (u + 1) - carry * M \in 0..(M - 1) /\ s + 0 + carry \in 0..(Seconds - 1)
      /\ s + 0 + carry <= EndSecond
  BY <1>1
<1>3. clock' = [sec |-> (s + 0 + carry) % Seconds, microsec |-> (u + 1) - carry * M]
  BY DEF Tick, Plus
<1>4. (s + 0 + carry) % Seconds = s + 0 + carry
  <2> DEFINE z == s + 0 + carry
  <2> HIDE DEF z
  <2> QED
    BY <1>1, <1>2, RemainderStays DEF z
<1>5. clock' = [sec |-> s + 0 + carry, microsec |-> (u + 1) - carry * M]
  BY <1>3, <1>4
<1>6. clock' \in RTPTime /\ clock'.sec <= EndSecond
  BY <1>2, <1>5 DEF RTPTime
<1>7. Value(clock) = s * M + u
  BY DEF Value
<1>8. Value(clock') = (s + 0 + carry) * M + ((u + 1) - carry * M)
  BY <1>5 DEF Value
<1> HIDE DEF s, u, M, carry
<1>9. (s + 0 + carry) * M = s * M + carry * M /\ carry * M \in Int
  BY <1>1, <1>2, SMT
<1> QED
  BY <1>1, <1>6, <1>7, <1>8, <1>9

\* A packet with our SSRC keeps the invariant.
LEMMA OwnCollisionKeeps ==
  ASSUME PaceInv, NEW a \in Address, OwnCollision(a)
  PROVE  PaceInv'
<1> DEFINE new == UpdateAddress(a)
<1>1. /\ CollisionTypes /\ TimesKept /\ HeardBefore /\ ForgottenSilent
      /\ addresslist' = new /\ heard' = [heard EXCEPT ![a] = clock] /\ clock' = clock
      /\ current' = IF Known(a) THEN current ELSE 1 - current
  BY DEF PaceInv, OwnCollision
<1>2. /\ new \in Seq([addr : Address, recvtime : RTPTime])
      /\ \A i \in DOMAIN new :
            IF new[i].addr = a THEN new[i].recvtime = clock
            ELSE i \in DOMAIN addresslist /\ new[i] = addresslist[i]
      /\ \A i \in DOMAIN addresslist : i \in DOMAIN new /\ new[i].addr = addresslist[i].addr
      /\ \E i \in DOMAIN new : new[i].addr = a
  BY <1>1, UpdatedIs
<1> HIDE DEF new
<1>3. /\ clock \in RTPTime /\ heard \in [Address -> RTPTime \cup {Never}]
      /\ clock.sec <= EndSecond /\ AtMost(StartTime, clock) /\ current \in {0, 1}
  BY <1>1 DEF CollisionTypes
<1>4. heard' \in [Address -> RTPTime \cup {Never}] /\ current' \in {0, 1}
  BY <1>1, <1>3
<1>5. heard'[a] = clock /\ \A b \in Address : b # a => heard'[b] = heard[b]
  BY <1>1, <1>3
<1>6. CollisionTypes'
  BY <1>1, <1>2, <1>3, <1>4 DEF CollisionTypes
<1>7. TimesKept'
  <2>1. SUFFICES ASSUME NEW i \in DOMAIN new PROVE heard'[new[i].addr] = new[i].recvtime
    BY <1>1 DEF TimesKept
  <2>2. new[i].addr \in Address
    <3>1. new[i] \in [addr : Address, recvtime : RTPTime]
      <4> DEFINE E == [addr : Address, recvtime : RTPTime]
      <4> HIDE DEF E
      <4>1. new \in Seq(E)
        BY <1>2 DEF E
      <4>2. new[i] \in E
        BY <4>1, ElementOfSeq, LenProperties
      <4> QED
        BY <4>2 DEF E
    <3> QED
      BY <3>1
  <2>3. CASE new[i].addr = a
    BY <1>2, <1>5, <2>3
  <2>4. CASE new[i].addr # a
    <3>1. i \in DOMAIN addresslist /\ new[i] = addresslist[i]
      BY <1>2, <2>4
    <3>2. heard[addresslist[i].addr] = addresslist[i].recvtime
      BY <1>1, <3>1 DEF TimesKept
    <3> QED
      BY <1>5, <2>2, <2>4, <3>1, <3>2
  <2> QED
    BY <2>3, <2>4
<1>8. HeardBefore'
  <2>1. SUFFICES ASSUME NEW b \in Address, heard'[b] # Never PROVE AtMost(heard'[b], clock)
    BY <1>1 DEF HeardBefore, AtMost
  <2>2. AtMost(clock, clock)
    <3>1. clock.sec \in Int /\ clock.microsec \in Int
      BY <1>3, ValueIs
    <3> QED
      BY <3>1 DEF AtMost
  <2> QED
    BY <1>1, <1>5, <2>1, <2>2 DEF HeardBefore
<1>9. ForgottenSilent'
  <2>1. SUFFICES ASSUME NEW b \in Address, ~Known(b)', heard'[b] # Never
                 PROVE  Greater(Minus(clock, heard'[b]), Shortest)
    BY <1>1 DEF ForgottenSilent, Greater, Minus
  <2>2. \A i \in DOMAIN new : new[i].addr # b
    BY <1>1, <2>1 DEF Known
  <2>3. b # a /\ ~Known(b)
    BY <1>2, <2>2 DEF Known
  <2> QED
    BY <1>1, <1>5, <2>1, <2>3 DEF ForgottenSilent
<1> QED
  BY <1>6, <1>7, <1>8, <1>9 DEF PaceInv

\* What the timeout drops has been silent for longer than its delay.
LEMMA TimeoutKeeps ==
  ASSUME PaceInv, NEW d \in TimeoutDelay, Timeout(d)
  PROVE  PaceInv'
<1> DEFINE E == [addr : Address, recvtime : RTPTime]
           s == addresslist
           checktime == Minus(clock, d)
           at == {i \in DOMAIN s : ~Less(s[i].recvtime, checktime)}
           new == Picked(s, at)
<1>1. /\ CollisionTypes /\ TimesKept /\ HeardBefore /\ ForgottenSilent
      /\ s' = new /\ heard' = heard /\ clock' = clock /\ current' = current
  BY DEF PaceInv, Timeout
<1>2. /\ clock \in RTPTime /\ s \in Seq(E) /\ heard \in [Address -> RTPTime \cup {Never}]
      /\ clock.sec <= EndSecond /\ AtMost(StartTime, clock) /\ current \in {0, 1}
  BY <1>1 DEF CollisionTypes
<1>3. /\ d \in RTPTime /\ AtMost(d, StartTime) /\ StartTime \in RTPTime
      /\ Shortest \in RTPTime /\ Value(Shortest) <= Value(d)
  BY ShortestIs, CollisionAssumption
<1>4. Value(d) <= Value(clock)
  <2>1. Value(d) <= Value(StartTime) /\ Value(StartTime) <= Value(clock)
    BY <1>2, <1>3, CompareIs
  <2>2. Value(d) \in Nat /\ Value(StartTime) \in Nat /\ Value(clock) \in Nat
    BY <1>2, <1>3, ValueIs
  <2> QED
    BY <2>1, <2>2
<1>5. checktime \in RTPTime /\ Value(checktime) = Value(clock) - Value(d)
  BY <1>2, <1>3, <1>4, SinceIs
<1> HIDE DEF checktime
<1>6. at \in SUBSET (DOMAIN s)
  OBVIOUS
<1>7. /\ new \in Seq(E) /\ Len(new) = Cardinality(at) /\ Cardinality(at) \in 0..Len(s)
      /\ \A k \in 1..Cardinality(at) : Nth(at, k) \in at /\ new[k] = s[Nth(at, k)]
      /\ \A i \in at : \E k \in 1..Cardinality(at) : Nth(at, k) = i
  <2> HIDE DEF at, E
  <2> QED
    BY <1>2, <1>6, PickedIs
<1>8. DOMAIN new = 1..Cardinality(at)
  <2> HIDE DEF new, at, E
  <2> QED
    BY <1>7, LenProperties
<1>9. /\ \A i \in DOMAIN s : i \in at <=> ~Less(s[i].recvtime, checktime)
      /\ \A i \in DOMAIN s : s[i] \in E
  BY <1>2, ElementOfSeq, LenProperties
<1> HIDE DEF at, new
<1>10. CollisionTypes'
  BY <1>1, <1>2, <1>7 DEF CollisionTypes
<1>11. TimesKept'
  <2>1. SUFFICES ASSUME NEW k \in DOMAIN new PROVE heard[new[k].addr] = new[k].recvtime
    BY <1>1 DEF TimesKept
  <2>2. Nth(at, k) \in DOMAIN s /\ new[k] = s[Nth(at, k)]
    BY <1>6, <1>7, <1>8
  <2> QED
    BY <1>1, <2>2 DEF TimesKept
<1>12. HeardBefore'
  BY <1>1 DEF HeardBefore, AtMost
<1>13. ForgottenSilent'
  <2>1. SUFFICES ASSUME NEW b \in Address, ~Known(b)', heard[b] # Never
                 PROVE  Greater(Minus(clock, heard[b]), Shortest)
    BY <1>1 DEF ForgottenSilent, Greater, Minus
  <2>2. CASE ~Known(b)
    BY <1>1, <2>1, <2>2 DEF ForgottenSilent
  <2>3. CASE Known(b)
    <3>1. PICK i \in DOMAIN s : s[i].addr = b
      BY <2>3 DEF Known
    <3>2. s[i].recvtime \in RTPTime /\ heard[b] = s[i].recvtime
      BY <1>1, <1>9, <3>1 DEF TimesKept
    <3>3. \A k \in DOMAIN new : new[k].addr # b
      BY <1>1, <2>1 DEF Known
    <3>4. i \notin at
      BY <1>7, <1>8, <3>1, <3>3
    <3>5. Less(heard[b], checktime)
      BY <1>9, <3>2, <3>4
    <3>6. Value(heard[b]) < Value(checktime)
      BY <1>5, <3>2, <3>5, CompareIs
    <3>7. AtMost(heard[b], clock)
      BY <1>1, <2>1 DEF HeardBefore
    <3>8. Value(heard[b]) <= Value(clock) /\ Value(heard[b]) \in Nat /\ Value(clock) \in Nat
          /\ Value(d) \in Nat /\ Value(Shortest) \in Nat
      BY <1>2, <1>3, <3>2, <3>7, CompareIs, ValueIs
    <3>9. /\ Minus(clock, heard[b]) \in RTPTime
          /\ Value(Minus(clock, heard[b])) = Value(clock) - Value(heard[b])
      BY <1>2, <3>2, <3>8, SinceIs
    <3>10. Value(Minus(clock, heard[b])) > Value(Shortest)
      BY <1>3, <1>5, <3>6, <3>8, <3>9
    <3> QED
      BY <1>3, <3>9, <3>10, CompareIs
  <2> QED
    BY <2>2, <2>3
<1> QED
  BY <1>10, <1>11, <1>12, <1>13 DEF PaceInv

\* As time goes on, what is silent stays silent.
LEMMA TickKeeps ==
  ASSUME PaceInv, Tick
  PROVE  PaceInv'
<1>1. /\ CollisionTypes /\ TimesKept /\ HeardBefore /\ ForgottenSilent
      /\ addresslist' = addresslist /\ heard' = heard /\ current' = current
  BY DEF PaceInv, Tick
<1>2. /\ clock \in RTPTime /\ AtMost(StartTime, clock) /\ StartTime \in RTPTime
      /\ addresslist \in Seq([addr : Address, recvtime : RTPTime])
      /\ heard \in [Address -> RTPTime \cup {Never}] /\ current \in {0, 1}
      /\ Shortest \in RTPTime
  BY <1>1, CollisionAssumption, ShortestIs DEF CollisionTypes
<1> DEFINE next == clock'
<1>3. next \in RTPTime /\ next.sec <= EndSecond /\ Value(next) = Value(clock) + 1
  BY <1>1, TickIs
<1> HIDE DEF next
<1>4. ASSUME NEW t \in RTPTime, AtMost(t, clock)
      PROVE  AtMost(t, next) /\ Value(t) <= Value(clock) /\ Value(t) <= Value(next)
  <2>1. Value(t) <= Value(clock)
    BY <1>2, <1>4, CompareIs
  <2>2. Value(t) \in Nat /\ Value(clock) \in Nat
    BY <1>2, ValueIs
  <2>3. Value(t) <= Value(next)
    BY <1>3, <2>1, <2>2
  <2> QED
    BY <1>3, <2>1, <2>3, CompareIs
<1>5. AtMost(StartTime, next)
  BY <1>2, <1>4
<1>6. CollisionTypes'
  BY <1>1, <1>2, <1>3, <1>5 DEF CollisionTypes, next, AtMost
<1>7. TimesKept'
  BY <1>1 DEF TimesKept
<1>8. HeardBefore'
  <2>1. SUFFICES ASSUME NEW b \in Address, heard[b] # Never PROVE AtMost(heard[b], next)
    BY <1>1 DEF HeardBefore, AtMost, next
  <2> QED
    BY <1>1, <1>2, <1>4, <2>1 DEF HeardBefore
<1>9. ForgottenSilent'
  <2>1. SUFFICES ASSUME NEW b \in Address, ~Known(b), heard[b] # Never
                 PROVE  Greater(Minus(next, heard[b]), Shortest)
    BY <1>1 DEF ForgottenSilent, Greater, Minus, Known, next
  <2>2. Greater(Minus(clock, heard[b]), Shortest)
    BY <1>1, <2>1 DEF ForgottenSilent
  <2>3. heard[b] \in RTPTime /\ AtMost(heard[b], clock)
    BY <1>1, <1>2, <2>1 DEF HeardBefore
  <2> DEFINE t == heard[b]
  <2> HIDE DEF t
  <2>4. Value(t) <= Value(clock) /\ Value(t) <= Value(next)
    BY <1>4, <2>3 DEF t
  <2>5. /\ Minus(clock, t) \in RTPTime /\ Value(Minus(clock, t)) = Value(clock) - Value(t)
        /\ Minus(next, t) \in RTPTime /\ Value(Minus(next, t)) = Value(next) - Value(t)
    BY <1>2, <1>3, <2>3, <2>4, SinceIs DEF t
  <2>6. Value(Minus(clock, t)) > Value(Shortest)
    BY <1>2, <2>2, <2>5, CompareIs DEF t
  <2>7. Value(t) \in Nat /\ Value(clock) \in Nat /\ Value(Shortest) \in Nat
    BY <1>2, <2>3, ValueIs DEF t
  <2>8. Value(Minus(next, t)) > Value(Shortest)
    BY <1>3, <2>5, <2>6, <2>7
  <2> QED
    BY <1>2, <2>5, <2>8, CompareIs DEF t
<1> QED
  BY <1>6, <1>7, <1>8, <1>9 DEF PaceInv

\* Clear forgets everything.
LEMMA ClearKeeps ==
  ASSUME PaceInv, Clear
  PROVE  PaceInv'
<1>1. addresslist' \in Seq([addr : Address, recvtime : RTPTime]) /\ DOMAIN addresslist' = {}
  BY EmptySeq DEF Clear
<1>2. heard' \in [Address -> RTPTime \cup {Never}] /\ \A a \in Address : heard'[a] = Never
  BY DEF Clear
<1>3. clock' = clock /\ current' = current
  BY DEF Clear
<1>4. CollisionTypes'
  BY <1>1, <1>2, <1>3 DEF PaceInv, CollisionTypes, AtMost
<1> QED
  BY <1>1, <1>2, <1>4
  DEF PaceInv, TimesKept, HeardBefore, ForgottenSilent

\* Every step keeps the invariant.
LEMMA PaceKept == PaceInv /\ [CollisionNext]_collisionvars => PaceInv'
<1> SUFFICES ASSUME PaceInv, [CollisionNext]_collisionvars PROVE PaceInv'
  OBVIOUS
<1>1. ASSUME NEW a \in Address, OwnCollision(a) PROVE PaceInv'
  BY <1>1, OwnCollisionKeeps
<1>2. ASSUME NEW d \in TimeoutDelay, Timeout(d) PROVE PaceInv'
  BY <1>2, TimeoutKeeps
<1>3. CASE Clear
  BY <1>3, ClearKeeps
<1>4. CASE Tick
  BY <1>4, TickKeeps
<1>5. CASE UNCHANGED collisionvars
  BY <1>5 DEF collisionvars, PaceInv, CollisionTypes, TimesKept, HeardBefore,
              ForgottenSilent, Known, AtMost, Greater, Minus
<1> QED
  BY <1>1, <1>2, <1>3, <1>4, <1>5 DEF CollisionNext

\* The invariant is all that the pace of our new SSRCs needs.
LEMMA PaceStep ==
  ASSUME PaceInv, CollisionNext, current' # current
  PROVE  \E a \in Address :
            /\ heard' = [heard EXCEPT ![a] = clock]
            /\ heard[a] = Never \/ Greater(Minus(clock, heard[a]), Shortest)
<1>1. PICK a \in Address : OwnCollision(a)
  BY DEF CollisionNext, Timeout, Clear, Tick
<1>2. ~Known(a) /\ heard' = [heard EXCEPT ![a] = clock]
  BY <1>1 DEF OwnCollision
<1>3. heard[a] = Never \/ Greater(Minus(clock, heard[a]), Shortest)
  BY <1>2 DEF PaceInv, ForgottenSilent
<1> QED
  BY <1>2, <1>3

\* RTPCollisionList with ProcessPolledData: for every set of addresses, delays and
\* times, our SSRC changes for an address only when nothing was heard from it for
\* longer than the shortest timeout, and the times compare, add and convert as numbers.
THEOREM CollisionsAreSound == CollisionSpec => CollisionsSound
<1>1. PaceInv => TimeSound
  BY TimesAreSound DEF PaceInv, CollisionTypes
<1>2. PaceInv /\ [CollisionNext]_collisionvars =>
        [current' # current =>
            \E a \in Address :
               /\ heard' = [heard EXCEPT ![a] = clock]
               /\ heard[a] = Never \/ Greater(Minus(clock, heard[a]), Shortest)]_collisionvars
  BY PaceStep
<1> QED
  BY <1>1, <1>2, PaceStart, PaceKept, PTL
  DEF CollisionSpec, CollisionsSound, CollisionsPaced
=============================================================================
