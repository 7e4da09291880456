------------------------------ MODULE RtpSession ------------------------------
(***************************************************************************)
(* The RTP session (codes/inc/rtp): main sends a packet per NAL unit and   *)
(* leaves with BYEDestroy, while the poll thread waits for data in the     *)
(* transmitter, processes what came in, answers collisions of the own SSRC *)
(* and sends the RTCP packets that are due.                                *)
(*                                                                         *)
(* Every mutex of the two threads is a variable, except stopmutex, whose   *)
(* sections hold nothing else.  A section that takes one mutex and blocks  *)
(* nowhere inside is one action, enabled while the mutex is free.          *)
(*                                                                         *)
(* JThread::Kill (external: the jthread library) is pthread_cancel: a      *)
(* thread that blocks in select dies there and keeps its mutexes.          *)
(***************************************************************************)
EXTENDS Naturals, Sequences

CONSTANTS
  Delays,         \* waits the scheduler asks for: "short", or "long" (over 5 s)
  Packets,        \* bound: packets main sends
  Collisions      \* bound: addresses that use our SSRC

ASSUME SessionAssumption ==
  /\ Delays \subseteq {"short", "long"} /\ Delays # {}
  /\ Packets \in Nat /\ Collisions \in Nat

Mutexes == {"sources", "sched", "builder", "packsent", "main", "wait"}

VARIABLES
  mpc, ppc,       \* where main and the poll thread are
  owner,          \* the thread that holds each mutex, or "none"
  stop,           \* RTPPollThread::stop
  running,        \* JThread's flag
  waitingfordata, \* the transmitter's flag: some thread is in, or near, select
  aborts,         \* bytes written to the abort descriptor, not read yet
  delay,          \* how long the current select may take
  raw,            \* what Poll received: "none", "data" or "collision"
  ssrc,           \* the packet builder's SSRC: 1, 2, ...
  sentpackets,
  byepackets,     \* SSRCs whose BYE waits to be sent
  byescheduled,   \* the scheduler's flag
  hassent,        \* the poll thread's local copy of sentpackets
  left,           \* packets main has still to send
  used,           \* history: SSRCs a packet other than BYE was sent with
  byes            \* history: SSRCs a BYE was sent for

threads == <<mpc, ppc, owner, stop, running>>
trans   == <<waitingfordata, aborts, delay, raw>>
session == <<ssrc, sentpackets, byepackets, byescheduled, hassent>>
history == <<left, used, byes>>
vars    == <<threads, trans, session, history>>

Free(m) == owner[m] = "none"
Set(m, t) == owner' = [owner EXCEPT ![m] = t]
MainGoto(from, to) == mpc = from /\ mpc' = to
PollGoto(from, to) == ppc = from /\ ppc' = to

\* Create has succeeded and started the thread.
Init ==
  /\ mpc = "app" /\ ppc = "start"
  /\ owner = [m \in Mutexes |-> "none"]
  /\ stop = FALSE /\ running = TRUE
  /\ waitingfordata = FALSE /\ aborts = 0
  /\ delay = "short" /\ raw = "none"
  /\ ssrc = 1 /\ sentpackets = FALSE
  /\ byepackets = <<>> /\ byescheduled = FALSE /\ hassent = FALSE
  /\ left = Packets /\ used = {} /\ byes = {}

-----------------------------------------------------------------------------
\* Main: SendPacket.  The packet is built, and sent, under the builder's mutex;
\* the source table and sentpackets follow in sections of their own.
SendBuild ==
  /\ MainGoto("app", "sending")
  /\ left > 0
  /\ left' = left - 1
  /\ Free("builder") /\ Set("builder", "main")
  /\ UNCHANGED <<ppc, stop, running, trans, session, used, byes>>

\* Bug: the builder is not unlocked.
SendRTPDataKeeps ==
  /\ MainGoto("sending", "sent")
  /\ Free("main")
  /\ used' = used \cup {ssrc}
  /\ UNCHANGED <<ppc, owner, stop, running, trans, session, left, byes>>

SendRTPData ==
  /\ MainGoto("sending", "sent")
  /\ Free("main") /\ Set("builder", "none")
  /\ used' = used \cup {ssrc}
  /\ UNCHANGED <<ppc, stop, running, trans, session, left, byes>>

SentRTPPacket ==
  /\ MainGoto("sent", "flag")
  /\ Free("sources")
  /\ UNCHANGED <<ppc, owner, stop, running, trans, session, history>>

SetSentPackets ==
  /\ MainGoto("flag", "app")
  /\ Free("packsent")
  /\ sentpackets' = TRUE
  /\ UNCHANGED <<ppc, owner, stop, running, trans, ssrc, byepackets, byescheduled,
                 hassent, history>>

\* Bug: the thread is woken up but not told to stop.
StopOnlyWakes ==
  /\ mpc = "app"
  /\ mpc' = IF running THEN "abort" ELSE "bye"
  /\ UNCHANGED <<ppc, owner, stop, running, trans, session, history>>

\* Main: BYEDestroy begins by deleting the poll thread, which calls Stop.
Stop ==
  /\ mpc = "app"
  /\ IF running THEN stop' = TRUE /\ mpc' = "abort"
                ELSE stop' = stop /\ mpc' = "bye"
  /\ UNCHANGED <<ppc, owner, running, trans, session, history>>

AbortWait ==
  /\ MainGoto("abort", "stopping")
  /\ Free("main")
  /\ aborts' = IF waitingfordata THEN aborts + 1 ELSE aborts
  /\ UNCHANGED <<ppc, owner, stop, running, waitingfordata, delay, raw, session,
                 history>>

\* Bug: main goes on without waiting for the thread.
StoppedAtOnce ==
  /\ MainGoto("stopping", "bye")
  /\ UNCHANGED <<ppc, owner, stop, running, trans, session, history>>

\* Poll IsRunning every 10 ms ...
Stopped ==
  /\ MainGoto("stopping", "bye")
  /\ ~running
  /\ UNCHANGED <<ppc, owner, stop, running, trans, session, history>>

\* ... but not longer than 5 s, which only a long select outlasts.
Kill ==
  /\ MainGoto("stopping", "bye")
  /\ ppc = "select" /\ delay = "long" /\ aborts = 0
  /\ ppc' = "dead"
  /\ running' = FALSE
  /\ UNCHANGED <<owner, stop, trans, session, history>>

\* Bug: the BYE is listed but not scheduled.
QueueByeOnly(s) ==
  /\ byepackets' = Append(byepackets, s)
  /\ byescheduled' = byescheduled

\* The first BYE in the list is scheduled, later ones follow it.
QueueBye(s) ==
  /\ byepackets' = Append(byepackets, s)
  /\ byescheduled' = (byescheduled \/ byepackets = <<>>)

BuildBYE ==
  /\ MainGoto("bye", "byeloop")
  /\ IF sentpackets THEN QueueBye(ssrc) ELSE UNCHANGED <<byepackets, byescheduled>>
  /\ UNCHANGED <<ppc, owner, stop, running, trans, ssrc, sentpackets, hassent, history>>

\* IsTime: send the first BYE, then schedule the next one.
ByeIsTime ==
  /\ mpc = "byeloop"
  /\ byepackets # <<>>
  /\ Free("main")
  /\ byes' = byes \cup {Head(byepackets)}
  /\ byepackets' = Tail(byepackets)
  /\ byescheduled' = (Tail(byepackets) # <<>>)
  /\ UNCHANGED <<threads, trans, ssrc, sentpackets, hassent, left, used>>

\* Nothing left to send, or maxwaittime is over.
ByeDone ==
  /\ MainGoto("byeloop", "destroy")
  /\ UNCHANGED <<ppc, owner, stop, running, trans, session, history>>

\* The transmitter's Destroy ...
Destroy ==
  /\ MainGoto("destroy", "waitlock")
  /\ Free("main")
  /\ aborts' = IF waitingfordata THEN aborts + 1 ELSE 0
  /\ UNCHANGED <<ppc, owner, stop, running, waitingfordata, delay, raw, session, history>>

\* ... waits for the end of a wait that is still going on; no flag changes while
\* it does, because no other thread is left.
WaitLock ==
  /\ MainGoto("waitlock", "left")
  /\ waitingfordata => Free("wait")
  /\ UNCHANGED <<ppc, owner, stop, running, trans, session, history>>

Main ==
  \/ SendBuild \/ SendRTPData \/ SentRTPPacket \/ SetSentPackets
  \/ Stop \/ AbortWait \/ Stopped \/ Kill
  \/ BuildBYE \/ ByeIsTime \/ ByeDone \/ Destroy \/ WaitLock

-----------------------------------------------------------------------------
\* Poll thread: the stop flag, read before the loop and at its end.
ReadStop ==
  /\ ppc \in {"start", "step"}
  /\ ppc' = IF stop THEN "stop" ELSE "sched"
  /\ UNCHANGED <<mpc, owner, stop, running, trans, session, history>>

ThreadEnd ==
  /\ PollGoto("stop", "ended")
  /\ running' = FALSE
  /\ UNCHANGED <<mpc, owner, stop, trans, session, history>>

\* GetTransmissionDelay under the scheduler's, then the source table's mutex.
LockSched ==
  /\ PollGoto("sched", "sources")
  /\ Free("sched") /\ Set("sched", "poll")
  /\ UNCHANGED <<mpc, stop, running, trans, session, history>>

LockSources ==
  /\ PollGoto("sources", "delay")
  /\ Free("sources") /\ Set("sources", "poll")
  /\ UNCHANGED <<mpc, stop, running, trans, session, history>>

GetTransmissionDelay ==
  /\ PollGoto("delay", "wait")
  /\ delay' \in Delays
  /\ owner' = [owner EXCEPT !["sources"] = "none", !["sched"] = "none"]
  /\ UNCHANGED <<mpc, stop, running, waitingfordata, aborts, raw, session, history>>

\* WaitForIncomingData: waitingfordata is set under the main mutex, which is
\* given up once the wait mutex is held.
WaitBegin ==
  /\ PollGoto("wait", "waitlock")
  /\ Free("main") /\ Set("main", "poll")
  /\ waitingfordata' = TRUE
  /\ UNCHANGED <<mpc, stop, running, aborts, delay, raw, session, history>>

LockWait ==
  /\ PollGoto("waitlock", "select")
  /\ Free("wait")
  /\ owner' = [owner EXCEPT !["wait"] = "poll", !["main"] = "none"]
  /\ UNCHANGED <<mpc, stop, running, trans, session, history>>

\* select returns: data, a timeout, an abort byte; or fails (a signal).
SelectReturns ==
  /\ PollGoto("select", "woken")
  /\ UNCHANGED <<mpc, owner, stop, running, trans, session, history>>

SelectFails ==
  /\ PollGoto("select", "stop")
  /\ Free("main") /\ Set("wait", "none")
  /\ waitingfordata' = FALSE
  /\ UNCHANGED <<mpc, stop, running, aborts, delay, raw, session, history>>

\* The end of the wait under the main lock: the abort bytes are read.
WaitEnd ==
  /\ PollGoto("woken", "unwait")
  /\ Free("main")
  /\ waitingfordata' = FALSE
  /\ aborts' = IF aborts > 0 THEN aborts - 1 ELSE 0
  /\ UNCHANGED <<mpc, owner, stop, running, delay, raw, session, history>>

UnlockWait ==
  /\ PollGoto("unwait", "poll")
  /\ Set("wait", "none")
  /\ UNCHANGED <<mpc, stop, running, trans, session, history>>

\* Poll reads the sockets: ours is the only SSRC whose collision matters here.
PollSockets ==
  /\ PollGoto("poll", "process")
  /\ Free("main")
  /\ raw' \in {"none", "data"} \cup (IF ssrc <= Collisions THEN {"collision"} ELSE {})
  /\ UNCHANGED <<mpc, owner, stop, running, waitingfordata, aborts, delay, session,
                 history>>

\* ProcessPolledData holds the source table's mutex from here to its end.
LockTable ==
  /\ PollGoto("process", "packet")
  /\ Free("sources") /\ Set("sources", "poll")
  /\ UNCHANGED <<mpc, stop, running, trans, session, history>>

ProcessRawPacket ==
  /\ ppc = "packet"
  /\ Free("sched") /\ Free("main")
  /\ ppc' = IF raw = "collision" THEN "collision" ELSE "istime"
  /\ raw' = "none"
  /\ UNCHANGED <<mpc, owner, stop, running, waitingfordata, aborts, delay, session,
                 history>>

\* The own SSRC collided: a BYE for it if it was used, then a new one.
ReadSentPackets ==
  /\ PollGoto("collision", "collbye")
  /\ Free("packsent")
  /\ hassent' = sentpackets
  /\ UNCHANGED <<mpc, owner, stop, running, trans, ssrc, sentpackets, byepackets,
                 byescheduled, history>>

\* Bug: the BYE is sent at once, before the SSRC is changed.
CollisionBYENow ==
  /\ PollGoto("collbye", "newssrc")
  /\ byes' = IF hassent THEN byes \cup {ssrc} ELSE byes
  /\ UNCHANGED <<mpc, owner, stop, running, trans, session, left, used>>

CollisionBYE ==
  /\ PollGoto("collbye", "newssrc")
  /\ \/ hassent /\ Free("builder") /\ Free("sched") /\ QueueBye(ssrc)
     \/ ~hassent /\ UNCHANGED <<byepackets, byescheduled>>
  /\ UNCHANGED <<mpc, owner, stop, running, trans, ssrc, sentpackets, hassent, history>>

CreateNewSSRC ==
  /\ PollGoto("newssrc", "unsent")
  /\ Free("builder")
  /\ ssrc' = ssrc + 1
  /\ UNCHANGED <<mpc, owner, stop, running, trans, sentpackets, byepackets, byescheduled,
                 hassent, history>>

ClearSentPackets ==
  /\ PollGoto("unsent", "istime")
  /\ Free("packsent")
  /\ sentpackets' = FALSE
  /\ UNCHANGED <<mpc, owner, stop, running, trans, ssrc, byepackets, byescheduled, hassent,
                 history>>

\* Timeouts, then RTCP if it is due.  IsTime clears the scheduler's flag.
IsTime ==
  /\ ppc = "istime"
  /\ Free("sched")
  /\ \/ ppc' = "rtcp" /\ byescheduled' = FALSE
     \/ ppc' = "unlock" /\ UNCHANGED byescheduled
  /\ UNCHANGED <<mpc, owner, stop, running, trans, ssrc, sentpackets, byepackets, hassent,
                 history>>

\* A queued BYE goes out, or else a report.
SendRTCPData ==
  /\ PollGoto("rtcp", "rtcpsent")
  /\ Free("main")
  /\ \/ /\ byepackets = <<>> /\ Free("builder")
        /\ used' = used \cup {ssrc}
        /\ UNCHANGED <<byepackets, byes>>
     \/ /\ byepackets # <<>>
        /\ byes' = byes \cup {Head(byepackets)}
        /\ byepackets' = Tail(byepackets)
        /\ UNCHANGED used
  /\ UNCHANGED <<mpc, owner, stop, running, trans, ssrc, sentpackets, byescheduled, hassent,
                 left>>

\* The next BYE in the list, if any, is scheduled.
SentRTCP ==
  /\ PollGoto("rtcpsent", "unlock")
  /\ Free("packsent") /\ Free("sched")
  /\ sentpackets' = TRUE
  /\ byescheduled' = (byepackets # <<>>)
  /\ UNCHANGED <<mpc, owner, stop, running, trans, ssrc, byepackets, hassent, history>>

UnlockTable ==
  /\ PollGoto("unlock", "step")
  /\ Set("sources", "none")
  /\ UNCHANGED <<mpc, stop, running, trans, session, history>>

PollThread ==
  \/ ReadStop \/ ThreadEnd \/ LockSched \/ LockSources \/ GetTransmissionDelay
  \/ WaitBegin \/ LockWait \/ SelectReturns \/ SelectFails \/ WaitEnd \/ UnlockWait
  \/ PollSockets \/ LockTable \/ ProcessRawPacket
  \/ ReadSentPackets \/ CollisionBYE \/ CreateNewSSRC \/ ClearSentPackets
  \/ IsTime \/ SendRTCPData \/ SentRTCP \/ UnlockTable

\* The session has been left: nothing more happens.
Done == mpc = "left" /\ UNCHANGED vars

Next == Main \/ PollThread \/ Done

Spec == Init /\ [][Next]_vars

\* The operating system runs both threads, and no wait lasts for ever: select
\* has a timeout and the BYE loop a limit.
FairSpec == Spec /\ WF_vars(Main) /\ WF_vars(PollThread) /\ WF_vars(ByeDone)

-----------------------------------------------------------------------------
Holders == {"none", "main", "poll"}

ThreadsOK ==
  /\ owner \in [Mutexes -> Holders]
  /\ mpc \in {"app", "sending", "sent", "flag", "abort", "stopping", "bye", "byeloop",
              "destroy", "waitlock", "left"}
  /\ ppc \in {"start", "step", "stop", "ended", "dead", "sched", "sources", "delay", "wait",
              "waitlock", "select", "woken", "unwait", "poll", "process", "packet",
              "collision", "collbye", "newssrc", "unsent", "istime", "rtcp", "rtcpsent",
              "unlock"}
  /\ stop \in BOOLEAN /\ running \in BOOLEAN

TransOK ==
  /\ waitingfordata \in BOOLEAN /\ aborts \in 0..2
  /\ delay \in {"short", "long"} /\ raw \in {"none", "data", "collision"}

SessionOK ==
  /\ ssrc \in 1..(Collisions + 1)
  /\ sentpackets \in BOOLEAN /\ byescheduled \in BOOLEAN /\ hassent \in BOOLEAN
  /\ byepackets \in Seq(1..ssrc) /\ used \subseteq 1..ssrc /\ byes \subseteq 1..ssrc
  /\ left \in 0..Packets

\* Types and ranges: at most one abort byte per call that writes one, and no more
\* SSRCs than collisions.
TypeOK == ThreadsOK /\ TransOK /\ SessionOK

\* Main takes the session apart without any lock: by then the poll thread is
\* past its last access, or died in select, and holds no lock but the wait mutex.
DestroyAlone ==
  mpc \in {"bye", "byeloop", "destroy", "waitlock", "left"} =>
    /\ ppc \in {"ended", "dead"}
    /\ \A m \in Mutexes \ {"wait"} : Free(m)

\* Once main has called AbortWait the poll thread begins no further round: an
\* abort can be missed (main looked at waitingfordata a moment too early), but
\* then the one wait that follows is the last.
NoNewRound ==
  [][mpc = "stopping" => ~(ppc \in {"start", "step"} /\ ppc' = "sched")]_vars

\* While main may still send, it never sends with an SSRC that has said BYE: the
\* BYE of a collided SSRC leaves only after the builder has a new one, although
\* building it and replacing the SSRC are two sections of the builder's mutex.
NoDataAfterBYE ==
  mpc \in {"app", "sending", "sent", "flag", "abort", "stopping"} => ssrc \notin byes

\* A BYE waits in the list exactly while the scheduler runs the BYE timer, so no
\* BYE is left behind and no report is timed by the BYE rules.  Only while the
\* poll thread is sending is the timer off for the BYEs that follow.
BYEIsScheduled ==
  ppc \notin {"rtcp", "rtcpsent"} => (byescheduled <=> byepackets # <<>>)

\* Leaving the session ends, unless the poll thread had to be killed: neither the
\* locks of the two threads nor the waits for each other can hold main for ever.
SessionIsLeft == mpc = "abort" ~> mpc = "left" \/ ppc = "dead"

\* The header's promise: the session is left, in time or without a BYE.
SessionAlwaysLeft == mpc = "abort" ~> mpc = "left"

\* A BYE is only sent for an SSRC that data was sent with.
BYEOnlyIfSent == byes \subseteq used
=============================================================================
