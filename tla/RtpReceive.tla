------------------------------ MODULE RtpReceive ------------------------------
(***************************************************************************)
(* The receive path of one RTP source: RTPSourceStats::ProcessPacket, which *)
(* puts a new source on probation, extends the 16-bit sequence numbers and *)
(* counts packets, and RTPInternalSourceData::ProcessRTPPacket, which      *)
(* keeps the packets of the source sorted for the application.             *)
(*                                                                         *)
(* Around it a network loses, repeats and delays packets: the packet with  *)
(* index n carries the sequence number (First + n) % Modulus, and any      *)
(* packet not older than Late and not newer than Ahead counted from the    *)
(* newest one delivered may arrive next.                                   *)
(***************************************************************************)
EXTENDS Integers, Sequences

CONSTANTS
    Modulus,              \* 2^16 in the code
    ProbationLength,      \* RTP_PROBATIONCOUNT
    MaxProbationPackets,  \* RTPINTERNALSOURCEDATA_MAXPROBATIONPACKETS
    Late, Ahead,          \* how far back and ahead a packet may be
    LastIndex,            \* bound: packets the sender sends
    MaxQueue,             \* bound: packets the application leaves in the queue
    MaxExtended           \* bound: extended sequence numbers

ASSUME ReceiveAssumption ==
    /\ {Modulus, ProbationLength, MaxProbationPackets} \subseteq Nat \ {0}
    /\ {Late, Ahead, LastIndex} \subseteq Nat
    /\ 2 * (Late + Ahead) < Modulus

VARIABLES
    stats,      \* RTPSourceStats: probation and sequence number counters
    validated,  \* the source is validated
    byname,     \* it was validated by a CNAME
    packets,    \* packetlist: extended sequence number and true index
    storing,    \* ProbationStore, not ProbationDiscard or NoProbation
    first,      \* sequence number of the packet with index 0
    newest,     \* largest index delivered, -1 before the first one
    last,       \* index of the last packet delivered on probation
    run,        \* length of the run of consecutive packets it ended
    early,      \* cycles of the packets delivered on probation
    clean       \* no delivery was one of the two the extension gets wrong

source == <<stats, validated, byname, packets, storing>>
history == <<first, newest, last, run, early, clean>>
receivevars == <<source, history>>

Seqnr(n) == (first + n) % Modulus
Cycle(n) == (first + n) \div Modulus

NewStats == [sentdata |-> FALSE, probation |-> 0, prevseqnr |-> 0,
             cycles |-> 0, base |-> 0, exthigh |-> 0]

\* (a - b) in sixteen bits.
Minus(a, b) == (a - b) % Modulus

\* ACCEPTPACKETCODE: the first packet that counts.
FirstAccepted(st, q) ==
    [st EXCEPT !.sentdata = TRUE,
               !.base = IF q = 0 THEN Modulus - 1 ELSE q - 1,
               !.cycles = IF q = 0 THEN Modulus ELSE @,
               !.exthigh = IF q = 0 THEN Modulus ELSE q]

\* Bug: a smaller number always starts a new cycle.
LaterPacketNoWindow(st, q) ==
    LET max16 == st.exthigh % Modulus
        cycles == IF q < max16 THEN st.cycles + Modulus ELSE st.cycles
    IN  [st EXCEPT !.cycles = cycles, !.exthigh = cycles + q]

\* A packet of a source that already sent data: a number not below the highest
\* is in its cycle, a lower one starts a new cycle when that is the shorter way.
LaterPacket(st, q) ==
    LET max16 == st.exthigh % Modulus
        wraps == q < max16 /\ Minus(q, max16) < Minus(max16, q)
        cycles == IF wraps THEN st.cycles + Modulus ELSE st.cycles
    IN  [st EXCEPT !.cycles = cycles,
                   !.exthigh = IF wraps \/ q >= max16 THEN cycles + q ELSE @]

\* A packet of a source on probation: the run goes on, or starts again.
OnProbation(st, q) ==
    IF st.probation # 0 /\ q = (st.prevseqnr + 1) % Modulus
    THEN [st EXCEPT !.prevseqnr = q, !.probation = @ - 1]
    ELSE [st EXCEPT !.prevseqnr = q, !.probation = ProbationLength]

ProcessPacket(st, q) ==
    IF st.sentdata THEN LaterPacket(st, q)
    ELSE IF validated THEN FirstAccepted(st, q)
    ELSE LET on == OnProbation(st, q)
         IN  IF on.probation = 0 THEN FirstAccepted(on, q) ELSE on

\* The extended sequence number the packet gets; a packet of a source still on
\* probation keeps its own.
Extended(st, st2, q) ==
    IF ~st2.sentdata THEN q
    ELSE IF ~st.sentdata THEN st2.exthigh
    ELSE st2.cycles + q

\* The search for the place of a packet, from the end of the list: behind the
\* last packet that is not newer.
Place(list, ext) ==
    CHOOSE k \in 0..Len(list) :
        /\ k = 0 \/ list[k].ext <= ext
        /\ \A i \in (k + 1)..Len(list) : list[i].ext > ext

\* A number the list has is dropped.
Insert(list, p) ==
    LET k == Place(list, p.ext)
    IN  IF k # 0 /\ list[k].ext = p.ext THEN list
        ELSE SubSeq(list, 1, k) \o <<p>> \o SubSeq(list, k + 1, Len(list))

\* The list makes room on probation by dropping its lowest packet, before it
\* looks whether the new one is a duplicate.
MakeRoom(list, valid) ==
    IF ~valid /\ Len(list) = MaxProbationPackets THEN Tail(list) ELSE list

-----------------------------------------------------------------------------
ReceiveInit ==
    /\ stats = NewStats
    /\ validated = FALSE
    /\ byname = FALSE
    /\ packets = <<>>
    /\ storing \in BOOLEAN
    /\ first \in 0..(Modulus - 1)
    /\ newest = -1
    /\ last = -1
    /\ run = 0
    /\ early = {}
    /\ clean = TRUE

\* RTPInternalSourceData::ProcessRTPPacket of the packet with index n.
Receive(n) ==
    /\ n \in 0..LastIndex
    /\ newest = -1 \/ n \in (newest - Late)..(newest + Ahead)
    /\ Len(packets) < MaxQueue
    /\ stats.exthigh <= MaxExtended
    /\ LET q == Seqnr(n)
           st2 == ProcessPacket(stats, q)
           valid == validated \/ st2.sentdata
           p == [ext |-> Extended(stats, st2, q), index |-> n]
       IN  /\ stats' = st2
           /\ validated' = valid
           /\ packets' = IF st2.sentdata \/ storing
                         THEN Insert(MakeRoom(packets, valid), p) ELSE packets
           /\ clean' = /\ clean
                       /\ IF stats.sentdata
                          \* wrong: late, from the cycle before the newest packet
                          THEN Cycle(n) >= Cycle(newest)
                          \* wrong: a wrap while numbers are not extended yet
                          ELSE st2.sentdata =>
                                 early \subseteq {IF q = 0 THEN Cycle(n) - 1 ELSE Cycle(n)}
    /\ IF stats.sentdata THEN UNCHANGED <<last, run, early>>
       ELSE /\ last' = n
            /\ run' = IF last # -1 /\ Seqnr(n) = (Seqnr(last) + 1) % Modulus
                      THEN run + 1 ELSE 1
            /\ early' = early \cup {Cycle(n)}
    /\ newest' = IF n > newest THEN n ELSE newest
    /\ UNCHANGED <<storing, byname, first>>

\* A CNAME validates the source without a run of RTP packets.
Validate ==
    /\ ~validated
    /\ validated' = TRUE
    /\ byname' = TRUE
    /\ UNCHANGED <<stats, packets, storing, history>>

\* The application takes the first packet.
GetNextPacket ==
    /\ validated
    /\ packets # <<>>
    /\ packets' = Tail(packets)
    /\ UNCHANGED <<stats, validated, byname, storing, history>>

FlushPackets ==
    /\ packets # <<>>
    /\ packets' = <<>>
    /\ UNCHANGED <<stats, validated, byname, storing, history>>

ReceiveNext ==
    \/ \E n \in 0..LastIndex : Receive(n)
    \/ Validate
    \/ GetNextPacket
    \/ FlushPackets

ReceiveSpec == ReceiveInit /\ [][ReceiveNext]_receivevars

-----------------------------------------------------------------------------
ReceiveTypeOK ==
    /\ stats.probation \in 0..ProbationLength
    /\ stats.prevseqnr \in 0..(Modulus - 1)
    /\ \A f \in {"cycles", "base", "exthigh"} : stats[f] \in Nat
    /\ validated \in BOOLEAN /\ stats.sentdata \in BOOLEAN

\* RTP packets alone end the probation of a source only by a run of
\* ProbationLength + 1 packets in sequence, whatever was lost, late or repeated
\* in between.
ValidatedByRun == validated => byname \/ run >= ProbationLength + 1

\* The queue is strictly sorted by extended sequence number, so no packet waits in it
\* twice, and a source on probation holds a bounded number.  A packet that is repeated
\* after it was handed out is queued again.
QueueSorted ==
    /\ \A i, j \in DOMAIN packets : i < j => packets[i].ext < packets[j].ext
    /\ ~validated => Len(packets) <= MaxProbationPackets

\* The distance of two queued packets is the distance at which they were sent:
\* extension survives wraps, losses, repetitions and reordering, except for a
\* packet that arrives after the wrap it was sent before, and for a wrap
\* among packets stored on probation.
QueueInSendOrder ==
    stats.sentdata /\ clean =>
        \A i, j \in DOMAIN packets :
            packets[i].ext - packets[j].ext = packets[i].index - packets[j].index

\* A source is validated by a run of packets in sequence; the packets kept for the
\* program are sorted, and in the order they were sent.
QueueSound == ReceiveTypeOK /\ ValidatedByRun /\ QueueSorted /\ QueueInSendOrder

=============================================================================
