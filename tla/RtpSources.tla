------------------------------ MODULE RtpSources ------------------------------
(***************************************************************************)
(* The table of participants of an RTP session (RTPSources with the        *)
(* entries RTPInternalSourceData): members appear when a packet names      *)
(* them, are validated by a run of RTP packets, a CNAME or a CSRC list,    *)
(* may collide, say BYE, and are timed out.  The table keeps three         *)
(* counters beside the entries.                                            *)
(*                                                                         *)
(* A compound RTCP packet, or the CSRC list of an RTP packet, is worked    *)
(* through entry by entry with the session's sources lock held: `pending`  *)
(* holds what is left of it, and every other operation waits.              *)
(*                                                                         *)
(* Data abstracted: an address is its host (an RTP and an RTCP address of  *)
(* one participant differ in the port only); times are ages, capped at     *)
(* MaxAge, which stands for "never" and is older than every timeout; SDES  *)
(* items other than CNAME and NOTE only refresh the entry, as do report    *)
(* blocks and sender information; the packet queue is empty or not.        *)
(* Sequence numbers and the queue are the subject of RtpReceive.           *)
(***************************************************************************)
EXTENDS Integers, FiniteSets, Sequences

CONSTANTS
    Ssrc,            \* synchronisation sources
    Host,            \* hosts packets come from
    Cname,           \* canonical names
    ProbationCount,  \* RTP_PROBATIONCOUNT
    SenderDelay, ByeDelay, GeneralDelay, NoteDelay,  \* the four timeouts
    MaxAge,          \* age of what never happened
    NoSsrc, Self, Unset, NoName

ASSUME SsrcAssumption == IsFiniteSet(Ssrc) /\ NoSsrc \notin Ssrc
ASSUME HostAssumption == Self \notin Host /\ Unset \notin Host \cup {Self}
ASSUME NameAssumption == NoName \notin Cname
ASSUME ProbationAssumption == ProbationCount \in Nat \ {0}
ASSUME DelayAssumption ==
    /\ MaxAge \in Nat
    /\ {SenderDelay, ByeDelay, GeneralDelay, NoteDelay} \subseteq Nat
    /\ \A d \in {SenderDelay, ByeDelay, GeneralDelay, NoteDelay} : d < MaxAge

VARIABLES
    table,          \* the entries, the own SSRC and the three counters
    probationtype,  \* probation algorithm given to new entries
    acceptown,      \* whether own packets are processed
    owncollision,   \* RTPSessionSources::owncollision
    pending         \* steps left of the packet being processed

vars == <<table, probationtype, acceptown, owncollision, pending>>

ProbationType == {"NoProbation", "ProbationDiscard", "ProbationStore"}
Address == Host \cup {Self}   \* Self is the NULL address of our own packets
Age == 0..MaxAge

Source ==
    [validated : BOOLEAN, sender : BOOLEAN, csrc : BOOLEAN, bye : BOOLEAN,
     rtpaddr : Address \cup {Unset}, rtcpaddr : Address \cup {Unset},
     cname : Cname \cup {NoName}, note : BOOLEAN,
     lastmsg : Age, lastrtp : Age, lastnote : Age, byetime : Age,
     sentdata : BOOLEAN, probation : 0..ProbationCount, queued : BOOLEAN]

NewSource ==
    [validated |-> FALSE, sender |-> FALSE, csrc |-> FALSE, bye |-> FALSE,
     rtpaddr |-> Unset, rtcpaddr |-> Unset, cname |-> NoName, note |-> FALSE,
     lastmsg |-> MaxAge, lastrtp |-> MaxAge, lastnote |-> MaxAge,
     byetime |-> MaxAge, sentdata |-> FALSE, probation |-> 0,
     queued |-> FALSE]

EmptyTable == [src |-> <<>>, own |-> NoSsrc, total |-> 0, senders |-> 0, active |-> 0]

IsActive(r) == r.validated /\ ~r.bye
HasData(r) == r.validated /\ r.queued

-----------------------------------------------------------------------------
(* One entry.                                                               *)

\* RTPSourceStats::ProcessPacket, as far as the table depends on it: whether
\* a packet is accepted, or comes from a source on probation.
StatsAccept(r, inorder, probation) ==
    \/ r.sentdata
    \/ r.validated
    \/ probation = "NoProbation"
    \/ r.probation = 1 /\ inorder

NextProbation(r, inorder, probation) ==
    IF r.sentdata \/ r.validated \/ probation = "NoProbation" THEN r.probation
    ELSE IF r.probation # 0 /\ inorder THEN r.probation - 1
    ELSE ProbationCount

\* RTPInternalSourceData::ProcessRTPPacket
AcceptRTP(r, inorder, probation, isown) ==
    LET accept == StatsAccept(r, inorder, probation)
        store == accept \/ probation = "ProbationStore"
        valid == r.validated \/ accept
    IN  [r EXCEPT !.probation = NextProbation(r, inorder, probation),
                  !.sentdata = @ \/ accept,
                  !.lastmsg = 0,
                  !.lastrtp = IF accept /\ ~isown THEN 0 ELSE @,
                  !.validated = valid,
                  !.sender = @ \/ (store /\ valid /\ ~isown),
                  !.queued = @ \/ store]

\* RTPInternalSourceData::ProcessSDESItem: the CNAME is set only once.
SetCname(r, c) ==
    IF r.cname = NoName THEN [r EXCEPT !.cname = c, !.validated = TRUE, !.lastmsg = 0]
    ELSE [r EXCEPT !.lastmsg = 0]

SetNote(r) == [r EXCEPT !.note = TRUE, !.lastnote = 0, !.lastmsg = 0]

ByeReceived(r) == [r EXCEPT !.bye = TRUE, !.byetime = 0, !.lastmsg = 0]

\* A packet of this channel from another host than the entry is known by: its
\* address of the channel, or when that is unset, of the other channel.
Collides(r, addr, isrtp) ==
    LET mine == IF isrtp THEN r.rtpaddr ELSE r.rtcpaddr
        other == IF isrtp THEN r.rtcpaddr ELSE r.rtpaddr
        known == IF mine # Unset THEN mine ELSE other
    IN  known # Unset /\ known # addr

SetAddress(r, addr, isrtp) ==
    IF isrtp THEN [r EXCEPT !.rtpaddr = addr] ELSE [r EXCEPT !.rtcpaddr = addr]

-----------------------------------------------------------------------------
(* The table.                                                               *)

GotEntry(T, s) == s \in DOMAIN T.src
Entry(T, s) == IF GotEntry(T, s) THEN T.src[s] ELSE NewSource

\* ObtainSourceDataInstance, and the new contents of the entry.
Store(T, s, r) ==
    [T EXCEPT !.src = [x \in DOMAIN T.src \cup {s} |-> IF x = s THEN r ELSE T.src[x]],
              !.total = IF GotEntry(T, s) THEN @ ELSE @ + 1]

\* The entry s after it was heard of from addr, when that does not collide.
Heard(T, s, addr, isrtp) == SetAddress(Entry(T, s), addr, isrtp)
Clash(T, s, addr, isrtp) == Collides(Entry(T, s), addr, isrtp)

ReceiveRTP(T, p) ==
    LET r0 == Heard(T, p.ssrc, p.addr, TRUE)
        r1 == AcceptRTP(r0, p.inorder, probationtype, p.ssrc = T.own)
    IN  [Store(T, p.ssrc, r1) EXCEPT
            !.senders = IF ~r0.sender /\ r1.sender THEN @ + 1 ELSE @,
            !.active = IF ~IsActive(r0) /\ IsActive(r1) THEN @ + 1 ELSE @]

\* A CSRC that is new to the table is counted as active; one that is known
\* becomes validated and its channel address that of the mixer, and is not
\* counted.
NoteCSRC(T, s, addr) ==
    LET new == [Entry(T, s) EXCEPT !.validated = TRUE, !.csrc = TRUE]
    IN  IF GotEntry(T, s)
        THEN Store(T, s, SetAddress(new, addr, TRUE))
        ELSE [Store(T, s, new) EXCEPT !.active = @ + 1]

\* ProcessRTCPSenderInfo, ProcessRTCPReportBlock, UpdateReceiveTime,
\* ProcessSDESPrivateItem and the SDES items that are not told apart here.
ReceiveInfo(T, s, addr) ==
    Store(T, s, [Heard(T, s, addr, FALSE) EXCEPT !.lastmsg = 0])

ReceiveCname(T, s, addr, c) ==
    LET r0 == Heard(T, s, addr, FALSE)
        r1 == SetCname(r0, c)
    IN  [Store(T, s, r1) EXCEPT
            !.active = IF ~IsActive(r0) /\ IsActive(r1) THEN @ + 1 ELSE @]

ReceiveNote(T, s, addr) == Store(T, s, SetNote(Heard(T, s, addr, FALSE)))

\* Bug: a BYE for our own SSRC is obeyed.
ReceiveByeOwnToo(T, s, addr) ==
    LET r0 == Heard(T, s, addr, FALSE)
    IN  [Store(T, s, ByeReceived(r0)) EXCEPT !.active = IF IsActive(r0) THEN @ - 1 ELSE @]

\* Our own entry ignores a BYE.
ReceiveBye(T, s, addr) ==
    LET r0 == Heard(T, s, addr, FALSE)
    IN  IF s = T.own THEN Store(T, s, r0)
        ELSE [Store(T, s, ByeReceived(r0)) EXCEPT
                 !.active = IF IsActive(r0) THEN @ - 1 ELSE @]

-----------------------------------------------------------------------------
(* Timeouts.  Each loop deletes or changes entries and then replaces the    *)
(* counters by what it counted.                                             *)

Recount(T, src) ==
    [T EXCEPT !.src = src,
              !.total = Cardinality(DOMAIN src),
              !.senders = Cardinality({s \in DOMAIN src : src[s].sender}),
              !.active = Cardinality({s \in DOMAIN src : IsActive(src[s])})]

Silent(T, s) == s # T.own /\ T.src[s].lastmsg > GeneralDelay
Left(T, s) == s # T.own /\ T.src[s].bye /\ T.src[s].byetime > ByeDelay

StopSending(r) == [r EXCEPT !.sender = @ /\ r.lastrtp <= SenderDelay]
ForgetNote(r) == [r EXCEPT !.note = @ /\ r.lastnote <= NoteDelay]

Timeout(T) ==
    Recount(T, [s \in {x \in DOMAIN T.src : ~Silent(T, x)} |-> T.src[s]])

BYETimeout(T) ==
    Recount(T, [s \in {x \in DOMAIN T.src : ~Left(T, x)} |-> T.src[s]])

SenderTimeout(T) == Recount(T, [s \in DOMAIN T.src |-> StopSending(T.src[s])])

NoteTimeout(T) == Recount(T, [s \in DOMAIN T.src |-> ForgetNote(T.src[s])])

MultipleTimeouts(T) ==
    LET kept == {s \in DOMAIN T.src : ~Left(T, s) /\ ~Silent(T, s)}
    IN  Recount(T, [s \in kept |-> StopSending(ForgetNote(T.src[s]))])

-----------------------------------------------------------------------------
(* Operations.                                                              *)

Init ==
    /\ table = EmptyTable
    /\ probationtype \in ProbationType
    /\ acceptown \in BOOLEAN
    /\ owncollision = FALSE
    /\ pending = <<>>

\* The sources lock: nothing else runs while a packet is worked through.
Idle == pending = <<>>

CreateOwnSSRC(s) ==
    /\ Idle
    /\ table.own = NoSsrc
    /\ ~GotEntry(table, s)
    /\ table' = [Store(table, s, [NewSource EXCEPT !.validated = TRUE,
                                                   !.rtpaddr = Self,
                                                   !.rtcpaddr = Self])
                    EXCEPT !.own = s, !.active = @ + 1]
    /\ UNCHANGED <<probationtype, acceptown, owncollision, pending>>

\* Bug: the sender count keeps a deleted own SSRC.
DeleteOwnSSRCKeepsSender ==
    /\ Idle
    /\ table.own # NoSsrc
    /\ LET r == table.src[table.own]
           rest == DOMAIN table.src \ {table.own}
       IN  table' = [src |-> [s \in rest |-> table.src[s]],
                     own |-> NoSsrc,
                     total |-> table.total - 1,
                     senders |-> table.senders,
                     active |-> IF IsActive(r) THEN table.active - 1 ELSE table.active]
    /\ UNCHANGED <<probationtype, acceptown, owncollision, pending>>

\* DeleteOwnSSRC: every count forgets the entry, and owndata points nowhere.
DeleteOwnSSRC ==
    /\ Idle
    /\ table.own # NoSsrc
    /\ LET r == table.src[table.own]
           rest == DOMAIN table.src \ {table.own}
       IN  table' = [src |-> [s \in rest |-> table.src[s]],
                     own |-> NoSsrc,
                     total |-> table.total - 1,
                     senders |-> IF r.sender THEN table.senders - 1 ELSE table.senders,
                     active |-> IF IsActive(r) THEN table.active - 1 ELSE table.active]
    /\ UNCHANGED <<probationtype, acceptown, owncollision, pending>>

Clear ==
    /\ Idle
    /\ table' = EmptyTable
    /\ UNCHANGED <<probationtype, acceptown, owncollision, pending>>

SentRTPPacket ==
    /\ Idle
    /\ table.own # NoSsrc
    /\ LET s == table.own
       IN  table' = [table EXCEPT
                        !.src[s].sender = TRUE, !.src[s].lastrtp = 0, !.src[s].lastmsg = 0,
                        !.senders = IF table.src[s].sender THEN @ ELSE @ + 1]
    /\ UNCHANGED <<probationtype, acceptown, owncollision, pending>>

\* A packet of our own transmitter (address Self) is processed on request only.
Wanted(addr) == addr = Self => acceptown

Step(do, s, addr, c) == [do |-> do, ssrc |-> s, addr |-> addr, cname |-> c]

\* ProcessRawPacket and ProcessRTPPacket: an RTP packet p, whose CSRCs are
\* looked at when the source is validated.
ProcessRTPPacket(p) ==
    /\ Idle
    /\ Wanted(p.addr)
    /\ LET clash == Clash(table, p.ssrc, p.addr, TRUE)
           after == IF clash THEN table ELSE ReceiveRTP(table, p)
       IN  /\ table' = after
           /\ owncollision' = (clash /\ p.ssrc = table.own)
           /\ pending' = IF ~clash /\ after.src[p.ssrc].validated
                         THEN [i \in DOMAIN p.csrcs |->
                                  Step("csrc", p.csrcs[i], p.addr, NoName)]
                         ELSE <<>>
    /\ UNCHANGED <<probationtype, acceptown>>

\* The steps one packet of a compound takes: a sender report is sender
\* information and then a report block about us or the news that it was heard,
\* a receiver report only the latter, an SDES chunk its items, or the same news
\* when it has none; APP and unknown packets change no entry.
PacketSteps(q, addr) ==
    CASE q.type = "SR" -> <<Step("info", q.ssrcs[1], addr, NoName),
                            Step("info", q.ssrcs[1], addr, NoName)>>
      [] q.type = "RR" \/ (q.type = "SDES" /\ q.items = <<>>)
                       -> <<Step("info", q.ssrcs[1], addr, NoName)>>
      [] q.type = "SDES" /\ q.items # <<>>
                       -> [i \in DOMAIN q.items |->
                              Step(q.items[i].do, q.ssrcs[1], addr, q.items[i].cname)]
      [] q.type = "BYE" -> [i \in DOMAIN q.ssrcs |->
                              Step("bye", q.ssrcs[i], addr, NoName)]
      [] OTHER -> <<>>

\* ProcessRawPacket and ProcessRTCPCompoundPacket: a report and one more packet.
ProcessRTCPCompoundPacket(report, more, addr) ==
    /\ Idle
    /\ Wanted(addr)
    /\ owncollision' = FALSE
    /\ pending' = PacketSteps(report, addr) \o PacketSteps(more, addr)
    /\ UNCHANGED <<table, probationtype, acceptown>>

\* The next step of the packet in hand, when its source does not collide.
StepResult(T, e) ==
    CASE e.do = "csrc"  -> NoteCSRC(T, e.ssrc, e.addr)
      [] e.do = "cname" -> ReceiveCname(T, e.ssrc, e.addr, e.cname)
      [] e.do = "note"  -> ReceiveNote(T, e.ssrc, e.addr)
      [] e.do = "bye"   -> ReceiveBye(T, e.ssrc, e.addr)
      [] OTHER          -> ReceiveInfo(T, e.ssrc, e.addr)

\* Bug: no look at the address before an entry is changed.
ProcessStepNoCheck ==
    /\ pending # <<>>
    /\ table' = StepResult(table, Head(pending))
    /\ pending' = Tail(pending)
    /\ UNCHANGED <<probationtype, acceptown, owncollision>>

ProcessStep ==
    /\ pending # <<>>
    /\ LET e == Head(pending)
           clash == Clash(table, e.ssrc, e.addr, e.do = "csrc")
       IN  /\ table' = IF clash THEN table ELSE StepResult(table, e)
           /\ owncollision' = (owncollision \/ (clash /\ e.ssrc = table.own))
    /\ pending' = Tail(pending)
    /\ UNCHANGED <<probationtype, acceptown>>

\* Any of the five timeout functions.
RunTimeout ==
    /\ Idle
    /\ table' \in {MultipleTimeouts(table), Timeout(table), BYETimeout(table),
                   SenderTimeout(table), NoteTimeout(table)}
    /\ UNCHANGED <<probationtype, acceptown, owncollision, pending>>

\* GetNextPacket on a source with data, or FlushPackets: packets may remain.
TakePackets(s) ==
    /\ Idle
    /\ GotEntry(table, s)
    /\ HasData(table.src[s])
    /\ \E more \in BOOLEAN : table' = [table EXCEPT !.src[s].queued = more]
    /\ UNCHANGED <<probationtype, acceptown, owncollision, pending>>

Older(a) == IF a < MaxAge THEN a + 1 ELSE a

\* Time passes.
Tick ==
    /\ Idle
    /\ table' = [table EXCEPT !.src =
                    [s \in DOMAIN table.src |->
                        [table.src[s] EXCEPT !.lastmsg = Older(@), !.lastrtp = Older(@),
                                             !.lastnote = Older(@), !.byetime = Older(@)]]]
    /\ UNCHANGED <<probationtype, acceptown, owncollision, pending>>

-----------------------------------------------------------------------------
RtpPacket == [ssrc : Ssrc, addr : Address, inorder : BOOLEAN, csrcs : Seq(Ssrc)]
StepSet == [do : {"csrc", "info", "cname", "note", "bye"}, ssrc : Ssrc,
            addr : Address, cname : Cname \cup {NoName}]
Item == [do : {"cname"}, cname : Cname] \cup [do : {"note", "info"}, cname : {NoName}]
Report == [type : {"SR", "RR"}, ssrcs : Seq(Ssrc) \ {<<>>}, items : {<<>>}]
OtherPacket == [type : {"SDES", "BYE", "APP"}, ssrcs : Seq(Ssrc) \ {<<>>}, items : Seq(Item)]

Next ==
    \/ \E s \in Ssrc : CreateOwnSSRC(s)
    \/ DeleteOwnSSRC
    \/ Clear
    \/ SentRTPPacket
    \/ \E p \in RtpPacket : ProcessRTPPacket(p)
    \/ \E r \in Report, q \in OtherPacket, a \in Address :
          ProcessRTCPCompoundPacket(r, q, a)
    \/ ProcessStep
    \/ RunTimeout
    \/ \E s \in Ssrc : TakePackets(s)
    \/ Tick

Spec == Init /\ [][Next]_vars

-----------------------------------------------------------------------------
TypeOK ==
    /\ \E present \in SUBSET Ssrc : table.src \in [present -> Source]
    /\ table.own = NoSsrc \/ table.own \in DOMAIN table.src
    /\ table.total \in Nat /\ table.senders \in Nat /\ table.active \in Int
    /\ probationtype \in ProbationType
    /\ acceptown \in BOOLEAN
    /\ owncollision \in BOOLEAN
    /\ pending \in Seq(StepSet)

Senders(T) == {s \in DOMAIN T.src : T.src[s].sender}
Active(T) == {s \in DOMAIN T.src : IsActive(T.src[s])}

\* The counters kept by hand agree with the table: GetTotalCount and
\* GetSenderCount exactly, whatever sequence of packets, timeouts and own
\* operations led here.  GetActiveMemberCount never reports more members than
\* are active: it may report less, by the CSRCs that were known before
\* they were named in a CSRC list, until a timeout counts again.
CountsAgree ==
    /\ table.total = Cardinality(DOMAIN table.src)
    /\ table.senders = Cardinality(Senders(table))
    /\ table.active <= Cardinality(Active(table))

\* What GetActiveMemberCount is documented to return, "the number of members
\* which have been validated and which haven't sent a BYE packet yet".
ActiveCountExact == table.active = Cardinality(Active(table))

\* CheckCollision keeps every participant on one host: its RTP and its RTCP
\* address, learned from different packets in any order, never disagree.
OneHostPerSource ==
    \A s \in DOMAIN table.src :
        Unset \in {table.src[s].rtpaddr, table.src[s].rtcpaddr}
        \/ table.src[s].rtpaddr = table.src[s].rtcpaddr

\* Nothing received, and no timeout, takes our own entry away, gives it
\* a foreign address, marks it as having left or ends its validation: only
\* DeleteOwnSSRC and Clear end it.
OwnEntryKept ==
    [][ \/ DeleteOwnSSRC \/ Clear
        \/ table.own = NoSsrc
        \/ /\ table'.own = table.own
           /\ table.own \in DOMAIN table'.src
           /\ LET r == table'.src[table.own]
              IN  IsActive(r) /\ r.rtpaddr = Self /\ r.rtcpaddr = Self ]_vars

\* MultipleTimeouts is documented to combine the four timeout functions: its
\* single loop, which reads the flags before it changes them, leaves the table
\* the four loops leave one after the other.
MultipleIsFour ==
    MultipleTimeouts(table) = NoteTimeout(BYETimeout(Timeout(SenderTimeout(table))))

\* Every entry is well formed, belongs to one host and expires after its own delay,
\* also when all timeouts are looked at in one pass.
EntriesSound == TypeOK /\ OneHostPerSource /\ MultipleIsFour

=============================================================================
