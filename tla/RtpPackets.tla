------------------------------ MODULE RtpPackets ------------------------------
(***************************************************************************)
(* RTP packets: RTPPacketBuilder, which numbers and stamps the packets of  *)
(* a stream, RTPPacket::BuildPacket, which lays one out, and the parser    *)
(* RTPPacket::ParseRawPacket at the other side.                            *)
(*                                                                         *)
(* A packet is the record of its fixed header and the bytes after it, each *)
(* with the role it was written in.  Wall-clock time is counted in ticks.  *)
(* A request (the arguments of BuildPacket) is a record                    *)
(* [pt, mark, inc, payload, words]; words is -1 without a header           *)
(* extension.  A call that fails changes nothing.                          *)
(***************************************************************************)
EXTENDS PacketBytes

CONSTANTS
    Id,             \* SSRCs and CSRCs
    Request,        \* what is asked for
    BufferSize,     \* maximum packet sizes
    MaxCsrcs,       \* RTP_MAXCSRCS, 15
    SeqModulus,     \* 2^16
    TimeModulus,    \* 2^32
    CountModulus,   \* 2^32: of the counts of packets and of payload bytes
    WordsModulus,   \* 2^16: of the number of words of a header extension
    MaxNow          \* bound on the wall clock

ASSUME RequestAssumption ==
    /\ Request \subseteq [pt : 0..255, mark : BOOLEAN, inc : Nat, payload : Nat,
                          words : Nat \cup {-1}]
    /\ BufferSize \subseteq Nat /\ MaxNow \in Nat
    /\ {SeqModulus, TimeModulus, CountModulus, WordsModulus} \subseteq Nat \ {0}

RtpHeaderSize == 12
NoDefaults == [pt |-> {}, mark |-> {}, inc |-> {}]

VARIABLES
    bld,      \* RTPPacketBuilder
    pkt,      \* buffer: the last packet built, or <<>>
    now,      \* the wall clock
    asked,    \* history: what the last packet was asked to hold
    log       \* history: timestamp and time of the packets of this SSRC

packetvars == <<bld, pkt, now, asked, log>>

ExtensionBytes(words) == IF words < 0 THEN 0 ELSE WordSize + WordSize * words

-----------------------------------------------------------------------------
(* One packet.                                                              *)

\* Bug: any payload type is accepted.
CanBuildAnyType(r, csrcs, max) ==
    RtpHeaderSize + WordSize * Len(csrcs) + ExtensionBytes(r.words) + r.payload <= max

\* BuildPacket refuses payload types that read as an RTCP type with the marker.
CanBuild(r, csrcs, max) ==
    /\ r.pt \notin {72, 73} /\ r.pt <= 127
    /\ RtpHeaderSize + WordSize * Len(csrcs) + ExtensionBytes(r.words) + r.payload <= max

PacketOf(r, csrcs, seq, ts, ssrc) ==
    [head |-> [version |-> 2, padding |-> FALSE, extension |-> r.words >= 0,
               csrccount |-> Len(csrcs), marker |-> r.mark, pt |-> r.pt,
               seq |-> seq, ts |-> ts, ssrc |-> ssrc],
     body |-> Words("csrc", csrcs)
              \o (IF r.words < 0 THEN <<>>
                  ELSE Word("ext", r.words) \o Fill(WordSize * r.words))
              \o [i \in 1..r.payload |-> Byte("data", 0)]]

Refused == [valid |-> FALSE]

\* ParseRawPacket.  The length of an extension header that lies beyond the packet
\* is whatever memory holds; the packets parsed here have theirs.
ParseRawPacket(p, onrtpport) ==
    LET h == p.head
        size == RtpHeaderSize + Len(p.body)
        pad == IF h.padding THEN Value(Last(p.body)) ELSE 0
        afterids == RtpHeaderSize + WordSize * h.csrccount
        words == IF h.extension THEN p.body[WordSize * h.csrccount + 1].v ELSE -1
        offset == afterids + ExtensionBytes(words)
    IN  IF \/ ~onrtpport
           \/ h.version # 2
           \/ h.marker /\ h.pt \in {72, 73}
           \/ h.padding /\ pad <= 0
           \/ size - pad - offset < 0
        THEN Refused
        ELSE [valid |-> TRUE, marker |-> h.marker, pt |-> h.pt, seq |-> h.seq,
              ts |-> h.ts, ssrc |-> h.ssrc, words |-> words,
              csrcs |-> [i \in 1..h.csrccount |-> p.body[WordSize * (i - 1) + 1].v],
              payload |-> SubSeq(p.body, offset - RtpHeaderSize + 1,
                                 size - pad - RtpHeaderSize)]

-----------------------------------------------------------------------------
(* The builder.                                                             *)

PacketInit ==
    /\ bld = [init |-> FALSE]
    /\ pkt = <<>> /\ now = 0
    /\ asked = <<>> /\ log = <<>>

\* CreateNewSSRC: numbers start anew.
Renewed(b, s, q, t) ==
    [b EXCEPT !.ssrc = s, !.seq = q, !.ts = t, !.bytes = 0, !.packets = 0]

InitPackets(max, s, q, t) ==
    /\ ~bld.init /\ max > 0
    /\ bld' = [init |-> TRUE, max |-> max, ssrc |-> s, seq |-> q, ts |-> t, bytes |-> 0,
               packets |-> 0, csrcs |-> <<>>, default |-> NoDefaults,
               lasttime |-> 0, lastts |-> 0, prevts |-> 0]
    /\ pkt' = <<>> /\ asked' = <<>> /\ log' = <<>>
    /\ UNCHANGED now

DestroyPackets ==
    /\ bld.init
    /\ bld' = [init |-> FALSE]
    /\ pkt' = <<>> /\ asked' = <<>> /\ log' = <<>>
    /\ UNCHANGED now

\* SetMaximumPacketSize: a new buffer, without the last packet.
SetMaximumPacketSize(max) ==
    /\ bld.init /\ max > 0
    /\ bld' = [bld EXCEPT !.max = max]
    /\ pkt' = <<>>
    /\ UNCHANGED <<now, asked, log>>

\* Both CreateNewSSRC: with a source table, a number that is not in it.
CreateNewSSRC(s, q, t) ==
    /\ bld.init
    /\ bld' = Renewed(bld, s, q, t)
    /\ log' = <<>>
    /\ UNCHANGED <<pkt, now, asked>>

AddCSRC(c) ==
    /\ bld.init
    /\ Len(bld.csrcs) < MaxCsrcs
    /\ ~Contains(bld.csrcs, c)
    /\ bld' = [bld EXCEPT !.csrcs = Append(@, c)]
    /\ UNCHANGED <<pkt, now, asked, log>>

\* The last takes the place of the deleted one.
DeleteCSRC(c) ==
    /\ bld.init
    /\ \E i \in DOMAIN bld.csrcs :
          /\ bld.csrcs[i] = c
          /\ bld' = [bld EXCEPT !.csrcs = Front([@ EXCEPT ![i] = Last(bld.csrcs)])]
    /\ UNCHANGED <<pkt, now, asked, log>>

ClearCSRCList ==
    /\ bld.init
    /\ bld' = [bld EXCEPT !.csrcs = <<>>]
    /\ UNCHANGED <<pkt, now, asked, log>>

\* SetDefaultPayloadType, SetDefaultMark and SetDefaultTimestampIncrement.
SetDefault(field, v) ==
    /\ bld.init
    /\ bld' = [bld EXCEPT !.default[field] = {v}]
    /\ UNCHANGED <<pkt, now, asked, log>>

\* (uint16_t)numhdrextwords: the rest of a longer extension is not sent.
Passed(r) == [r EXCEPT !.words = IF @ < 0 THEN @ ELSE @ % WordsModulus]

\* PrivateBuildPacket.  A count of packets that has wrapped to 0 reads as if none
\* were sent.
PrivateBuildPacket(r) ==
    /\ bld.init
    /\ CanBuild(Passed(r), bld.csrcs, bld.max)
    /\ pkt' = PacketOf(Passed(r), bld.csrcs, bld.seq, bld.ts, bld.ssrc)
    /\ LET newtime == bld.packets = 0 \/ bld.ts # bld.prevts
       IN  bld' = [bld EXCEPT !.lasttime = IF newtime THEN now ELSE @,
                              !.lastts = IF newtime THEN bld.ts ELSE @,
                              !.prevts = IF newtime THEN bld.ts ELSE @,
                              !.bytes = (@ + r.payload) % CountModulus,
                              !.packets = (@ + 1) % CountModulus,
                              !.ts = (@ + r.inc) % TimeModulus,
                              !.seq = (@ + 1) % SeqModulus]
    /\ asked' = [r |-> r, csrcs |-> bld.csrcs, ssrc |-> bld.ssrc]
    /\ log' = Append(log, [ts |-> bld.ts, time |-> now, payload |-> r.payload,
                           seq |-> bld.seq])
    /\ UNCHANGED now

\* BuildPacket and BuildPacketEx with the defaults, once all three are set.
BuildDefault(payload, words) ==
    /\ bld.init
    /\ \E pt \in bld.default.pt, m \in bld.default.mark, n \in bld.default.inc :
          PrivateBuildPacket([pt |-> pt, mark |-> m, inc |-> n, payload |-> payload,
                              words |-> words])

IncrementTimestamp(n) ==
    /\ bld.init
    /\ bld' = [bld EXCEPT !.ts = (@ + n) % TimeModulus]
    /\ UNCHANGED <<pkt, now, asked, log>>

IncrementTimestampDefault ==
    /\ bld.init
    /\ \E n \in bld.default.inc : IncrementTimestamp(n)

\* AdjustSSRC
AdjustSSRC(s) ==
    /\ bld.init
    /\ bld' = [bld EXCEPT !.ssrc = s]
    /\ UNCHANGED <<pkt, now, asked, log>>

ClockTick ==
    /\ now < MaxNow
    /\ now' = now + 1
    /\ UNCHANGED <<bld, pkt, asked, log>>

PacketNext ==
    \/ \E max \in BufferSize, s \in Id, q \in 0..(SeqModulus - 1), t \in 0..(TimeModulus - 1) :
          InitPackets(max, s, q, t) \/ CreateNewSSRC(s, q, t)
    \/ \E max \in BufferSize : SetMaximumPacketSize(max)
    \/ \E c \in Id : AddCSRC(c) \/ DeleteCSRC(c) \/ AdjustSSRC(c)
    \/ \E r \in Request :
          \/ SetDefault("pt", r.pt) \/ SetDefault("mark", r.mark) \/ SetDefault("inc", r.inc)
          \/ PrivateBuildPacket(r) \/ BuildDefault(r.payload, r.words)
          \/ IncrementTimestamp(r.inc)
    \/ DestroyPackets \/ ClearCSRCList \/ IncrementTimestampDefault \/ ClockTick

PacketSpec == PacketInit /\ [][PacketNext]_packetvars

-----------------------------------------------------------------------------
\* A mixer or translator at the way may fill a packet up.
Padded(p, n) ==
    IF n = 0 THEN p
    ELSE [head |-> [p.head EXCEPT !.padding = TRUE],
          body |-> p.body \o Fill(n - 1) \o <<Byte("len", n)>>]

\* What is sent is what is received: the parser finds payload, CSRCs and extension
\* where the builder put them, with any padding, and never takes a packet for
\* RTCP.  Of an extension too long for its 16-bit length it finds the words that
\* were sent, and the payload where it is.
PacketParses ==
    pkt # <<>> =>
        \A n \in 0..2 :
            LET q == ParseRawPacket(Padded(pkt, n), TRUE)
            IN  /\ q.valid
                /\ q.pt = asked.r.pt /\ q.marker = asked.r.mark /\ q.ssrc = asked.ssrc
                /\ q.words = (IF asked.r.words < WordsModulus THEN asked.r.words
                              ELSE asked.r.words % WordsModulus)
                /\ q.csrcs = asked.csrcs
                /\ q.payload = [i \in 1..asked.r.payload |-> Byte("data", 0)]

\* The payload of the packets of a log.
PayloadOf(l) ==
    LET upto[i \in 0..Len(l)] == IF i = 0 THEN 0 ELSE upto[i - 1] + l[i].payload
    IN  upto[Len(l)]

\* Packet i of log l begins a run: it has a timestamp of its own, or the count of
\* packets was 0 when it was built.
Begins(l, i) ==
    i = 1 \/ l[i].ts # l[i - 1].ts \/ (i - 1) % CountModulus = 0
LastRun(l, i) ==
    i \in 1..Len(l) /\ Begins(l, i) /\ \A j \in (i + 1)..Len(l) : ~Begins(l, j)

\* The sender report pairs a wall-clock time with a timestamp, by which receivers
\* synchronise streams: it is the time of the first packet of the last run
\* of packets with one timestamp, or of the one at which the count of packets
\* wrapped in it.  Numbers and counts follow, modulo their width, from the packets
\* built since the SSRC was chosen, whatever calls failed, and no CSRC is listed
\* twice.
StreamAgreesWithLog ==
    log # <<>> =>
        LET n == Len(log)
        IN  /\ bld.lastts = log[n].ts
            /\ \E i \in 1..n : LastRun(log, i) /\ bld.lasttime = log[i].time
            /\ bld.packets = n % CountModulus
            /\ bld.bytes = PayloadOf(log) % CountModulus
            /\ bld.seq = (log[1].seq + n) % SeqModulus
            /\ IsInjective(bld.csrcs)

\* What the RTP packet builder builds the parser accepts, field by field, and the
\* builder's counters agree with the packets that left, up to the width of each.
PacketsSound == PacketParses /\ StreamAgreesWithLog

=============================================================================
