------------------------------ MODULE RtcpFormat ------------------------------
(***************************************************************************)
(* The parser of RTCP packets (RTCPCompoundPacket and the classes          *)
(* RTCPSRPacket, RTCPRRPacket, RTCPSDESPacket, RTCPBYEPacket and           *)
(* RTCPAPPPacket).                                                         *)
(***************************************************************************)
EXTENDS RtcpLayout

SsrcAt(d, o) == IF o <= Len(d) /\ d[o].role = "ssrc" THEN d[o].v ELSE NoSsrc

From(d, o) == SubSeq(d, o, Len(d))

-----------------------------------------------------------------------------
(* One packet d, which begins with its header.                              *)

\* The bytes without the padding; <<>> when the padding makes no sense.
Unpadded(d) ==
    LET pad == Value(Last(d))
    IN  IF ~d[1].v.padding THEN d
        ELSE IF pad % 4 # 0 \/ pad >= Len(d) THEN <<>>
        ELSE SubSeq(d, 1, Len(d) - pad)

Unknown(d) == [type |-> d[1].v.type, known |-> FALSE]

\* GetSenderSSRC, GetReceptionReportCount and GetSSRC of the report packets.
ParseReport(d) ==
    LET u == Unpadded(d)
        count == d[1].v.count
        info == IF d[1].v.type = "SR" THEN SenderInfoSize ELSE 0
        base == HeaderSize + WordSize + info
    IN  IF Len(u) # base + BlockSize * count THEN Unknown(d)
        ELSE [type |-> d[1].v.type, known |-> TRUE, ssrc |-> SsrcAt(u, HeaderSize + 1),
              blocks |-> [i \in 1..count |-> SsrcAt(u, base + BlockSize * (i - 1) + 1)]]

\* One turn over the items of the chunk that c begins with: the end of the list
\* and the zeros behind it, or an item (its id and length, and of a private item
\* the length of the prefix).
ItemTurn(c, f) ==
    IF f.state # "reading" THEN f
    ELSE IF f.at >= Len(c) THEN [f EXCEPT !.state = "bad"]
    ELSE IF Value(c[f.at + 1]) = 0
         THEN IF RoundUp(f.at + 1) > Len(c) THEN [f EXCEPT !.state = "bad"]
              ELSE [at |-> RoundUp(f.at + 1), items |-> f.items, state |-> "ended"]
    ELSE IF f.at + ItemHeaderSize > Len(c) THEN [f EXCEPT !.state = "bad"]
    ELSE LET id == Value(c[f.at + 1])
             length == Value(c[f.at + 2])
             prefix == IF id # 8 \/ length = 0 THEN 0
                       ELSE IF Value(c[f.at + 3]) > length - 1 THEN 0
                       ELSE Value(c[f.at + 3])
         IN  IF f.at + ItemHeaderSize + length > Len(c) THEN [f EXCEPT !.state = "bad"]
             ELSE [at |-> f.at + ItemHeaderSize + length,
                   items |-> Append(f.items, [id |-> id, length |-> length,
                                              prefix |-> prefix]),
                   state |-> "reading"]

\* No turn passes over less than the header of an item, but for the last.
ItemsOf(c) ==
    LET turns == Len(c) \div ItemHeaderSize
        after[k \in 0..turns] ==
            IF k = 0 THEN [at |-> WordSize, items |-> <<>>, state |-> "reading"]
            ELSE ItemTurn(c, after[k - 1])
    IN  after[turns]

\* One turn over the chunks of the packet u.
ChunkTurn(u, f) ==
    IF ~f.ok THEN f
    ELSE IF Len(u) - f.at < 2 * WordSize THEN [f EXCEPT !.ok = FALSE]
    ELSE LET c == From(u, f.at + 1)
             all == ItemsOf(c)
         IN  IF all.state # "ended" THEN [f EXCEPT !.ok = FALSE]
             ELSE [at |-> f.at + all.at,
                   chunks |-> Append(f.chunks, [ssrc |-> SsrcAt(c, 1),
                                                items |-> all.items]),
                   ok |-> TRUE]

\* The first n chunks of u.
ChunksOf(u, n) ==
    LET after[k \in 0..n] ==
            IF k = 0 THEN [at |-> HeaderSize, chunks |-> <<>>, ok |-> TRUE]
            ELSE ChunkTurn(u, after[k - 1])
    IN  after[n]

ParseSDES(d) ==
    LET u == Unpadded(d)
        all == ChunksOf(u, d[1].v.count)
    IN  IF u = <<>> \/ ~all.ok \/ all.at # Len(u) THEN Unknown(d)
        ELSE [type |-> "SDES", known |-> TRUE, chunks |-> all.chunks]

ParseBYE(d) ==
    LET u == Unpadded(d)
        count == d[1].v.count
        offset == HeaderSize + WordSize * count   \* ssrclen
    IN  IF u = <<>> \/ offset > Len(u) THEN Unknown(d)
        ELSE IF offset < Len(u) /\ Value(u[offset + 1]) > Len(u) - offset - 1
             THEN Unknown(d)
        ELSE [type |-> "BYE", known |-> TRUE,
              ssrcs |-> [i \in 1..count |-> SsrcAt(u, HeaderSize + WordSize * (i - 1) + 1)],
              reason |-> IF offset < Len(u) THEN Value(u[offset + 1]) ELSE 0]

ParseAPP(d) ==
    LET u == Unpadded(d)
    IN  IF Len(u) < HeaderSize + 2 * WordSize THEN Unknown(d)
        ELSE [type |-> "APP", known |-> TRUE, subtype |-> d[1].v.count,
              ssrc |-> SsrcAt(u, HeaderSize + 1),
              length |-> Len(u) - HeaderSize - 2 * WordSize]

ParsePacket(d) ==
    CASE d[1].v.type \in {"SR", "RR"} -> ParseReport(d)
      [] d[1].v.type = "SDES" -> ParseSDES(d)
      [] d[1].v.type = "BYE"  -> ParseBYE(d)
      [] d[1].v.type = "APP"  -> ParseAPP(d)
      [] OTHER -> Unknown(d)

-----------------------------------------------------------------------------
(* A datagram.                                                              *)

PacketSize(d) == WordSize * (d[1].v.length + 1)   \* from the length field

Invalid == [valid |-> FALSE, packets |-> <<>>]

\* What ParseData refuses of the packet that d begins with.  A datagram that does
\* not start with a header has another version number.
IllFormed(d, first) ==
    \/ ~IsHead(d[1])
    \/ first /\ d[1].v.type \notin {"SR", "RR"}
    \/ PacketSize(d) > Len(d)
    \/ d[1].v.padding /\ PacketSize(d) # Len(d)

\* One turn of the loop over the packets of d, while a header is left.
PacketTurn(d, f) ==
    LET rest == From(d, f.at + 1)
    IN  IF f.bad \/ Len(d) - f.at < HeaderSize THEN f
        ELSE IF IllFormed(rest, f.at = 0)
             THEN [at |-> f.at, packets |-> f.packets, bad |-> TRUE]
        ELSE [at |-> f.at + PacketSize(rest),
              packets |-> Append(f.packets, ParsePacket(SubSeq(rest, 1, PacketSize(rest)))),
              bad |-> FALSE]

\* RTCPCompoundPacket::ParseData.  A turn passes over a header or more.
ParseData(d) ==
    LET turns == Len(d) \div HeaderSize
        after[k \in 0..turns] ==
            IF k = 0 THEN [at |-> 0, packets |-> <<>>, bad |-> FALSE]
            ELSE PacketTurn(d, after[k - 1])
        f == after[turns]
    IN  IF f.bad \/ f.at # Len(d) \/ d = <<>> THEN Invalid
        ELSE [valid |-> TRUE, packets |-> f.packets]

=============================================================================
