----------------------------- MODULE RtcpCompound -----------------------------
(***************************************************************************)
(* RTCPCompoundPacketBuilder: a report, SDES chunks, APP and BYE packets   *)
(* are collected while room is left under a maximum, and are written into  *)
(* one buffer whose size was computed beforehand.                          *)
(*                                                                         *)
(* The builder is one record, so that the packet builder (RtcpReports) can *)
(* use the same operations.  An item is its id and length; a private item  *)
(* (id 8) also has the length of its prefix.  A call that fails changes    *)
(* nothing and is a stuttering step.                                       *)
(***************************************************************************)
EXTENDS RtcpLayout

CONSTANTS
    MaxCount,       \* report blocks, or chunks, in one packet: 31
    MinPacketSize   \* RTP_MINPACKETSIZE

ASSUME CountAssumption == MaxCount \in Nat \ {0} /\ MinPacketSize \in Nat

NoBuffer == <<>>
DatagramSize == 65535

\* ClearBuildBuffers
Empty == [building |-> FALSE, max |-> 0, ssrc |-> NoSsrc, sr |-> FALSE,
          blocks |-> <<>>, chunks |-> <<>>, apps |-> <<>>, byes |-> <<>>,
          buffer |-> NoBuffer, length |-> 0]

Total(seq) ==
    LET sum[k \in 0..Len(seq)] == IF k = 0 THEN 0 ELSE sum[k - 1] + seq[k]
    IN  sum[Len(seq)]
Groups(n) == (n \div MaxCount) + (IF n % MaxCount # 0 THEN 1 ELSE 0)

-----------------------------------------------------------------------------
(* Sizes.                                                                   *)

HasReport(b) == b.ssrc # NoSsrc

\* Report::NeededBytes with n report blocks, n > 0.
BlocksBytes(b, n) ==
    n * BlockSize + Groups(n) * (HeaderSize + WordSize)
    + (IF b.sr THEN SenderInfoSize ELSE 0)

ReportBytes(b) ==
    IF ~HasReport(b) THEN 0
    ELSE IF b.blocks # <<>> THEN BlocksBytes(b, Len(b.blocks))
    ELSE HeaderSize + WordSize + (IF b.sr THEN SenderInfoSize ELSE 0)

ItemBytes(i) == ItemHeaderSize + i.length

\* SDESSource::NeededBytes: a zero byte ends the list.
ChunkBytes(items) ==
    WordSize + RoundUp(Total([k \in DOMAIN items |-> ItemBytes(items[k])]) + 1)

ChunksBytes(chunks) ==
    Total([k \in DOMAIN chunks |-> ChunkBytes(chunks[k].items)])
    + Groups(Len(chunks)) * HeaderSize

\* SDES::NeededBytes
SdesBytes(b) == IF b.chunks = <<>> THEN 0 ELSE ChunksBytes(b.chunks)

\* SDES::NeededBytesWithExtraSource: nothing for the first source.
SdesBytesWithSource(b) ==
    IF b.chunks = <<>> THEN 0
    ELSE ChunksBytes(b.chunks) + 2 * WordSize
         + (Groups(Len(b.chunks) + 1) - Groups(Len(b.chunks))) * HeaderSize

\* The chunks with one more item in the last.
WithItem(chunks, i) ==
    [chunks EXCEPT ![Len(chunks)].items = Append(@, i)]

AppBytes(a) == HeaderSize + 2 * WordSize + a.length

\* A reason for leaving is preceded by its length and filled up to a word.
ByeBytes(y) ==
    LET ids == HeaderSize + WordSize * Len(y.ssrcs)
    IN  IF y.reason > 0 THEN RoundUp(ids + 1 + y.reason) ELSE ids

OtherBytes(b) ==
    Total([k \in DOMAIN b.apps |-> AppBytes(b.apps[k])])
    + Total([k \in DOMAIN b.byes |-> ByeBytes(b.byes[k])])

-----------------------------------------------------------------------------
(* The operations: when they succeed, and the builder they leave.           *)

CanInit(b, max) == ~b.building /\ b.buffer = NoBuffer /\ max >= MinPacketSize
Inited(max) == [Empty EXCEPT !.building = TRUE, !.max = max]

\* The room left is an unsigned difference: when there is less than none, it is
\* far more than enough.
CanStartReport(b, sr) ==
    /\ b.building /\ ~HasReport(b)
    /\ LET left == b.max - (OtherBytes(b) + SdesBytes(b))
           needed == HeaderSize + WordSize + (IF sr THEN SenderInfoSize ELSE 0)
       IN  left < 0 \/ needed <= left
WithReport(b, ssrc, sr) == [b EXCEPT !.ssrc = ssrc, !.sr = sr]

CanAddBlock(b) ==
    /\ b.building /\ HasReport(b)
    /\ OtherBytes(b) + SdesBytes(b) + BlocksBytes(b, Len(b.blocks) + 1) <= b.max
WithBlock(b, s) == [b EXCEPT !.blocks = Append(@, s)]

CanAddSource(b) ==
    /\ b.building
    /\ OtherBytes(b) + ReportBytes(b) + SdesBytesWithSource(b) <= b.max
WithSource(b, s) == [b EXCEPT !.chunks = Append(@, [ssrc |-> s, items |-> <<>>])]

\* AddSDESNormalItem, and AddSDESPrivateItem for an item with id 8.
CanAddItem(b, i) ==
    /\ b.building /\ b.chunks # <<>>
    /\ OtherBytes(b) + ReportBytes(b) + ChunksBytes(WithItem(b.chunks, i)) <= b.max
AddItem(b, i) == [b EXCEPT !.chunks = WithItem(@, i)]

CanAddBYE(b, y) ==
    /\ b.building /\ Len(y.ssrcs) <= MaxCount
    /\ OtherBytes(b) + SdesBytes(b) + ReportBytes(b) + ByeBytes(y) <= b.max
WithBYE(b, y) == [b EXCEPT !.byes = Append(@, y)]

CanAddAPP(b, a) ==
    /\ b.building /\ a.length % 4 = 0
    /\ OtherBytes(b) + SdesBytes(b) + ReportBytes(b) + AppBytes(a) <= b.max
WithAPP(b, a) == [b EXCEPT !.apps = Append(@, a)]

-----------------------------------------------------------------------------
(* EndBuild.                                                                *)

\* The i-th group of at most MaxCount elements.
Group(seq, i) ==
    SubSeq(seq, (i - 1) * MaxCount + 1,
           IF i * MaxCount < Len(seq) THEN i * MaxCount ELSE Len(seq))

\* Bug: every report packet of a sender is a sender report.
ReportPacketAllSR(b, i) ==
    LET blocks == Group(b.blocks, i)
        body == Word("ssrc", b.ssrc)
                \o (IF b.sr THEN Fill(SenderInfoSize) ELSE <<>>)
                \o FlattenSeq([k \in DOMAIN blocks |->
                                  Word("ssrc", blocks[k]) \o Fill(BlockSize - WordSize)])
    IN  Header(IF b.sr THEN "SR" ELSE "RR", Len(blocks), HeaderSize + Len(body)) \o body

\* Only the first report is a sender report; there is one without blocks.
ReportPacket(b, i) ==
    LET blocks == Group(b.blocks, i)
        sr == b.sr /\ i = 1
        body == Word("ssrc", b.ssrc)
                \o (IF sr THEN Fill(SenderInfoSize) ELSE <<>>)
                \o FlattenSeq([k \in DOMAIN blocks |->
                                  Word("ssrc", blocks[k]) \o Fill(BlockSize - WordSize)])
    IN  Header(IF sr THEN "SR" ELSE "RR", Len(blocks), HeaderSize + Len(body)) \o body

ItemData(i) ==
    <<Byte("id", i.id), Byte("len", i.length)>>
    \o (IF i.id = 8 THEN <<Byte("len", i.prefix)>> \o Fill(i.length - 1)
        ELSE Fill(i.length))

ChunkData(c) ==
    LET items == FlattenSeq([k \in DOMAIN c.items |-> ItemData(c.items[k])])
    IN  Word("ssrc", c.ssrc) \o items \o Zeros(RoundUp(Len(items) + 1) - Len(items))

SdesPacket(b, i) ==
    LET chunks == Group(b.chunks, i)
        body == FlattenSeq([k \in DOMAIN chunks |-> ChunkData(chunks[k])])
    IN  Header("SDES", Len(chunks), HeaderSize + Len(body)) \o body

AppPacket(a) ==
    Header("APP", a.subtype, AppBytes(a)) \o Word("ssrc", a.ssrc)
    \o Fill(WordSize + a.length)

ByePacket(y) ==
    LET ids == Words("ssrc", y.ssrcs)
        reason == IF y.reason = 0 THEN <<>>
                  ELSE <<Byte("len", y.reason)>> \o Fill(y.reason)
    IN  Header("BYE", Len(y.ssrcs), ByeBytes(y)) \o ids \o reason
        \o Zeros(ByeBytes(y) - HeaderSize - Len(ids) - Len(reason))

ReportCount(b) == IF b.blocks = <<>> THEN 1 ELSE Groups(Len(b.blocks))

BuiltPackets(b) ==
    [i \in 1..ReportCount(b) |-> ReportPacket(b, i)]
    \o [i \in 1..Groups(Len(b.chunks)) |-> SdesPacket(b, i)]
    \o [i \in DOMAIN b.apps |-> AppPacket(b.apps[i])]
    \o [i \in DOMAIN b.byes |-> ByePacket(b.byes[i])]

BuiltBytes(b) == FlattenSeq(BuiltPackets(b))

CanEnd(b) == b.building /\ HasReport(b)

\* The build buffers are cleared; what they held is kept here for comparison.
Ended(b) ==
    [b EXCEPT !.building = FALSE, !.buffer = BuiltBytes(b),
              !.length = OtherBytes(b) + ReportBytes(b) + SdesBytes(b)]

-----------------------------------------------------------------------------
(* The builder by itself.                                                   *)

VARIABLE comp

CONSTANTS Source, Maximum, Item, App, Bye   \* arguments of the calls

\* A maximum is at most the size of a datagram.  The lengths of items and of a
\* reason are bytes, a private item holds its prefix, and a subtype has 5 bits.
ASSUME CallAssumption ==
    /\ NoSsrc \notin Source
    /\ Maximum \subseteq 0..DatagramSize
    /\ Item \subseteq [id : 1..8, length : 0..255, prefix : 0..254]
    /\ \A i \in Item : IF i.id = 8 THEN i.prefix < i.length ELSE i.prefix = 0
    /\ App \subseteq [subtype : 0..31, ssrc : Source, length : Nat]
    /\ Bye \subseteq [ssrcs : Seq(Source), reason : 0..255]

CompoundInit == comp = Empty

InitBuild(max) == CanInit(comp, max) /\ comp' = Inited(max)
StartReport(s, sr) == CanStartReport(comp, sr) /\ comp' = WithReport(comp, s, sr)
AddReportBlock(s) == CanAddBlock(comp) /\ comp' = WithBlock(comp, s)
AddSDESSource(s) == CanAddSource(comp) /\ comp' = WithSource(comp, s)
AddSDESItem(i) == CanAddItem(comp, i) /\ comp' = AddItem(comp, i)
AddBYEPacket(y) == CanAddBYE(comp, y) /\ comp' = WithBYE(comp, y)
AddAPPPacket(a) == CanAddAPP(comp, a) /\ comp' = WithAPP(comp, a)
EndBuild == CanEnd(comp) /\ comp' = Ended(comp)

CompoundNext ==
    \/ \E max \in Maximum : InitBuild(max)
    \/ \E s \in Source, sr \in BOOLEAN : StartReport(s, sr)
    \/ \E s \in Source : AddReportBlock(s)
    \/ \E s \in Source : AddSDESSource(s)
    \/ \E i \in Item : AddSDESItem(i)
    \/ \E y \in Bye : AddBYEPacket(y)
    \/ \E a \in App : AddAPPPacket(a)
    \/ EndBuild

CompoundSpec == CompoundInit /\ [][CompoundNext]_comp

-----------------------------------------------------------------------------
Built(b) == b.buffer # NoBuffer

\* Each call is documented to fail when it "would cause the maximum allowed
\* size to be exceeded".  All calls keep it, but for the first SDES source,
\* whose 12 bytes are not counted until it has an item, and a report that is
\* started while the maximum is exceeded that way.
MaximumKept ==
    LET total == OtherBytes(comp) + ReportBytes(comp) + SdesBytes(comp)
        bare == Len(comp.chunks) = 1 /\ comp.chunks[1].items = <<>>
    IN  comp.building \/ Built(comp) =>
            \/ total <= comp.max
            \/ /\ bare
               /\ \/ total - (HeaderSize + 2 * WordSize) <= comp.max
                  \/ comp.blocks = <<>> /\ OtherBytes(comp) <= comp.max

=============================================================================
