---------------------------- MODULE RtcpRoundTrip ----------------------------
(***************************************************************************)
(* What the compound packet builder writes and what the parser reads in    *)
(* it.                                                                     *)
(***************************************************************************)
EXTENDS RtcpCompound, RtcpFormat

\* n packets from place k on.
Part(packets, k, n) == SubSeq(packets, k, k + n - 1)

Said(packets, field) == FlattenSeq([i \in DOMAIN packets |-> packets[i][field]])

\* The packets read from a buffer are reports, SDES, APP and BYE packets in this
\* order, as few as possible, and put together they say what was added.
Agrees(packets, b) ==
    LET r == ReportCount(b)
        s == Groups(Len(b.chunks))
        a == Len(b.apps)
        reports == Part(packets, 1, r)
        sdes == Part(packets, r + 1, s)
        apps == Part(packets, r + s + 1, a)
        byes == Part(packets, r + s + a + 1, Len(b.byes))
    IN  /\ Len(packets) = r + s + a + Len(b.byes)
        /\ \A i \in DOMAIN packets : packets[i].known
        /\ \A i \in DOMAIN reports :
              /\ reports[i].type = IF b.sr /\ i = 1 THEN "SR" ELSE "RR"
              /\ reports[i].ssrc = b.ssrc
        /\ Said(reports, "blocks") = b.blocks
        /\ \A i \in DOMAIN sdes : sdes[i].type = "SDES"
        /\ Said(sdes, "chunks") = b.chunks
        /\ apps = [i \in DOMAIN b.apps |-> [type |-> "APP", known |-> TRUE,
                      subtype |-> b.apps[i].subtype, ssrc |-> b.apps[i].ssrc,
                      length |-> b.apps[i].length]]
        /\ byes = [i \in DOMAIN b.byes |-> [type |-> "BYE", known |-> TRUE,
                      ssrcs |-> b.byes[i].ssrcs, reason |-> b.byes[i].reason]]

\* The buffer is allocated with a size that is computed apart from the writing:
\* the writing fills it exactly, whatever mix of blocks, chunks, items, APP and
\* BYE packets crossed the limits of 31 and the word boundaries.  The
\* receiver's parser finds in it what was added, in order.
BuiltParses ==
    Built(comp) =>
        /\ comp.length = Len(comp.buffer)
        /\ ParseData(comp.buffer).valid
        /\ Agrees(ParseData(comp.buffer).packets, comp)

\* A datagram cut short is refused by ParseData, except between two packets,
\* where what is left is the beginning of what was sent.
CutIsDetected ==
    Built(comp) =>
        \A n \in 0 .. Len(comp.buffer) - 1 :
            LET cut == ParseData(SubSeq(comp.buffer, 1, n))
            IN  cut.valid => /\ IsHead(comp.buffer[n + 1])
                             /\ IsPrefix(cut.packets, ParseData(comp.buffer).packets)

\* A compound packet is read as it was built, and not when it is cut short; and it
\* is no longer than it may be.
CompoundSound == BuiltParses /\ CutIsDetected /\ MaximumKept

=============================================================================
