----------------------------- MODULE RtcpReports ------------------------------
(***************************************************************************)
(* RTCPPacketBuilder: which sources get a report block, and which SDES     *)
(* items are added, in the compound packets of one session.  A packet may  *)
(* be too small for all of them; flags on the sources and on the items     *)
(* remember how far the last packets came.                                 *)
(*                                                                         *)
(* `list` is the source table without our own entry, in the order of its   *)
(* iteration (members are appended).  `fresh` says that a packet of the    *)
(* source was received after prevbuildtime, the time of the last packet    *)
(* that was built.  The contents of a report block are not modelled.       *)
(***************************************************************************)
EXTENDS RtcpCompound, FiniteSets

CONSTANTS
    Own,           \* our SSRC
    Member,        \* SSRCs of the others
    CnameLength,
    Sdes,          \* the optional items in the order they are added: ids 2..7
    ItemLength,    \* their lengths, by id
    Intervals,     \* values given to SetNameInterval and the like
    CountCycle     \* sdesbuildcount is kept modulo this multiple of Intervals

ASSUME SdesAssumption == Sdes \in Seq(2..7) /\ CountCycle \in Nat \ {0}

VARIABLES
    list,        \* the other participants: [ssrc, sentdata, csrc, fresh, processed]
    ownsender,   \* whether we sent RTP packets lately
    builder,     \* the fields of RTCPPacketBuilder
    steady,      \* history: members heard before every packet so far
    reported,    \* history: their report blocks, less the least of these numbers
    round        \* history: optional items of the current round: sent, and skipped

repvars == <<list, ownsender, builder, steady, reported, round>>

SdesIds == {Sdes[k] : k \in DOMAIN Sdes}
CnameItem == [id |-> 1, length |-> CnameLength, prefix |-> 0]
SdesItem(id) == [id |-> id, length |-> ItemLength[id], prefix |-> 0]

Entry(s) == [ssrc |-> s, sentdata |-> FALSE, csrc |-> FALSE, fresh |-> FALSE,
             processed |-> FALSE]

\* RTCPPacketBuilder::Init; the flags of the SDES items (done) are left as
\* they were.
Fresh(max, old) ==
    [init |-> TRUE, max |-> max, firstpacket |-> TRUE, processing |-> FALSE,
     count |-> 0, interval |-> [i \in SdesIds |-> -1], due |-> {},
     done |-> old.done]

-----------------------------------------------------------------------------
(* Filling a packet.                                                        *)

ClearAllSourceFlags(l) == [k \in DOMAIN l |-> [l[k] EXCEPT !.processed = FALSE]]

\* Whether a source is to be reported on.
ShouldProcess(e, first) == ~e.csrc /\ e.sentdata /\ (first \/ e.fresh)

\* Bug: the source is not marked as processed.
ReportOnUnmarked(f, k, first, maxcount) ==
    IF f.stop # 0 \/ ~ShouldProcess(f.list[k], first) THEN f
    ELSE IF f.list[k].processed THEN [f EXCEPT !.skipped = @ + 1]
    ELSE IF ~CanAddBlock(f.pack) THEN [f EXCEPT !.full = TRUE, !.stop = k]
    ELSE [f EXCEPT !.pack = WithBlock(@, f.list[k].ssrc), !.added = @ + 1,
                   !.stop = IF f.added + 1 >= maxcount THEN k ELSE 0]

\* One turn of the loop of FillInReportBlocks at list position k.
ReportOn(f, k, first, maxcount) ==
    IF f.stop # 0 \/ ~ShouldProcess(f.list[k], first) THEN f
    ELSE IF f.list[k].processed THEN [f EXCEPT !.skipped = @ + 1]
    ELSE IF ~CanAddBlock(f.pack) THEN [f EXCEPT !.full = TRUE, !.stop = k]
    ELSE [f EXCEPT !.pack = WithBlock(@, f.list[k].ssrc),
                   !.list[k].processed = TRUE,
                   !.added = @ + 1,
                   !.stop = IF f.added + 1 >= maxcount THEN k ELSE 0]

\* The loop of FillInReportBlocks, turn by turn.
ReportTurns(pack, l, first, maxcount) ==
    LET after[k \in 0..Len(l)] ==
            IF k = 0 THEN [pack |-> pack, list |-> l, added |-> 0, skipped |-> 0,
                           full |-> FALSE, stop |-> 0]
            ELSE ReportOn(after[k - 1], k, first, maxcount)
    IN  after

\* FillInReportBlocks.  atend: no source is left that waits for a block.
FillInReportBlocks(pack, l, first, maxcount) ==
    LET f == ReportTurns(pack, l, first, maxcount)[Len(l)]
        waits(k) == ShouldProcess(f.list[k], first) /\ ~f.list[k].processed
    IN  [pack |-> f.pack, list |-> f.list, added |-> f.added, skipped |-> f.skipped,
         full |-> f.full,
         atend |-> \/ f.stop = 0
                   \/ ~f.full /\ \A k \in f.stop + 1 .. Len(l) : ~waits(k)]

\* One item of FillInSDES, if it is due and not processed.
FillInItem(f, i, due) ==
    IF f.full \/ i \notin due \ f.done THEN f
    ELSE IF ~CanAddItem(f.pack, SdesItem(i)) THEN [f EXCEPT !.full = TRUE]
    ELSE [f EXCEPT !.pack = AddItem(@, SdesItem(i)),
                   !.done = @ \cup {i}, !.items = Append(@, i)]

ItemTurns(pack, due, done) ==
    LET after[k \in 0..Len(Sdes)] ==
            IF k = 0 THEN [pack |-> pack, done |-> done, items |-> <<>>, full |-> FALSE]
            ELSE FillInItem(after[k - 1], Sdes[k], due)
    IN  after

\* FillInSDES: the items in their order, until one does not fit.
FillInSDES(pack, due, done) == ItemTurns(pack, due, done)[Len(Sdes)]

\* The report header, our SDES source and the CNAME item; <<>> when
\* they do not fit.
StartPacket(max, sr) ==
    LET p0 == Inited(max)
        p1 == WithReport(p0, Own, sr)
        p2 == WithSource(p1, Own)
    IN  IF CanStartReport(p0, sr) /\ CanAddSource(p1) /\ CanAddItem(p2, CnameItem)
        THEN <<AddItem(p2, CnameItem)>> ELSE <<>>

NoResult == [ok |-> FALSE]
NoRound == [sent |-> <<>>, skipped |-> {}]

\* The end of a round of items: the flags of the items are cleared, and if
\* there is room some report blocks follow.
AfterItems(s, r, l, max, clear) ==
    IF s.full \/ max = 0 THEN [pack |-> s.pack, list |-> l]
    ELSE [pack |-> r.pack,
          list |-> IF clear /\ r.atend THEN ClearAllSourceFlags(r.list) ELSE r.list]

\* What BuildNextPacket leaves after the items s, and the blocks behind them.
Result(s, end, count, due, newround) ==
    [ok |-> TRUE, pack |-> end.pack, list |-> end.list,
     builder |-> [builder EXCEPT !.processing = s.full, !.count = count, !.due = due,
                                 !.done = IF s.full THEN s.done ELSE {}],
     items |-> s.items, newround |-> newround]

ItemsAfterReports(s, l, max, count, due) ==
    Result(s, AfterItems(s, FillInReportBlocks(s.pack, l, builder.firstpacket, max),
                         l, max, FALSE),
           count, due, TRUE)

\* A new round of items begins when the report blocks are done.
AfterReports(r) ==
    LET count == (builder.count + 1) % CountCycle
        due == {i \in SdesIds : builder.interval[i] > 0 /\ count % builder.interval[i] = 0}
    IN  IF ~r.full
        THEN ItemsAfterReports(FillInSDES(r.pack, due, builder.done),
                               ClearAllSourceFlags(r.list), r.skipped, count, due)
        ELSE IF r.added = 0 THEN NoResult
        ELSE [ok |-> TRUE, pack |-> r.pack, list |-> r.list, builder |-> builder,
              items |-> <<>>, newround |-> FALSE]

\* BuildNextPacket when no round of items is under way: report blocks first.
BuildReports(start) ==
    AfterReports(FillInReportBlocks(start, list, builder.firstpacket, Len(list) + 1))

ItemsFirst(s) ==
    IF s.items = <<>> THEN NoResult
    ELSE Result(s, AfterItems(s, FillInReportBlocks(s.pack, list, builder.firstpacket,
                                                    Len(list) + 1),
                              list, Len(list) + 1, TRUE),
                builder.count, builder.due, FALSE)

\* BuildNextPacket when items are left from the packet before.
BuildItems(start) == ItemsFirst(FillInSDES(start, builder.due, builder.done))

NextPacket(start) ==
    IF start = <<>> THEN NoResult
    ELSE IF builder.processing THEN BuildItems(start[1]) ELSE BuildReports(start[1])

-----------------------------------------------------------------------------
(* Operations.                                                              *)

ReportsInit ==
    /\ CompoundInit
    /\ list = <<>>
    /\ ownsender \in BOOLEAN
    /\ builder = [init |-> FALSE, done |-> {}]
    /\ steady = {} /\ reported = [s \in Member |-> 0] /\ round = NoRound

InitBuilder(max) ==
    /\ ~builder.init
    /\ max >= MinPacketSize
    /\ builder' = Fresh(max, builder)
    /\ list' = ClearAllSourceFlags(list)
    /\ steady' = {list[k].ssrc : k \in {j \in DOMAIN list : ~list[j].csrc}}
    /\ reported' = [s \in Member |-> 0]
    /\ round' = NoRound
    /\ comp' = Empty
    /\ UNCHANGED ownsender

Destroy ==
    /\ builder.init
    /\ builder' = [init |-> FALSE, done |-> builder.done]
    /\ UNCHANGED <<list, ownsender, steady, reported, round, comp>>

SetInterval(i, n) ==
    /\ builder.init
    /\ builder' = [builder EXCEPT !.interval[i] = n]
    /\ UNCHANGED <<list, ownsender, steady, reported, round, comp>>

\* What the source table does meanwhile.
MemberJoins(s, csrc) ==
    /\ \A k \in DOMAIN list : list[k].ssrc # s
    /\ list' = Append(list, [Entry(s) EXCEPT !.csrc = csrc])
    /\ steady' = IF ~csrc /\ builder.init /\ builder.firstpacket THEN steady \cup {s}
                 ELSE steady
    /\ UNCHANGED <<ownsender, builder, reported, round, comp>>

Gone(k) ==
    /\ list' = RemoveAt(list, k)
    /\ steady' = steady \ {list[k].ssrc}
    /\ UNCHANGED <<ownsender, builder, reported, round, comp>>

\* A CSRC list names a member known before: it gets no report blocks any more.
NamedAsCsrc(k) ==
    /\ list' = [list EXCEPT ![k].csrc = TRUE]
    /\ steady' = steady \ {list[k].ssrc}
    /\ UNCHANGED <<ownsender, builder, reported, round, comp>>

PacketFrom(k) ==
    /\ list' = [list EXCEPT ![k].sentdata = TRUE, ![k].fresh = TRUE]
    /\ UNCHANGED <<ownsender, builder, steady, reported, round, comp>>

Count(seq, x) == Cardinality({k \in DOMAIN seq : seq[k] = x})

\* The history of report blocks: members that were not heard before this
\* packet are not steady any more, and of equal numbers nothing is kept.
Reported(blocks, stay) ==
    LET n == [s \in Member |-> reported[s] + Count(blocks, s)]
        least == CHOOSE m \in {n[s] : s \in stay} : \A s \in stay : m <= n[s]
    IN  [s \in Member |-> IF s \in stay THEN n[s] - least ELSE 0]

BuildNextPacket ==
    /\ builder.init
    /\ \E r \in {NextPacket(StartPacket(builder.max, ownsender))} :
           /\ r.ok
           /\ comp' = Ended(r.pack)
           /\ list' = [k \in DOMAIN list |-> [r.list[k] EXCEPT !.fresh = FALSE]]
           /\ builder' = [r.builder EXCEPT !.firstpacket = FALSE]
           /\ steady' = {s \in steady : \E k \in DOMAIN list :
                                           list[k].ssrc = s /\ list[k].fresh}
           /\ reported' = Reported(r.pack.blocks, steady')
           /\ round' = IF r.newround THEN [sent |-> r.items, skipped |-> builder.done]
                       ELSE [round EXCEPT !.sent = @ \o r.items]
    /\ UNCHANGED ownsender

BuildBYEPacket(reason, usesr) ==
    /\ builder.init
    /\ LET start == StartPacket(builder.max, ownsender /\ usesr)
           y == [ssrcs |-> <<Own>>, reason |-> reason]
       IN  /\ start # <<>>
           /\ CanAddBYE(start[1], y)
           /\ comp' = Ended(WithBYE(start[1], y))
    /\ UNCHANGED repvars

ReportsNext ==
    \/ \E max \in Nat : InitBuilder(max)
    \/ Destroy
    \/ \E i \in SdesIds, n \in Int : SetInterval(i, n)
    \/ \E s \in Member, csrc \in BOOLEAN : MemberJoins(s, csrc)
    \/ \E k \in DOMAIN list : Gone(k) \/ NamedAsCsrc(k) \/ PacketFrom(k)
    \/ BuildNextPacket
    \/ \E reason \in 0..255, usesr \in BOOLEAN : BuildBYEPacket(reason, usesr)

ReportsSpec == ReportsInit /\ [][ReportsNext]_<<comp, repvars>>

-----------------------------------------------------------------------------
\* Members that are heard between any two packets get their report blocks in
\* turn: none gets a second one while another waits, however small the packets,
\* whatever members come, go or fall silent in between, and however rounds of
\* SDES items interrupt the reports.  No packet has two blocks on one of them.
ReportsInTurn ==
    /\ \A s \in steady : reported[s] <= 1
    /\ Built(comp) => \A s \in steady : Count(comp.blocks, s) <= 1

\* An SDES item that is due in a round is sent once in it, in one of the
\* packets the round takes, and no other item is sent.  Only an item that was
\* sent in a round that Destroy cut short is missing from the next one.
EachItemOncePerRound ==
    builder.init =>
        /\ IsInjective(round.sent)
        /\ ToSet(round.sent) \subseteq builder.due
        /\ ~builder.processing => ToSet(round.sent) = builder.due \ round.skipped

\* No source is passed over in the report blocks, and no item in a round of SDES.
ReportsFair == ReportsInTurn /\ EachItemOncePerRound

=============================================================================
