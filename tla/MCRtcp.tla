------------------------------- MODULE MCRtcp -------------------------------
(***************************************************************************)
(* What a session sends, under TLC.  A behaviour looks at one part, chosen *)
(* at the start:                                                           *)
(*   compound  any calls of the compound packet builder                    *)
(*   reports   the session's own use of it, with members coming and going  *)
(*   schedule  when compound packets are sent                              *)
(*   packets   RTP packets                                                 *)
(*   sdes      the private SDES items of one source                        *)
(***************************************************************************)
EXTENDS RtcpReports, RtcpRoundTrip, RtcpScheduler, RtpPackets, RtcpSdesInfo

CONSTANTS own, r1, r2, r3,
          MaxLog     \* bound on the packets built

VARIABLE focus

\* A prefix of its own, and one that two longer ones are cut to.
MCPrefix == {"plain", "cut"}
MCLongPrefix == {"long1", "long2"}
MCCut == [p \in MCLongPrefix |-> "cut"]

\* Items, APP and BYE packets whose lengths end at different places of a word.
MCItem == {[id |-> 1, length |-> 3, prefix |-> 0], [id |-> 8, length |-> 2, prefix |-> 1]}
MCApp == {[subtype |-> 3, ssrc |-> r1, length |-> 4]}
MCBye == {[ssrcs |-> <<r1, r2>>, reason |-> 2], [ssrcs |-> <<r1>>, reason |-> 0]}
MCSdes == <<2, 7>>
MCItemLength == [i \in {2, 7} |-> IF i = 2 THEN 5 ELSE 30]
MCRequest ==
    [pt : {0}, mark : {TRUE}, inc : {0}, payload : {0}, words : {-1}]
    \cup [pt : {5}, mark : {FALSE}, inc : {3}, payload : {3}, words : {1, 3}]
    \cup [pt : {72}, mark : {TRUE}, inc : {0}, payload : {3}, words : {-1}]

reportvars == <<comp, list, ownsender, builder, steady, reported, round>>

-----------------------------------------------------------------------------
\* Sources alternate; at most three chunks of at most two items.
Turn(n) == IF n % 2 = 0 THEN r1 ELSE r2

Compound ==
    /\ focus = "compound"
    /\ \/ \E max \in Maximum : InitBuild(max)
       \/ \E sr \in BOOLEAN : StartReport(r1, sr)
       \/ AddReportBlock(Turn(Len(comp.blocks)))
       \/ Len(comp.chunks) < 3 /\ AddSDESSource(Turn(Len(comp.chunks)))
       \/ /\ comp.chunks # <<>> => Len(Last(comp.chunks).items) < 2
          /\ \E i \in Item : AddSDESItem(i)
       \/ comp.byes = <<>> /\ \E y \in Bye : AddBYEPacket(y)
       \/ comp.apps = <<>> /\ \E a \in App : AddAPPPacket(a)
       \/ EndBuild

\* r2 and r3 come before the first packet or never, and r2 keeps being heard;
\* r1 comes and goes.  A packet of 72 bytes has room for one report block or a
\* long item.
Early == IF builder.init THEN builder.firstpacket ELSE TRUE
Known(s) == \E k \in DOMAIN list : list[k].ssrc = s
Quiet(s) == \E k \in DOMAIN list : list[k].ssrc = s /\ ~list[k].fresh
NewInterval(i, n) == builder.interval[i] = -1 /\ n = (IF i = 2 THEN 1 ELSE 2)

Reports ==
    /\ focus = "reports"
    /\ \/ InitBuilder(72)
       \/ Destroy
       \/ /\ builder.init /\ list = <<>>
          /\ \E i \in SdesIds, n \in Intervals : NewInterval(i, n) /\ SetInterval(i, n)
       \/ \E c \in BOOLEAN : MemberJoins(r1, c)
       \/ Early /\ MemberJoins(r2, FALSE)
       \/ Early /\ Known(r2) /\ MemberJoins(r3, FALSE)
       \/ \E k \in DOMAIN list : list[k].ssrc = r1 /\ (Gone(k) \/ NamedAsCsrc(k))
       \/ \E k \in DOMAIN list : ~list[k].fresh /\ PacketFrom(k)
       \/ ~Quiet(r2) /\ BuildNextPacket
       \/ Len(list) < 2 /\ BuildBYEPacket(3, FALSE)

\* Of four members one sender is a quarter, and two are more: others add nothing.
Schedule == focus = "schedule" /\ Next /\ senders' <= 2

\* New numbers begin just before they wrap.  CSRCs and defaults are set before the
\* first packet, and changed after it.
Between == Len(log) = 1
Start == IF bld.init THEN log = <<>> ELSE FALSE

Rtp ==
    /\ focus = "packets"
    /\ \/ InitPackets(16, r1, SeqModulus - 1, TimeModulus - 1)
       \/ DestroyPackets
       \/ Len(log) <= 1 /\ SetMaximumPacketSize(30)
       \/ Between /\ CreateNewSSRC(r2, 0, 0)
       \/ Start /\ \E c \in {r1, r2} : AddCSRC(c)
       \/ Between /\ \E c \in {r1, r2} : DeleteCSRC(c)
       \/ Between /\ ClearCSRCList
       \/ Len(log) < MaxLog /\ \E r \in Request : PrivateBuildPacket(r)
       \/ Start /\ SetDefault("pt", 0)
       \/ Start /\ bld.default.pt # {} /\ SetDefault("mark", FALSE)
       \/ Start /\ bld.default.mark # {} /\ SetDefault("inc", 1)
       \/ Len(log) < MaxLog /\ BuildDefault(3, -1)
       \/ Between /\ IncrementTimestamp(TimeModulus - 1)
       \/ Start /\ IncrementTimestampDefault
       \/ Start /\ AdjustSSRC(r3)
       \/ ClockTick

MCInit ==
    /\ focus \in {"compound", "reports", "schedule", "packets", "sdes"}
    /\ ReportsInit /\ (focus # "reports" => ~ownsender)
    /\ Init /\ (focus # "schedule" => members = 1)
    /\ PacketInit /\ SdesInit

MCNext ==
    /\ UNCHANGED focus
    /\ \/ /\ Compound
          /\ UNCHANGED <<list, ownsender, builder, steady, reported, round>>
          /\ UNCHANGED <<vars, packetvars, sdesvars>>
       \/ Reports /\ UNCHANGED <<vars, packetvars, sdesvars>>
       \/ Schedule /\ UNCHANGED <<reportvars, packetvars, sdesvars>>
       \/ Rtp /\ UNCHANGED <<reportvars, vars, sdesvars>>
       \/ /\ focus = "sdes" /\ SdesNext
          /\ UNCHANGED <<reportvars, vars, packetvars>>

MCSpec ==
    /\ MCInit
    /\ [][MCNext]_<<focus, reportvars, vars, packetvars, sdesvars>>
    /\ WF_vars(focus = "schedule" /\ FirstCall)
    /\ WF_vars(focus = "schedule" /\ IsTime)
    /\ WF_vars(focus = "schedule" /\ Tick)

-----------------------------------------------------------------------------
\* Reports and BYEs go on being sent.
ReportsContinue == focus = "schedule" => ReportsGoOn
=============================================================================
