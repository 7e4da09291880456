---------------------------- MODULE MCRtpSources ----------------------------
(***************************************************************************)
(* The source table and the receive path of one source under TLC.  A       *)
(* behaviour looks at one side of them, chosen at the start:               *)
(*   timing    two remote participants on one host, aging and timeouts     *)
(*   identity  packets from two hosts and from ourselves, no time passes   *)
(*   data      the packets of one source through a bad network             *)
(***************************************************************************)
EXTENDS RtpSources, RtpReceive

CONSTANTS me, s1, s2, h1, h2, c1, c2

VARIABLE focus

mcvars == <<vars, focus, receivevars>>

\* Inputs of the timing side: one host, CSRC lists and SDES items of all kinds.
TimingRtp == [ssrc : {s1}, addr : {h1}, inorder : {TRUE}, csrcs : {<<>>, <<s2>>}]
TimingReport == [type : {"RR"}, ssrcs : {<<s2>>}, items : {<<>>}]
TimingOther ==
    [type : {"SDES"}, ssrcs : {<<s1>>}, items : {<<[do |-> "note", cname |-> NoName]>>}]
    \cup [type : {"BYE"}, ssrcs : {<<s1, s2>>}, items : {<<>>}]
    \cup [type : {"APP"}, ssrcs : {<<s1>>}, items : {<<>>}]

\* Inputs of the identity side.
IdentityRtp == [ssrc : {me, s1}, addr : Address, inorder : {TRUE}, csrcs : {<<>>}]
               \cup [ssrc : {s1}, addr : Address, inorder : {FALSE},
                     csrcs : {<<me>>, <<s1, s2>>}]
IdentityReport == [type : {"SR"}, ssrcs : {<<s2>>}, items : {<<>>}]
IdentityOther ==
    [type : {"SDES"}, ssrcs : {<<s1>>},
     items : {<<[do |-> "cname", cname |-> c]>> : c \in Cname} \cup {<<>>}]
    \cup [type : {"BYE"}, ssrcs : {<<me, s1>>}, items : {<<>>}]

MCInit ==
    /\ Init
    /\ ReceiveInit
    /\ \/ focus = "timing" /\ probationtype = "ProbationStore" /\ ~acceptown
          /\ ~storing /\ first = 0
       \/ focus = "identity" /\ probationtype # "ProbationStore" /\ acceptown
          /\ ~storing /\ first = 0
       \/ focus = "data" /\ probationtype = "ProbationStore" /\ ~acceptown

Own ==
    \/ CreateOwnSSRC(me)
    \/ DeleteOwnSSRC

Timing ==
    /\ focus = "timing"
    /\ \/ Own
       \/ Clear
       \/ SentRTPPacket
       \/ \E p \in TimingRtp : ProcessRTPPacket(p)
       \/ \E r \in TimingReport, q \in TimingOther :
             ProcessRTCPCompoundPacket(r, q, h1)
       \/ ProcessStep
       \/ RunTimeout
       \/ TakePackets(s1)
       \/ Tick

Identity ==
    /\ focus = "identity"
    /\ \/ Own
       \/ \E p \in IdentityRtp : ProcessRTPPacket(p)
       \/ \E r \in IdentityReport, q \in IdentityOther, a \in Address :
             ProcessRTCPCompoundPacket(r, q, a)
       \/ ProcessStep

Data == focus = "data" /\ ReceiveNext

MCNext ==
    \/ (Timing \/ Identity) /\ UNCHANGED <<focus, receivevars>>
    \/ Data /\ UNCHANGED <<focus, vars>>

MCSpec == MCInit /\ [][MCNext]_mcvars

=============================================================================
