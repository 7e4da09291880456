----------------------------- MODULE MCTransmitter -----------------------------
(***************************************************************************)
(* The transmitters under TLC.  A behaviour looks at one part, chosen at   *)
(* the start: a UDP transmitter of either family (its addresses, sockets   *)
(* or datagrams), the external transmitter, or the hash table both use.    *)
(***************************************************************************)
EXTENDS UdpV6Transmitter, ExternalTransmitter, RtpKeyHashTable

VARIABLE focus

\* All keys but the last share a bucket.
MCHashOf == [k \in Key |-> IF k = 4 THEN 1 ELSE 0]

-----------------------------------------------------------------------------
Lists == {"AcceptSome", "IgnoreSome"}
AnyPort == Port \cup {0}
Destinations == {<<1, 1>>, <<Loopback, PortBase>>}
Incoming == {<<<<1, 1>>, 0>>, <<<<1, 1>>, 1>>, <<<<Loopback, 1>>, 1>>}
\* Over IPv6 only another host sends.
Incoming6 == {d \in Incoming : d[1] = <<1, 1>>}

V4Filter ==
    \/ Create(MaxSize, {}, Interfaces, {}, TRUE)
    \/ \E m \in {"AcceptAll"} \cup Lists : SetReceiveMode(m)
    \/ \E m \in Lists, i \in Ip, p \in AnyPort :
          AddToList(m, i, p) \/ DeleteFromList(m, i, p)
    \/ \E m \in Lists : ClearList(m)

V6Filter ==
    \/ V6Create(MaxSize, {}, Interfaces, {}, TRUE)
    \/ \E m \in {"AcceptAll"} \cup Lists : V6SetReceiveMode(m)
    \/ \E m \in Lists, i \in Ip, p \in AnyPort :
          V6AddToList(m, i, p) \/ V6DeleteFromList(m, i, p)
    \/ \E m \in Lists : V6ClearList(m)

V4Sockets ==
    \/ \E step \in CreateFailures : CreateFails(step)
    \/ \E ttlset \in BOOLEAN : Create(MaxSize, {}, Interfaces, {}, ttlset)
    \/ Destroy
    \/ \E found \in BOOLEAN : GetLocalHostName(found)
    \/ \E max \in {MaxSize - 1, MaxSize + 1} : SetMaximumPacketSize(max)
    \/ \E stuck \in [Socket -> SUBSET Group] :
          \/ \E g \in Group : \/ \E r \in SUBSET Socket : JoinMulticastGroup(g, r, stuck)
                             \/ LeaveMulticastGroup(g, stuck)
          \/ LeaveAllMulticastGroups(stuck)

V6Sockets ==
    \/ \E step \in CreateFailures : V6CreateFails(step)
    \/ \E hopsset \in BOOLEAN : V6Create(MaxSize, {}, Interfaces, {}, hopsset)
    \/ V6Destroy
    \/ \E found \in BOOLEAN : V6GetLocalHostName(found)
    \/ \E max \in {MaxSize - 1, MaxSize + 1} : V6SetMaximumPacketSize(max)
    \/ \E stuck \in [Socket -> SUBSET Group] :
          \/ \E g \in Group : \/ \E r \in SUBSET Socket : V6JoinMulticastGroup(g, r, stuck)
                             \/ V6LeaveMulticastGroup(g, stuck)
          \/ V6LeaveAllMulticastGroups(stuck)

\* Packets of size MaxSize + 1 are refused.
V4Datagrams ==
    \/ \E given \in {{}, Host}, listed, named \in {{}, Interfaces} :
          Create(MaxSize, given, listed, named, TRUE)
    \/ SetReceiveMode("IgnoreSome")
    \/ AddToList("IgnoreSome", 1, 0)
    \/ \E d \in Destinations : AddDestination(d) \/ DeleteDestination(d)
    \/ ClearDestinations
    \/ \E s \in Socket, size \in {1, MaxSize + 1} : SendData(s, size)
    \/ \E s \in Socket, d \in Incoming : Arrive(s, d[1], d[2])
    \/ Poll
    \/ GetNextPacket
    \/ Destroy

V6Datagrams ==
    \/ \E given \in {{}, Host}, listed, named \in {{}, Interfaces} :
          V6Create(MaxSize, given, listed, named, TRUE)
    \/ V6SetReceiveMode("IgnoreSome")
    \/ V6AddToList("IgnoreSome", 1, 0)
    \/ \E d \in Destinations : V6AddDestination(d) \/ V6DeleteDestination(d)
    \/ V6ClearDestinations
    \/ \E s \in Socket, size \in {1, MaxSize + 1} : V6SendData(s, size)
    \/ \E s \in Socket, d \in Incoming6 : Arrive(s, d[1], d[2])
    \/ V6Poll
    \/ V6GetNextPacket
    \/ V6Destroy

-----------------------------------------------------------------------------
Udp ==
    \/ focus = "v4 filter" /\ V4Filter
    \/ focus = "v6 filter" /\ V6Filter
    \/ focus = "v4 sockets" /\ V4Sockets
    \/ focus = "v6 sockets" /\ V6Sockets
    \/ focus = "v4 datagrams" /\ V4Datagrams
    \/ focus = "v6 datagrams" /\ V6Datagrams

MCInit ==
    /\ focus \in {"v4 filter", "v6 filter", "v4 sockets", "v6 sockets",
                  "v4 datagrams", "v6 datagrams", "external", "table"}
    /\ Init /\ ExternalInit /\ HashInit

MCNext ==
    /\ UNCHANGED focus
    /\ \/ Udp /\ UNCHANGED <<externalvars, hashvars>>
       \/ focus = "external" /\ ExternalNext /\ UNCHANGED <<vars, hashvars>>
       \/ focus = "table" /\ HashNext /\ UNCHANGED <<vars, externalvars>>

\* Fairness of the external transmitter alone.
MCSpec ==
    /\ MCInit
    /\ [][MCNext]_<<focus, vars, externalvars, hashvars>>
    /\ WF_externalvars(focus = "external" /\ PollThread)
    /\ \A t \in Injector :
          WF_externalvars(focus = "external" /\ (PushPacket(t) \/ WriteByte(t)))
    /\ WF_externalvars(focus = "external" /\
                       (AbortWrite \/ DestroyWakes \/ DestroyCloses \/ DestroyJoins))

=============================================================================
