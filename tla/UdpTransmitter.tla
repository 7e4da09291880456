---------------------------- MODULE UdpTransmitter ----------------------------
(***************************************************************************)
(* RTPUDPv4Transmitter: two UDP sockets, the destinations, the multicast   *)
(* groups, the list of addresses that are accepted or ignored, and the     *)
(* queue of received packets.                                              *)
(*                                                                         *)
(* Every operation holds the main mutex from beginning to end and is one   *)
(* step here; the wait for data, which does not, and its abort are in      *)
(* RtpSession and ExternalTransmitter.  The operating system may refuse    *)
(* any call.  Allocation failures are left out.  A call that fails without *)
(* changing anything is a stuttering step.                                 *)
(***************************************************************************)
EXTENDS Integers, Subsequences

CONSTANTS
    Ip, Port,      \* remote addresses; port 0 stands for all ports
    Group,         \* addresses that pass IS_MCASTADDR
    Interfaces,    \* our own addresses, but for the loopback address
    Loopback, PortBase,
    MaxSize,       \* RTPUDPV4TRANS_MAXPACKSIZE
    MaxArrivals    \* bound on the datagrams that arrive

ASSUME PortAssumption == 0 \notin Port
ASSUME NumberAssumption == PortBase \in Nat

Socket == {"rtp", "rtcp"}
Mode == {"AcceptAll", "AcceptSome", "IgnoreSome"}
Address == Ip \X Port

VARIABLES
    tr,        \* the fields of the transmitter
    fds,       \* open descriptors
    joined,    \* per socket: the groups it is a member of
    kept,      \* history: per socket, the groups the system refused to let it leave
    net,       \* per socket: datagrams that were not read, [id, from, size, own]
    asked,     \* history: addresses selected by the calls for the current mode
    lost,      \* history: addresses selected again below an entry for all ports
    read       \* history: datagrams taken from the sockets, accepted or not

vars == <<tr, fds, joined, kept, net, asked, lost, read>>
sysvars == <<fds, joined, kept, net, read>>

NoFilter == [i \in {} |-> 0]
NoName == "none"
Host == Interfaces \cup {Loopback}
Offset(s) == IF s = "rtp" THEN 0 ELSE 1
OwnAddress == Host \X {PortBase, PortBase + 1}
Closed == [s \in Socket |-> {}]
Silent == [s \in Socket |-> <<>>]

\* Which addresses an entry for an IP address stands for.
Ports(e) == IF e.all THEN Port \ e.ports ELSE e.ports
Selected == {a \in Address : a[1] \in DOMAIN tr.filter /\ a[2] \in Ports(tr.filter[a[1]])}

-----------------------------------------------------------------------------
(* Creation and destruction.                                                *)

\* The constructor and Init.
Init ==
    /\ tr = [created |-> FALSE]
    /\ fds = {} /\ joined = Closed /\ kept = Closed /\ net = Silent
    /\ asked = {} /\ lost = {} /\ read = <<>>

\* Where Create may stop, and the descriptors it has opened until there.
CreateFailures == {"socket1", "socket2", "buffers", "bind", "pipe", "size"}
Opened(step) ==
    CASE step = "socket1" -> {}
      [] step = "socket2" -> {"rtp"}
      [] step \in {"buffers", "bind", "pipe"} -> Socket
      [] OTHER -> Socket \cup {"pipe"}

\* Bug: the pipe that aborts a wait stays open when the packet size is refused.
ClosedAtNoPipe(step) ==
    CASE step = "socket1" -> {}
      [] step = "socket2" -> {"rtp"}
      [] OTHER -> Socket

\* What the error path of each step closes.
ClosedAt(step) ==
    CASE step = "socket1" -> {}
      [] step = "socket2" -> {"rtp"}
      [] step \in {"buffers", "bind", "pipe"} -> Socket
      [] step = "size" -> Socket \cup {"pipe"}

CreateFails(step) ==
    /\ ~tr.created
    /\ fds' = (fds \cup Opened(step)) \ ClosedAt(step)
    /\ UNCHANGED <<tr, joined, kept, net, asked, lost, read>>

\* Bug: AddLoopbackAddress is left out.
LocalIpsNoLoopback(given, listed, named) ==
    IF given # {} THEN given ELSE IF listed # {} THEN listed ELSE named

\* The addresses the caller gives, or CreateLocalIPList: what the interfaces list,
\* else what the name service knows, and the loopback address.
LocalIps(given, listed, named) ==
    IF given # {} THEN given
    ELSE {Loopback} \cup (IF listed # {} THEN listed ELSE named)

Create(max, given, listed, named, ttlset) ==
    /\ ~tr.created
    /\ max <= MaxSize
    /\ tr' = [created |-> TRUE, max |-> max, given |-> given,
              localips |-> LocalIps(given, listed, named), multicast |-> ttlset,
              mode |-> "AcceptAll", filter |-> NoFilter, dest |-> <<>>, groups |-> {},
              queue |-> <<>>, hostname |-> NoName]
    /\ fds' = fds \cup Opened("ok")
    /\ kept' = Closed /\ asked' = {} /\ lost' = {}
    /\ UNCHANGED <<joined, net, read>>

\* Without a wait; closing a socket ends its memberships.
Destroy ==
    /\ tr.created
    /\ tr' = [created |-> FALSE]
    /\ fds' = fds \ (Socket \cup {"pipe"})
    /\ joined' = Closed /\ kept' = Closed /\ net' = Silent
    /\ asked' = {} /\ lost' = {} /\ read' = <<>>

\* The name is looked up once; an IP address serves when no host name has a dot.
GetLocalHostName(found) ==
    /\ tr.created
    /\ tr' = [tr EXCEPT !.hostname = IF @ # NoName THEN @
                                     ELSE IF found THEN "dns" ELSE "ip"]
    /\ UNCHANGED <<sysvars, asked, lost>>

\* Our own packets may come back to us; the session skips them.
ComesFromThisTransmitter(ip, port) ==
    tr.created /\ ip \in tr.localips /\ port \in {PortBase, PortBase + 1}

SetMaximumPacketSize(max) ==
    /\ tr.created
    /\ max <= MaxSize
    /\ tr' = [tr EXCEPT !.max = max]
    /\ UNCHANGED <<sysvars, asked, lost>>

-----------------------------------------------------------------------------
(* Destinations and multicast groups.                                       *)

AddDestination(a) ==
    /\ tr.created
    /\ \A k \in DOMAIN tr.dest : tr.dest[k] # a
    /\ tr' = [tr EXCEPT !.dest = Append(@, a)]
    /\ UNCHANGED <<sysvars, asked, lost>>

DeleteDestination(a) ==
    /\ tr.created
    /\ \E k \in DOMAIN tr.dest : tr.dest[k] = a
    /\ tr' = [tr EXCEPT !.dest = Picked(@, {k \in DOMAIN @ : @[k] # a})]
    /\ UNCHANGED <<sysvars, asked, lost>>

ClearDestinations ==
    /\ tr.created
    /\ tr' = [tr EXCEPT !.dest = <<>>]
    /\ UNCHANGED <<sysvars, asked, lost>>

\* The destinations of socket s that are our own socket r.
Ourselves(s, r) ==
    {k \in DOMAIN tr.dest : /\ tr.dest[k][1] \in Host
                            /\ tr.dest[k][2] + Offset(s) = PortBase + Offset(r)}

\* SendRTPData and SendRTCPData: one datagram to each destination, to its port
\* or the port after it.  What is sent to ourselves arrives.
SendData(s, size) ==
    /\ tr.created
    /\ size <= tr.max
    /\ LET echo(r) == Picked(tr.dest, Ourselves(s, r))
           seen == Len(read) + Len(net["rtp"]) + Len(net["rtcp"])
       IN  /\ seen + Len(echo("rtp")) + Len(echo("rtcp")) <= MaxArrivals
           /\ net' = [r \in Socket |-> net[r] \o
                        [k \in DOMAIN echo(r) |->
                            [id |-> seen + k, from |-> <<echo(r)[k][1], PortBase + Offset(s)>>,
                             size |-> size, own |-> TRUE]]]
    /\ UNCHANGED <<tr, fds, joined, kept, asked, lost, read>>

\* Both sockets are made to leave the groups gs.  What the system answers is not
\* looked at: a socket stays in the groups it may not leave, stuck[s].
Leave(gs, stuck) ==
    /\ joined' = [s \in Socket |-> joined[s] \ (gs \ stuck[s])]
    /\ kept' = [s \in Socket |-> (kept[s] \ gs) \cup (gs \cap stuck[s])]

\* JoinMulticastGroup; the system may refuse either socket.  When it refuses the
\* second, the first leaves again, as far as it may.
JoinMulticastGroup(g, refusedby, stuck) ==
    /\ tr.created
    /\ g \notin tr.groups
    /\ \/ /\ refusedby = {}
          /\ tr' = [tr EXCEPT !.groups = @ \cup {g}]
          /\ joined' = [s \in Socket |-> joined[s] \cup {g}]
          /\ kept' = [s \in Socket |-> kept[s] \ {g}]
       \/ /\ "rtp" \in refusedby
          /\ UNCHANGED <<tr, joined, kept>>
       \/ /\ refusedby = {"rtcp"}
          /\ LET rest(old) == IF g \in stuck["rtp"] THEN old \cup {g} ELSE old \ {g}
             IN  /\ joined' = [joined EXCEPT !["rtp"] = rest(@)]
                 /\ kept' = [kept EXCEPT !["rtp"] = rest(@)]
          /\ UNCHANGED tr
    /\ UNCHANGED <<fds, net, asked, lost, read>>

LeaveMulticastGroup(g, stuck) ==
    /\ tr.created
    /\ g \in tr.groups
    /\ tr' = [tr EXCEPT !.groups = @ \ {g}]
    /\ Leave({g}, stuck)
    /\ UNCHANGED <<fds, net, asked, lost, read>>

LeaveAllMulticastGroups(stuck) ==
    /\ tr.created
    /\ tr' = [tr EXCEPT !.groups = {}]
    /\ Leave(tr.groups, stuck)
    /\ UNCHANGED <<fds, net, asked, lost, read>>

-----------------------------------------------------------------------------
(* What is received.                                                        *)

\* Entries are kept per IP address: some ports, or all but some.
SetReceiveMode(m) ==
    /\ tr.created
    /\ m # tr.mode
    /\ tr' = [tr EXCEPT !.mode = m, !.filter = NoFilter]
    /\ asked' = {} /\ lost' = {}
    /\ UNCHANGED sysvars

\* Bug: a second port of an address is not added.
AddedOnce(ip, port) ==
    IF port = 0 THEN [all |-> TRUE, ports |-> {}]
    ELSE IF ip \in DOMAIN tr.filter /\ (tr.filter[ip].all \/ tr.filter[ip].ports # {})
         THEN tr.filter[ip]
    ELSE [all |-> FALSE, ports |-> {port}]

\* ProcessAddAcceptIgnoreEntry: the entry for the IP address after adding a port.
\* A port below an entry for all ports changes nothing, even an excepted one.
Added(ip, port) ==
    LET old == IF ip \in DOMAIN tr.filter THEN tr.filter[ip]
               ELSE [all |-> FALSE, ports |-> {}]
    IN  IF port = 0 THEN [all |-> TRUE, ports |-> {}]
        ELSE IF old.all THEN old
        ELSE [old EXCEPT !.ports = @ \cup {port}]

\* ProcessDeleteAcceptIgnoreEntry: the entry after deleting a port.
Deleted(ip, port) ==
    LET old == tr.filter[ip]
    IN  IF port = 0 THEN [all |-> FALSE, ports |-> {}]
        ELSE IF old.all THEN [old EXCEPT !.ports = @ \cup {port}]
        ELSE [old EXCEPT !.ports = @ \ {port}]

\* The port was deleted below an entry for all ports.
Excepted(ip, port) ==
    ip \in DOMAIN tr.filter /\ tr.filter[ip].all /\ port \in tr.filter[ip].ports

Meant(ip, port) == {a \in Address : a[1] = ip /\ port \in {0, a[2]}}

\* AddToAcceptList and AddToIgnoreList, each in its own receive mode.
AddToList(mode, ip, port) ==
    /\ tr.created
    /\ tr.mode = mode
    /\ LET new == Added(ip, port)
       IN  /\ tr' = [tr EXCEPT !.filter = [i \in DOMAIN @ \cup {ip} |->
                                             IF i = ip THEN new ELSE @[i]]]
           /\ asked' = asked \cup Meant(ip, port)
           /\ lost' = IF port = 0 THEN lost \ Meant(ip, 0)
                      ELSE IF Excepted(ip, port) THEN lost \cup Meant(ip, port)
                      ELSE lost
    /\ UNCHANGED sysvars

\* DeleteFromAcceptList and DeleteFromIgnoreList.
DeleteFromList(mode, ip, port) ==
    /\ tr.created
    /\ tr.mode = mode
    /\ ip \in DOMAIN tr.filter
    /\ tr' = [tr EXCEPT !.filter[ip] = Deleted(ip, port)]
    /\ asked' = asked \ Meant(ip, port)
    /\ lost' = lost \ Meant(ip, port)
    /\ UNCHANGED sysvars

\* ClearAcceptList and ClearIgnoreList.
ClearList(mode) ==
    /\ tr.created
    /\ tr.mode = mode
    /\ tr' = [tr EXCEPT !.filter = NoFilter]
    /\ asked' = {} /\ lost' = {}
    /\ UNCHANGED sysvars

\* ShouldAcceptData
ShouldAcceptData(a) ==
    CASE tr.mode = "AcceptAll" -> TRUE
      [] tr.mode = "AcceptSome" -> a \in Selected
      [] tr.mode = "IgnoreSome" -> a \notin Selected

\* A datagram of another program arrives at a socket; it may be empty.
Arrive(s, a, size) ==
    /\ tr.created
    /\ a \notin OwnAddress
    /\ Len(read) + Len(net["rtp"]) + Len(net["rtcp"]) < MaxArrivals
    /\ LET id == Len(read) + Len(net["rtp"]) + Len(net["rtcp"]) + 1
       IN  net' = [net EXCEPT ![s] = Append(@, [id |-> id, from |-> a, size |-> size,
                                                 own |-> FALSE])]
    /\ UNCHANGED <<tr, fds, joined, kept, asked, lost, read>>

\* PollSocket reads while the size of the next datagram is not zero: so many.
Ready(s) ==
    CHOOSE n \in 0..Len(net[s]) :
        /\ \A k \in 1..n : net[s][k].size # 0
        /\ n < Len(net[s]) => net[s][n + 1].size = 0

\* ... and the first n of a socket, each with the socket it comes from.
Got(s, n) == [k \in 1..n |-> [d |-> net[s][k], s |-> s]]

\* Those that are accepted.
Accepted(all) == {k \in DOMAIN all : ShouldAcceptData(all[k].d.from)}

\* Bug: one datagram is read from each socket.
PollOnce ==
    /\ tr.created
    /\ LET n == [s \in Socket |-> IF Ready(s) = 0 THEN 0 ELSE 1]
           all == Got("rtp", n["rtp"]) \o Got("rtcp", n["rtcp"])
       IN  /\ tr' = [tr EXCEPT !.queue = @ \o Picked(all, Accepted(all))]
           /\ net' = [s \in Socket |-> SubSeq(net[s], n[s] + 1, Len(net[s]))]
           /\ read' = read \o [k \in DOMAIN all |-> [p |-> all[k], ok |-> k \in Accepted(all)]]
    /\ UNCHANGED <<fds, joined, kept, asked, lost>>

\* Poll: first the RTP socket, then the RTCP socket.
Poll ==
    /\ tr.created
    /\ LET all == Got("rtp", Ready("rtp")) \o Got("rtcp", Ready("rtcp"))
       IN  /\ tr' = [tr EXCEPT !.queue = @ \o Picked(all, Accepted(all))]
           /\ net' = [s \in Socket |-> SubSeq(net[s], Ready(s) + 1, Len(net[s]))]
           /\ read' = read \o [k \in DOMAIN all |-> [p |-> all[k], ok |-> k \in Accepted(all)]]
    /\ UNCHANGED <<fds, joined, kept, asked, lost>>

GetNextPacket ==
    /\ tr.created
    /\ tr.queue # <<>>
    /\ tr' = [tr EXCEPT !.queue = Tail(@)]
    /\ UNCHANGED <<sysvars, asked, lost>>

-----------------------------------------------------------------------------
Creating ==
    \/ \E step \in CreateFailures : CreateFails(step)
    \/ \E max \in 0..MaxSize, ttlset \in BOOLEAN,
          given, listed, named \in SUBSET (Host \cup Ip) :
             Create(max, given, listed, named, ttlset)
    \/ Destroy
    \/ \E found \in BOOLEAN : GetLocalHostName(found)
    \/ \E max \in 0..MaxSize : SetMaximumPacketSize(max)

Sending ==
    \/ \E a \in Address \cup OwnAddress : AddDestination(a) \/ DeleteDestination(a)
    \/ ClearDestinations
    \/ \E s \in Socket, size \in 0..MaxSize : SendData(s, size)

Grouping ==
    \E stuck \in [Socket -> SUBSET Group] :
       \/ \E g \in Group : \/ \E r \in SUBSET Socket : JoinMulticastGroup(g, r, stuck)
                          \/ LeaveMulticastGroup(g, stuck)
       \/ LeaveAllMulticastGroups(stuck)

Filtering ==
    \/ \E m \in Mode : SetReceiveMode(m)
    \/ \E m \in Mode \ {"AcceptAll"} :
          \/ \E ip \in Ip, port \in Port \cup {0} :
                AddToList(m, ip, port) \/ DeleteFromList(m, ip, port)
          \/ ClearList(m)

Receiving ==
    \/ \E s \in Socket, a \in Address, size \in 0..MaxSize : Arrive(s, a, size)
    \/ Poll \/ GetNextPacket

Next == Creating \/ Sending \/ Grouping \/ Filtering \/ Receiving

Spec == Init /\ [][Next]_vars

-----------------------------------------------------------------------------
\* The session takes a packet for its own, and not for a collision of its SSRC,
\* when it comes from this transmitter: that is so of what was sent to ourselves
\* and comes back, and of nothing else this host or another sends.  A list of the
\* caller's is taken as it is, so it has to hold the loopback address; and when only
\* some of our addresses are listed, or those of others, it may fail.  What comes back
\* through a multicast group is not looked at: groups carry no datagrams here.
EchoesKnown ==
    /\ tr.created /\ (tr.given = {} \/ Loopback \in tr.given)
    /\ Interfaces \subseteq tr.localips /\ tr.localips \subseteq Host
    =>
        \A k \in DOMAIN tr.queue :
            tr.queue[k].d.own <=> ComesFromThisTransmitter(tr.queue[k].d.from[1],
                                                           tr.queue[k].d.from[2])

\* What the calls selected is what the lists hold, for every order of adding and
\* deleting single ports and all ports of an address.  AddToAcceptList and
\* AddToIgnoreList answer success for a port that was excepted from an entry for
\* all ports, yet leave it excepted: these addresses are in `lost`.
SelectedAsAsked == tr.created => Selected = asked \ lost

\* A transmitter that is not created, because Create failed at any point or after
\* Destroy, holds no descriptor.  Both sockets are members of the groups in the
\* table, whichever join the system refused half-way, and of no other but
\* those it refused to let the socket leave: LeaveMulticastGroup answers success then,
\* and only Destroy, by closing the socket, ends such a membership.
ResourcesBalanced ==
    /\ fds = IF tr.created THEN Opened("ok") ELSE {}
    /\ \A s \in Socket :
          joined[s] = IF tr.created THEN tr.groups \cup kept[s] ELSE {}

\* The datagrams of a socket are numbered as they arrive: those read from it, in the
\* order of reading, and then those that wait there.
InOrder(r, n) ==
    /\ \A i, j \in DOMAIN r : i < j /\ r[i].p.s = r[j].p.s => r[i].p.d.id < r[j].p.d.id
    /\ \A i \in DOMAIN r : \A k \in DOMAIN n[r[i].p.s] : r[i].p.d.id < n[r[i].p.s][k].id
    /\ \A s \in Socket : \A i, j \in DOMAIN n[s] : i < j => n[s][i].id < n[s][j].id

\* The queue is an end part of the datagrams that were accepted.
EndPart(q, r) ==
    LET accepted == Picked(r, {k \in DOMAIN r : r[k].ok})
        n == Len(accepted) - Len(q)
    IN  n >= 0 /\ \A k \in DOMAIN q : q[k] = accepted[n + k].p

\* After a poll nothing is left to read but what stands behind an empty datagram,
\* which is never read.  The datagrams of a socket are read in their order of
\* arrival, and the queue is an end part of those that were accepted.  A poll that
\* reads nothing is not looked at.
PolledInOrder ==
    [][tr'.created /\ read' # read =>
        /\ \A s \in Socket : net'[s] = <<>> \/ net'[s][1].size = 0
        /\ InOrder(read', net')
        /\ EndPart(tr'.queue, read')]_vars

=============================================================================
