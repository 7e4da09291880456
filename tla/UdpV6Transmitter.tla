--------------------------- MODULE UdpV6Transmitter ---------------------------
(***************************************************************************)
(* RTPUDPv6Transmitter repeats the IPv4 class for the other family of      *)
(* addresses.  Its operations are stated with those of UdpTransmitter,     *)
(* where they read the same but for the type of an address, the membership *)
(* call (IPv6 memberships name an interface index) and the option for the  *)
(* hop limit.  Both classes run in one model-checking run.                 *)
(***************************************************************************)
EXTENDS UdpTransmitter

V6LocalIps(given, listed, named) == LocalIps(given, listed, named)
V6CreateFails(step) == CreateFails(step)
V6Create(max, given, listed, named, hopsset) == Create(max, given, listed, named, hopsset)
V6Destroy == Destroy
V6GetLocalHostName(found) == GetLocalHostName(found)
V6ComesFromThisTransmitter(ip, port) == ComesFromThisTransmitter(ip, port)
V6SetMaximumPacketSize(max) == SetMaximumPacketSize(max)

V6AddDestination(a) == AddDestination(a)
V6DeleteDestination(a) == DeleteDestination(a)
V6ClearDestinations == ClearDestinations
V6SendData(s, size) == SendData(s, size)

V6JoinMulticastGroup(g, refusedby, stuck) == JoinMulticastGroup(g, refusedby, stuck)
V6LeaveMulticastGroup(g, stuck) == LeaveMulticastGroup(g, stuck)
V6LeaveAllMulticastGroups(stuck) == LeaveAllMulticastGroups(stuck)

V6SetReceiveMode(m) == SetReceiveMode(m)
V6Added(ip, port) == Added(ip, port)
V6Deleted(ip, port) == Deleted(ip, port)

V6AddToList(mode, ip, port) == AddToList(mode, ip, port)
V6DeleteFromList(mode, ip, port) == DeleteFromList(mode, ip, port)
V6ClearList(mode) == ClearList(mode)
V6ShouldAcceptData(a) == ShouldAcceptData(a)

V6Poll == Poll
V6GetNextPacket == GetNextPacket

=============================================================================
