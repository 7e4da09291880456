----------------------------- MODULE TransmitterProofs -----------------------------
(***************************************************************************)
(* The UDP transmitter: its lists of accepted and ignored addresses, what  *)
(* it asks of the system, and the datagrams it reads, for any addresses    *)
(* and any number of calls.  The external transmitter: its locks and the   *)
(* byte that wakes its poll thread, for any number of injecting threads    *)
(* and any pipe.  The hash table that both use: for any keys and any hash  *)
(* function it behaves as the table of RtpTable.                           *)
(***************************************************************************)
EXTENDS UdpTransmitter, ExternalTransmitter, RtpKeyHashTable, CommonProofs

Entry == [all : BOOLEAN, ports : SUBSET Port]

\* The fields the proof is about.
FieldsOK ==
    /\ tr.created \in BOOLEAN /\ asked \subseteq Address
    /\ tr.created => /\ {"created", "mode", "filter", "groups"} \subseteq DOMAIN tr
                     /\ tr.mode \in Mode
                     /\ DOMAIN tr.filter \subseteq Ip
                     /\ tr.filter \in [DOMAIN tr.filter -> Entry]

\* An address is lost below an entry for all ports alone.
LostBelowAll ==
    tr.created => \A a \in lost : /\ a \in Address
                                  /\ a[1] \in DOMAIN tr.filter
                                  /\ tr.filter[a[1]].all

\* What the lists keep to: inductive.
FilterInv == FieldsOK /\ LostBelowAll /\ SelectedAsAsked

\* What the calls of the system keep to: inductive, with FilterInv.
SystemInv == DOMAIN joined = Socket /\ DOMAIN kept = Socket /\ ResourcesBalanced

-----------------------------------------------------------------------------
(* Entries.                                                                 *)

\* Without entries nothing is selected.
LEMMA NothingSelected ==
  ASSUME tr'.filter = NoFilter
  PROVE  Selected' = {}
BY DEF Selected, NoFilter

\* A port that is added is in the entry, unless it is excepted from one for all ports;
\* the others stay as they were.
LEMMA AddedEntry ==
  ASSUME FieldsOK, tr.created, NEW ip \in Ip, NEW port \in Port \cup {0}
  PROVE  LET old == IF ip \in DOMAIN tr.filter THEN Ports(tr.filter[ip]) ELSE {}
             new == Added(ip, port)
         IN  /\ new \in Entry
             /\ port = 0 => Ports(new) = Port /\ new.all
             /\ ip \in DOMAIN tr.filter /\ tr.filter[ip].all => new.all
             /\ port # 0 => /\ Ports(new) \ {port} = old \ {port}
                            /\ port \in Ports(new) <=> ~Excepted(ip, port)
                            /\ ip \in DOMAIN tr.filter /\ tr.filter[ip].all => Ports(new) = old
BY PortAssumption DEF FieldsOK, Entry, Ports, Added, Excepted

\* A port that is deleted is not in the entry; the others stay as they were.
LEMMA DeletedEntry ==
  ASSUME FieldsOK, tr.created, NEW ip \in DOMAIN tr.filter, NEW port \in Port \cup {0}
  PROVE  LET old == Ports(tr.filter[ip])
             new == Deleted(ip, port)
         IN  /\ new \in Entry
             /\ port = 0 => Ports(new) = {} /\ ~new.all
             /\ port # 0 => Ports(new) = old \ {port} /\ new.all = tr.filter[ip].all
BY PortAssumption DEF FieldsOK, Entry, Ports, Deleted

\* The addresses meant by a call are those of the IP address, with the port or all.
LEMMA MeantAddresses ==
  ASSUME NEW ip \in Ip, NEW port \in Port \cup {0}, NEW a \in Address
  PROVE  a \in Meant(ip, port) <=> a[1] = ip /\ (port = 0 \/ a[2] = port)
BY PortAssumption DEF Meant, Address

-----------------------------------------------------------------------------
(* Steps that leave the lists alone.                                        *)

\* Which fields the other calls leave as they are.
LeavesLists ==
    /\ tr'.created = tr.created
    /\ tr.created => /\ tr'.mode = tr.mode /\ tr'.filter = tr.filter
                     /\ {"created", "mode", "filter", "groups"} \subseteq DOMAIN tr'
    /\ asked' = asked /\ lost' = lost

\* The invariant of the lists stays when they do.
LEMMA ListsKept ==
  ASSUME FilterInv, LeavesLists
  PROVE  FilterInv'
<1>1. FieldsOK'
  BY DEF FilterInv, FieldsOK, LeavesLists
<1>2. tr.created => Selected' = Selected
  BY DEF LeavesLists, Selected
<1> QED
  BY <1>1, <1>2 DEF FilterInv, LostBelowAll, SelectedAsAsked, LeavesLists

\* A transmitter that is created or destroyed starts with empty lists.
LEMMA ListsEmpty ==
  ASSUME /\ asked' = {} /\ lost' = {}
         /\ tr'.created \in BOOLEAN
         /\ tr'.created => /\ {"created", "mode", "filter", "groups"} \subseteq DOMAIN tr'
                           /\ tr'.mode \in Mode /\ tr'.filter = NoFilter
  PROVE  FilterInv'
<1>1. DOMAIN NoFilter = {} /\ NoFilter \in [{} -> Entry]
  BY DEF NoFilter
<1>2. FieldsOK'
  BY <1>1 DEF FieldsOK
<1>3. tr'.created => Selected' = {}
  BY NothingSelected
<1> QED
  BY <1>2, <1>3 DEF FilterInv, LostBelowAll, SelectedAsAsked

-----------------------------------------------------------------------------
(* Calls of creation, sending, grouping and receiving.                       *)

\* A transmitter begins with empty lists, and fields about something else may change.
LEMMA CreatingKeeps ==
  ASSUME FilterInv, Creating
  PROVE  FilterInv'
<1>1. ASSUME NEW step \in CreateFailures, CreateFails(step) PROVE FilterInv'
  BY <1>1, ListsKept DEF CreateFails, LeavesLists, FilterInv, FieldsOK
<1>2. ASSUME NEW max \in 0..MaxSize, NEW ttlset \in BOOLEAN,
             NEW given, NEW listed, NEW named, Create(max, given, listed, named, ttlset)
      PROVE  FilterInv'
  <2>1. /\ tr'.created = TRUE /\ tr'.mode = "AcceptAll" /\ tr'.filter = NoFilter
        /\ {"created", "mode", "filter", "groups"} \subseteq DOMAIN tr'
        /\ asked' = {} /\ lost' = {}
    BY <1>2 DEF Create
  <2> QED
    BY <2>1, ListsEmpty DEF Mode
<1>3. CASE Destroy
  <2>1. tr'.created = FALSE /\ asked' = {} /\ lost' = {}
    BY <1>3 DEF Destroy
  <2> QED
    BY <2>1, ListsEmpty
<1>4. ASSUME NEW found \in BOOLEAN, GetLocalHostName(found) PROVE FilterInv'
  <2>1. LeavesLists
    BY <1>4 DEF GetLocalHostName, LeavesLists, FilterInv, FieldsOK
  <2> QED
    BY <2>1, ListsKept
<1>5. ASSUME NEW max \in 0..MaxSize, SetMaximumPacketSize(max) PROVE FilterInv'
  <2>1. LeavesLists
    BY <1>5 DEF SetMaximumPacketSize, LeavesLists, FilterInv, FieldsOK
  <2> QED
    BY <2>1, ListsKept
<1> QED
  BY <1>1, <1>2, <1>3, <1>4, <1>5, Zenon DEF Creating

\* Destinations, groups and datagrams are not in the lists.
LEMMA OthersKeep ==
  ASSUME FilterInv, Sending \/ Grouping \/ Receiving
  PROVE  FilterInv'
<1> USE DEF LeavesLists, FilterInv, FieldsOK
<1>1. ASSUME NEW a, AddDestination(a) \/ DeleteDestination(a) PROVE LeavesLists
  BY <1>1 DEF AddDestination, DeleteDestination
<1>2. ClearDestinations => LeavesLists
  BY DEF ClearDestinations
<1>3. ASSUME NEW s, NEW size, SendData(s, size) PROVE LeavesLists
  BY <1>3 DEF SendData
<1>4. ASSUME NEW g, NEW r, NEW stuck, JoinMulticastGroup(g, r, stuck) PROVE LeavesLists
  BY <1>4 DEF JoinMulticastGroup
<1>5. ASSUME NEW g, NEW stuck, LeaveMulticastGroup(g, stuck) PROVE LeavesLists
  BY <1>5 DEF LeaveMulticastGroup
<1>6. ASSUME NEW stuck, LeaveAllMulticastGroups(stuck) PROVE LeavesLists
  BY <1>6 DEF LeaveAllMulticastGroups
<1>7. ASSUME NEW s, NEW a, NEW size, Arrive(s, a, size) PROVE LeavesLists
  BY <1>7 DEF Arrive
<1>8. Poll => LeavesLists
  BY DEF Poll
<1>9. GetNextPacket => LeavesLists
  BY DEF GetNextPacket
<1>10. LeavesLists
  BY <1>1, <1>2, <1>3, <1>4, <1>5, <1>6, <1>7, <1>8, <1>9, Zenon
     DEF Sending, Grouping, Receiving
<1> QED
  BY <1>10, ListsKept

-----------------------------------------------------------------------------
(* Calls that change the lists.                                             *)

\* The mode that is set begins with an empty list.
LEMMA SetReceiveModeKeeps ==
  ASSUME FilterInv, NEW m \in Mode, SetReceiveMode(m)
  PROVE  FilterInv'
<1>1. /\ tr'.created = TRUE /\ tr'.mode = m /\ tr'.filter = NoFilter
      /\ {"created", "mode", "filter", "groups"} \subseteq DOMAIN tr'
      /\ asked' = {} /\ lost' = {}
  BY DEF SetReceiveMode, FilterInv, FieldsOK
<1> QED
  BY <1>1, ListsEmpty

\* Clearing takes every entry.
LEMMA ClearListKeeps ==
  ASSUME FilterInv, NEW m \in Mode, ClearList(m)
  PROVE  FilterInv'
<1>1. /\ tr'.created = TRUE /\ tr'.mode \in Mode /\ tr'.filter = NoFilter
      /\ {"created", "mode", "filter", "groups"} \subseteq DOMAIN tr'
      /\ asked' = {} /\ lost' = {}
  BY DEF ClearList, FilterInv, FieldsOK
<1> QED
  BY <1>1, ListsEmpty

\* Adding selects the address, or loses it below an entry for all ports; no other
\* address is touched.
LEMMA AddToListKeeps ==
  ASSUME FilterInv, NEW m \in Mode, NEW ip \in Ip, NEW port \in Port \cup {0},
         AddToList(m, ip, port)
  PROVE  FilterInv'
<1> DEFINE new == Added(ip, port)
           old == IF ip \in DOMAIN tr.filter THEN Ports(tr.filter[ip]) ELSE {}
<1>1. tr.created /\ FieldsOK
  BY DEF AddToList, FilterInv
<1>2. /\ tr'.created /\ tr'.created \in BOOLEAN /\ tr'.mode \in Mode
      /\ {"created", "mode", "filter", "groups"} \subseteq DOMAIN tr'
      /\ tr'.filter = [i \in DOMAIN tr.filter \cup {ip} |->
                         IF i = ip THEN new ELSE tr.filter[i]]
  BY <1>1 DEF AddToList, FieldsOK
<1>3. /\ asked' = asked \cup Meant(ip, port)
      /\ lost' = IF port = 0 THEN lost \ Meant(ip, 0)
                 ELSE IF Excepted(ip, port) THEN lost \cup Meant(ip, port)
                 ELSE lost
  BY DEF AddToList
<1>4. /\ new \in Entry
      /\ port = 0 => Ports(new) = Port /\ new.all
      /\ ip \in DOMAIN tr.filter /\ tr.filter[ip].all => new.all
      /\ port # 0 => /\ Ports(new) \ {port} = old \ {port}
                     /\ port \in Ports(new) <=> ~Excepted(ip, port)
                     /\ ip \in DOMAIN tr.filter /\ tr.filter[ip].all => Ports(new) = old
  BY <1>1, AddedEntry
<1>5. Meant(ip, port) \subseteq Address
  BY DEF Meant
<1> HIDE DEF new
<1>6. FieldsOK'
  BY <1>1, <1>2, <1>3, <1>4, <1>5 DEF FieldsOK
<1>7. LostBelowAll'
  <2> SUFFICES ASSUME NEW a \in lost'
               PROVE a \in Address /\ a[1] \in DOMAIN tr'.filter /\ tr'.filter[a[1]].all
    BY <1>2 DEF LostBelowAll
  <2>1. CASE a \in lost
    BY <1>1, <1>2, <1>4, <2>1 DEF FilterInv, LostBelowAll
  <2>2. CASE a \notin lost
    <3>1. port # 0 /\ a \in Meant(ip, port) /\ Excepted(ip, port)
      BY <1>3, <2>2
    <3>3. new.all
      BY <1>4, <3>1 DEF Excepted
    <3>2. a \in Address /\ a[1] = ip
      BY <3>1, <1>5, MeantAddresses
    <3> QED
      BY <1>2, <3>2, <3>3
  <2> QED
    BY <2>1, <2>2
<1>8. SelectedAsAsked'
  <2>1. ASSUME NEW a \in Address
        PROVE  a \in Selected' <=> a \in asked' /\ a \notin lost'
    <3>1. a \in Selected <=> a \in asked /\ a \notin lost
      BY <1>1 DEF FilterInv, SelectedAsAsked
    <3>2. a \in Selected <=> a[1] \in DOMAIN tr.filter /\ a[2] \in Ports(tr.filter[a[1]])
      BY DEF Selected
    <3>3. a \in Selected' <=> IF a[1] = ip THEN a[2] \in Ports(new)
                              ELSE a \in Selected
      BY <1>2, <3>2 DEF Selected
    <3>4. a[2] \in Port /\ a[2] # 0
      BY PortAssumption DEF Address
    <3>5. CASE port = 0
      BY <1>3, <1>4, <3>1, <3>3, <3>4, <3>5, MeantAddresses
    <3>6. CASE port # 0 /\ ~(a[1] = ip /\ a[2] = port)
      <4>1. a \notin Meant(ip, port)
        BY <3>6, MeantAddresses
      <4>2. a \in Selected' <=> a \in Selected
        BY <1>4, <3>2, <3>3, <3>6
      <4> QED
        BY <1>3, <3>1, <3>6, <4>1, <4>2
    <3>7. CASE port # 0 /\ a[1] = ip /\ a[2] = port
      <4>1. a \in Meant(ip, port)
        BY <3>7, MeantAddresses
      <4>2. a \in Selected' <=> port \in Ports(new)
        BY <3>3, <3>7
      <4>3. port \in Ports(new) => a \notin lost
        BY <1>1, <1>4, <3>1, <3>2, <3>7 DEF FilterInv, LostBelowAll
      <4> QED
        BY <1>3, <1>4, <3>7, <4>1, <4>2, <4>3
    <3> QED
      BY <3>5, <3>6, <3>7
  <2>2. asked' \subseteq Address /\ Selected' \subseteq Address
    BY <1>1, <1>3, <1>5 DEF Selected, FieldsOK
  <2> QED
    BY <2>1, <2>2 DEF SelectedAsAsked
<1> QED
  BY <1>6, <1>7, <1>8 DEF FilterInv

\* Deleting takes the addresses meant, selected or lost, and no other.
LEMMA DeleteFromListKeeps ==
  ASSUME FilterInv, NEW m \in Mode, NEW ip \in Ip, NEW port \in Port \cup {0},
         DeleteFromList(m, ip, port)
  PROVE  FilterInv'
<1> DEFINE new == Deleted(ip, port)
           old == Ports(tr.filter[ip])
<1>1. tr.created /\ FieldsOK /\ ip \in DOMAIN tr.filter
  BY DEF DeleteFromList, FilterInv
<1>2. /\ tr'.created /\ tr'.created \in BOOLEAN /\ tr'.mode \in Mode
      /\ {"created", "mode", "filter", "groups"} \subseteq DOMAIN tr'
      /\ DOMAIN tr'.filter = DOMAIN tr.filter
      /\ tr'.filter = [i \in DOMAIN tr.filter |-> IF i = ip THEN new ELSE tr.filter[i]]
  BY <1>1 DEF DeleteFromList, FieldsOK
<1>3. asked' = asked \ Meant(ip, port) /\ lost' = lost \ Meant(ip, port)
  BY DEF DeleteFromList
<1>4. /\ new \in Entry
      /\ port = 0 => Ports(new) = {} /\ ~new.all
      /\ port # 0 => Ports(new) = old \ {port} /\ new.all = tr.filter[ip].all
  BY <1>1, DeletedEntry
<1> HIDE DEF new
<1>5. FieldsOK'
  BY <1>1, <1>2, <1>3, <1>4 DEF FieldsOK
<1>6. LostBelowAll'
  <2> SUFFICES ASSUME NEW a \in lost'
               PROVE a \in Address /\ a[1] \in DOMAIN tr'.filter /\ tr'.filter[a[1]].all
    BY <1>2 DEF LostBelowAll
  <2>1. a \in lost /\ a \notin Meant(ip, port)
    BY <1>3
  <2>2. a \in Address /\ a[1] \in DOMAIN tr.filter /\ tr.filter[a[1]].all
    BY <1>1, <2>1 DEF FilterInv, LostBelowAll
  <2>3. a[1] = ip => port # 0
    BY <2>1, <2>2, MeantAddresses
  <2> QED
    BY <1>2, <1>4, <2>2, <2>3
<1>7. SelectedAsAsked'
  <2>1. ASSUME NEW a \in Address
        PROVE  a \in Selected' <=> a \in asked' /\ a \notin lost'
    <3>1. a \in Selected <=> a \in asked /\ a \notin lost
      BY <1>1 DEF FilterInv, SelectedAsAsked
    <3>2. a \in Selected <=> a[1] \in DOMAIN tr.filter /\ a[2] \in Ports(tr.filter[a[1]])
      BY DEF Selected
    <3>3. a \in Selected' <=> IF a[1] = ip THEN a[2] \in Ports(new) ELSE a \in Selected
      BY <1>1, <1>2, <3>2 DEF Selected
    <3>4. a \in Selected' <=> a \in Selected /\ a \notin Meant(ip, port)
      BY <1>1, <1>4, <3>2, <3>3, MeantAddresses
    <3> QED
      BY <1>3, <3>1, <3>4
  <2>2. asked' \subseteq Address /\ Selected' \subseteq Address
    BY <1>1, <1>3 DEF Selected, FieldsOK
  <2> QED
    BY <2>1, <2>2 DEF SelectedAsAsked
<1> QED
  BY <1>5, <1>6, <1>7 DEF FilterInv

\* The lists of every behaviour.
LEMMA FilterInductive == Spec => []FilterInv
<1>1. Init => FilterInv
  BY DEF Init, FilterInv, FieldsOK, LostBelowAll, SelectedAsAsked
<1>2. FilterInv /\ [Next]_vars => FilterInv'
  <2> SUFFICES ASSUME FilterInv, [Next]_vars PROVE FilterInv'
    OBVIOUS
  <2>1. CASE Creating
    BY <2>1, CreatingKeeps
  <2>2. CASE Sending \/ Grouping \/ Receiving
    BY <2>2, OthersKeep
  <2>3. CASE Filtering
    BY <2>3, SetReceiveModeKeeps, AddToListKeeps, DeleteFromListKeeps, ClearListKeeps, Zenon
       DEF Filtering
  <2>4. CASE UNCHANGED vars
    <3>1. LeavesLists
      BY <2>4 DEF vars, LeavesLists, FilterInv, FieldsOK
    <3> QED
      BY <3>1, ListsKept
  <2> QED
    BY <2>1, <2>2, <2>3, <2>4 DEF Next
<1> QED
  BY <1>1, <1>2, PTL DEF Spec

-----------------------------------------------------------------------------
(* Descriptors and memberships.                                             *)

\* Which state the calls that open, close and join nothing leave as it is.
LeavesSystem ==
    /\ fds' = fds /\ joined' = joined /\ kept' = kept
    /\ tr'.created = tr.created
    /\ tr.created => tr'.groups = tr.groups

\* The invariant of the system's calls stays when there are none.
LEMMA SystemKept ==
  ASSUME FilterInv, SystemInv, LeavesSystem
  PROVE  SystemInv'
BY DEF SystemInv, ResourcesBalanced, LeavesSystem, FilterInv, FieldsOK

\* A failure closes at least what was opened until there.
LEMMA CreatingBalances ==
  ASSUME FilterInv, SystemInv, Creating
  PROVE  SystemInv'
<1>1. ASSUME NEW step \in CreateFailures, CreateFails(step) PROVE SystemInv'
  <2>1. ~tr.created /\ fds = {} /\ fds' = (fds \cup Opened(step)) \ ClosedAt(step)
        /\ tr' = tr /\ joined' = joined /\ kept' = kept
    BY <1>1 DEF CreateFails, SystemInv, ResourcesBalanced
  <2>2. Opened(step) \subseteq ClosedAt(step)
    BY DEF CreateFailures, Opened, ClosedAt
  <2> QED
    BY <2>1, <2>2 DEF SystemInv, ResourcesBalanced
<1>2. ASSUME NEW max \in 0..MaxSize, NEW ttlset \in BOOLEAN,
             NEW given, NEW listed, NEW named, Create(max, given, listed, named, ttlset)
      PROVE  SystemInv'
  <2>1. tr'.created = TRUE /\ tr'.groups = {}
    BY <1>2 DEF Create
  <2>2. ~tr.created /\ fds' = fds \cup Opened("ok") /\ joined' = joined /\ kept' = Closed
    BY <1>2 DEF Create
  <2> QED
    BY <2>1, <2>2 DEF SystemInv, ResourcesBalanced, Closed
<1>3. CASE Destroy
  <2>1. tr.created /\ tr'.created = FALSE /\ fds' = fds \ (Socket \cup {"pipe"})
        /\ joined' = Closed /\ kept' = Closed
    BY <1>3 DEF Destroy
  <2>2. Opened("ok") = Socket \cup {"pipe"}
    BY DEF Opened
  <2> QED
    BY <2>1, <2>2 DEF SystemInv, ResourcesBalanced, Closed
<1>4. ASSUME NEW found \in BOOLEAN, GetLocalHostName(found) PROVE SystemInv'
  <2>1. LeavesSystem
    BY <1>4 DEF GetLocalHostName, LeavesSystem, sysvars, FilterInv, FieldsOK
  <2> QED
    BY <2>1, SystemKept
<1>5. ASSUME NEW max \in 0..MaxSize, SetMaximumPacketSize(max) PROVE SystemInv'
  <2>1. LeavesSystem
    BY <1>5 DEF SetMaximumPacketSize, LeavesSystem, sysvars, FilterInv, FieldsOK
  <2> QED
    BY <2>1, SystemKept
<1> QED
  BY <1>1, <1>2, <1>3, <1>4, <1>5, Zenon DEF Creating

\* Groups that are left, and stay where the system refuses it, are accounted for.
LEMMA LeaveBalances ==
  ASSUME SystemInv, tr.created, NEW gs \in SUBSET tr.groups, NEW stuck, Leave(gs, stuck)
  PROVE  /\ DOMAIN joined' = Socket /\ DOMAIN kept' = Socket
         /\ \A s \in Socket : joined'[s] = (tr.groups \ gs) \cup kept'[s]
<1>1. /\ joined' = [s \in Socket |-> joined[s] \ (gs \ stuck[s])]
      /\ kept' = [s \in Socket |-> (kept[s] \ gs) \cup (gs \cap stuck[s])]
  BY DEF Leave
<1>2. ASSUME NEW s \in Socket PROVE joined'[s] = (tr.groups \ gs) \cup kept'[s]
  <2>1. joined[s] = tr.groups \cup kept[s]
    BY DEF SystemInv, ResourcesBalanced
  <2>2. /\ joined'[s] = joined[s] \ (gs \ stuck[s])
        /\ kept'[s] = (kept[s] \ gs) \cup (gs \cap stuck[s])
    BY <1>1
  <2> QED
    BY <2>1, <2>2
<1> QED
  BY <1>1, <1>2

\* Both sockets join or none; a socket that is refused takes the other one back, and
\* what the system refuses to take back is accounted for.
LEMMA GroupingBalances ==
  ASSUME FilterInv, SystemInv, Grouping
  PROVE  SystemInv'
<1> USE DEF FilterInv, FieldsOK, SystemInv, ResourcesBalanced
<1>1. ASSUME NEW g \in Group, NEW r \in SUBSET Socket, NEW stuck,
             JoinMulticastGroup(g, r, stuck)
      PROVE  SystemInv'
  <2>1. tr.created /\ g \notin tr.groups /\ fds' = fds
    BY <1>1 DEF JoinMulticastGroup
  <2>2. CASE r = {}
    <3>1. tr'.created = tr.created /\ tr'.groups = tr.groups \cup {g}
      BY <1>1, <2>1, <2>2 DEF JoinMulticastGroup
    <3>2. /\ joined' = [s \in Socket |-> joined[s] \cup {g}]
          /\ kept' = [s \in Socket |-> kept[s] \ {g}]
      BY <1>1, <2>2 DEF JoinMulticastGroup
    <3> QED
      BY <2>1, <3>1, <3>2
  <2>3. CASE "rtp" \in r
    BY <1>1, <2>3 DEF JoinMulticastGroup
  <2>4. CASE r = {"rtcp"}
    <3> DEFINE rest(old) == IF g \in stuck["rtp"] THEN old \cup {g} ELSE old \ {g}
    <3>1. /\ tr' = tr
          /\ joined' = [joined EXCEPT !["rtp"] = rest(joined["rtp"])]
          /\ kept' = [kept EXCEPT !["rtp"] = rest(kept["rtp"])]
      BY <1>1, <2>4 DEF JoinMulticastGroup
    <3>2. /\ joined'["rtp"] = rest(joined["rtp"]) /\ joined'["rtcp"] = joined["rtcp"]
          /\ kept'["rtp"] = rest(kept["rtp"]) /\ kept'["rtcp"] = kept["rtcp"]
          /\ DOMAIN joined' = Socket /\ DOMAIN kept' = Socket
      BY <3>1 DEF Socket
    <3>3. rest(tr.groups \cup kept["rtp"]) = tr.groups \cup rest(kept["rtp"])
      BY <2>1
    <3>4. joined["rtp"] = tr.groups \cup kept["rtp"] /\ joined["rtcp"] = tr.groups \cup kept["rtcp"]
      BY <2>1 DEF Socket
    <3> HIDE DEF rest
    <3>5. \A s \in Socket : joined'[s] = tr.groups \cup kept'[s]
      BY <3>2, <3>3, <3>4, Zenon DEF Socket
    <3> QED
      BY <2>1, <3>1, <3>2, <3>5
  <2> QED
    BY <1>1, <2>2, <2>3, <2>4 DEF JoinMulticastGroup
<1>2. ASSUME NEW g \in Group, NEW stuck, LeaveMulticastGroup(g, stuck) PROVE SystemInv'
  <2>1. /\ tr.created /\ tr'.created = tr.created /\ tr'.groups = tr.groups \ {g}
        /\ fds' = fds /\ {g} \in SUBSET tr.groups /\ Leave({g}, stuck)
    BY <1>2 DEF LeaveMulticastGroup
  <2> HIDE DEF SystemInv, ResourcesBalanced
  <2>2. /\ DOMAIN joined' = Socket /\ DOMAIN kept' = Socket
        /\ \A s \in Socket : joined'[s] = (tr.groups \ {g}) \cup kept'[s]
    BY <2>1, LeaveBalances
  <2>3. fds = Opened("ok")
    BY <2>1 DEF SystemInv, ResourcesBalanced
  <2> QED
    BY <2>1, <2>2, <2>3 DEF SystemInv, ResourcesBalanced
<1>3. ASSUME NEW stuck, LeaveAllMulticastGroups(stuck) PROVE SystemInv'
  <2>1. /\ tr.created /\ tr'.created = tr.created /\ tr'.groups = tr.groups \ tr.groups
        /\ fds' = fds /\ tr.groups \in SUBSET tr.groups /\ Leave(tr.groups, stuck)
    BY <1>3 DEF LeaveAllMulticastGroups
  <2> HIDE DEF SystemInv, ResourcesBalanced
  <2>2. /\ DOMAIN joined' = Socket /\ DOMAIN kept' = Socket
        /\ \A s \in Socket : joined'[s] = (tr.groups \ tr.groups) \cup kept'[s]
    BY <2>1, LeaveBalances
  <2>3. fds = Opened("ok")
    BY <2>1 DEF SystemInv, ResourcesBalanced
  <2> QED
    BY <2>1, <2>2, <2>3 DEF SystemInv, ResourcesBalanced
<1> QED
  BY <1>1, <1>2, <1>3, Zenon DEF Grouping

\* Lists, destinations and datagrams open, close and join nothing.
LEMMA OthersBalance ==
  ASSUME FilterInv, SystemInv, Sending \/ Filtering \/ Receiving
  PROVE  SystemInv'
<1> USE DEF LeavesSystem, FilterInv, FieldsOK, sysvars
<1>1. ASSUME NEW a, AddDestination(a) \/ DeleteDestination(a) PROVE LeavesSystem
  BY <1>1 DEF AddDestination, DeleteDestination
<1>2. ClearDestinations => LeavesSystem
  BY DEF ClearDestinations
<1>3. ASSUME NEW s, NEW size, SendData(s, size) PROVE LeavesSystem
  BY <1>3 DEF SendData
<1>4. ASSUME NEW m, SetReceiveMode(m) PROVE LeavesSystem
  BY <1>4 DEF SetReceiveMode
<1>5. ASSUME NEW m, NEW ip, NEW port, AddToList(m, ip, port) PROVE LeavesSystem
  BY <1>5 DEF AddToList
<1>6. ASSUME NEW m, NEW ip, NEW port, DeleteFromList(m, ip, port) PROVE LeavesSystem
  BY <1>6 DEF DeleteFromList
<1>7. ASSUME NEW m, ClearList(m) PROVE LeavesSystem
  BY <1>7 DEF ClearList
<1>8. ASSUME NEW s, NEW a, NEW size, Arrive(s, a, size) PROVE LeavesSystem
  BY <1>8 DEF Arrive
<1>9. Poll => LeavesSystem
  BY DEF Poll
<1>10. GetNextPacket => LeavesSystem
  BY DEF GetNextPacket
<1>11. LeavesSystem
  BY <1>1, <1>2, <1>3, <1>4, <1>5, <1>6, <1>7, <1>8, <1>9, <1>10, Zenon
     DEF Sending, Filtering, Receiving
<1> QED
  BY <1>11, SystemKept

\* Descriptors and memberships of every behaviour.
LEMMA SystemInductive == Spec => []SystemInv
<1>1. Init => SystemInv
  BY DEF Init, SystemInv, ResourcesBalanced, Closed
<1>2. FilterInv /\ SystemInv /\ [Next]_vars => SystemInv'
  <2> SUFFICES ASSUME FilterInv, SystemInv, [Next]_vars PROVE SystemInv'
    OBVIOUS
  <2>1. CASE UNCHANGED vars
    BY <2>1 DEF vars, SystemInv, ResourcesBalanced
  <2> QED
    BY <2>1, CreatingBalances, GroupingBalances, OthersBalance, Zenon DEF Next
<1> QED
  BY <1>1, <1>2, FilterInductive, PTL DEF Spec

-----------------------------------------------------------------------------
(* Datagrams.                                                               *)

\* A datagram is our own when it comes from one of our sockets, and not else.
Datagram == {d \in [id : Nat, from : Address \cup OwnAddress, size : 0..MaxSize, own : BOOLEAN] :
               d.own <=> d.from \in OwnAddress}
Taken == [d : Datagram, s : Socket]
Reading == [p : Taken, ok : BOOLEAN]

\* The loopback address is among ours when the interfaces are and nobody else is.
TrafficTypes ==
    /\ tr.created \in BOOLEAN
    /\ net \in [Socket -> Seq(Datagram)] /\ read \in Seq(Reading)
    /\ tr.created => /\ {"created", "queue", "dest", "given", "localips"} \subseteq DOMAIN tr
                     /\ tr.queue \in Seq(Taken)
                     /\ tr.dest \in Seq(Address \cup OwnAddress)
                     /\ /\ tr.given = {} \/ Loopback \in tr.given
                        /\ Interfaces \subseteq tr.localips /\ tr.localips \subseteq Host
                        => tr.localips = Host
    /\ ~tr.created => net = Silent /\ read = <<>>

Seen == Len(read) + Len(net["rtp"]) + Len(net["rtcp"])

\* No number is above that of the last arrival.
Numbered ==
    /\ \A i \in DOMAIN read : read[i].p.d.id <= Seen
    /\ \A s \in Socket : \A i \in DOMAIN net[s] : net[s][i].id <= Seen
    /\ InOrder(read, net)

Queued == tr.created => EndPart(tr.queue, read)

\* What the datagrams keep to: inductive.
TrafficInv == TrafficTypes /\ Numbered /\ Queued

\* The sequences, for use in arithmetic.
LEMMA TrafficLengths ==
  ASSUME TrafficTypes
  PROVE  /\ Len(read) \in Nat /\ DOMAIN read = 1..Len(read)
         /\ \A i \in DOMAIN read : read[i] \in Reading
         /\ DOMAIN net = Socket
         /\ \A s \in Socket : /\ net[s] \in Seq(Datagram)
                              /\ Len(net[s]) \in Nat /\ DOMAIN net[s] = 1..Len(net[s])
                              /\ \A i \in DOMAIN net[s] : net[s][i] \in Datagram
         /\ Seen \in Nat
<1>1. read \in Seq(Reading) /\ \A s \in Socket : net[s] \in Seq(Datagram)
  BY DEF TrafficTypes
<1>2. Len(read) \in Nat /\ DOMAIN read = 1..Len(read) /\ \A i \in DOMAIN read : read[i] \in Reading
  BY <1>1, LenProperties, ElementOfSeq
<1>3. \A s \in Socket : /\ Len(net[s]) \in Nat /\ DOMAIN net[s] = 1..Len(net[s])
                        /\ \A i \in DOMAIN net[s] : net[s][i] \in Datagram
  BY <1>1, LenProperties, ElementOfSeq
<1>4. Len(net["rtp"]) \in Nat /\ Len(net["rtcp"]) \in Nat
  BY <1>3 DEF Socket
<1>5. Seen \in Nat
  <2> DEFINE r == Len(read)
             p == Len(net["rtp"])
             q == Len(net["rtcp"])
  <2>1. r \in Nat /\ p \in Nat /\ q \in Nat
    BY <1>2, <1>4
  <2>2. Seen = r + p + q
    BY DEF Seen
  <2> HIDE DEF r, p, q
  <2> QED
    BY <2>1, <2>2
<1> QED
  BY <1>1, <1>2, <1>3, <1>5 DEF TrafficTypes

\* Which state the calls about something else leave as it is.
LeavesTraffic ==
    /\ net' = net /\ read' = read
    /\ tr'.created = tr.created
    /\ tr.created => /\ tr'.queue = tr.queue /\ tr'.dest = tr.dest
                     /\ tr'.given = tr.given /\ tr'.localips = tr.localips
                     /\ {"created", "queue", "dest", "given", "localips"} \subseteq DOMAIN tr'

\* The invariant of the datagrams stays when they do.
LEMMA TrafficKept ==
  ASSUME TrafficInv, LeavesTraffic
  PROVE  TrafficInv'
<1>1. Seen' = Seen
  BY DEF LeavesTraffic, Seen
<1>2. TrafficTypes'
  BY DEF TrafficInv, LeavesTraffic, TrafficTypes
<1>3. Numbered' /\ Queued'
  BY <1>1 DEF TrafficInv, LeavesTraffic, Numbered, Queued
<1> QED
  BY <1>2, <1>3 DEF TrafficInv

\* Creation, lists and groups leave the datagrams alone.
LEMMA OthersLeaveTraffic ==
  ASSUME TrafficInv, Grouping \/ Filtering
  PROVE  LeavesTraffic
<1> USE DEF LeavesTraffic, TrafficInv, TrafficTypes, sysvars
<1>1. ASSUME NEW g, NEW r, NEW stuck, JoinMulticastGroup(g, r, stuck) PROVE LeavesTraffic
  BY <1>1 DEF JoinMulticastGroup
<1>2. ASSUME NEW g, NEW stuck, LeaveMulticastGroup(g, stuck) PROVE LeavesTraffic
  BY <1>2 DEF LeaveMulticastGroup
<1>3. ASSUME NEW stuck, LeaveAllMulticastGroups(stuck) PROVE LeavesTraffic
  BY <1>3 DEF LeaveAllMulticastGroups
<1>4. ASSUME NEW m, SetReceiveMode(m) PROVE LeavesTraffic
  BY <1>4 DEF SetReceiveMode
<1>5. ASSUME NEW m, NEW ip, NEW port, AddToList(m, ip, port) PROVE LeavesTraffic
  BY <1>5 DEF AddToList
<1>6. ASSUME NEW m, NEW ip, NEW port, DeleteFromList(m, ip, port) PROVE LeavesTraffic
  BY <1>6 DEF DeleteFromList
<1>7. ASSUME NEW m, ClearList(m) PROVE LeavesTraffic
  BY <1>7 DEF ClearList
<1> QED
  BY <1>1, <1>2, <1>3, <1>4, <1>5, <1>6, <1>7, Zenon DEF Grouping, Filtering

\* Nothing has arrived or was read where a transmitter begins or ends.
LEMMA TrafficEmpty ==
  ASSUME tr'.created \in BOOLEAN, net' = Silent, read' = <<>>,
         tr'.created => /\ {"created", "queue", "dest", "given", "localips"} \subseteq DOMAIN tr'
                        /\ tr'.queue = <<>> /\ tr'.dest = <<>>
                        /\ /\ tr'.given = {} \/ Loopback \in tr'.given
                           /\ Interfaces \subseteq tr'.localips /\ tr'.localips \subseteq Host
                           => tr'.localips = Host
  PROVE  TrafficInv'
<1>1. \A S : <<>> \in Seq(S) /\ Len(<<>>) = 0 /\ DOMAIN <<>> = {}
  BY EmptySeq
<1>2. Silent \in [Socket -> Seq(Datagram)] /\ \A s \in Socket : Silent[s] = <<>>
  BY <1>1 DEF Silent
<1>3. TrafficTypes'
  BY <1>1, <1>2 DEF TrafficTypes
<1>4. Numbered'
  BY <1>1, <1>2 DEF Numbered, InOrder
<1>5. Queued'
  <2>1. {k \in DOMAIN read' : read'[k].ok} = {}
    BY <1>1
  <2>2. Picked(read', {}) = <<>>
    <3>1. Cardinality({}) = 0
      BY FS_EmptySet
    <3>2. 1..0 = {}
      OBVIOUS
    <3> QED
      BY <3>1, <3>2 DEF Picked
  <2>3. Len(Picked(read', {})) = 0
    BY <1>1, <2>2
  <2>4. tr'.created => EndPart(tr'.queue, read')
    BY <1>1, <2>1, <2>3 DEF EndPart
  <2> QED
    BY <2>4 DEF Queued
<1> QED
  BY <1>3, <1>4, <1>5 DEF TrafficInv

\* Creation and destruction.
LEMMA CreatingTraffic ==
  ASSUME TrafficInv, Creating
  PROVE  TrafficInv'
<1>1. ASSUME NEW step \in CreateFailures, CreateFails(step) PROVE TrafficInv'
  BY <1>1, TrafficKept DEF CreateFails, LeavesTraffic, TrafficInv, TrafficTypes
<1>2. ASSUME NEW max \in 0..MaxSize, NEW ttlset \in BOOLEAN,
             NEW given, NEW listed, NEW named,
             Create(max, given, listed, named, ttlset)
      PROVE  TrafficInv'
  <2>1. /\ ~tr.created /\ net' = net /\ read' = read
        /\ tr'.created = TRUE /\ tr'.queue = <<>> /\ tr'.dest = <<>>
        /\ {"created", "queue", "dest", "given", "localips"} \subseteq DOMAIN tr'
        /\ tr'.given = given /\ tr'.localips = LocalIps(given, listed, named)
    BY <1>2 DEF Create
  <2>2. net' = Silent /\ read' = <<>>
    BY <2>1 DEF TrafficInv, TrafficTypes
  <2>3. tr'.given = {} \/ Loopback \in tr'.given => Loopback \in tr'.localips
    BY <2>1 DEF LocalIps
  <2>4. /\ tr'.given = {} \/ Loopback \in tr'.given
        /\ Interfaces \subseteq tr'.localips /\ tr'.localips \subseteq Host
        => tr'.localips = Host
    BY <2>3 DEF Host
  <2> QED
    BY <2>1, <2>2, <2>4, TrafficEmpty
<1>3. CASE Destroy
  <2>1. tr'.created = FALSE /\ net' = Silent /\ read' = <<>>
    BY <1>3 DEF Destroy
  <2> QED
    BY <2>1, TrafficEmpty
<1>4. ASSUME NEW found \in BOOLEAN, GetLocalHostName(found) PROVE TrafficInv'
  <2>1. LeavesTraffic
    BY <1>4 DEF GetLocalHostName, LeavesTraffic, sysvars, TrafficInv, TrafficTypes
  <2> QED
    BY <2>1, TrafficKept
<1>5. ASSUME NEW max \in 0..MaxSize, SetMaximumPacketSize(max) PROVE TrafficInv'
  <2>1. LeavesTraffic
    BY <1>5 DEF SetMaximumPacketSize, LeavesTraffic, sysvars, TrafficInv, TrafficTypes
  <2> QED
    BY <2>1, TrafficKept
<1> QED
  BY <1>1, <1>2, <1>3, <1>4, <1>5, Zenon DEF Creating

\* The destinations stay a list of addresses.
LEMMA DestinationsTraffic ==
  ASSUME TrafficInv,
         \/ \E a \in Address \cup OwnAddress : AddDestination(a) \/ DeleteDestination(a)
         \/ ClearDestinations
  PROVE  TrafficInv'
<1> DEFINE S == Address \cup OwnAddress
<1>1. /\ tr.created /\ TrafficTypes /\ Numbered /\ Queued
      /\ net' = net /\ read' = read
      /\ tr'.created = tr.created /\ tr'.queue = tr.queue
      /\ tr'.given = tr.given /\ tr'.localips = tr.localips
      /\ DOMAIN tr' = DOMAIN tr
  BY DEF AddDestination, DeleteDestination, ClearDestinations, sysvars, TrafficInv, TrafficTypes
<1>2. tr.dest \in Seq(S)
  BY <1>1 DEF TrafficTypes
<1>3. tr'.dest \in Seq(S)
  <2>1. ASSUME NEW a \in S, AddDestination(a) PROVE tr'.dest \in Seq(S)
    <3>1. tr'.dest = Append(tr.dest, a)
      BY <1>1, <2>1 DEF AddDestination, TrafficTypes
    <3> QED
      BY <1>2, <3>1, AppendProperties
  <2>2. ASSUME NEW a \in S, DeleteDestination(a) PROVE tr'.dest \in Seq(S)
    <3>1. tr'.dest = Picked(tr.dest, {k \in DOMAIN tr.dest : tr.dest[k] # a})
      BY <1>1, <2>2 DEF DeleteDestination, TrafficTypes
    <3>2. {k \in DOMAIN tr.dest : tr.dest[k] # a} \in SUBSET (DOMAIN tr.dest)
      OBVIOUS
    <3> HIDE DEF S
    <3> QED
      BY <1>2, <3>1, <3>2, PickedIs
  <2>3. CASE ClearDestinations
    <3>1. tr'.dest = <<>>
      BY <1>1, <2>3 DEF ClearDestinations, TrafficTypes
    <3> QED
      BY <3>1, EmptySeq
  <2> QED
    BY <2>1, <2>2, <2>3
<1>4. TrafficTypes'
  BY <1>1, <1>3 DEF TrafficTypes
<1>5. Numbered' /\ Queued'
  BY <1>1 DEF Numbered, Queued, Seen
<1> QED
  BY <1>4, <1>5 DEF TrafficInv

-----------------------------------------------------------------------------
(* Datagrams arrive.                                                        *)

\* Those that come are numbered on.
LEMMA NumbersGrow ==
  ASSUME TrafficInv, read' = read, net' \in [Socket -> Seq(Datagram)],
         NEW x \in [Socket -> Seq(Datagram)],
         \A s \in Socket :
            /\ Len(net'[s]) = Len(net[s]) + Len(x[s])
            /\ \A k \in 1..Len(net[s]) : net'[s][k] = net[s][k]
            /\ \A k \in 1..Len(x[s]) : /\ net'[s][Len(net[s]) + k] = x[s][k]
                                       /\ x[s][k].id = Seen + k
  PROVE  Numbered'
<1>1. /\ Len(read) \in Nat /\ DOMAIN read = 1..Len(read)
      /\ \A i \in DOMAIN read : read[i] \in Reading
      /\ \A s \in Socket : /\ net[s] \in Seq(Datagram)
                           /\ Len(net[s]) \in Nat /\ DOMAIN net[s] = 1..Len(net[s])
                           /\ \A i \in DOMAIN net[s] : net[s][i] \in Datagram
      /\ Seen \in Nat
  BY TrafficLengths DEF TrafficInv
<1>2. \A s \in Socket : Len(x[s]) \in Nat /\ DOMAIN net'[s] = 1..Len(net'[s])
  BY LenProperties
<1>3. Seen' = Seen + Len(x["rtp"]) + Len(x["rtcp"])
  <2>1. Seen' = Len(read) + (Len(net["rtp"]) + Len(x["rtp"])) + (Len(net["rtcp"]) + Len(x["rtcp"]))
    BY DEF Seen, Socket
  <2>2. /\ Len(net["rtp"]) \in Nat /\ Len(net["rtcp"]) \in Nat
        /\ Len(x["rtp"]) \in Nat /\ Len(x["rtcp"]) \in Nat
    BY <1>1, <1>2 DEF Socket
  <2> DEFINE r == Len(read)
             p == Len(net["rtp"])
             q == Len(net["rtcp"])
             y == Len(x["rtp"])
             z == Len(x["rtcp"])
  <2>3. r \in Nat /\ p \in Nat /\ q \in Nat /\ y \in Nat /\ z \in Nat
    BY <1>1, <2>2
  <2> HIDE DEF r, p, q, y, z
  <2>4. r + (p + y) + (q + z) = (r + p + q) + y + z
    BY <2>3
  <2> QED
    BY <2>1, <2>4 DEF r, p, q, y, z, Seen
<1>4. \A s \in Socket : Seen + Len(x[s]) <= Seen'
  BY <1>1, <1>2, <1>3 DEF Socket
<1>5. Seen' \in Nat /\ Seen <= Seen'
  BY <1>1, <1>2, <1>3 DEF Socket
<1>6. \A i \in DOMAIN read : read[i].p.d.id \in Nat /\ read[i].p.d.id <= Seen
  BY <1>1 DEF TrafficInv, Numbered, Reading, Taken, Datagram
<1>7. \A s \in Socket : \A i \in DOMAIN net[s] : net[s][i].id \in Nat /\ net[s][i].id <= Seen
  BY <1>1 DEF TrafficInv, Numbered, Datagram
<1>8. ASSUME NEW s \in Socket, NEW i \in DOMAIN net'[s]
      PROVE  \/ i \in DOMAIN net[s] /\ net'[s][i] = net[s][i]
             \/ /\ i - Len(net[s]) \in 1..Len(x[s]) /\ i \in Nat
                /\ net'[s][i].id = Seen + (i - Len(net[s]))
  <2> DEFINE l == Len(net[s])
             m == Len(x[s])
  <2>1. i \in 1..(l + m) /\ l \in Nat /\ m \in Nat
    BY <1>1, <1>2
  <2>2. CASE i <= l
    <3>1. i \in 1..l
      BY <2>1, <2>2
    <3> QED
      BY <1>1, <3>1
  <2>3. CASE ~(i <= l)
    <3>1. i - l \in 1..m /\ l + (i - l) = i /\ i \in Nat
      BY <2>1, <2>3
    <3>2. net'[s][l + (i - l)] = x[s][i - l] /\ x[s][i - l].id = Seen + (i - l)
      BY <3>1
    <3> QED
      BY <3>1, <3>2
  <2> QED
    BY <2>2, <2>3
<1>9. ASSUME NEW s \in Socket, NEW i \in DOMAIN net'[s] PROVE net'[s][i].id <= Seen'
  <2>1. CASE i \in DOMAIN net[s] /\ net'[s][i] = net[s][i]
    BY <1>1, <1>5, <1>7, <2>1
  <2>2. CASE /\ i - Len(net[s]) \in 1..Len(x[s])
             /\ net'[s][i].id = Seen + (i - Len(net[s]))
    BY <1>1, <1>2, <1>4, <1>5, <2>2
  <2> QED
    BY <1>8, <2>1, <2>2
<1>10. ASSUME NEW i \in DOMAIN read, NEW k \in DOMAIN net'[read[i].p.s]
       PROVE  read[i].p.d.id < net'[read[i].p.s][k].id
  <2>1. read[i].p.s \in Socket
    BY <1>1 DEF Reading, Taken
  <2> DEFINE s == read[i].p.s
  <2>2. CASE k \in DOMAIN net[s] /\ net'[s][k] = net[s][k]
    BY <2>1, <2>2 DEF TrafficInv, Numbered, InOrder
  <2>3. CASE /\ k - Len(net[s]) \in 1..Len(x[s])
             /\ net'[s][k].id = Seen + (k - Len(net[s]))
    <3> DEFINE j == k - Len(net[s])
    <3>1. j \in Nat /\ 1 <= j /\ net'[s][k].id = Seen + j
      BY <1>2, <2>1, <2>3
    <3> HIDE DEF j
    <3> QED
      BY <1>1, <1>6, <3>1
  <2> QED
    BY <1>8, <2>1, <2>2, <2>3
<1>11. ASSUME NEW s \in Socket, NEW i \in DOMAIN net'[s], NEW j \in DOMAIN net'[s], i < j
       PROVE  net'[s][i].id < net'[s][j].id
  <2>0. Len(net[s]) \in Nat /\ Len(x[s]) \in Nat /\ i \in 1..(Len(net[s]) + Len(x[s]))
        /\ j \in 1..(Len(net[s]) + Len(x[s]))
    BY <1>1, <1>2
  <2>1. CASE j \in DOMAIN net[s] /\ net'[s][j] = net[s][j]
    <3>1. i \in DOMAIN net[s]
      BY <1>1, <1>11, <2>0, <2>1
    <3>2. net'[s][i] = net[s][i]
      BY <1>1, <3>1
    <3> QED
      BY <1>11, <2>1, <3>1, <3>2 DEF TrafficInv, Numbered, InOrder
  <2>2. CASE /\ j - Len(net[s]) \in 1..Len(x[s])
             /\ net'[s][j].id = Seen + (j - Len(net[s]))
    <3>1. CASE i \in DOMAIN net[s] /\ net'[s][i] = net[s][i]
      <4> DEFINE h == net[s][i].id
                 d == j - Len(net[s])
      <4>1. h \in Nat /\ h <= Seen /\ Seen \in Nat
        BY <1>1, <1>7, <3>1
      <4>2. d \in Nat /\ 1 <= d
        BY <2>0, <2>2
      <4>3. net'[s][i].id = h /\ net'[s][j].id = Seen + d
        BY <2>2, <3>1
      <4> HIDE DEF h, d
      <4>4. h < Seen + d
        BY <4>1, <4>2
      <4> QED
        BY <4>3, <4>4
    <3>2. CASE net'[s][i].id = Seen + (i - Len(net[s]))
      BY <1>1, <1>11, <2>0, <2>2, <3>2
    <3> QED
      BY <1>8, <3>1, <3>2
  <2> QED
    BY <1>8, <2>1, <2>2
<1>12. InOrder(read, net')
  <2>1. \A i, j \in DOMAIN read : i < j /\ read[i].p.s = read[j].p.s
                                     => read[i].p.d.id < read[j].p.d.id
    BY DEF TrafficInv, Numbered, InOrder
  <2> QED
    BY <1>10, <1>11, <2>1 DEF InOrder
<1>13. \A i \in DOMAIN read : read[i].p.d.id <= Seen'
  BY <1>1, <1>5, <1>6
<1> QED
  BY <1>9, <1>12, <1>13 DEF Numbered

\* What arrives leaves the types and the queue as they were.
LEMMA ArrivalsKeep ==
  ASSUME TrafficInv, tr' = tr, tr.created, read' = read, net' \in [Socket -> Seq(Datagram)],
         NEW x \in [Socket -> Seq(Datagram)],
         \A s \in Socket :
            /\ Len(net'[s]) = Len(net[s]) + Len(x[s])
            /\ \A k \in 1..Len(net[s]) : net'[s][k] = net[s][k]
            /\ \A k \in 1..Len(x[s]) : /\ net'[s][Len(net[s]) + k] = x[s][k]
                                       /\ x[s][k].id = Seen + k
  PROVE  TrafficInv'
<1>1. Numbered'
  BY NumbersGrow
<1>2. TrafficTypes'
  BY DEF TrafficInv, TrafficTypes
<1>3. Queued'
  BY DEF TrafficInv, Queued
<1> QED
  BY <1>1, <1>2, <1>3 DEF TrafficInv

\* What is sent to ourselves comes from one of our sockets.
LEMMA SendDataTraffic ==
  ASSUME TrafficInv, NEW s \in Socket, NEW size \in 0..MaxSize, SendData(s, size)
  PROVE  TrafficInv'
<1> DEFINE S == Address \cup OwnAddress
           echo(r) == Picked(tr.dest, Ourselves(s, r))
           datagram(r, k) == [id |-> Seen + k, from |-> <<echo(r)[k][1], PortBase + Offset(s)>>,
                              size |-> size, own |-> TRUE]
           x == [r \in Socket |-> [k \in 1..Len(echo(r)) |-> datagram(r, k)]]
<1>1. tr.created /\ tr' = tr /\ read' = read /\ TrafficTypes
  BY DEF SendData, TrafficInv
<1>2. tr.dest \in Seq(S)
  BY <1>1 DEF TrafficTypes
<1>3. /\ \A r \in Socket : net[r] \in Seq(Datagram) /\ Len(net[r]) \in Nat
      /\ Seen \in Nat
  BY <1>1, TrafficLengths
<1>4. ASSUME NEW r \in Socket
      PROVE  /\ echo(r) \in Seq(S) /\ Len(echo(r)) \in Nat
             /\ DOMAIN echo(r) = 1..Len(echo(r))
             /\ \A k \in 1..Len(echo(r)) : echo(r)[k][1] \in Host
  <2>1. Ourselves(s, r) \in SUBSET (DOMAIN tr.dest)
    BY DEF Ourselves
  <2> HIDE DEF S
  <2>2. /\ echo(r) \in Seq(S)
        /\ Len(echo(r)) = Cardinality(Ourselves(s, r))
        /\ \A k \in 1..Cardinality(Ourselves(s, r)) :
              /\ Nth(Ourselves(s, r), k) \in Ourselves(s, r)
              /\ echo(r)[k] = tr.dest[Nth(Ourselves(s, r), k)]
    BY <1>2, <2>1, PickedIs
  <2>3. \A i \in Ourselves(s, r) : tr.dest[i][1] \in Host
    BY DEF Ourselves
  <2>4. Len(echo(r)) \in Nat /\ DOMAIN echo(r) = 1..Len(echo(r))
    BY <2>2, LenProperties
  <2> HIDE DEF echo
  <2>5. ASSUME NEW k \in 1..Len(echo(r)) PROVE echo(r)[k][1] \in Host
    <3>1. k \in 1..Cardinality(Ourselves(s, r))
      BY <2>2
    <3> QED
      BY <2>2, <2>3, <3>1
  <2> QED
    BY <2>2, <2>4, <2>5
<1> HIDE DEF echo
<1>5. \A r \in Socket : \A k \in 1..Len(echo(r)) : datagram(r, k) \in Datagram
  <2> SUFFICES ASSUME NEW r \in Socket, NEW k \in 1..Len(echo(r))
               PROVE  datagram(r, k) \in Datagram
    OBVIOUS
  <2>1. Offset(s) \in {0, 1}
    BY DEF Offset
  <2>2. PortBase + Offset(s) \in {PortBase, PortBase + 1}
    BY <2>1, NumberAssumption
  <2>3. <<echo(r)[k][1], PortBase + Offset(s)>> \in OwnAddress
    BY <1>4, <2>2 DEF OwnAddress
  <2>4. Seen + k \in Nat
    BY <1>3, <1>4
  <2> HIDE DEF Seen
  <2> QED
    BY <2>3, <2>4 DEF Datagram
<1>6. x \in [Socket -> Seq(Datagram)]
      /\ \A r \in Socket : /\ Len(x[r]) = Len(echo(r))
                           /\ \A k \in 1..Len(x[r]) : x[r][k] = datagram(r, k)
  <2>1. ASSUME NEW r \in Socket
        PROVE  /\ x[r] = [k \in 1..Len(echo(r)) |-> datagram(r, k)]
               /\ x[r] \in Seq(Datagram) /\ Len(x[r]) = Len(echo(r))
    <3>1. x[r] = [k \in 1..Len(echo(r)) |-> datagram(r, k)]
      OBVIOUS
    <3>2. x[r] \in [1..Len(echo(r)) -> Datagram]
      BY <1>5, <3>1
    <3>3. x[r] \in Seq(Datagram)
      BY <1>4, <3>2, SeqDef
    <3>4. DOMAIN x[r] = 1..Len(echo(r))
      BY <3>1
    <3> HIDE DEF x
    <3>5. Len(x[r]) = Len(echo(r))
      BY <1>4, <3>3, <3>4, LenProperties
    <3> QED
      BY <3>1, <3>3, <3>5
  <2>2. x \in [Socket -> Seq(Datagram)]
    BY <2>1
  <2> HIDE DEF x
  <2>3. \A r \in Socket : \A k \in 1..Len(x[r]) : x[r][k] = datagram(r, k)
    BY <2>1
  <2> QED
    BY <2>1, <2>2, <2>3
<1>7. net' = [r \in Socket |-> net[r] \o x[r]]
  <2>1. net' = [r \in Socket |-> net[r] \o [k \in DOMAIN echo(r) |-> datagram(r, k)]]
    BY DEF SendData, echo, Seen
  <2> QED
    BY <1>4, <2>1
<1> HIDE DEF x
<1>8. \A r \in Socket : \A k \in 1..Len(x[r]) : x[r][k].id = Seen + k
  <2>1. \A r, k : datagram(r, k).id = Seen + k
    OBVIOUS
  <2> HIDE DEF datagram
  <2> QED
    BY <1>6, <2>1
<1>9. ASSUME NEW r \in Socket
      PROVE  /\ net'[r] \in Seq(Datagram) /\ Len(net'[r]) = Len(net[r]) + Len(x[r])
             /\ \A k \in 1..Len(net[r]) : net'[r][k] = net[r][k]
             /\ \A k \in 1..Len(x[r]) : net'[r][Len(net[r]) + k] = x[r][k]
  <2> DEFINE a == net[r]
             b == x[r]
  <2>1. net'[r] = a \o b
    BY <1>7
  <2>2. a \in Seq(Datagram) /\ b \in Seq(Datagram)
    BY <1>3, <1>6
  <2> HIDE DEF a, b
  <2>3. /\ a \o b \in Seq(Datagram) /\ Len(a \o b) = Len(a) + Len(b)
        /\ \A k \in 1..Len(a) : (a \o b)[k] = a[k]
        /\ \A k \in 1..Len(b) : (a \o b)[Len(a) + k] = b[k]
    BY <2>2, ConcatIs
  <2> QED
    BY <2>1, <2>3 DEF a, b
<1>10. net' \in [Socket -> Seq(Datagram)]
  BY <1>7, <1>9
<1> QED
  BY <1>1, <1>6, <1>8, <1>9, <1>10, ArrivalsKeep

\* What another program sends does not come from one of our sockets.
LEMMA ArriveTraffic ==
  ASSUME TrafficInv, NEW s \in Socket, NEW a \in Address, NEW size \in 0..MaxSize,
         Arrive(s, a, size)
  PROVE  TrafficInv'
<1> DEFINE d == [id |-> Seen + 1, from |-> a, size |-> size, own |-> FALSE]
           x == [r \in Socket |-> IF r = s THEN <<d>> ELSE <<>>]
<1>1. tr.created /\ tr' = tr /\ read' = read /\ TrafficTypes /\ a \notin OwnAddress
  BY DEF Arrive, TrafficInv
<1>2. /\ \A r \in Socket : net[r] \in Seq(Datagram) /\ Len(net[r]) \in Nat
      /\ DOMAIN net = Socket /\ Seen \in Nat
  BY <1>1, TrafficLengths
<1>3. net' = [net EXCEPT ![s] = Append(@, d)]
  BY DEF Arrive, Seen
<1>4. d \in Datagram /\ d.id = Seen + 1
  BY <1>1, <1>2 DEF Datagram
<1> HIDE DEF d
<1>5. /\ <<d>> \in Seq(Datagram) /\ Len(<<d>>) = 1 /\ <<d>>[1] = d
      /\ <<>> \in Seq(Datagram) /\ Len(<<>>) = 0
  BY <1>4, EmptySeq
<1>6. x \in [Socket -> Seq(Datagram)]
  BY <1>5
<1>7. ASSUME NEW r \in Socket
      PROVE  /\ net'[r] \in Seq(Datagram) /\ Len(net'[r]) = Len(net[r]) + Len(x[r])
             /\ \A k \in 1..Len(net[r]) : net'[r][k] = net[r][k]
             /\ \A k \in 1..Len(x[r]) : /\ net'[r][Len(net[r]) + k] = x[r][k]
                                        /\ x[r][k].id = Seen + k
  <2>1. CASE r = s
    <3>1. net'[r] = Append(net[r], d) /\ x[r] = <<d>>
      BY <1>2, <1>3, <2>1
    <3>2. /\ Append(net[r], d) \in Seq(Datagram)
          /\ Len(Append(net[r], d)) = Len(net[r]) + 1
          /\ \A k \in 1..Len(net[r]) : Append(net[r], d)[k] = net[r][k]
          /\ Append(net[r], d)[Len(net[r]) + 1] = d
      BY <1>2, <1>4, AppendProperties
    <3>3. Len(x[r]) = 1 /\ x[r][1] = d
      BY <1>5, <3>1
    <3>4. \A k \in 1..Len(x[r]) : k = 1
      BY <3>3
    <3> HIDE DEF x
    <3> QED
      BY <1>4, <3>1, <3>2, <3>3, <3>4
  <2>2. CASE r # s
    <3>1. net'[r] = net[r] /\ x[r] = <<>>
      BY <1>2, <1>3, <2>2
    <3>2. Len(x[r]) = 0 /\ 1..0 = {}
      BY <1>5, <3>1
    <3> HIDE DEF x
    <3> QED
      BY <1>2, <3>1, <3>2
  <2> QED
    BY <2>1, <2>2
<1>8. net' \in [Socket -> Seq(Datagram)]
  <2>1. DOMAIN net' = Socket /\ net' = [r \in DOMAIN net' |-> net'[r]]
    BY <1>2, <1>3
  <2> QED
    BY <1>7, <2>1
<1> HIDE DEF x
<1> QED
  BY <1>1, <1>6, <1>7, <1>8, ArrivalsKeep

-----------------------------------------------------------------------------
(* Datagrams are read.                                                      *)

\* PollSocket stops at the first empty datagram, or reads them all.
LEMMA ReadyIs ==
  ASSUME TrafficTypes, NEW s \in Socket
  PROVE  /\ Ready(s) \in 0..Len(net[s])
         /\ Ready(s) < Len(net[s]) => net[s][Ready(s) + 1].size = 0
<1> DEFINE l == Len(net[s])
           T == {n \in 0..l : n < l => net[s][n + 1].size = 0}
<1>1. l \in Nat
  BY TrafficLengths
<1> HIDE DEF l
<1>2. l \in T
  BY <1>1
<1>3. T \in SUBSET Nat /\ T # {}
  BY <1>1, <1>2
<1>4. PICK n \in T : \A y \in T : n <= y
  <2> HIDE DEF T
  <2> QED
    BY <1>3, LeastNat
<1>5. n \in 0..l /\ (n < l => net[s][n + 1].size = 0)
  BY <1>4
<1>6. ASSUME NEW k \in 1..n PROVE net[s][k].size # 0
  <2>1. k - 1 \in 0..l /\ k - 1 < l /\ ~(n <= k - 1) /\ (k - 1) + 1 = k
    BY <1>1, <1>5
  <2>2. k - 1 \notin T
    BY <1>4, <2>1
  <2> QED
    BY <2>1, <2>2
<1>7. \E m \in 0..l : (\A k \in 1..m : net[s][k].size # 0) /\ (m < l => net[s][m + 1].size = 0)
  BY <1>5, <1>6
<1> QED
  BY <1>7 DEF Ready, l

\* Where a datagram that a poll takes stood in its socket.
Stood(k) == IF k <= Ready("rtp") THEN k ELSE k - Ready("rtp")

\* What a poll takes: of each socket its first datagrams, in their order.
LEMMA PollTakes ==
  ASSUME TrafficTypes
  PROVE  LET all == Got("rtp", Ready("rtp")) \o Got("rtcp", Ready("rtcp"))
         IN  /\ all \in Seq(Taken) /\ Len(all) \in Nat /\ DOMAIN all = 1..Len(all)
             /\ Len(all) = Ready("rtp") + Ready("rtcp")
             /\ \A k \in DOMAIN all : /\ all[k].s \in Socket
                                      /\ Stood(k) \in 1..Ready(all[k].s)
                                      /\ all[k].d = net[all[k].s][Stood(k)]
             /\ \A k, l \in DOMAIN all :
                   k < l /\ all[k].s = all[l].s => Stood(k) < Stood(l)
<1> DEFINE g == Got("rtp", Ready("rtp"))
           h == Got("rtcp", Ready("rtcp"))
           n == Ready("rtp")
           m == Ready("rtcp")
           all == g \o h
<1>1. "rtp" \in Socket /\ "rtcp" \in Socket
  BY DEF Socket
<1>2. /\ \A s \in Socket : /\ Ready(s) \in 0..Len(net[s]) /\ Len(net[s]) \in Nat
                           /\ \A i \in 1..Len(net[s]) : net[s][i] \in Datagram
  BY ReadyIs, TrafficLengths
<1>3. n \in Nat /\ m \in Nat
  BY <1>1, <1>2
<1>4. /\ \A k \in 1..n : net["rtp"][k] \in Datagram
      /\ \A k \in 1..m : net["rtcp"][k] \in Datagram
  <2>1. n \in 0..Len(net["rtp"]) /\ Len(net["rtp"]) \in Nat
        /\ m \in 0..Len(net["rtcp"]) /\ Len(net["rtcp"]) \in Nat
    BY <1>1, <1>2
  <2>2. 1..n \subseteq 1..Len(net["rtp"]) /\ 1..m \subseteq 1..Len(net["rtcp"])
    BY <2>1
  <2> QED
    BY <1>1, <1>2, <2>2
<1>5. g \in [1..n -> Taken] /\ h \in [1..m -> Taken]
  BY <1>1, <1>4 DEF Got, Taken
<1>6. g \in Seq(Taken) /\ h \in Seq(Taken) /\ Len(g) = n /\ Len(h) = m
  <2>1. g \in Seq(Taken) /\ h \in Seq(Taken)
    BY <1>3, <1>5, SeqDef
  <2>2. DOMAIN g = 1..n /\ DOMAIN h = 1..m
    BY <1>5
  <2> HIDE DEF g, h, n, m
  <2> QED
    BY <1>3, <2>1, <2>2, LenProperties
<1>7. /\ \A k \in 1..n : g[k] = [d |-> net["rtp"][k], s |-> "rtp"]
      /\ \A k \in 1..m : h[k] = [d |-> net["rtcp"][k], s |-> "rtcp"]
  BY DEF Got
<1> HIDE DEF g, h
<1>8. /\ all \in Seq(Taken) /\ Len(all) = n + m
      /\ \A k \in 1..n + m : all[k] = IF k <= n THEN g[k] ELSE h[k - n]
  <2> HIDE DEF n, m
  <2>1. /\ g \o h \in Seq(Taken) /\ Len(g \o h) = Len(g) + Len(h)
        /\ \A k \in 1..Len(g) + Len(h) :
              (g \o h)[k] = IF k <= Len(g) THEN g[k] ELSE h[k - Len(g)]
    BY <1>6, ConcatProperties
  <2> QED
    BY <1>6, <2>1
<1>9. Len(all) \in Nat /\ DOMAIN all = 1..n + m
  <2> HIDE DEF all, n, m
  <2> QED
    BY <1>8, LenProperties
<1> HIDE DEF all
<1>10. ASSUME NEW k \in 1..n + m
       PROVE  \/ /\ k \in 1..n /\ Stood(k) = k
                 /\ all[k].s = "rtp" /\ all[k].d = net["rtp"][k]
              \/ /\ k - n \in 1..m /\ Stood(k) = k - n /\ k > n
                 /\ all[k].s = "rtcp" /\ all[k].d = net["rtcp"][k - n]
  <2> HIDE DEF n, m
  <2>1. CASE k <= n
    <3>1. k \in 1..n /\ all[k] = g[k]
      BY <1>3, <1>8, <2>1
    <3>2. all[k].s = "rtp" /\ all[k].d = net["rtp"][k]
      <4>1. all[k] = [d |-> net["rtp"][k], s |-> "rtp"]
        BY <1>7, <3>1, Zenon
      <4> QED
        BY <4>1
    <3>3. Stood(k) = k
      BY <2>1 DEF Stood, n
    <3> QED
      BY <3>1, <3>2, <3>3
  <2>2. CASE ~(k <= n)
    <3>1. k - n \in 1..m /\ k > n
      BY <1>3, <2>2
    <3>2. all[k] = h[k - n]
      BY <1>8, <2>2
    <3>3. all[k].s = "rtcp" /\ all[k].d = net["rtcp"][k - n]
      <4>1. all[k] = [d |-> net["rtcp"][k - n], s |-> "rtcp"]
        BY <1>7, <3>1, <3>2, Zenon
      <4> QED
        BY <4>1
    <3>4. Stood(k) = k - n
      BY <2>2 DEF Stood, n
    <3> QED
      BY <3>1, <3>3, <3>4
  <2> QED
    BY <2>1, <2>2
<1>11. \A k \in 1..n + m : /\ all[k].s \in Socket /\ Stood(k) \in 1..Ready(all[k].s)
                           /\ all[k].d = net[all[k].s][Stood(k)]
  <2> TAKE k \in 1..n + m
  <2>1. CASE k \in 1..n /\ Stood(k) = k /\ all[k].s = "rtp" /\ all[k].d = net["rtp"][k]
    BY <1>1, <2>1
  <2>2. CASE k - n \in 1..m /\ Stood(k) = k - n /\ all[k].s = "rtcp"
             /\ all[k].d = net["rtcp"][k - n]
    BY <1>1, <2>2
  <2> QED
    BY <1>10, <2>1, <2>2
<1>12. ASSUME NEW k \in 1..n + m, NEW l \in 1..n + m, k < l, all[k].s = all[l].s
       PROVE  Stood(k) < Stood(l)
  <2> HIDE DEF n, m
  <2>0. "rtp" # "rtcp"
    OBVIOUS
  <2>1. CASE Stood(k) = k /\ all[k].s = "rtp"
    <3>1. Stood(l) = l
      BY <1>10, <1>12, <2>0, <2>1
    <3> QED
      BY <1>12, <2>1, <3>1
  <2>2. CASE Stood(k) = k - n /\ all[k].s = "rtcp"
    <3>1. Stood(l) = l - n
      BY <1>10, <1>12, <2>0, <2>2
    <3>2. k - n < l - n
      BY <1>3, <1>12
    <3> QED
      BY <2>2, <3>1, <3>2
  <2> QED
    BY <1>10, <2>1, <2>2
<1> QED
  BY <1>8, <1>9, <1>11, <1>12 DEF all, g, h

\* A poll that takes the datagrams all.
LEMMA PollNumbers ==
  ASSUME TrafficTypes, Numbered, NEW all \in Seq(Taken), NEW y \in Seq(Reading),
         Len(y) = Len(all), \A k \in 1..Len(all) : y[k].p = all[k],
         \A k \in 1..Len(all) : /\ all[k].s \in Socket
                                /\ Stood(k) \in 1..Ready(all[k].s)
                                /\ all[k].d = net[all[k].s][Stood(k)],
         \A k, l \in 1..Len(all) : k < l /\ all[k].s = all[l].s => Stood(k) < Stood(l),
         Len(all) = Ready("rtp") + Ready("rtcp"),
         read' = read \o y,
         net' = [s \in Socket |-> SubSeq(net[s], Ready(s) + 1, Len(net[s]))]
  PROVE  /\ net' \in [Socket -> Seq(Datagram)] /\ read' \in Seq(Reading)
         /\ \A s \in Socket : net'[s] = <<>> \/ net'[s][1].size = 0
         /\ Seen' = Seen /\ Numbered'
<1> DEFINE r == Len(read)
           m == Len(all)
<1>1. /\ r \in Nat /\ DOMAIN read = 1..r /\ read \in Seq(Reading)
      /\ \A i \in DOMAIN read : read[i] \in Reading
      /\ Seen \in Nat
  BY TrafficLengths DEF TrafficTypes
<1>2. \A s \in Socket : /\ net[s] \in Seq(Datagram)
                        /\ Len(net[s]) \in Nat /\ DOMAIN net[s] = 1..Len(net[s])
                        /\ \A i \in DOMAIN net[s] : net[s][i].id \in Nat
                        /\ Ready(s) \in 0..Len(net[s])
                        /\ Ready(s) < Len(net[s]) => net[s][Ready(s) + 1].size = 0
  BY TrafficLengths, ReadyIs DEF Datagram
<1>3. m \in Nat /\ DOMAIN y = 1..m
  BY LenProperties
<1>4. /\ read' \in Seq(Reading) /\ Len(read') = r + m /\ DOMAIN read' = 1..r + m
      /\ \A i \in 1..r : read'[i] = read[i]
      /\ \A i \in 1..m : read'[r + i] = y[i]
  <2> DEFINE a == read
             b == y
  <2>1. a \in Seq(Reading) /\ b \in Seq(Reading) /\ read' = a \o b
    BY <1>1
  <2> HIDE DEF a, b
  <2>2. /\ a \o b \in Seq(Reading) /\ Len(a \o b) = Len(a) + Len(b)
        /\ DOMAIN (a \o b) = 1..Len(a) + Len(b)
        /\ \A i \in 1..Len(a) : (a \o b)[i] = a[i]
        /\ \A i \in 1..Len(b) : (a \o b)[Len(a) + i] = b[i]
    BY <2>1, ConcatIs
  <2>3. Len(a) = r /\ Len(b) = m
    BY DEF a, b
  <2> QED
    BY <2>1, <2>2, <2>3 DEF a, b
<1>5. ASSUME NEW s \in Socket
      PROVE  /\ net'[s] \in Seq(Datagram) /\ Len(net'[s]) = Len(net[s]) - Ready(s)
             /\ DOMAIN net'[s] = 1..(Len(net[s]) - Ready(s))
             /\ \A i \in DOMAIN net'[s] : /\ i + Ready(s) \in DOMAIN net[s]
                                          /\ net'[s][i] = net[s][i + Ready(s)]
  <2> DEFINE a == net[s]
             n == Ready(s)
             b == SubSeq(a, n + 1, Len(a))
  <2>1. net'[s] = b
    OBVIOUS
  <2>2. a \in Seq(Datagram) /\ n \in 0..Len(a) /\ Len(a) \in Nat /\ DOMAIN a = 1..Len(a)
    BY <1>2
  <2> HIDE DEF a, n
  <2>3. /\ b \in Seq(Datagram) /\ Len(b) = Len(a) - n
        /\ \A i \in 1..(Len(a) - n) : b[i] = a[i + n]
    BY <2>2, CutIs
  <2> HIDE DEF b
  <2>4. DOMAIN b = 1..(Len(a) - n)
    BY <2>3, LenProperties
  <2>5. \A i \in 1..(Len(a) - n) : i + n \in 1..Len(a)
    BY <2>2
  <2> QED
    BY <2>1, <2>2, <2>3, <2>4, <2>5 DEF a, n
<1>6. net' \in [Socket -> Seq(Datagram)]
  BY <1>5
<1>7. \A s \in Socket : net'[s] = <<>> \/ net'[s][1].size = 0
  <2> TAKE s \in Socket
  <2> DEFINE n == Ready(s)
             l == Len(net[s])
  <2>1. n \in 0..l /\ l \in Nat
    BY <1>2
  <2>2. CASE n = l
    <3>1. Len(net'[s]) = 0
      BY <1>5, <2>1, <2>2
    <3> QED
      BY <1>5, <3>1, EmptySeq
  <2>3. CASE n # l
    <3> HIDE DEF n, l
    <3>1. n < l /\ 1 \in 1..(l - n) /\ 1 + n = n + 1
      BY <2>1, <2>3
    <3>2. net'[s][1] = net[s][n + 1]
      BY <1>5, <3>1 DEF n, l
    <3> QED
      BY <1>2, <3>1, <3>2 DEF n, l
  <2> QED
    BY <2>2, <2>3
<1>8. Seen' = Seen
  <2> DEFINE p == Len(net["rtp"])
             q == Len(net["rtcp"])
             u == Ready("rtp")
             v == Ready("rtcp")
  <2>1. p \in Nat /\ q \in Nat /\ u \in Nat /\ v \in Nat
    BY <1>2 DEF Socket
  <2>2. /\ Seen = r + p + q
        /\ Len(net'["rtp"]) = p - u /\ Len(net'["rtcp"]) = q - v
        /\ m = u + v
    BY <1>5 DEF Seen, Socket
  <2>3. Seen' = Len(read') + Len(net'["rtp"]) + Len(net'["rtcp"])
    BY DEF Seen
  <2> HIDE DEF p, q, u, v, r, m
  <2>4. Seen' = (r + (u + v)) + (p - u) + (q - v)
    BY <1>4, <2>2, <2>3
  <2>5. (r + (u + v)) + (p - u) + (q - v) = r + p + q
    BY <1>1, <2>1
  <2> QED
    BY <2>2, <2>4, <2>5
<1>9. ASSUME NEW k \in 1..m
      PROVE  /\ read'[r + k].p.s = all[k].s /\ all[k].s \in Socket
             /\ read'[r + k].p.d = net[all[k].s][Stood(k)]
             /\ Stood(k) \in DOMAIN net[all[k].s]
             /\ Stood(k) <= Ready(all[k].s) /\ Stood(k) \in Nat
             /\ net[all[k].s][Stood(k)].id \in Nat
  <2>1. read'[r + k].p = all[k]
    BY <1>4
  <2>2. /\ all[k].s \in Socket /\ Stood(k) \in 1..Ready(all[k].s)
        /\ all[k].d = net[all[k].s][Stood(k)]
    OBVIOUS
  <2>3. Ready(all[k].s) \in 0..Len(net[all[k].s]) /\ Len(net[all[k].s]) \in Nat
    BY <1>2, <2>2
  <2>4. Stood(k) \in 1..Len(net[all[k].s]) /\ Stood(k) <= Ready(all[k].s) /\ Stood(k) \in Nat
    BY <2>2, <2>3
  <2> QED
    BY <1>2, <2>1, <2>2, <2>4
<1>10. ASSUME NEW i \in 1..r + m
       PROVE  \/ i \in 1..r /\ read'[i] = read[i] /\ i <= r
              \/ i - r \in 1..m /\ read'[i] = read'[r + (i - r)] /\ i > r
  <2> HIDE DEF r, m
  <2>1. CASE i <= r
    <3>1. i \in 1..r
      BY <1>1, <1>3, <2>1
    <3> QED
      BY <1>4, <2>1, <3>1
  <2>2. CASE ~(i <= r)
    <3>1. i - r \in 1..m /\ r + (i - r) = i /\ i > r
      BY <1>1, <1>3, <2>2
    <3> QED
      BY <3>1
  <2> QED
    BY <2>1, <2>2
<1>11. InOrder(read, net)
  BY DEF Numbered
<1> HIDE DEF r, m
<1>12. ASSUME NEW i \in 1..r + m, NEW j \in 1..r + m, i < j, read'[i].p.s = read'[j].p.s
       PROVE  read'[i].p.d.id < read'[j].p.d.id
  <2>1. CASE j \in 1..r /\ read'[j] = read[j] /\ j <= r
    <3>1. i \in 1..r /\ read'[i] = read[i]
      BY <1>1, <1>4, <1>12, <2>1
    <3> QED
      BY <1>1, <1>11, <1>12, <2>1, <3>1 DEF InOrder
  <2>2. CASE j - r \in 1..m /\ read'[j] = read'[r + (j - r)] /\ j > r
    <3> DEFINE b == j - r
               s == all[b].s
    <3>1. /\ read'[j].p.s = s /\ s \in Socket /\ read'[j].p.d = net[s][Stood(b)]
          /\ Stood(b) \in DOMAIN net[s]
      BY <1>9, <2>2
    <3>2. CASE i \in 1..r /\ read'[i] = read[i]
      <4>1. i \in DOMAIN read /\ read[i].p.s = s
        BY <1>1, <1>12, <3>1, <3>2
      <4>2. read[i].p.d.id < net[s][Stood(b)].id
        BY <1>11, <3>1, <4>1 DEF InOrder
      <4> QED
        BY <3>1, <3>2, <4>2
    <3>3. CASE i - r \in 1..m /\ read'[i] = read'[r + (i - r)]
      <4> DEFINE a == i - r
      <4>1. /\ read'[i].p.s = all[a].s /\ read'[i].p.d = net[all[a].s][Stood(a)]
            /\ Stood(a) \in DOMAIN net[all[a].s]
        BY <1>9, <3>3
      <4>2. a < b /\ a \in 1..m /\ b \in 1..m
        BY <1>1, <1>12, <2>2, <3>3
      <4>3. all[a].s = s
        BY <1>12, <3>1, <4>1
      <4> HIDE DEF a, b
      <4>4. Stood(a) < Stood(b)
        BY <4>2, <4>3 DEF m
      <4> QED
        BY <1>11, <3>1, <4>1, <4>3, <4>4 DEF InOrder
    <3> QED
      BY <1>10, <3>2, <3>3
  <2> QED
    BY <1>10, <2>1, <2>2
<1>13. ASSUME NEW i \in 1..r + m, NEW k \in DOMAIN net'[read'[i].p.s]
       PROVE  read'[i].p.d.id < net'[read'[i].p.s][k].id
  <2>1. CASE i \in 1..r /\ read'[i] = read[i]
    <3> DEFINE s == read[i].p.s
    <3>1. i \in DOMAIN read /\ s \in Socket
      BY <1>1, <2>1 DEF Reading, Taken
    <3>2. k + Ready(s) \in DOMAIN net[s] /\ net'[s][k] = net[s][k + Ready(s)]
      BY <1>5, <2>1, <3>1
    <3> QED
      BY <1>11, <2>1, <3>1, <3>2 DEF InOrder
  <2>2. CASE i - r \in 1..m /\ read'[i] = read'[r + (i - r)]
    <3> DEFINE a == i - r
               s == all[a].s
    <3>1. /\ read'[i].p.s = s /\ s \in Socket /\ read'[i].p.d = net[s][Stood(a)]
          /\ Stood(a) \in DOMAIN net[s] /\ Stood(a) <= Ready(s) /\ Stood(a) \in Nat
      BY <1>9, <2>2
    <3>2. /\ k + Ready(s) \in DOMAIN net[s] /\ net'[s][k] = net[s][k + Ready(s)]
          /\ k \in 1..(Len(net[s]) - Ready(s))
      BY <1>5, <3>1
    <3>3. Stood(a) < k + Ready(s)
      BY <1>2, <3>1, <3>2
    <3> HIDE DEF a
    <3> QED
      BY <1>11, <3>1, <3>2, <3>3 DEF InOrder
  <2> QED
    BY <1>10, <2>1, <2>2
<1>14. ASSUME NEW s \in Socket, NEW i \in DOMAIN net'[s], NEW j \in DOMAIN net'[s], i < j
       PROVE  net'[s][i].id < net'[s][j].id
  <2>1. /\ i + Ready(s) \in DOMAIN net[s] /\ net'[s][i] = net[s][i + Ready(s)]
        /\ j + Ready(s) \in DOMAIN net[s] /\ net'[s][j] = net[s][j + Ready(s)]
        /\ i \in 1..(Len(net[s]) - Ready(s)) /\ j \in 1..(Len(net[s]) - Ready(s))
    BY <1>5
  <2>2. i + Ready(s) < j + Ready(s)
    BY <1>2, <1>14, <2>1
  <2> QED
    BY <1>11, <2>1, <2>2 DEF InOrder
<1>15. InOrder(read', net')
  <2>1. \A i, j \in DOMAIN read' : i < j /\ read'[i].p.s = read'[j].p.s
                                      => read'[i].p.d.id < read'[j].p.d.id
    BY <1>4, <1>12
  <2>2. \A i \in DOMAIN read' : \A k \in DOMAIN net'[read'[i].p.s] :
           read'[i].p.d.id < net'[read'[i].p.s][k].id
    <3>1. DOMAIN read' = 1..r + m
      BY <1>4
    <3> SUFFICES ASSUME NEW i \in DOMAIN read', NEW k \in DOMAIN net'[read'[i].p.s]
                 PROVE  read'[i].p.d.id < net'[read'[i].p.s][k].id
      OBVIOUS
    <3>2. i \in 1..r + m
      BY <3>1
    <3> QED
      BY <1>13, <3>2
  <2>3. \A s \in Socket : \A i, j \in DOMAIN net'[s] : i < j => net'[s][i].id < net'[s][j].id
    BY <1>14
  <2> QED
    BY <2>1, <2>2, <2>3 DEF InOrder
<1>16. \A i \in 1..r + m : read'[i].p.d.id <= Seen
  <2> TAKE i \in 1..r + m
  <2>1. CASE i \in 1..r /\ read'[i] = read[i]
    BY <1>1, <2>1 DEF Numbered
  <2>2. CASE i - r \in 1..m /\ read'[i] = read'[r + (i - r)]
    <3> DEFINE a == i - r
               s == all[a].s
    <3>1. s \in Socket /\ read'[i].p.d = net[s][Stood(a)] /\ Stood(a) \in DOMAIN net[s]
      BY <1>9, <2>2
    <3> HIDE DEF a
    <3> QED
      BY <3>1 DEF Numbered
  <2> QED
    BY <1>10, <2>1, <2>2
<1>17. \A s \in Socket : \A i \in DOMAIN net'[s] : net'[s][i].id <= Seen
  BY <1>5 DEF Numbered
<1>18. Numbered'
  BY <1>4, <1>8, <1>15, <1>16, <1>17 DEF Numbered
<1> QED
  BY <1>4, <1>6, <1>7, <1>8, <1>18

\* What was accepted before comes first.
LEMMA AcceptedConcat ==
  ASSUME NEW r \in Seq(Reading), NEW y \in Seq(Reading)
  PROVE  Picked(r \o y, {k \in DOMAIN (r \o y) : (r \o y)[k].ok})
           = Picked(r, {k \in DOMAIN r : r[k].ok}) \o Picked(y, {k \in DOMAIN y : y[k].ok})
<1> DEFINE R == {k \in DOMAIN r : r[k].ok}
           A == {k \in DOMAIN y : y[k].ok}
           u == r \o y
           U == {k \in DOMAIN u : u[k].ok}
<1>1. /\ DOMAIN u = 1..Len(r) + Len(y)
      /\ \A i \in 1..Len(r) : u[i] = r[i]
      /\ \A i \in 1..Len(y) : u[Len(r) + i] = y[i]
      /\ DOMAIN r = 1..Len(r) /\ DOMAIN y = 1..Len(y) /\ Len(r) \in Nat /\ Len(y) \in Nat
  BY ConcatIs, LenProperties
<1> HIDE DEF u
<1>2. ASSUME NEW i \in DOMAIN r PROVE i \in U <=> i \in R
  <2>1. i \in DOMAIN u /\ u[i] = r[i]
    BY <1>1
  <2> QED
    BY <2>1
<1>3. ASSUME NEW j \in DOMAIN y PROVE Len(r) + j \in U <=> j \in A
  <2>1. Len(r) + j \in DOMAIN u /\ u[Len(r) + j] = y[j]
    BY <1>1
  <2> QED
    BY <2>1
<1>4. R \in SUBSET (DOMAIN r) /\ A \in SUBSET (DOMAIN y) /\ U \in SUBSET (DOMAIN u)
  OBVIOUS
<1> HIDE DEF R, A, U
<1>5. Picked(r \o y, U) = Picked(r, R) \o Picked(y, A)
  BY <1>2, <1>3, <1>4, PickedConcat, SMTT(60) DEF u
<1> QED
  BY <1>5 DEF R, A, U, u

\* Where a datagram that is accepted goes: to the end of the queue.
LEMMA EndPartGrows ==
  ASSUME NEW q \in Seq(Taken), NEW r \in Seq(Reading), EndPart(q, r),
         NEW all \in Seq(Taken), NEW A \in SUBSET (DOMAIN all), NEW y \in Seq(Reading),
         Len(y) = Len(all), \A k \in 1..Len(all) : y[k].p = all[k] /\ (y[k].ok <=> k \in A)
  PROVE  /\ q \o Picked(all, A) \in Seq(Taken)
         /\ EndPart(q \o Picked(all, A), r \o y)
<1> DEFINE R == {k \in DOMAIN r : r[k].ok}
           u == r \o y
           U == {k \in DOMAIN u : u[k].ok}
           acc == Picked(r, R)
           more == Picked(all, A)
           new == Picked(y, A)
           n == Len(acc) - Len(q)
<1>1. DOMAIN all = 1..Len(all) /\ DOMAIN y = DOMAIN all /\ Len(all) \in Nat
      /\ Len(q) \in Nat /\ DOMAIN q = 1..Len(q)
  BY LenProperties
<1>2. /\ more \in Seq(Taken) /\ Len(more) = Cardinality(A) /\ Cardinality(A) \in Nat
      /\ \A k \in 1..Cardinality(A) : Nth(A, k) \in A /\ more[k] = all[Nth(A, k)]
  <2>1. Cardinality(A) \in 0..Len(all)
    BY PickedIs
  <2> QED
    BY <1>1, <2>1, PickedIs
<1>3. /\ new \in Seq(Reading) /\ Len(new) = Cardinality(A)
      /\ \A k \in 1..Cardinality(A) : new[k] = y[Nth(A, k)]
  <2>1. A \in SUBSET (DOMAIN y)
    BY <1>1
  <2> QED
    BY <2>1, PickedIs
<1>4. R \in SUBSET (DOMAIN r) /\ U \in SUBSET (DOMAIN u)
  OBVIOUS
<1>5. acc \in Seq(Reading) /\ Len(acc) \in Nat
  <2> HIDE DEF R
  <2>1. acc \in Seq(Reading)
    BY <1>4, PickedIs
  <2> HIDE DEF acc
  <2> QED
    BY <2>1, LenProperties
<1>6. /\ DOMAIN u = 1..Len(r) + Len(y)
      /\ \A i \in 1..Len(r) : u[i] = r[i]
      /\ \A i \in 1..Len(y) : u[Len(r) + i] = y[i]
      /\ DOMAIN r = 1..Len(r) /\ DOMAIN y = 1..Len(y) /\ Len(r) \in Nat /\ Len(y) \in Nat
  <2> DEFINE a == r
             b == y
  <2>1. a \in Seq(Reading) /\ b \in Seq(Reading)
    OBVIOUS
  <2> HIDE DEF a, b
  <2>2. /\ DOMAIN (a \o b) = 1..Len(a) + Len(b)
        /\ \A i \in 1..Len(a) : (a \o b)[i] = a[i]
        /\ \A i \in 1..Len(b) : (a \o b)[Len(a) + i] = b[i]
    BY <2>1, ConcatIs
  <2>3. DOMAIN r = 1..Len(r) /\ DOMAIN y = 1..Len(y) /\ Len(r) \in Nat /\ Len(y) \in Nat
    BY LenProperties
  <2> QED
    BY <2>2, <2>3 DEF a, b
<1>7. Picked(u, U) = acc \o new
  <2>1. A = {k \in DOMAIN y : y[k].ok}
    BY <1>1
  <2> QED
    BY <2>1, AcceptedConcat
<1> HIDE DEF acc, more, new
<1>8. n \in Nat /\ \A k \in 1..Len(q) : q[k] = acc[n + k].p
  <2> USE DEF acc
  <2>1. n >= 0 /\ \A k \in DOMAIN q : q[k] = acc[n + k].p
    BY DEF EndPart
  <2> HIDE DEF acc
  <2>2. Len(acc) - Len(q) \in Int
    BY <1>1, <1>5
  <2>3. n \in Nat
    BY <2>1, <2>2
  <2> QED
    BY <1>1, <2>1, <2>3
<1>9. /\ q \o more \in Seq(Taken) /\ Len(q \o more) = Len(q) + Cardinality(A)
      /\ DOMAIN (q \o more) = 1..Len(q) + Cardinality(A)
      /\ \A k \in 1..Len(q) : (q \o more)[k] = q[k]
      /\ \A k \in 1..Cardinality(A) : (q \o more)[Len(q) + k] = more[k]
  <2> DEFINE a == q
  <2>1. a \in Seq(Taken) /\ more \in Seq(Taken)
    BY <1>2
  <2> HIDE DEF a
  <2>2. /\ a \o more \in Seq(Taken) /\ Len(a \o more) = Len(a) + Len(more)
        /\ DOMAIN (a \o more) = 1..Len(a) + Len(more)
        /\ \A k \in 1..Len(a) : (a \o more)[k] = a[k]
        /\ \A k \in 1..Len(more) : (a \o more)[Len(a) + k] = more[k]
    BY <2>1, ConcatIs
  <2> QED
    BY <1>2, <2>2 DEF a
<1>10. /\ Len(acc \o new) = Len(acc) + Cardinality(A)
       /\ \A k \in 1..Len(acc) : (acc \o new)[k] = acc[k]
       /\ \A k \in 1..Cardinality(A) : (acc \o new)[Len(acc) + k] = new[k]
  <2>1. acc \in Seq(Reading) /\ new \in Seq(Reading)
    BY <1>3, <1>5
  <2>2. /\ Len(acc \o new) = Len(acc) + Len(new)
        /\ \A k \in 1..Len(acc) : (acc \o new)[k] = acc[k]
        /\ \A k \in 1..Len(new) : (acc \o new)[Len(acc) + k] = new[k]
    BY <2>1, ConcatIs
  <2> QED
    BY <1>3, <2>2
<1>11. ASSUME NEW k \in 1..Len(q) + Cardinality(A)
       PROVE  (q \o more)[k] = (acc \o new)[n + k].p
  <2> DEFINE l == Len(q)
             a == Len(acc)
             c == Cardinality(A)
  <2>1. l \in Nat /\ a \in Nat /\ c \in Nat /\ n = a - l /\ n \in Nat /\ k \in 1..l + c
    BY <1>1, <1>2, <1>5, <1>8
  <2>2. CASE k \in 1..l
    <3>1. (q \o more)[k] = acc[n + k].p
      BY <1>8, <1>9, <2>2
    <3> HIDE DEF n, l, a
    <3>2. n + k \in 1..a
      BY <2>1, <2>2
    <3> QED
      BY <1>10, <3>1, <3>2 DEF a
  <2>3. CASE k \notin 1..l
    <3> DEFINE i == k - l
    <3> HIDE DEF n, l, a, c
    <3>1. i \in 1..c /\ l + i = k /\ a + i = n + k
      BY <2>1, <2>3
    <3> HIDE DEF i
    <3>2. (q \o more)[k] = more[i] /\ (acc \o new)[n + k] = new[i]
      BY <1>9, <1>10, <3>1 DEF l, a, c
    <3>3. more[i] = all[Nth(A, i)] /\ new[i] = y[Nth(A, i)] /\ Nth(A, i) \in 1..Len(all)
      BY <1>1, <1>2, <1>3, <3>1 DEF c
    <3> QED
      BY <3>2, <3>3
  <2> QED
    BY <2>2, <2>3
<1>12. Len(acc \o new) - Len(q \o more) = n
  <2> DEFINE l == Len(q)
             a == Len(acc)
             c == Cardinality(A)
  <2>1. l \in Nat /\ a \in Nat /\ c \in Nat
    BY <1>1, <1>2, <1>5
  <2>2. n = a - l /\ Len(acc \o new) = a + c /\ Len(q \o more) = l + c
    BY <1>9, <1>10
  <2> HIDE DEF l, a, c, n
  <2> QED
    BY <2>1, <2>2
<1> HIDE DEF n
<1>13. EndPart(q \o more, u)
  <2>1. Picked(u, {k \in DOMAIN u : u[k].ok}) = acc \o new
    BY <1>7
  <2> HIDE DEF u
  <2>2. /\ n >= 0
        /\ \A k \in DOMAIN (q \o more) : (q \o more)[k] = (acc \o new)[n + k].p
    <3>1. n >= 0 /\ DOMAIN (q \o more) = 1..Len(q) + Cardinality(A)
      BY <1>8, <1>9
    <3> QED
      BY <1>11, <3>1, Zenon
  <2> QED
    BY <1>12, <2>1, <2>2 DEF EndPart
<1> QED
  BY <1>9, <1>13 DEF more, u

\* GetNextPacket takes the first datagram of the queue.
LEMMA EndPartShrinks ==
  ASSUME NEW q \in Seq(Taken), q # <<>>, NEW r \in Seq(Reading), EndPart(q, r)
  PROVE  Tail(q) \in Seq(Taken) /\ EndPart(Tail(q), r)
<1> DEFINE acc == Picked(r, {k \in DOMAIN r : r[k].ok})
           n == Len(acc) - Len(q)
           l == Len(q)
           t == Tail(q)
<1>1. {k \in DOMAIN r : r[k].ok} \in SUBSET (DOMAIN r)
  OBVIOUS
<1>2. acc \in Seq(Reading)
  <2> DEFINE R == {k \in DOMAIN r : r[k].ok}
  <2> HIDE DEF R
  <2>1. Picked(r, R) \in Seq(Reading)
    BY <1>1, PickedIs DEF R
  <2> QED
    BY <2>1 DEF R
<1>3. n >= 0 /\ \A k \in DOMAIN q : q[k] = acc[n + k].p
  BY DEF EndPart
<1> HIDE DEF acc
<1>4. Len(acc) \in Nat /\ l \in Nat /\ DOMAIN q = 1..l /\ 1 <= l
  <2>1. Len(acc) \in Nat /\ l \in Nat /\ DOMAIN q = 1..l
    BY <1>2, LenProperties
  <2>2. l # 0
    BY EmptySeq
  <2> QED
    BY <2>1, <2>2
<1>5. t \in Seq(Taken) /\ Len(t) = l - 1 /\ \A k \in 1..(l - 1) : t[k] = q[k + 1]
  BY HeadTailProperties
<1> HIDE DEF t
<1>6. DOMAIN t = 1..(l - 1)
  BY <1>5, LenProperties
<1>7. n \in Nat /\ Len(acc) - Len(t) = n + 1
  <2> DEFINE a == Len(acc)
  <2>1. a \in Nat /\ l \in Nat /\ n = a - l /\ n >= 0 /\ Len(t) = l - 1
    BY <1>3, <1>4, <1>5
  <2> HIDE DEF a, l, n
  <2>2. n \in Nat /\ a - (l - 1) = n + 1
    BY <2>1
  <2> QED
    BY <2>1, <2>2 DEF a
<1> HIDE DEF n, l
<1>8. \A k \in 1..(l - 1) : t[k] = acc[(n + 1) + k].p
  <2> TAKE k \in 1..(l - 1)
  <2>1. k + 1 \in 1..l /\ n + (k + 1) = (n + 1) + k
    BY <1>4, <1>7
  <2>2. t[k] = q[k + 1] /\ q[k + 1] = acc[n + (k + 1)].p
    BY <1>3, <1>4, <1>5, <2>1
  <2> QED
    BY <2>1, <2>2
<1>9. EndPart(t, r)
  <2>1. n + 1 >= 0 /\ \A k \in DOMAIN t : t[k] = acc[(n + 1) + k].p
    BY <1>6, <1>7, <1>8
  <2> QED
    BY <1>7, <2>1 DEF EndPart, acc
<1> QED
  BY <1>5, <1>9 DEF t

\* PollSocket, for both sockets.
LEMMA PollTraffic ==
  ASSUME TrafficInv, Poll
  PROVE  /\ TrafficInv'
         /\ \A s \in Socket : net'[s] = <<>> \/ net'[s][1].size = 0
<1> DEFINE all == Got("rtp", Ready("rtp")) \o Got("rtcp", Ready("rtcp"))
           y == [k \in DOMAIN all |-> [p |-> all[k], ok |-> k \in Accepted(all)]]
<1>1. /\ tr.created /\ TrafficTypes /\ Numbered /\ EndPart(tr.queue, read)
      /\ {"created", "queue", "dest", "given", "localips"} \subseteq DOMAIN tr
      /\ tr.queue \in Seq(Taken) /\ read \in Seq(Reading)
  BY DEF Poll, TrafficInv, Queued, TrafficTypes
<1>2. /\ tr' = [tr EXCEPT !.queue = @ \o Picked(all, Accepted(all))]
      /\ net' = [s \in Socket |-> SubSeq(net[s], Ready(s) + 1, Len(net[s]))]
      /\ read' = read \o y
  BY DEF Poll
<1>3. /\ tr'.queue = tr.queue \o Picked(all, Accepted(all))
      /\ tr'.created = tr.created /\ tr'.dest = tr.dest
      /\ tr'.given = tr.given /\ tr'.localips = tr.localips
      /\ DOMAIN tr' = DOMAIN tr
  BY <1>1, <1>2
<1>4. /\ all \in Seq(Taken) /\ Len(all) \in Nat /\ DOMAIN all = 1..Len(all)
      /\ Len(all) = Ready("rtp") + Ready("rtcp")
      /\ \A k \in DOMAIN all : /\ all[k].s \in Socket
                               /\ Stood(k) \in 1..Ready(all[k].s)
                               /\ all[k].d = net[all[k].s][Stood(k)]
      /\ \A k, l \in DOMAIN all : k < l /\ all[k].s = all[l].s => Stood(k) < Stood(l)
      /\ \A k \in DOMAIN all : all[k] \in Taken
  <2>1. /\ all \in Seq(Taken) /\ Len(all) \in Nat /\ DOMAIN all = 1..Len(all)
        /\ Len(all) = Ready("rtp") + Ready("rtcp")
        /\ \A k \in DOMAIN all : /\ all[k].s \in Socket
                                 /\ Stood(k) \in 1..Ready(all[k].s)
                                 /\ all[k].d = net[all[k].s][Stood(k)]
        /\ \A k, l \in DOMAIN all : k < l /\ all[k].s = all[l].s => Stood(k) < Stood(l)
    BY <1>1, PollTakes
  <2> HIDE DEF all
  <2>2. \A k \in DOMAIN all : all[k] \in Taken
    BY <2>1, ElementOfSeq
  <2> QED
    BY <2>1, <2>2
<1> HIDE DEF all
<1>5. Accepted(all) \in SUBSET (DOMAIN all)
  BY DEF Accepted
<1>6. y \in Seq(Reading) /\ Len(y) = Len(all)
      /\ \A k \in 1..Len(all) : y[k].p = all[k] /\ (y[k].ok <=> k \in Accepted(all))
  <2>1. \A k \in DOMAIN all : [p |-> all[k], ok |-> k \in Accepted(all)] \in Reading
    <3> TAKE k \in DOMAIN all
    <3>1. (k \in Accepted(all)) \in BOOLEAN
      OBVIOUS
    <3> QED
      BY <1>4, <3>1 DEF Reading
  <2>2. y \in [1..Len(all) -> Reading]
    BY <1>4, <2>1
  <2>3. y \in Seq(Reading)
    BY <1>4, <2>2, SeqDef
  <2>4. DOMAIN y = 1..Len(all)
    BY <1>4
  <2>5. \A k \in 1..Len(all) : y[k].p = all[k] /\ (y[k].ok <=> k \in Accepted(all))
    BY <1>4
  <2> HIDE DEF y
  <2>6. Len(y) = Len(all)
    BY <1>4, <2>3, <2>4, LenProperties
  <2> QED
    BY <2>3, <2>5, <2>6
<1> HIDE DEF y
<1>7. tr'.queue \in Seq(Taken) /\ EndPart(tr'.queue, read')
  <2> DEFINE q == tr.queue
             A == Accepted(all)
  <2>1. /\ q \in Seq(Taken) /\ EndPart(q, read) /\ A \in SUBSET (DOMAIN all)
        /\ \A k \in 1..Len(all) : y[k].p = all[k] /\ (y[k].ok <=> k \in A)
    BY <1>1, <1>5, <1>6
  <2> HIDE DEF q, A
  <2>2. q \o Picked(all, A) \in Seq(Taken) /\ EndPart(q \o Picked(all, A), read \o y)
    BY <1>1, <1>4, <1>6, <2>1, EndPartGrows
  <2> QED
    BY <1>2, <1>3, <2>2 DEF q, A
<1>8. /\ net' \in [Socket -> Seq(Datagram)] /\ read' \in Seq(Reading)
      /\ \A s \in Socket : net'[s] = <<>> \/ net'[s][1].size = 0
      /\ Numbered'
  BY <1>1, <1>2, <1>4, <1>6, PollNumbers
<1>9. TrafficTypes'
  BY <1>1, <1>3, <1>7, <1>8 DEF TrafficTypes
<1>10. Queued'
  BY <1>7 DEF Queued
<1> QED
  BY <1>8, <1>9, <1>10 DEF TrafficInv

\* GetNextPacket shortens the queue.
LEMMA GetNextPacketTraffic ==
  ASSUME TrafficInv, GetNextPacket
  PROVE  TrafficInv'
<1>1. /\ tr.created /\ TrafficTypes /\ Numbered /\ EndPart(tr.queue, read)
      /\ {"created", "queue", "dest", "given", "localips"} \subseteq DOMAIN tr
      /\ tr.queue \in Seq(Taken) /\ tr.queue # <<>> /\ read \in Seq(Reading)
  BY DEF GetNextPacket, TrafficInv, Queued, TrafficTypes
<1>2. /\ tr'.queue = Tail(tr.queue)
      /\ tr'.created = tr.created /\ tr'.dest = tr.dest
      /\ tr'.given = tr.given /\ tr'.localips = tr.localips
      /\ DOMAIN tr' = DOMAIN tr /\ net' = net /\ read' = read
  BY <1>1 DEF GetNextPacket, sysvars
<1>3. tr'.queue \in Seq(Taken) /\ EndPart(tr'.queue, read')
  <2> DEFINE q == tr.queue
  <2>1. q \in Seq(Taken) /\ q # <<>> /\ EndPart(q, read)
    BY <1>1
  <2> HIDE DEF q
  <2>2. Tail(q) \in Seq(Taken) /\ EndPart(Tail(q), read)
    BY <1>1, <2>1, EndPartShrinks
  <2> QED
    BY <1>2, <2>2 DEF q
<1>4. TrafficTypes'
  BY <1>1, <1>2, <1>3 DEF TrafficTypes
<1>5. Numbered' /\ Queued'
  BY <1>1, <1>2, <1>3 DEF Numbered, Queued, Seen
<1> QED
  BY <1>4, <1>5 DEF TrafficInv

\* The datagrams of every behaviour.
LEMMA TrafficInductive == Spec => []TrafficInv
<1>1. Init => TrafficInv
  <2> SUFFICES ASSUME Init PROVE TrafficInv
    OBVIOUS
  <2>1. ~tr.created /\ tr.created \in BOOLEAN /\ net = Silent /\ read = <<>>
    BY DEF Init
  <2>2. \A S : <<>> \in Seq(S) /\ Len(<<>>) = 0 /\ DOMAIN <<>> = {}
    BY EmptySeq
  <2>3. Silent \in [Socket -> Seq(Datagram)] /\ \A s \in Socket : Silent[s] = <<>>
    BY <2>2 DEF Silent
  <2>4. TrafficTypes
    BY <2>1, <2>2, <2>3 DEF TrafficTypes
  <2>5. Numbered /\ Queued
    BY <2>1, <2>2, <2>3 DEF Numbered, InOrder, Queued
  <2> QED
    BY <2>4, <2>5 DEF TrafficInv
<1>2. TrafficInv /\ [Next]_vars => TrafficInv'
  <2> SUFFICES ASSUME TrafficInv, [Next]_vars PROVE TrafficInv'
    OBVIOUS
  <2>1. CASE Creating
    BY <2>1, CreatingTraffic
  <2>2. CASE Sending
    BY <2>2, DestinationsTraffic, SendDataTraffic, Zenon DEF Sending
  <2>3. CASE Grouping \/ Filtering
    BY <2>3, OthersLeaveTraffic, TrafficKept
  <2>4. CASE Receiving
    BY <2>4, ArriveTraffic, PollTraffic, GetNextPacketTraffic, Zenon DEF Receiving
  <2>5. CASE UNCHANGED vars
    <3>1. LeavesTraffic
      BY <2>5 DEF vars, LeavesTraffic, TrafficInv, TrafficTypes
    <3> QED
      BY <3>1, TrafficKept
  <2> QED
    BY <2>1, <2>2, <2>3, <2>4, <2>5 DEF Next
<1> QED
  BY <1>1, <1>2, PTL DEF Spec

\* Only a poll reads, and what Destroy forgets is with a transmitter that is gone.
LEMMA OnlyPollReads ==
  ASSUME TrafficInv, [Next]_vars, tr'.created, read' # read
  PROVE  Poll
<1>1. ASSUME NEW step, CreateFails(step) PROVE read' = read
  BY <1>1 DEF CreateFails
<1>2. ASSUME NEW max, NEW ttlset, NEW given, NEW listed, NEW named,
             Create(max, given, listed, named, ttlset)
      PROVE  read' = read
  BY <1>2 DEF Create
<1>3. Destroy => ~tr'.created
  BY DEF Destroy
<1>4. ASSUME NEW found, GetLocalHostName(found) PROVE read' = read
  BY <1>4 DEF GetLocalHostName, sysvars
<1>5. ASSUME NEW max, SetMaximumPacketSize(max) PROVE read' = read
  BY <1>5 DEF SetMaximumPacketSize, sysvars
<1>6. Creating => read' = read \/ ~tr'.created
  BY <1>1, <1>2, <1>3, <1>4, <1>5, Zenon DEF Creating
<1>7. Sending => read' = read
  BY DEF Sending, AddDestination, DeleteDestination, ClearDestinations, SendData, sysvars
<1>8. Grouping \/ Filtering => read' = read
  BY OthersLeaveTraffic DEF LeavesTraffic
<1>9. ASSUME NEW s, NEW a, NEW size, Arrive(s, a, size) PROVE read' = read
  BY <1>9 DEF Arrive
<1>10. GetNextPacket => read' = read
  BY DEF GetNextPacket, sysvars
<1>11. UNCHANGED vars => read' = read
  BY DEF vars
<1> QED
  BY <1>6, <1>7, <1>8, <1>9, <1>10, <1>11, Zenon DEF Next, Receiving

-----------------------------------------------------------------------------
(* Theorems.                                                                *)

\* The lists hold what the calls selected, but for ports that are excepted from an
\* entry for all ports when they are added: ProcessAddAcceptIgnoreEntry and ProcessDeleteAcceptIgnoreEntry in any order.
THEOREM ListsHoldWhatWasAsked == Spec => []SelectedAsAsked
<1>1. FilterInv => SelectedAsAsked
  BY DEF FilterInv
<1> QED
  BY <1>1, FilterInductive, PTL

\* Create gives back what it opened wherever it fails, Destroy what Create opened,
\* and both sockets are members of the groups in the table and of those alone that
\* the system refused to let them leave.
THEOREM NothingLeaks == Spec => []ResourcesBalanced
<1>1. SystemInv => ResourcesBalanced
  BY DEF SystemInv
<1> QED
  BY <1>1, SystemInductive, PTL

\* The session knows the packets it sent to itself from all others: where the addresses of
\* the transmitter are those of this host, the loopback address among them, the datagrams
\* in the queue that ComesFromThisTransmitter recognises are the ones SendData sent.
THEOREM EchoesAreKnown == Spec => []EchoesKnown
<1>1. TrafficInv => EchoesKnown
  <2> SUFFICES ASSUME TrafficInv, tr.created, tr.given = {} \/ Loopback \in tr.given,
                      Interfaces \subseteq tr.localips,
                      tr.localips \subseteq Host, NEW k \in DOMAIN tr.queue
               PROVE  tr.queue[k].d.own
                         <=> ComesFromThisTransmitter(tr.queue[k].d.from[1],
                                                      tr.queue[k].d.from[2])
    BY DEF EchoesKnown
  <2>1. tr.queue \in Seq(Taken) /\ tr.localips = Host
    BY DEF TrafficInv, TrafficTypes
  <2>2. tr.queue[k] \in Taken
    BY <2>1, LenProperties, ElementOfSeq
  <2> DEFINE d == tr.queue[k].d
  <2>3. d.from \in Address \cup OwnAddress /\ (d.own <=> d.from \in OwnAddress)
    BY <2>2 DEF Taken, Datagram
  <2> HIDE DEF d
  <2>4. d.from \in OwnAddress
          <=> d.from[1] \in Host /\ d.from[2] \in {PortBase, PortBase + 1}
    BY <2>3 DEF OwnAddress, Address
  <2> QED
    BY <2>1, <2>3, <2>4 DEF ComesFromThisTransmitter, d
<1> QED
  BY <1>1, TrafficInductive, PTL

\* A poll empties both sockets up to an empty datagram, reads each socket in the order of
\* arrival and queues what is accepted in that order: PollSocket and GetNextPacket.
THEOREM PollingIsInOrder == Spec => PolledInOrder
<1>1. TrafficInv /\ [Next]_vars =>
        [tr'.created /\ read' # read =>
           /\ \A s \in Socket : net'[s] = <<>> \/ net'[s][1].size = 0
           /\ InOrder(read', net')
           /\ EndPart(tr'.queue, read')]_vars
  <2> SUFFICES ASSUME TrafficInv, [Next]_vars, tr'.created, read' # read
               PROVE  /\ \A s \in Socket : net'[s] = <<>> \/ net'[s][1].size = 0
                      /\ InOrder(read', net')
                      /\ EndPart(tr'.queue, read')
    OBVIOUS
  <2>1. /\ TrafficInv'
        /\ \A s \in Socket : net'[s] = <<>> \/ net'[s][1].size = 0
    BY OnlyPollReads, PollTraffic
  <2> QED
    BY <2>1 DEF TrafficInv, Numbered, Queued
<1> QED
  BY <1>1, TrafficInductive, PTL DEF Spec, PolledInOrder

-----------------------------------------------------------------------------
(* The external transmitter.                                                *)

WaiterPlaces == {"idle", "waitlock", "select", "aborted", "timeout", "take", "done"}
InjectorPlaces == {"idle", "inside", "write"}
CloserPlaces == {"idle", "abort", "aborted", "wake", "close", "join", "done"}

\* Where each thread can be.
Places ==
    /\ DOMAIN pc = Thread
    /\ pc[Waiter] \in WaiterPlaces
    /\ pc[Closer] \in CloserPlaces
    /\ \A t \in Injector : pc[t] \in InjectorPlaces

\* A thread that works inside the transmitter holds the main mutex, and the one that
\* waits the wait mutex.
Owned ==
    /\ pc[Waiter] = "waitlock" => main = Waiter
    /\ pc[Waiter] = "select" => waitmutex = Waiter
    /\ pc[Closer] \in {"abort", "wake", "close"} => main = Closer
    /\ \A t \in Injector : pc[t] \in {"inside", "write"} => main = t

\* The flags tell where the poll thread and the closer are.
Flags ==
    /\ waitingfordata <=> pc[Waiter] \in {"waitlock", "select", "aborted", "timeout"}
    /\ created <=> pc[Closer] \in {"idle", "abort", "aborted"}

\* Nobody begins a wait with packets in the list; a transmitter that is not created
\* has none, and nobody is inside.
Empty ==
    /\ pc[Waiter] = "waitlock" => rawpacketlist = <<>> /\ created
    /\ ~created => rawpacketlist = <<>> /\ \A t \in Injector : pc[t] = "idle"

\* What the threads keep to: inductive.
ExternalInv == ExternalTypeOK /\ Places /\ Owned /\ Flags /\ Empty /\ WakeupNotLost

\* The three names differ from each other and from the injectors.
LEMMA Names ==
  /\ Waiter \notin Injector /\ Closer \notin Injector /\ Nobody \notin Injector
  /\ Waiter # Closer /\ Waiter # Nobody /\ Closer # Nobody
BY ThreadAssumption DEF Waiter, Closer, Nobody

\* At the start everybody is idle and the transmitter created.
LEMMA StartInv == ExternalInit => ExternalInv
<1> SUFFICES ASSUME ExternalInit PROVE ExternalInv
  OBVIOUS
<1>1. /\ DOMAIN pc = Thread
      /\ \A t \in Thread : pc[t] = "idle"
      /\ main = Nobody /\ waitmutex = Nobody
      /\ created = TRUE /\ waitingfordata = FALSE /\ pipe = 0 /\ count = 0
  BY DEF ExternalInit
<1>2. /\ pc[Waiter] = "idle" /\ pc[Closer] = "idle"
      /\ \A t \in Injector : pc[t] = "idle"
  BY <1>1, Zenon DEF Thread
<1>3. ExternalTypeOK
  <2>1. main \in Thread \cup {Nobody} /\ waitmutex \in {Waiter, Nobody}
    BY <1>1, Zenon
  <2>2. pipe \in 0..PipeCapacity /\ count \in 0..MaxInjections
    BY <1>1, CapacityAssumption, SMT
  <2> QED
    BY <1>1, <2>1, <2>2, Zenon DEF ExternalTypeOK
<1>4. Places
  BY <1>1, <1>2 DEF Places, WaiterPlaces, CloserPlaces, InjectorPlaces
<1>5. Owned /\ Flags /\ Empty /\ WakeupNotLost
  BY <1>1, <1>2 DEF Owned, Flags, Empty, WakeupNotLost
<1> QED
  BY <1>3, <1>4, <1>5 DEF ExternalInv

-----------------------------------------------------------------------------
(* One lemma per step of a thread.                                          *)

\* The poll thread finds packets, finds the transmitter destroyed, or takes the main
\* mutex to begin a wait with an empty list.
LEMMA StartWaitInv ==
  ASSUME ExternalInv, StartWait
  PROVE  ExternalInv'
<1> USE Names DEF ExternalInv, Places, StartWait, Goto, fields, Thread
<1>1. ExternalTypeOK' /\ Places'
  BY CapacityAssumption DEF ExternalTypeOK, Owned, Flags, Empty, WaiterPlaces, CloserPlaces, InjectorPlaces
<1>2. Owned' /\ Flags' /\ Empty'
  BY DEF ExternalTypeOK, Owned, Flags, Empty, WaiterPlaces, CloserPlaces, InjectorPlaces
<1>3. WakeupNotLost'
  BY CapacityAssumption DEF ExternalTypeOK, Owned, Flags, Empty, WakeupNotLost, WaiterPlaces, CloserPlaces, InjectorPlaces
<1> QED
  BY <1>1, <1>2, <1>3

\* Nothing was added since the wait began: the main mutex was held.
LEMMA EnterWaitInv ==
  ASSUME ExternalInv, EnterWait
  PROVE  ExternalInv'
<1> USE Names DEF ExternalInv, Places, EnterWait, Goto, fields, Thread
<1>1. ExternalTypeOK' /\ Places'
  BY CapacityAssumption DEF ExternalTypeOK, Owned, Flags, Empty, WaiterPlaces, CloserPlaces, InjectorPlaces
<1>2. Owned' /\ Flags' /\ Empty'
  BY DEF ExternalTypeOK, Owned, Flags, Empty, WaiterPlaces, CloserPlaces, InjectorPlaces
<1>3. WakeupNotLost'
  BY CapacityAssumption DEF ExternalTypeOK, Owned, Flags, Empty, WakeupNotLost, WaiterPlaces, CloserPlaces, InjectorPlaces
<1> QED
  BY <1>1, <1>2, <1>3

\* The end of select changes the place of the poll thread alone.
LEMMA SelectReturnsInv ==
  ASSUME ExternalInv, SelectReturns
  PROVE  ExternalInv'
<1> USE Names DEF ExternalInv, Places, SelectReturns, Goto, fields, Thread
<1>1. ExternalTypeOK' /\ Places'
  BY CapacityAssumption DEF ExternalTypeOK, Owned, Flags, Empty, WaiterPlaces, CloserPlaces, InjectorPlaces
<1>2. Owned' /\ Flags' /\ Empty'
  BY DEF ExternalTypeOK, Owned, Flags, Empty, WaiterPlaces, CloserPlaces, InjectorPlaces
<1>3. WakeupNotLost'
  BY CapacityAssumption DEF ExternalTypeOK, Owned, Flags, Empty, WakeupNotLost, WaiterPlaces, CloserPlaces, InjectorPlaces
<1> QED
  BY <1>1, <1>2, <1>3

\* The poll thread leaves the wait, so its bytes are not missed.
LEMMA EndWaitInv ==
  ASSUME ExternalInv, EndWait
  PROVE  ExternalInv'
<1> USE Names DEF ExternalInv, Places, EndWait, Goto, fields, Thread
<1>1. ExternalTypeOK' /\ Places'
  <2>1. pipe' \in 0..PipeCapacity
    BY CapacityAssumption DEF ExternalTypeOK
  <2>2. waitmutex' \in {Waiter, Nobody} /\ waitingfordata' \in BOOLEAN /\ Places'
    BY DEF WaiterPlaces, CloserPlaces, InjectorPlaces
  <2> QED
    BY <2>1, <2>2 DEF ExternalTypeOK
<1>2. Owned' /\ Flags' /\ Empty'
  BY DEF ExternalTypeOK, Owned, Flags, Empty, WaiterPlaces, CloserPlaces, InjectorPlaces
<1>3. WakeupNotLost'
  BY CapacityAssumption DEF ExternalTypeOK, Owned, Flags, Empty, WakeupNotLost, WaiterPlaces, CloserPlaces, InjectorPlaces
<1> QED
  BY <1>1, <1>2, <1>3

\* The poll thread takes a packet outside of select.
LEMMA GetNextPacketInv ==
  ASSUME ExternalInv, ExternalGetNextPacket
  PROVE  ExternalInv'
<1> USE Names DEF ExternalInv, Places, ExternalGetNextPacket, Goto, Thread
<1>1. ExternalTypeOK' /\ Places'
  BY CapacityAssumption DEF ExternalTypeOK, Owned, Flags, Empty, WaiterPlaces, CloserPlaces, InjectorPlaces
<1>2. Owned' /\ Flags' /\ Empty'
  BY DEF ExternalTypeOK, Owned, Flags, Empty, WaiterPlaces, CloserPlaces, InjectorPlaces
<1>3. WakeupNotLost'
  BY CapacityAssumption DEF ExternalTypeOK, Owned, Flags, Empty, WakeupNotLost, WaiterPlaces, CloserPlaces, InjectorPlaces
<1> QED
  BY <1>1, <1>2, <1>3

\* An injector enters a transmitter that is created and that nobody else is in.
LEMMA InjectInv ==
  ASSUME ExternalInv, NEW t \in Injector, Inject(t)
  PROVE  ExternalInv'
<1> USE Names DEF ExternalInv, Places, Inject, InjectRTP, InjectRTCP, InjectRTPorRTCP, Goto, fields, Thread
<1>1. ExternalTypeOK' /\ Places'
  BY CapacityAssumption DEF ExternalTypeOK, Owned, Flags, Empty, WaiterPlaces, CloserPlaces, InjectorPlaces
<1>2. Owned' /\ Flags' /\ Empty'
  BY DEF ExternalTypeOK, Owned, Flags, Empty, WaiterPlaces, CloserPlaces, InjectorPlaces
<1>3. WakeupNotLost'
  BY CapacityAssumption DEF ExternalTypeOK, Owned, Flags, Empty, WakeupNotLost, WaiterPlaces, CloserPlaces, InjectorPlaces
<1> QED
  BY <1>1, <1>2, <1>3

\* The injector that adds a packet is the one that will write the byte.
LEMMA PushPacketInv ==
  ASSUME ExternalInv, NEW t \in Injector, PushPacket(t)
  PROVE  ExternalInv'
<1> USE Names DEF ExternalInv, Places, PushPacket, Goto, fields, Thread
<1>1. ExternalTypeOK' /\ Places'
  BY CapacityAssumption DEF ExternalTypeOK, Owned, Flags, Empty, WaiterPlaces, CloserPlaces, InjectorPlaces
<1>2. Owned' /\ Flags' /\ Empty'
  BY DEF ExternalTypeOK, Owned, Flags, Empty, WaiterPlaces, CloserPlaces, InjectorPlaces
<1>3. WakeupNotLost'
  BY CapacityAssumption DEF ExternalTypeOK, Owned, Flags, Empty, WakeupNotLost, WaiterPlaces, CloserPlaces, InjectorPlaces
<1> QED
  BY <1>1, <1>2, <1>3

\* The byte of an injection is in the pipe when the injector leaves.
LEMMA WriteByteInv ==
  ASSUME ExternalInv, NEW t \in Injector, WriteByte(t)
  PROVE  ExternalInv'
<1> USE Names DEF ExternalInv, Places, WriteByte, Goto, fields, Thread
<1>1. ExternalTypeOK' /\ Places'
  BY CapacityAssumption DEF ExternalTypeOK, Owned, Flags, Empty, WaiterPlaces, CloserPlaces, InjectorPlaces
<1>2. Owned' /\ Flags' /\ Empty'
  BY DEF ExternalTypeOK, Owned, Flags, Empty, WaiterPlaces, CloserPlaces, InjectorPlaces
<1>3. WakeupNotLost'
  BY CapacityAssumption DEF ExternalTypeOK, Owned, Flags, Empty, WakeupNotLost, WaiterPlaces, CloserPlaces, InjectorPlaces
<1> QED
  BY <1>1, <1>2, <1>3

\* The closer enters a transmitter that nobody else is in.
LEMMA AbortWaitInv ==
  ASSUME ExternalInv, AbortWait
  PROVE  ExternalInv'
<1> USE Names DEF ExternalInv, Places, AbortWait, Goto, fields, Thread
<1>1. ExternalTypeOK' /\ Places'
  BY CapacityAssumption DEF ExternalTypeOK, Owned, Flags, Empty, WaiterPlaces, CloserPlaces, InjectorPlaces
<1>2. Owned' /\ Flags' /\ Empty'
  BY DEF ExternalTypeOK, Owned, Flags, Empty, WaiterPlaces, CloserPlaces, InjectorPlaces
<1>3. WakeupNotLost'
  BY CapacityAssumption DEF ExternalTypeOK, Owned, Flags, Empty, WakeupNotLost, WaiterPlaces, CloserPlaces, InjectorPlaces
<1> QED
  BY <1>1, <1>2, <1>3

\* The byte of an abort is in the pipe when the closer leaves.
LEMMA AbortWriteInv ==
  ASSUME ExternalInv, AbortWrite
  PROVE  ExternalInv'
<1> USE Names DEF ExternalInv, Places, AbortWrite, Goto, fields, Thread
<1>1. ExternalTypeOK' /\ Places'
  BY CapacityAssumption DEF ExternalTypeOK, Owned, Flags, Empty, WaiterPlaces, CloserPlaces, InjectorPlaces
<1>2. Owned' /\ Flags' /\ Empty'
  BY DEF ExternalTypeOK, Owned, Flags, Empty, WaiterPlaces, CloserPlaces, InjectorPlaces
<1>3. WakeupNotLost'
  BY CapacityAssumption DEF ExternalTypeOK, Owned, Flags, Empty, WakeupNotLost, WaiterPlaces, CloserPlaces, InjectorPlaces
<1> QED
  BY <1>1, <1>2, <1>3

\* With a wait going on the closer will write a byte; without, nobody sleeps.
LEMMA DestroyInv ==
  ASSUME ExternalInv, ExternalDestroy
  PROVE  ExternalInv'
<1> USE Names DEF ExternalInv, Places, ExternalDestroy, Goto, fields, Thread
<1>1. ExternalTypeOK' /\ Places'
  <2>1. pipe' \in 0..PipeCapacity
    BY CapacityAssumption DEF ExternalTypeOK
  <2>2. main' \in Thread \cup {Nobody} /\ created' \in BOOLEAN /\ waitingfordata' = waitingfordata
    BY DEF ExternalTypeOK
  <2>3. Places'
    BY DEF WaiterPlaces, CloserPlaces, InjectorPlaces
  <2> QED
    BY <2>1, <2>2, <2>3 DEF ExternalTypeOK
<1>2. Owned' /\ Flags' /\ Empty'
  BY DEF ExternalTypeOK, Owned, Flags, Empty, WaiterPlaces, CloserPlaces, InjectorPlaces
<1>3. WakeupNotLost'
  BY CapacityAssumption DEF ExternalTypeOK, Owned, Flags, Empty, WakeupNotLost, WaiterPlaces, CloserPlaces, InjectorPlaces
<1> QED
  BY <1>1, <1>2, <1>3

\* The byte of Destroy is in the pipe before it is closed.
LEMMA DestroyWakesInv ==
  ASSUME ExternalInv, DestroyWakes
  PROVE  ExternalInv'
<1> USE Names DEF ExternalInv, Places, DestroyWakes, Goto, fields, Thread
<1>1. ExternalTypeOK' /\ Places'
  BY CapacityAssumption DEF ExternalTypeOK, Owned, Flags, Empty, WaiterPlaces, CloserPlaces, InjectorPlaces
<1>2. Owned' /\ Flags' /\ Empty'
  BY DEF ExternalTypeOK, Owned, Flags, Empty, WaiterPlaces, CloserPlaces, InjectorPlaces
<1>3. WakeupNotLost'
  BY CapacityAssumption DEF ExternalTypeOK, Owned, Flags, Empty, WakeupNotLost, WaiterPlaces, CloserPlaces, InjectorPlaces
<1> QED
  BY <1>1, <1>2, <1>3

\* The pipe is closed with the byte in it, before the wait mutex is asked for.
LEMMA DestroyClosesInv ==
  ASSUME ExternalInv, DestroyCloses
  PROVE  ExternalInv'
<1> USE Names DEF ExternalInv, Places, DestroyCloses, Goto, fields, Thread
<1>1. ExternalTypeOK' /\ Places'
  BY CapacityAssumption DEF ExternalTypeOK, Owned, Flags, Empty, WaiterPlaces, CloserPlaces, InjectorPlaces
<1>2. Owned' /\ Flags' /\ Empty'
  BY DEF ExternalTypeOK, Owned, Flags, Empty, WaiterPlaces, CloserPlaces, InjectorPlaces
<1>3. WakeupNotLost'
  BY CapacityAssumption DEF ExternalTypeOK, Owned, Flags, Empty, WakeupNotLost, WaiterPlaces, CloserPlaces, InjectorPlaces
<1> QED
  BY <1>1, <1>2, <1>3

\* The second unlock finds nobody inside: the transmitter is not created.
LEMMA DestroyJoinsInv ==
  ASSUME ExternalInv, DestroyJoins
  PROVE  ExternalInv'
<1> USE Names DEF ExternalInv, Places, DestroyJoins, Goto, fields, Thread
<1>1. ExternalTypeOK' /\ Places'
  BY CapacityAssumption DEF ExternalTypeOK, Owned, Flags, Empty, WaiterPlaces, CloserPlaces, InjectorPlaces
<1>2. Owned' /\ Flags' /\ Empty'
  BY DEF ExternalTypeOK, Owned, Flags, Empty, WaiterPlaces, CloserPlaces, InjectorPlaces
<1>3. WakeupNotLost'
  BY CapacityAssumption DEF ExternalTypeOK, Owned, Flags, Empty, WakeupNotLost, WaiterPlaces, CloserPlaces, InjectorPlaces
<1> QED
  BY <1>1, <1>2, <1>3

-----------------------------------------------------------------------------
\* The invariant of every behaviour.
LEMMA ExternalInductive == ExternalSpec => []ExternalInv
<1>1. ExternalInit => ExternalInv
  BY StartInv
<1>2. ExternalInv /\ [ExternalNext]_externalvars => ExternalInv'
  <2> SUFFICES ASSUME ExternalInv, [ExternalNext]_externalvars PROVE ExternalInv'
    OBVIOUS
  <2>1. CASE PollThread
    BY <2>1, StartWaitInv, EnterWaitInv, SelectReturnsInv, EndWaitInv,
       GetNextPacketInv, Zenon DEF PollThread
  <2>2. ASSUME NEW t \in Injector, Injecting(t) PROVE ExternalInv'
    BY <2>2, InjectInv, PushPacketInv, WriteByteInv, Zenon DEF Injecting
  <2>3. CASE Closing
    BY <2>3, AbortWaitInv, AbortWriteInv, DestroyInv, DestroyWakesInv,
       DestroyClosesInv, DestroyJoinsInv, Zenon DEF Closing
  <2>4. CASE UNCHANGED externalvars
    BY <2>4 DEF externalvars, ExternalInv, ExternalTypeOK, Places, Owned, Flags, Empty, WakeupNotLost
  <2> QED
    BY <2>1, <2>2, <2>3, <2>4, Zenon DEF ExternalNext
<1> QED
  BY <1>1, <1>2, PTL DEF ExternalSpec

-----------------------------------------------------------------------------
(* Theorems.                                                                *)

\* Every variable of the external transmitter keeps its type.
THEOREM ExternalTypeCorrect == ExternalSpec => []ExternalTypeOK
<1>1. ExternalInv => ExternalTypeOK
  BY DEF ExternalInv
<1> QED
  BY <1>1, ExternalInductive, PTL

\* The poll thread never sleeps over a packet without a byte that is in the pipe or on
\* its way: AbortWaitInternal comes after the change, and WaitForIncomingData looks at
\* the list under the main mutex.  Destroy writes a byte for a sleeping thread before
\* DestroyAbortDescriptors, and does not return while it sleeps.
THEOREM NoLostWakeup == ExternalSpec => []WakeupNotLost
<1>1. ExternalInv => WakeupNotLost
  BY DEF ExternalInv
<1> QED
  BY <1>1, ExternalInductive, PTL

\* Although Destroy unlocks the main mutex twice, whoever works inside holds it.
THEOREM MutualExclusion == ExternalSpec => []SectionsApart
<1>1. ExternalInv => SectionsApart
  BY DEF ExternalInv, Owned, SectionsApart, Thread
<1> QED
  BY <1>1, ExternalInductive, PTL

-----------------------------------------------------------------------------
(* Elements strung on links.                                                *)

\* The i-th element, or Null outside of the string.
At(s, i) == IF i \in 1..Len(s) THEN s[i] ELSE Null

Elements(s) == {s[i] : i \in 1..Len(s)}

\* The links of both directions follow a sequence without duplicates.
Strung(s, first, next, prev) ==
    /\ s \in Seq(Addr)
    /\ \A i, j \in 1..Len(s) : s[i] = s[j] => i = j
    /\ first = At(s, 1)
    /\ \A i \in 1..Len(s) : next[s[i]] = At(s, i + 1) /\ prev[s[i]] = At(s, i - 1)

\* Null is not an address, and there are finitely many.
LEMMA AddrFacts == Null \notin Addr /\ IsFiniteSet(Addr) /\ Cardinality(Addr) \in Nat
BY TableAssumption, FS_CardinalityType DEF Null

\* Places and elements.
LEMMA AtIs ==
  ASSUME NEW s \in Seq(Addr)
  PROVE  /\ Len(s) \in Nat
         /\ \A i \in 1..Len(s) : s[i] \in Addr /\ At(s, i) = s[i] /\ At(s, i) # Null
         /\ \A i \in Int : At(s, i) \in Addr \cup {Null} /\ (i \notin 1..Len(s) => At(s, i) = Null)
<1>1. Len(s) \in Nat /\ \A i \in 1..Len(s) : s[i] \in Addr
  OBVIOUS
<1> QED
  BY <1>1, AddrFacts, Zenon DEF At

\* An element has one place.
LEMMA AtOnce ==
  ASSUME NEW s \in Seq(Addr), \A i, j \in 1..Len(s) : s[i] = s[j] => i = j,
         NEW i \in 1..Len(s), NEW j \in Int, s[i] = At(s, j)
  PROVE  i = j
<1>1. j \in 1..Len(s)
  BY AtIs
<1> QED
  BY <1>1, AtIs

\* A string is no longer than there are addresses, and following its links visits it.
LEMMA WalkIs ==
  ASSUME NEW s, NEW first, NEW next, NEW prev, Strung(s, first, next, prev)
  PROVE  /\ Len(s) \in 0..Cardinality(Addr)
         /\ Walk(first, next) = [n \in 1..Cardinality(Addr) |-> At(s, n)]
<1> DEFINE N == Cardinality(Addr)
           D == 1..N
           Follows(f) == f = [n \in D |-> IF n = 1 THEN first
                                          ELSE IF f[n - 1] = Null THEN Null ELSE next[f[n - 1]]]
           g == [n \in D |-> At(s, n)]
<1>1. s \in Seq(Addr) /\ first = At(s, 1) /\ N \in Nat
      /\ \A i \in 1..Len(s) : next[s[i]] = At(s, i + 1)
  BY AddrFacts DEF Strung
<1>2. Len(s) \in 0..N
  <2>1. s \in Injection(1..Len(s), Addr)
    BY <1>1 DEF Strung, Injection, IsInjective
  <2>2. IsFiniteSet(1..Len(s)) /\ Cardinality(1..Len(s)) = Len(s) /\ Len(s) \in Nat
    <3> DEFINE l == Len(s)
    <3>1. l \in Nat /\ l - 1 + 1 = l
      BY <1>1
    <3> HIDE DEF l
    <3>2. IsFiniteSet(1..l) /\ Cardinality(1..l) = l
      <4>1. 1 \in Int /\ l \in Int
        BY <3>1
      <4>2. IsFiniteSet(1..l) /\ Cardinality(1..l) = IF 1 > l THEN 0 ELSE l - 1 + 1
        BY <4>1, FS_Interval, Zenon
      <4> QED
        BY <3>1, <4>2
    <3> QED
      BY <3>1, <3>2 DEF l
  <2>3. Cardinality(1..Len(s)) <= N
    BY <2>1, AddrFacts, FS_Injection, Zenon
  <2> QED
    BY <1>1, <2>2, <2>3
<1>3. Follows(g)
  <2>1. ASSUME NEW n \in D, n # 1
        PROVE  g[n] = IF g[n - 1] = Null THEN Null ELSE next[g[n - 1]]
    <3>1. n \in Nat /\ n - 1 \in D /\ (n - 1) + 1 = n /\ n - 1 \in Int /\ n \in Int
      BY <1>1, <2>1
    <3>2. CASE n - 1 \in 1..Len(s)
      <4>1. At(s, n - 1) = s[n - 1] /\ At(s, n - 1) # Null /\ next[s[n - 1]] = At(s, n)
        BY <1>1, <3>1, <3>2, AtIs
      <4> QED
        BY <3>1, <4>1
    <3>3. CASE n - 1 \notin 1..Len(s)
      <4>1. n \notin 1..Len(s)
        BY <1>1, <2>1, <3>1, <3>3
      <4>2. At(s, n - 1) = Null /\ At(s, n) = Null
        BY <1>1, <3>1, <3>3, <4>1, AtIs
      <4> QED
        BY <3>1, <4>2
    <3> QED
      BY <3>2, <3>3
  <2>2. ASSUME NEW n \in D, n = 1 PROVE g[n] = first
    BY <1>1, <2>2
  <2> QED
    BY <2>1, <2>2
<1>4. ASSUME NEW f, Follows(f) PROVE f = g
  <2> DEFINE T == {i \in D : f[i] # g[i]}
  <2>1. f = [n \in D |-> f[n]] /\ g = [n \in D |-> g[n]]
    BY <1>4
  <2>2. ASSUME T # {} PROVE FALSE
    <3>1. PICK x \in T : \A y \in T : x <= y
      <4>1. T \in SUBSET Nat
        BY <1>1
      <4> HIDE DEF T
      <4> QED
        BY <2>2, <4>1, LeastNat
    <3>2. (f[1] = first /\ g[1] = first) \/ 1 \notin D
      BY <1>3, <1>4
    <3>3. x # 1 /\ x \in D /\ x - 1 \in D /\ ~(x <= x - 1)
      BY <1>1, <3>2
    <3>4. f[x - 1] = g[x - 1]
      BY <3>1, <3>3
    <3>5. f[x] = (IF f[x - 1] = Null THEN Null ELSE next[f[x - 1]])
      BY <1>4, <3>3
    <3>6. g[x] = (IF g[x - 1] = Null THEN Null ELSE next[g[x - 1]])
      <4> HIDE DEF g
      <4> QED
        BY <1>3, <3>3
    <3> QED
      BY <3>4, <3>5, <3>6
  <2>3. \A i \in D : f[i] = g[i]
    BY <2>2
  <2> QED
    BY <2>1, <2>3
<1>5. Walk(first, next) = CHOOSE f : Follows(f)
  BY Zenon DEF Walk
<1> HIDE DEF Follows, g
<1>6. Walk(first, next) = g
  BY <1>3, <1>4, <1>5, Zenon
<1> QED
  BY <1>2, <1>6 DEF g

\* Nothing is strung on no links.
LEMMA Emptied ==
  ASSUME NEW next, NEW prev
  PROVE  Strung(<<>>, Null, next, prev) /\ Elements(<<>>) = {} /\ At(<<>>, 0) = Null
BY DEF Strung, At, Elements

\* Links that are the same on its elements.
LEMMA Untouched ==
  ASSUME NEW s, NEW first, NEW next, NEW prev, Strung(s, first, next, prev),
         NEW n2, NEW p2, \A x \in Elements(s) : n2[x] = next[x] /\ p2[x] = prev[x]
  PROVE  Strung(s, first, n2, p2)
<1>1. \A i \in 1..Len(s) : s[i] \in Elements(s)
  BY DEF Elements
<1> QED
  BY <1>1, Zenon DEF Strung

\* The links are those of a string with one more behind its last.
AddedLast(s, a, next, prev, n2, p2) ==
    /\ n2[a] = Null /\ p2[a] = At(s, Len(s))
    /\ \A x \in Elements(s) : /\ n2[x] = IF x = At(s, Len(s)) THEN a ELSE next[x]
                              /\ p2[x] = prev[x]

FollowAppended(s, a, first, n2, p2) ==
    LET t == Append(s, a)
    IN  /\ Strung(t, IF first = Null THEN a ELSE first, n2, p2)
        /\ Elements(t) = Elements(s) \cup {a}
        /\ At(t, Len(t)) = a

\* One more at the end.
LEMMA Appended ==
  ASSUME NEW s, NEW first, NEW next, NEW prev, Strung(s, first, next, prev),
         NEW a \in Addr, a \notin Elements(s), NEW n2, NEW p2,
         AddedLast(s, a, next, prev, n2, p2)
  PROVE  FollowAppended(s, a, first, n2, p2)
<1>0. /\ n2[a] = Null /\ p2[a] = At(s, Len(s))
      /\ \A x \in Elements(s) : /\ n2[x] = IF x = At(s, Len(s)) THEN a ELSE next[x]
                                /\ p2[x] = prev[x]
  BY Zenon DEF AddedLast
<1> DEFINE t == Append(s, a)
           n == Len(s)
<1>1. s \in Seq(Addr) /\ n \in Nat /\ first = At(s, 1) /\ (\A i, j \in 1..n : s[i] = s[j] => i = j)
      /\ \A i \in 1..n : next[s[i]] = At(s, i + 1) /\ prev[s[i]] = At(s, i - 1)
  BY AtIs DEF Strung
<1>2. t \in Seq(Addr) /\ Len(t) = n + 1 /\ t[n + 1] = a /\ \A i \in 1..n : t[i] = s[i]
  BY <1>1
<1> HIDE DEF t
<1>3. \A i \in 1..n : s[i] \in Elements(s) /\ s[i] # a
  BY DEF Elements
<1>4. \A i \in Int : At(t, i) = IF i = n + 1 THEN a ELSE At(s, i)
  BY <1>1, <1>2 DEF At
<1>5. \A i, j \in 1..Len(t) : t[i] = t[j] => i = j
  <2> SUFFICES ASSUME NEW i \in 1..Len(t), NEW j \in 1..Len(t), t[i] = t[j] PROVE i = j
    OBVIOUS
  <2>1. (i \in 1..n \/ i = n + 1) /\ (j \in 1..n \/ j = n + 1)
    BY <1>1, <1>2
  <2> QED
    BY <1>1, <1>2, <1>3, <2>1
<1>6. At(t, 1) = IF first = Null THEN a ELSE first
  <2>1. CASE n = 0
    <3>1. first = Null /\ 1 = n + 1 /\ 1 \in Int
      BY <1>1, <2>1 DEF At
    <3> QED
      BY <1>4, <3>1, Zenon
  <2>2. CASE n # 0
    <3>1. 1 \in 1..n /\ 1 # n + 1 /\ 1 \in Int
      BY <1>1, <2>2
    <3> QED
      BY <1>1, <1>4, <3>1, AtIs, Zenon
  <2> QED
    BY <2>1, <2>2
<1>7. ASSUME NEW i \in 1..Len(t)
      PROVE  n2[t[i]] = At(t, i + 1) /\ p2[t[i]] = At(t, i - 1)
  <2>1. CASE i \in 1..n
    <3>1. i \in Int /\ i + 1 \in Int /\ i - 1 \in Int /\ i - 1 # n + 1 /\ n \in Int
      BY <1>1, <2>1
    <3>2. p2[t[i]] = At(t, i - 1)
      <4>1. At(t, i - 1) = At(s, i - 1)
        BY <1>4, <3>1, Zenon
      <4>2. t[i] = s[i] /\ p2[s[i]] = prev[s[i]] /\ prev[s[i]] = At(s, i - 1)
        BY <1>0, <1>1, <1>2, <1>3, <2>1, Zenon
      <4> QED
        BY <4>1, <4>2
    <3>3. s[i] = At(s, n) <=> i = n
      BY <1>1, <2>1, <3>1, AtOnce, AtIs
    <3>4. n2[t[i]] = IF i = n THEN a ELSE At(s, i + 1)
      BY <1>0, <1>1, <1>2, <1>3, <2>1, <3>3
    <3> QED
      BY <1>1, <1>4, <2>1, <3>1, <3>2, <3>4
  <2>2. CASE i = n + 1
    <3>1. At(t, i + 1) = At(s, i + 1) /\ At(t, i - 1) = At(s, n) /\ At(s, i + 1) = Null
      <4>1. i + 1 \in Int /\ i + 1 # n + 1 /\ i - 1 = n /\ n # n + 1 /\ i + 1 \notin 1..n /\ n \in Int
        BY <1>1, <2>2
      <4> QED
        BY <1>1, <1>4, <4>1, AtIs
    <3> QED
      BY <1>0, <1>2, <2>2, <3>1
  <2> QED
    BY <1>1, <1>2, <2>1, <2>2
<1>8. Strung(t, IF first = Null THEN a ELSE first, n2, p2)
  BY <1>2, <1>5, <1>6, <1>7, Zenon DEF Strung
<1>9. Elements(t) = Elements(s) \cup {a}
  <2>1. 1..Len(t) = (1..n) \cup {n + 1}
    BY <1>1, <1>2
  <2> QED
    BY <1>2, <2>1 DEF Elements
<1>10. At(t, Len(t)) = a
  BY <1>1, <1>2, <1>4
<1> QED
  BY <1>8, <1>9, <1>10, Zenon DEF t, FollowAppended

\* The links are those of a string with one more before its first.
AddedFirst(s, a, first, next, prev, n2, p2) ==
    /\ n2[a] = first /\ p2[a] = Null
    /\ \A x \in Elements(s) : /\ n2[x] = next[x]
                              /\ p2[x] = IF x = first THEN a ELSE prev[x]

FollowPrepended(s, a, n2, p2) ==
    LET t == <<a>> \o s
    IN  Strung(t, a, n2, p2) /\ Elements(t) = Elements(s) \cup {a}

\* One more at the head.
LEMMA Prepended ==
  ASSUME NEW s, NEW first, NEW next, NEW prev, Strung(s, first, next, prev),
         NEW a \in Addr, a \notin Elements(s), NEW n2, NEW p2,
         AddedFirst(s, a, first, next, prev, n2, p2)
  PROVE  FollowPrepended(s, a, n2, p2)
<1>0. /\ n2[a] = first /\ p2[a] = Null
      /\ \A x \in Elements(s) : /\ n2[x] = next[x]
                                /\ p2[x] = IF x = first THEN a ELSE prev[x]
  BY Zenon DEF AddedFirst
<1> DEFINE t == <<a>> \o s
           n == Len(s)
<1>1. s \in Seq(Addr) /\ n \in Nat /\ first = At(s, 1) /\ (\A i, j \in 1..n : s[i] = s[j] => i = j)
      /\ \A i \in 1..n : next[s[i]] = At(s, i + 1) /\ prev[s[i]] = At(s, i - 1)
  BY AtIs DEF Strung
<1>2. t \in Seq(Addr) /\ Len(t) = n + 1 /\ t[1] = a /\ \A i \in 1..n : t[i + 1] = s[i]
  <2>1. <<a>> \in Seq(Addr) /\ Len(<<a>>) = 1 /\ <<a>>[1] = a
    OBVIOUS
  <2>2. /\ t \in Seq(Addr) /\ Len(t) = 1 + n
        /\ \A i \in 1..1 : t[i] = <<a>>[i]
        /\ \A i \in 1..n : t[1 + i] = s[i]
    BY <1>1, <2>1, ConcatIs
  <2> HIDE DEF t
  <2> QED
    BY <1>1, <2>1, <2>2
<1> HIDE DEF t
<1>3. \A i \in 1..n : s[i] \in Elements(s) /\ s[i] # a
  BY DEF Elements
<1>4. \A i \in 1..Len(t) : i = 1 \/ (i - 1 \in 1..n /\ t[i] = s[i - 1])
  <2> SUFFICES ASSUME NEW i \in 1..Len(t), i # 1 PROVE i - 1 \in 1..n /\ t[i] = s[i - 1]
    OBVIOUS
  <2>1. i - 1 \in 1..n /\ (i - 1) + 1 = i
    BY <1>1, <1>2
  <2> QED
    BY <1>2, <2>1
<1>5. /\ At(t, 1) = a /\ At(t, 0) = Null
      /\ \A i \in Nat : i # 0 => At(t, i + 1) = At(s, i)
  <2>1. At(t, 1) = a /\ At(t, 0) = Null
    BY <1>1, <1>2 DEF At
  <2>2. ASSUME NEW i \in Nat, i # 0 PROVE At(t, i + 1) = At(s, i)
    <3>1. i + 1 \in 1..Len(t) <=> i \in 1..n
      BY <1>1, <1>2, <2>2
    <3> QED
      BY <1>2, <3>1 DEF At
  <2> QED
    BY <2>1, <2>2
<1>6. \A i, j \in 1..Len(t) : t[i] = t[j] => i = j
  <2> SUFFICES ASSUME NEW i \in 1..Len(t), NEW j \in 1..Len(t), t[i] = t[j] PROVE i = j
    OBVIOUS
  <2>1. CASE i = 1
    BY <1>2, <1>3, <1>4, <2>1
  <2>2. CASE j = 1
    BY <1>2, <1>3, <1>4, <2>2
  <2>3. CASE i # 1 /\ j # 1
    <3>1. i - 1 \in 1..n /\ j - 1 \in 1..n /\ s[i - 1] = s[j - 1]
      BY <1>4, <2>3
    <3>2. i - 1 = j - 1
      BY <1>1, <3>1
    <3> QED
      BY <1>1, <1>2, <3>2
  <2> QED
    BY <2>1, <2>2, <2>3
<1>7. ASSUME NEW i \in 1..Len(t)
      PROVE  n2[t[i]] = At(t, i + 1) /\ p2[t[i]] = At(t, i - 1)
  <2>1. CASE i = 1
    <3>1. At(t, i + 1) = At(s, 1) /\ At(t, i - 1) = Null
      <4>1. i + 1 = 1 + 1 /\ i - 1 = 0 /\ 1 \in Nat /\ 1 # 0
        BY <2>1
      <4> QED
        BY <1>5, <4>1
    <3> QED
      BY <1>0, <1>1, <1>2, <2>1, <3>1
  <2>2. CASE i # 1
    <3> DEFINE j == i - 1
    <3>1. j \in 1..n /\ t[i] = s[j]
      BY <1>4, <2>2
    <3>2. j \in Nat /\ j # 0 /\ j + 1 = i /\ i \in Nat /\ i # 0 /\ j \in Int /\ j - 1 \in Int /\ 1 \in Int
      BY <1>1, <1>2, <3>1
    <3>3. n2[t[i]] = At(s, j + 1) /\ At(t, i + 1) = At(s, i)
      <4> HIDE DEF j
      <4>1. n2[s[j]] = next[s[j]] /\ next[s[j]] = At(s, j + 1)
        BY <1>0, <1>1, <1>3, <3>1, Zenon
      <4>2. At(t, i + 1) = At(s, i)
        BY <1>5, <3>2, Zenon
      <4> QED
        BY <3>1, <4>1, <4>2
    <3>4. s[j] = first <=> j = 1
      BY <1>1, <3>1, <3>2, AtOnce, AtIs
    <3>5. p2[t[i]] = IF j = 1 THEN a ELSE At(s, j - 1)
      BY <1>0, <1>1, <1>3, <3>1, <3>4
    <3>6. At(t, j) = IF j = 1 THEN a ELSE At(s, j - 1)
      <4>1. j # 1 => j - 1 \in Nat /\ j - 1 # 0 /\ (j - 1) + 1 = j
        BY <3>2
      <4> HIDE DEF j
      <4> QED
        BY <1>5, <4>1
    <3> QED
      BY <3>2, <3>3, <3>5, <3>6
  <2> QED
    BY <2>1, <2>2
<1>8. Strung(t, a, n2, p2)
  BY <1>2, <1>5, <1>6, <1>7, Zenon DEF Strung
<1>9. Elements(t) = Elements(s) \cup {a}
  <2>1. ASSUME NEW i \in 1..Len(t) PROVE t[i] \in Elements(s) \cup {a}
    BY <1>2, <1>3, <1>4
  <2>2. ASSUME NEW i \in 1..n PROVE s[i] \in Elements(t)
    <3>1. i + 1 \in 1..Len(t) /\ t[i + 1] = s[i]
      BY <1>1, <1>2
    <3> QED
      BY <3>1 DEF Elements
  <2>3. a \in Elements(t)
    <3>1. 1 \in 1..Len(t)
      BY <1>1, <1>2
    <3> QED
      BY <1>2, <3>1 DEF Elements
  <2> QED
    BY <2>1, <2>2, <2>3 DEF Elements
<1> QED
  BY <1>8, <1>9, Zenon DEF t, FollowPrepended

\* The place where the j-th element was, before the i-th was taken out.
Back(i, j) == IF j < i THEN j ELSE j + 1

\* The places but the i-th, in their order.
LEMMA BackIs ==
  ASSUME NEW n \in Nat, NEW i \in 1..n
  PROVE  /\ \A j \in 1..(n - 1) : Back(i, j) \in 1..n /\ Back(i, j) # i
         /\ \A j, k \in 1..(n - 1) : Back(i, j) = Back(i, k) => j = k
         /\ \A j \in Nat : Back(i, j) \in Nat /\ (Back(i, j) \in 1..n <=> j \in 1..(n - 1))
BY DEF Back

\* No place but the i-th is missed.
LEMMA BackOnto ==
  ASSUME NEW n \in Nat, NEW i \in 1..n, NEW k \in 1..n, k # i
  PROVE  \E j \in 1..(n - 1) : Back(i, j) = k
<1> DEFINE j == IF k < i THEN k ELSE k - 1
<1>1. j \in 1..(n - 1) /\ Back(i, j) = k
  BY DEF Back
<1> QED
  BY <1>1

\* The neighbours of a place, and the ends.
LEMMA BackNext ==
  ASSUME NEW n \in Nat, NEW i \in 1..n, NEW j \in 1..(n - 1)
  PROVE  /\ Back(i, j + 1) = IF Back(i, j) = i - 1 THEN i + 1 ELSE Back(i, j) + 1
         /\ Back(i, j - 1) = IF Back(i, j) = i + 1 THEN i - 1 ELSE Back(i, j) - 1
BY DEF Back

\* Where the ends were.
LEMMA BackEnds ==
  ASSUME NEW n \in Nat, NEW i \in 1..n
  PROVE  /\ Back(i, 1) = (IF i = 1 THEN i + 1 ELSE 1)
         /\ Back(i, n - 1) = (IF i = n THEN i - 1 ELSE n)
BY DEF Back

\* A sequence without its i-th element.
Without(s, i) == SubSeq(s, 1, i - 1) \o SubSeq(s, i + 1, Len(s))

\* It is one shorter; every element comes from its place.
LEMMA OneLess ==
  ASSUME NEW S, NEW s \in Seq(S), NEW i \in 1..Len(s)
  PROVE  /\ Without(s, i) \in Seq(S) /\ Len(Without(s, i)) = Len(s) - 1
         /\ \A j \in 1..(Len(s) - 1) : Without(s, i)[j] = s[Back(i, j)]
<1> DEFINE n == Len(s)
           t == Without(s, i)
           A == SubSeq(s, 1, i - 1)
           B == SubSeq(s, i + 1, n)
<1>1. n \in Nat /\ i \in Nat /\ i - 1 \in 0..n /\ i \in 0..n /\ i <= n
  OBVIOUS
<1>2. A \in Seq(S) /\ Len(A) = i - 1 /\ \A j \in 1..(i - 1) : A[j] = s[j]
  BY <1>1, CutIs
<1>3. B \in Seq(S) /\ Len(B) = n - i /\ \A j \in 1..(n - i) : B[j] = s[j + i]
  BY <1>1, CutIs
<1>4. t = A \o B
  BY Zenon DEF Without
<1> HIDE DEF A, B, n, t
<1>5. /\ t \in Seq(S) /\ Len(t) = Len(A) + Len(B)
      /\ \A j \in 1..Len(A) : t[j] = A[j]
      /\ \A j \in 1..Len(B) : t[Len(A) + j] = B[j]
  <2>1. A \in Seq(S) /\ B \in Seq(S)
    BY <1>2, <1>3
  <2>2. /\ A \o B \in Seq(S) /\ Len(A \o B) = Len(A) + Len(B)
        /\ \A j \in 1..Len(A) : (A \o B)[j] = A[j]
        /\ \A j \in 1..Len(B) : (A \o B)[Len(A) + j] = B[j]
    BY <2>1, ConcatIs
  <2> QED
    BY <1>4, <2>2, Zenon
<1>6. /\ Len(t) = n - 1
      /\ \A j \in 1..(i - 1) : t[j] = A[j]
      /\ \A j \in 1..(n - i) : t[(i - 1) + j] = B[j]
  <2>1. (i - 1) + (n - i) = n - 1 /\ n - i \in Int /\ i - 1 \in Int
    BY <1>1
  <2> QED
    BY <1>2, <1>3, <1>5, <2>1, Zenon
<1>7. ASSUME NEW j \in 1..(n - 1) PROVE t[j] = s[Back(i, j)]
  <2>1. CASE j < i
    <3>1. j \in 1..(i - 1) /\ Back(i, j) = j
      BY <1>1, <2>1 DEF Back
    <3> QED
      BY <1>2, <1>6, <3>1, Zenon
  <2>2. CASE ~(j < i)
    <3>1. PICK k \in 1..(n - i) : j = (i - 1) + k /\ Back(i, j) = k + i
      <4>1. j - (i - 1) \in 1..(n - i) /\ j = (i - 1) + (j - (i - 1))
            /\ Back(i, j) = (j - (i - 1)) + i
        BY <1>1, <2>2 DEF Back
      <4> QED
        BY <4>1
    <3> QED
      BY <1>3, <1>6, <3>1, Zenon
  <2> QED
    BY <2>1, <2>2
<1> QED
  BY <1>5, <1>6, <1>7, Zenon DEF n, t

\* The links around the i-th are closed.
ClosedAround(s, i, next, prev, n2, p2) ==
    \A x \in Elements(s) \ {s[i]} :
        /\ n2[x] = IF x = prev[s[i]] THEN next[s[i]] ELSE next[x]
        /\ p2[x] = IF x = next[s[i]] THEN prev[s[i]] ELSE prev[x]

\* Without the i-th the links follow the rest, whose ends are those around the i-th
\* if it was at an end.
FollowRest(s, i, first, next, prev, n2, p2) ==
    LET t == Without(s, i)
    IN  /\ Strung(t, IF prev[s[i]] = Null THEN next[s[i]] ELSE first, n2, p2)
        /\ Elements(t) = Elements(s) \ {s[i]}
        /\ At(t, Len(t)) = IF next[s[i]] = Null THEN prev[s[i]] ELSE At(s, Len(s))

\* One is taken out.
LEMMA Removed ==
  ASSUME NEW s, NEW first, NEW next, NEW prev, Strung(s, first, next, prev),
         NEW i \in 1..Len(s), NEW n2, NEW p2, ClosedAround(s, i, next, prev, n2, p2)
  PROVE  FollowRest(s, i, first, next, prev, n2, p2)
<1> DEFINE n == Len(s)
           t == Without(s, i)
<1>1. s \in Seq(Addr) /\ n \in Nat /\ first = At(s, 1) /\ (\A j, k \in 1..n : s[j] = s[k] => j = k)
      /\ \A j \in 1..n : next[s[j]] = At(s, j + 1) /\ prev[s[j]] = At(s, j - 1)
  BY AtIs DEF Strung
<1>2. t \in Seq(Addr) /\ Len(t) = n - 1 /\ \A j \in 1..(n - 1) : t[j] = s[Back(i, j)]
  <2>1. s \in Seq(Addr) /\ i \in 1..Len(s)
    BY <1>1
  <2> QED
    BY ONLY <2>1, OneLess, Zenon
<1> HIDE DEF t
<1>3. i \in 1..n /\ next[s[i]] = At(s, i + 1) /\ prev[s[i]] = At(s, i - 1)
      /\ i \in Nat /\ i - 1 \in Int /\ i + 1 \in Int /\ n - 1 \in Nat
  BY <1>1
<1>4. \A p \in 1..n, j \in Int : s[p] = At(s, j) <=> p = j
  <2>1. ASSUME NEW p \in 1..n, NEW j \in Int, s[p] = At(s, j) PROVE p = j
    BY <1>1, <2>1, AtOnce, Zenon
  <2>2. \A p \in 1..n : s[p] = At(s, p)
    BY <1>1, AtIs, Zenon
  <2> QED
    BY <2>1, <2>2, Zenon
<1>5. \A j \in Int : At(s, j) = Null <=> j \notin 1..n
  BY <1>1, AtIs, Zenon
<1>6. \A j \in 1..n : s[j] \in Elements(s)
  BY Zenon DEF Elements
<1>7. Elements(s) = {s[j] : j \in 1..n}
  BY Zenon DEF Elements
<1>8. Len(s) = n
  OBVIOUS
<1> HIDE DEF n
<1>9. \A j \in 1..(n - 1) : Back(i, j) \in 1..n /\ Back(i, j) # i
  BY <1>1, <1>3, BackIs
<1>10. ASSUME NEW j \in Nat PROVE At(t, j) = At(s, Back(i, j))
  <2>1. Back(i, j) \in Nat /\ (Back(i, j) \in 1..n <=> j \in 1..(n - 1))
    BY <1>1, <1>3, BackIs
  <2> QED
    BY <1>2, <1>8, <2>1, Zenon DEF At
<1>11. \A j, k \in 1..Len(t) : t[j] = t[k] => j = k
  <2> SUFFICES ASSUME NEW j \in 1..(n - 1), NEW k \in 1..(n - 1), t[j] = t[k] PROVE j = k
    BY <1>2, Zenon
  <2>1. Back(i, j) \in 1..n /\ Back(i, k) \in 1..n /\ s[Back(i, j)] = s[Back(i, k)]
    BY <1>2, <1>9, Zenon
  <2>2. Back(i, j) = Back(i, k)
    BY <1>1, <2>1, Zenon
  <2>3. \A x, y \in 1..(n - 1) : Back(i, x) = Back(i, y) => x = y
    BY <1>1, <1>3, BackIs
  <2> QED
    BY <2>2, <2>3, Zenon
<1>12. ASSUME NEW j \in 1..Len(t)
       PROVE  n2[t[j]] = At(t, j + 1) /\ p2[t[j]] = At(t, j - 1)
  <2>1. j \in 1..(n - 1) /\ j - 1 \in Nat /\ j + 1 \in Nat
    <3>1. n \in Nat /\ j \in 1..(n - 1)
      BY <1>1, <1>2, Zenon
    <3> QED
      BY ONLY <3>1
  <2>2. PICK p \in 1..n : p = Back(i, j) /\ p # i
    BY <1>9, <2>1, Zenon
  <2>3. t[j] = s[p] /\ s[p] \in Elements(s) \ {s[i]}
    <3>1. s[p] # s[i]
      BY <1>1, <1>3, <2>2, Zenon
    <3>2. t[j] = s[p]
      BY <1>2, <2>1, <2>2, Zenon
    <3> QED
      BY <1>6, <3>1, <3>2, Zenon
  <2>4. (s[p] = At(s, i - 1) <=> p = i - 1) /\ (s[p] = At(s, i + 1) <=> p = i + 1)
    BY <1>3, <1>4, Zenon
  <2>5. next[s[p]] = At(s, p + 1) /\ prev[s[p]] = At(s, p - 1)
    BY <1>1, Zenon
  <2>6. /\ n2[t[j]] = IF p = i - 1 THEN At(s, i + 1) ELSE At(s, p + 1)
        /\ p2[t[j]] = IF p = i + 1 THEN At(s, i - 1) ELSE At(s, p - 1)
    BY <1>3, <2>3, <2>4, <2>5, Zenon DEF ClosedAround
  <2>7. At(t, j + 1) = At(s, Back(i, j + 1)) /\ At(t, j - 1) = At(s, Back(i, j - 1))
    BY <1>10, <2>1, Zenon
  <2>8. /\ Back(i, j + 1) = IF p = i - 1 THEN i + 1 ELSE p + 1
        /\ Back(i, j - 1) = IF p = i + 1 THEN i - 1 ELSE p - 1
    <3>1. /\ Back(i, j + 1) = IF Back(i, j) = i - 1 THEN i + 1 ELSE Back(i, j) + 1
          /\ Back(i, j - 1) = IF Back(i, j) = i + 1 THEN i - 1 ELSE Back(i, j) - 1
      BY <1>1, <1>3, <2>1, BackNext
    <3> QED
      BY <2>2, <3>1, Zenon
  <2> QED
    BY <2>6, <2>7, <2>8, Zenon
<1>13. At(t, 1) = IF prev[s[i]] = Null THEN next[s[i]] ELSE first
  <2>1. At(t, 1) = At(s, Back(i, 1)) /\ Back(i, 1) = (IF i = 1 THEN i + 1 ELSE 1)
    <3>1. Back(i, 1) = (IF i = 1 THEN i + 1 ELSE 1) /\ 1 \in Nat
      BY <1>1, <1>3, BackEnds
    <3> QED
      BY <1>10, <3>1, Zenon
  <2>2. i = 1 <=> i - 1 \notin 1..n
    BY <1>1, <1>3
  <2>3. prev[s[i]] = Null <=> i = 1
    BY <1>3, <1>5, <2>2, Zenon
  <2> QED
    BY <1>1, <1>3, <2>1, <2>3, Zenon
<1>14. Strung(t, IF prev[s[i]] = Null THEN next[s[i]] ELSE first, n2, p2)
  BY <1>2, <1>11, <1>12, <1>13, Zenon DEF Strung
<1>15. Elements(t) = Elements(s) \ {s[i]}
  <2>1. Elements(t) = {t[j] : j \in 1..(n - 1)}
    BY <1>2, Zenon DEF Elements
  <2>2. ASSUME NEW j \in 1..(n - 1) PROVE t[j] \in Elements(s) \ {s[i]}
    <3>1. t[j] = s[Back(i, j)] /\ Back(i, j) \in 1..n /\ Back(i, j) # i
      BY <1>2, <1>9, Zenon
    <3> QED
      BY <1>1, <1>3, <1>6, <3>1, Zenon
  <2>3. ASSUME NEW j \in 1..n, j # i PROVE s[j] \in Elements(t)
    <3>1. PICK k \in 1..(n - 1) : Back(i, k) = j
      <4>1. n \in Nat /\ i \in 1..n /\ j \in 1..n /\ j # i
        BY <1>1, <1>3, <2>3, Zenon
      <4> QED
        BY ONLY <4>1, BackOnto
    <3>2. t[k] = s[j]
      BY <1>2, <3>1, Zenon
    <3> QED
      BY <2>1, <3>2, Zenon
  <2>4. ASSUME NEW x \in Elements(s), x # s[i] PROVE x \in Elements(t)
    <3>1. PICK j \in 1..n : x = s[j]
      BY <1>7, Zenon
    <3> QED
      BY <2>3, <2>4, <3>1, Zenon
  <2>5. ASSUME NEW x \in Elements(t) PROVE x \in Elements(s) \ {s[i]}
    <3>1. PICK j \in 1..(n - 1) : x = t[j]
      BY <2>1, Zenon
    <3> QED
      BY <2>2, <3>1, Zenon
  <2> QED
    BY <2>4, <2>5, Zenon
<1>16. At(t, Len(t)) = IF next[s[i]] = Null THEN prev[s[i]] ELSE At(s, Len(s))
  <2>1. At(t, Len(t)) = At(s, Back(i, n - 1)) /\ Back(i, n - 1) = (IF i = n THEN i - 1 ELSE n)
    <3>1. Back(i, n - 1) = (IF i = n THEN i - 1 ELSE n)
      BY <1>1, <1>3, BackEnds
    <3> QED
      BY <1>2, <1>3, <1>10, <3>1, Zenon
  <2>2. i + 1 \in 1..n <=> i # n
    BY <1>1, <1>3
  <2>3. next[s[i]] = Null <=> i = n
    BY <1>3, <1>5, <2>2, Zenon
  <2> QED
    BY <1>3, <1>8, <2>1, <2>3, Zenon
<1> QED
  BY <1>14, <1>15, <1>16, Zenon DEF t, FollowRest

-----------------------------------------------------------------------------
(* What a walk along the links sees.                                        *)

\* The elements met, in their order, before the first Null.
Met(at) == [n \in 1..Cardinality({i \in DOMAIN at : at[i] # Null}) |-> at[n]]

Reached(at) == {at[n] : n \in DOMAIN at} \ {Null}

\* A walk along a string meets its elements, in their order.
LEMMA MetIs ==
  ASSUME NEW s, NEW first, NEW next, NEW prev, Strung(s, first, next, prev)
  PROVE  /\ Met(Walk(first, next)) = s
         /\ Reached(Walk(first, next)) = Elements(s)
<1> DEFINE l == Len(s)
           N == Cardinality(Addr)
           at == Walk(first, next)
<1>1. s \in Seq(Addr) /\ l \in 0..N /\ N \in Nat /\ at = [n \in 1..N |-> At(s, n)]
  BY WalkIs, AddrFacts DEF Strung
<1> HIDE DEF at
<1>2. DOMAIN at = 1..N /\ \A n \in 1..N : at[n] = At(s, n)
  BY <1>1, Zenon
<1>3. \A n \in 1..l : n \in 1..N /\ At(s, n) = s[n] /\ At(s, n) # Null
  BY <1>1, AtIs
<1>4. \A n \in 1..N : n \notin 1..l => At(s, n) = Null
  BY Zenon DEF At
<1>5. {i \in DOMAIN at : at[i] # Null} = 1..l
  <2> HIDE DEF l, N
  <2> QED
    BY <1>2, <1>3, <1>4
<1>6. Cardinality(1..l) = l /\ l \in Nat
  <2> HIDE DEF l
  <2>1. l \in Nat /\ l \in Int /\ 1 \in Int /\ l - 1 + 1 = l
    BY <1>1
  <2>2. Cardinality(1..l) = IF 1 > l THEN 0 ELSE l - 1 + 1
    BY <2>1, FS_Interval, Zenon
  <2> QED
    BY <2>1, <2>2
<1>7. Met(at) = [n \in 1..l |-> at[n]]
  BY <1>5, <1>6, Zenon DEF Met
<1>8. s = [n \in 1..l |-> s[n]]
  BY <1>1
<1>9. Met(at) = s
  <2>1. \A n \in 1..l : at[n] = s[n]
    BY <1>2, <1>3, Zenon
  <2> HIDE DEF l
  <2> QED
    BY <1>7, <1>8, <2>1, Zenon
<1>10. {at[n] : n \in DOMAIN at} \ {Null} = Elements(s)
  <2>1. ASSUME NEW n \in 1..N, at[n] # Null PROVE at[n] \in Elements(s)
    BY <1>2, <1>3, <1>4, <2>1, Zenon DEF Elements
  <2>2. ASSUME NEW n \in 1..l PROVE s[n] \in {at[k] : k \in DOMAIN at} \ {Null}
    BY <1>2, <1>3
  <2>3. Elements(s) = {s[n] : n \in 1..l}
    BY Zenon DEF Elements
  <2> HIDE DEF l, N
  <2> QED
    BY <1>2, <2>1, <2>2, <2>3
<1> QED
  BY <1>9, <1>10, Zenon DEF at, Reached

\* The place of the cursor in a list.
Place(s, c, gone) ==
    IF gone THEN -1 ELSE IF c = Null THEN 0 ELSE CHOOSE n \in DOMAIN s : s[n] = c

\* It is where the element is, behind either end 0.
LEMMA PlaceIs ==
  ASSUME NEW s, NEW first, NEW next, NEW prev, Strung(s, first, next, prev), NEW i \in Int
  PROVE  Place(s, At(s, i), FALSE) = IF i \in 1..Len(s) THEN i ELSE 0
<1>1. s \in Seq(Addr) /\ DOMAIN s = 1..Len(s) /\ (\A j, k \in 1..Len(s) : s[j] = s[k] => j = k)
  <2>1. s \in Seq(Addr) /\ (\A j, k \in 1..Len(s) : s[j] = s[k] => j = k)
    BY Zenon DEF Strung
  <2> QED
    BY <2>1
<1>2. CASE i \in 1..Len(s)
  <2>1. At(s, i) = s[i] /\ At(s, i) # Null
    BY <1>1, <1>2, AtIs, Zenon
  <2>2. \A n \in DOMAIN s : s[n] = At(s, i) <=> n = i
    BY <1>1, <1>2, <2>1, Zenon
  <2>3. (CHOOSE n \in DOMAIN s : s[n] = At(s, i)) = i
    BY <1>1, <1>2, <2>2, Zenon
  <2> QED
    BY <1>2, <2>1, <2>3, Zenon DEF Place
<1>3. CASE i \notin 1..Len(s)
  BY <1>3, Zenon DEF Place, At
<1> QED
  BY <1>2, <1>3

-----------------------------------------------------------------------------
(* The inductive invariant: the list is strung through all used elements,   *)
(* the chain of a bucket through those whose key goes there.                *)

HashNexts(h) == [a \in Addr |-> h[a].hashnext]
HashPrevs(h) == [a \in Addr |-> h[a].hashprev]
ListNexts(h) == [a \in Addr |-> h[a].listnext]
ListPrevs(h) == [a \in Addr |-> h[a].listprev]

Link == Addr \cup {Null}
Cell == [key : Key \cup {Null}, hashprev : Link, hashnext : Link,
         listprev : Link, listnext : Link]

UsedIn(h) == {a \in Addr : h[a].key # Null}
InBucket(h, b) == {a \in UsedIn(h) : HashOf[h[a].key] = b}

OrderedIn(L, h, first, last) ==
    /\ Strung(L, first, ListNexts(h), ListPrevs(h))
    /\ last = At(L, Len(L))
    /\ Elements(L) = UsedIn(h)

ChainedIn(C, h, first, b) ==
    /\ Strung(C, first, HashNexts(h), HashPrevs(h))
    /\ Elements(C) = InBucket(h, b)

\* The list and its cursor stand for a sequence of elements and a place in it.
Pointed(L, c, gone, p) ==
    IF gone THEN p = -1 ELSE p \in 0..Len(L) /\ c = At(L, p)

KeysOnce(h) == \A a, c \in UsedIn(h) : h[a].key = h[c].key => a = c

HashInv ==
    /\ heap \in [Addr -> Cell] /\ table \in [Bucket -> Link]
    /\ curhashelem \in Link /\ stale \in BOOLEAN
    /\ KeysOnce(heap)
    /\ \A b \in Bucket : \E C : ChainedIn(C, heap, table[b], b)
    /\ \E L, p : /\ OrderedIn(L, heap, firsthashelem, lasthashelem)
                 /\ Pointed(L, curhashelem, stale, p)

KeysOf(h, L) == [n \in 1..Len(L) |-> h[L[n]].key]

\* What the abstract table sees.
LEMMA SeenIs ==
  ASSUME NEW L, NEW p, OrderedIn(L, heap, firsthashelem, lasthashelem),
         Pointed(L, curhashelem, stale, p), stale \in BOOLEAN
  PROVE  Listed = L /\ Items = KeysOf(heap, L) /\ Cursor = p
<1>1. Strung(L, firsthashelem, ListNexts(heap), ListPrevs(heap)) /\ DOMAIN L = 1..Len(L)
  BY DEF OrderedIn, Strung
<1>2. Listed = Met(Walk(firsthashelem, ListNexts(heap)))
  BY Zenon DEF Listed, Met, ListNexts
<1>3. Listed = L
  BY <1>1, <1>2, MetIs, Zenon
<1>4. Cursor = Place(L, curhashelem, stale)
  <2>1. Cursor = Place(Listed, curhashelem, stale)
    BY Zenon DEF Cursor, Place
  <2> QED
    BY <1>3, <2>1, Zenon
<1>5. Cursor = p
  <2>1. CASE stale
    BY <1>4, <2>1, Zenon DEF Place, Pointed
  <2>2. CASE ~stale
    <3>1. p \in 0..Len(L) /\ p \in Int /\ curhashelem = At(L, p) /\ stale = FALSE
          /\ (p \notin 1..Len(L) => p = 0)
      BY <2>2 DEF Pointed
    <3>2. Place(L, At(L, p), FALSE) = IF p \in 1..Len(L) THEN p ELSE 0
      BY <1>1, <3>1, PlaceIs, Zenon
    <3> QED
      BY <1>4, <3>1, <3>2, Zenon
  <2> QED
    BY <2>1, <2>2
<1> QED
  BY <1>1, <1>3, <1>5, Zenon DEF Items, KeysOf

\* The same, after a step.
LEMMA SeenNext ==
  ASSUME NEW L, NEW p, OrderedIn(L, heap', firsthashelem', lasthashelem'),
         Pointed(L, curhashelem', stale', p), stale' \in BOOLEAN
  PROVE  Items' = KeysOf(heap', L) /\ Cursor' = p
<1>1. Strung(L, firsthashelem', ListNexts(heap'), ListPrevs(heap')) /\ DOMAIN L = 1..Len(L)
  BY DEF OrderedIn, Strung
<1>2. Listed' = Met(Walk(firsthashelem', ListNexts(heap')))
  BY Zenon DEF Listed, Met, ListNexts, Walk
<1>3. Listed' = L
  BY <1>1, <1>2, MetIs, Zenon
<1>4. Cursor' = Place(L, curhashelem', stale')
  <2>1. Cursor' = Place(Listed', curhashelem', stale')
    BY Zenon DEF Cursor, Place
  <2> QED
    BY <1>3, <2>1, Zenon
<1>5. Cursor' = p
  <2>1. CASE stale'
    BY <1>4, <2>1, Zenon DEF Place, Pointed
  <2>2. CASE ~stale'
    <3>1. p \in 0..Len(L) /\ p \in Int /\ curhashelem' = At(L, p) /\ stale' = FALSE
          /\ (p \notin 1..Len(L) => p = 0)
      BY <2>2 DEF Pointed
    <3>2. Place(L, At(L, p), FALSE) = IF p \in 1..Len(L) THEN p ELSE 0
      BY <1>1, <3>1, PlaceIs, Zenon
    <3> QED
      BY <1>4, <3>1, <3>2, Zenon
  <2> QED
    BY <2>1, <2>2
<1> QED
  BY <1>1, <1>3, <1>5, Zenon DEF Items, KeysOf

-----------------------------------------------------------------------------
(* The cursor moves.                                                        *)

\* The state seen as a list and a place in it.
ListSeen(L, p) ==
    /\ OrderedIn(L, heap, firsthashelem, lasthashelem)
    /\ Pointed(L, curhashelem, stale, p)

\* What the parts of the invariant say of the list.
LEMMA ListFacts ==
  ASSUME HashInv, NEW L, NEW p, ListSeen(L, p)
  PROVE  /\ L \in Seq(Addr) /\ Len(L) \in Nat
         /\ \A i \in 1..Len(L) : /\ L[i] \in UsedIn(heap) /\ L[i] \in Addr /\ L[i] # Null
                                 /\ At(L, i) = L[i]
                                 /\ heap[L[i]].listnext = At(L, i + 1)
                                 /\ heap[L[i]].listprev = At(L, i - 1)
         /\ \A a \in UsedIn(heap) : \E i \in 1..Len(L) : a = L[i]
         /\ \A i \in Int : At(L, i) = Null <=> i \notin 1..Len(L)
         /\ firsthashelem = At(L, 1) /\ lasthashelem = At(L, Len(L))
         /\ Items = KeysOf(heap, L) /\ Cursor = p
         /\ Len(Items) = Len(L) /\ \A i \in 1..Len(L) : Items[i] = heap[L[i]].key
<1>1. OrderedIn(L, heap, firsthashelem, lasthashelem) /\ Pointed(L, curhashelem, stale, p)
      /\ stale \in BOOLEAN
  BY Zenon DEF HashInv, ListSeen
<1>2. Items = KeysOf(heap, L) /\ Cursor = p
  BY <1>1, SeenIs, Zenon
<1>3. Strung(L, firsthashelem, ListNexts(heap), ListPrevs(heap))
      /\ Elements(L) = UsedIn(heap) /\ lasthashelem = At(L, Len(L))
  BY <1>1, Zenon DEF OrderedIn
<1>4. L \in Seq(Addr) /\ firsthashelem = At(L, 1)
      /\ \A i \in 1..Len(L) : /\ ListNexts(heap)[L[i]] = At(L, i + 1)
                              /\ ListPrevs(heap)[L[i]] = At(L, i - 1)
  BY <1>3, Zenon DEF Strung
<1>5. Len(L) \in Nat /\ \A i \in 1..Len(L) : L[i] \in Addr /\ At(L, i) = L[i] /\ At(L, i) # Null
  BY <1>4, AtIs, Zenon
<1>6. \A i \in 1..Len(L) : /\ heap[L[i]].listnext = At(L, i + 1)
                           /\ heap[L[i]].listprev = At(L, i - 1)
  BY <1>4, <1>5, Zenon DEF ListNexts, ListPrevs
<1>7. \A i \in 1..Len(L) : L[i] \in UsedIn(heap)
  BY <1>3, Zenon DEF Elements
<1>8. \A a \in UsedIn(heap) : \E i \in 1..Len(L) : a = L[i]
  BY <1>3, Zenon DEF Elements
<1>9. \A i \in Int : At(L, i) = Null <=> i \notin 1..Len(L)
  BY <1>5, Zenon DEF At
<1>10. Len(Items) = Len(L) /\ \A i \in 1..Len(L) : Items[i] = heap[L[i]].key
  BY <1>2, <1>5 DEF KeysOf
<1> QED
  BY <1>2, <1>3, <1>4, <1>5, <1>6, <1>7, <1>8, <1>9, <1>10, Zenon

\* Setting the cursor changes the place alone.
LEMMA Moved ==
  ASSUME HashInv, NEW L, NEW p, ListSeen(L, p), NEW q \in 0..Len(L), SetCurrent(At(L, q))
  PROVE  HashInv' /\ Items' = Items /\ Cursor' = q
<1>1. UNCHANGED <<heap, table, firsthashelem, lasthashelem>>
      /\ curhashelem' = At(L, q) /\ stale' = FALSE
  BY Zenon DEF SetCurrent
<1>2. OrderedIn(L, heap', firsthashelem', lasthashelem') /\ Pointed(L, curhashelem', stale', q)
  BY <1>1 DEF ListSeen, Pointed
<1>3. curhashelem' \in Link /\ stale' \in BOOLEAN
  <2>1. L \in Seq(Addr) /\ q \in Int
    BY DEF ListSeen, OrderedIn, Strung
  <2> QED
    BY <1>1, <2>1, AtIs DEF Link
<1>4. Items' = KeysOf(heap, L) /\ Cursor' = q
  BY <1>1, <1>2, <1>3, SeenNext
<1>5. Items = KeysOf(heap, L)
  BY ListFacts
<1>6. HashInv'
  <2>1. \E M, r : /\ OrderedIn(M, heap', firsthashelem', lasthashelem')
                  /\ Pointed(M, curhashelem', stale', r)
    BY <1>2, Zenon
  <2>2. heap' \in [Addr -> Cell] /\ table' \in [Bucket -> Link] /\ KeysOnce(heap')
        /\ \A b \in Bucket : \E C : ChainedIn(C, heap', table'[b], b)
    BY <1>1, Zenon DEF HashInv
  <2> QED
    BY <1>3, <2>1, <2>2, Zenon DEF HashInv
<1> QED
  BY <1>4, <1>5, <1>6

\* A lookup through the chain finds the element that the list has for the key.
LEMMA FoundIs ==
  ASSUME HashInv, NEW L, NEW p, ListSeen(L, p), NEW k \in Key
  PROVE  \E q \in 0..Len(L) :
            /\ Abstract!Position(k) = q /\ Find(k) = At(L, q)
            /\ q # 0 => q \in 1..Len(L) /\ heap[L[q]].key = k
            /\ q = 0 => \A a \in UsedIn(heap) : heap[a].key # k
<1> DEFINE F == {a \in Chain(HashOf[k]) : heap[a].key = k}
           I == {i \in 1..Len(Items) : Items[i] = k}
<1>1. Find(k) = IF F = {} THEN Null ELSE CHOOSE a \in F : TRUE
  BY Zenon DEF Find
<1>2. Abstract!Position(k) = IF I # {} THEN Min(I) ELSE 0
  BY DEF Abstract!Position, Abstract!SelectInSeq, Abstract!Min, Min
<1>3. F = {a \in UsedIn(heap) : heap[a].key = k}
  <2>1. HashOf[k] \in Bucket
    BY TableAssumption
  <2>2. PICK C : ChainedIn(C, heap, table[HashOf[k]], HashOf[k])
    BY <2>1, Zenon DEF HashInv
  <2>3. Chain(HashOf[k]) = Elements(C)
    <3>1. Chain(HashOf[k]) = Reached(Walk(table[HashOf[k]], HashNexts(heap)))
      BY Zenon DEF Chain, HashNexts, Reached
    <3>2. Strung(C, table[HashOf[k]], HashNexts(heap), HashPrevs(heap))
      BY <2>2, Zenon DEF ChainedIn
    <3> QED
      BY <3>1, <3>2, MetIs, Zenon
  <2>4. Chain(HashOf[k]) = {a \in UsedIn(heap) : HashOf[heap[a].key] = HashOf[k]}
    BY <2>2, <2>3, Zenon DEF ChainedIn, InBucket
  <2> QED
    BY <2>4
<1>4. Len(Items) = Len(L) /\ Len(L) \in Nat
      /\ \A i \in 1..Len(L) : /\ Items[i] = heap[L[i]].key /\ L[i] \in UsedIn(heap)
                              /\ At(L, i) = L[i]
  BY ListFacts, Zenon
<1>5. \A a \in UsedIn(heap) : \E i \in 1..Len(L) : a = L[i]
  BY ListFacts, Zenon
<1>6. CASE \E i \in 1..Len(L) : heap[L[i]].key = k
  <2>1. PICK q \in 1..Len(L) : heap[L[q]].key = k
    BY <1>6
  <2>2. \A a \in UsedIn(heap) : heap[a].key = k => a = L[q]
    BY <1>4, <2>1, Zenon DEF HashInv, KeysOnce
  <2>3. F = {L[q]}
    <3> HIDE DEF F
    <3> QED
      BY <1>3, <1>4, <2>1, <2>2
  <2>4. Find(k) = At(L, q)
    <3> HIDE DEF F
    <3> QED
      BY <1>1, <1>4, <2>3
  <2>5. I = {q}
    <3>1. \A i \in 1..Len(L) : L[i] = L[q] => i = q
      BY Zenon DEF ListSeen, OrderedIn, Strung
    <3>2. \A i \in 1..Len(L) : Items[i] = k <=> i = q
      BY <1>4, <2>1, <2>2, <3>1, Zenon
    <3> QED
      BY <1>4, <3>2
  <2>6. Min(I) = q
    <3> HIDE DEF I
    <3>1. q \in Int
      BY <1>4
    <3> QED
      BY <2>5, <3>1 DEF Min
  <2>7. Abstract!Position(k) = q
    <3> HIDE DEF I
    <3> QED
      BY <1>2, <2>5, <2>6
  <2>8. q \in 0..Len(L) /\ q # 0
    BY <1>4
  <2> QED
    BY <2>1, <2>4, <2>7, <2>8, Zenon
<1>7. CASE ~ \E i \in 1..Len(L) : heap[L[i]].key = k
  <2>1. \A a \in UsedIn(heap) : heap[a].key # k
    BY <1>5, <1>7, Zenon
  <2>2. F = {}
    <3> HIDE DEF F
    <3> QED
      BY <1>3, <2>1
  <2>3. I = {}
    BY <1>4, <1>7
  <2>4. Find(k) = Null /\ Abstract!Position(k) = 0
    <3> HIDE DEF F, I
    <3> QED
      BY <1>1, <1>2, <2>2, <2>3
  <2>5. 0 \in 0..Len(L) /\ 0 \notin 1..Len(L)
    BY <1>4
  <2>6. At(L, 0) = Null
    BY <2>5, Zenon DEF At
  <2> QED
    BY <2>1, <2>4, <2>5, <2>6, Zenon
<1> QED
  BY <1>6, <1>7

-----------------------------------------------------------------------------
(* An element is unlinked.                                                  *)

\* What becomes of another element, where the element with the cell d is unlinked.
ClosedCell(x, new, old, d) ==
    /\ new.key = old.key
    /\ new.hashnext = IF x = d.hashprev THEN d.hashnext ELSE old.hashnext
    /\ new.hashprev = IF x = d.hashnext THEN d.hashprev ELSE old.hashprev
    /\ new.listnext = IF x = d.listprev THEN d.listnext ELSE old.listnext
    /\ new.listprev = IF x = d.listnext THEN d.listprev ELSE old.listprev

\* What happens to the elements; the others keep their keys.
LEMMA UnlinkedCells ==
  ASSUME HashInv, NEW c \in UsedIn(heap), Unlink(c)
  PROVE  /\ heap' \in [Addr -> Cell] /\ heap'[c] = Free
         /\ \A x \in Addr \ {c} : ClosedCell(x, heap'[x], heap[x], heap[c])
         /\ UsedIn(heap') = UsedIn(heap) \ {c}
<1> DEFINE Changed(x) ==
             IF x = c THEN Free
             ELSE [heap[x] EXCEPT
                     !.hashnext = IF x = heap[c].hashprev THEN heap[c].hashnext ELSE @,
                     !.hashprev = IF x = heap[c].hashnext THEN heap[c].hashprev ELSE @,
                     !.listnext = IF x = heap[c].listprev THEN heap[c].listnext ELSE @,
                     !.listprev = IF x = heap[c].listnext THEN heap[c].listprev ELSE @]
<1>1. heap' = [x \in Addr |-> Changed(x)]
  BY Zenon DEF Unlink
<1>2. heap \in [Addr -> Cell] /\ c \in Addr /\ heap[c].key # Null
  BY DEF HashInv, UsedIn
<1>3. Free \in Cell /\ Free.key = Null
  BY DEF Free, Cell, Link
<1>4. Changed(c) = Free
  OBVIOUS
<1>5. ASSUME NEW x \in Addr, x # c
      PROVE  Changed(x) \in Cell /\ ClosedCell(x, Changed(x), heap[x], heap[c])
  <2>1. heap[x] \in Cell /\ heap[c] \in Cell
    BY <1>2
  <2> QED
    BY <1>5, <2>1 DEF Cell, ClosedCell
<1> HIDE DEF Changed
<1>6. \A x \in Addr : heap'[x] = Changed(x)
  BY <1>1, Zenon
<1>7. heap' \in [Addr -> Cell]
  <2>1. \A x \in Addr : Changed(x) \in Cell
    BY <1>3, <1>4, <1>5, Zenon
  <2> QED
    BY <1>1, <2>1
<1>8. UsedIn(heap') = UsedIn(heap) \ {c}
  <2>1. \A x \in Addr \ {c} : heap'[x].key = heap[x].key
    BY <1>5, <1>6, Zenon DEF ClosedCell
  <2> QED
    BY <1>2, <1>3, <1>4, <1>6, <2>1 DEF UsedIn
<1>9. heap'[c] = Free
  BY <1>2, <1>4, <1>6, Zenon
<1>10. ASSUME NEW x \in Addr \ {c} PROVE ClosedCell(x, heap'[x], heap[x], heap[c])
  BY <1>5, <1>6, Zenon
<1> QED
  BY <1>7, <1>8, <1>9, <1>10, Zenon

\* The list is strung through the rest, in its order.
LEMMA UnlinkedList ==
  ASSUME HashInv, NEW L, NEW p, ListSeen(L, p), NEW i \in 1..Len(L), Unlink(L[i])
  PROVE  OrderedIn(Without(L, i), heap', firsthashelem', lasthashelem')
<1> DEFINE c == L[i]
           t == Without(L, i)
<1>1. c \in UsedIn(heap) /\ c \in Addr /\ UsedIn(heap) \subseteq Addr
  BY ListFacts DEF UsedIn
<1>2. Strung(L, firsthashelem, ListNexts(heap), ListPrevs(heap))
      /\ Elements(L) = UsedIn(heap) /\ lasthashelem = At(L, Len(L))
  BY Zenon DEF ListSeen, OrderedIn
<1>3. ListNexts(heap)[c] = heap[c].listnext /\ ListPrevs(heap)[c] = heap[c].listprev
  BY <1>1, Zenon DEF ListNexts, ListPrevs
<1>4. ClosedAround(L, i, ListNexts(heap), ListPrevs(heap), ListNexts(heap'), ListPrevs(heap'))
  <2> SUFFICES ASSUME NEW x \in Addr, x # c
               PROVE  /\ ListNexts(heap')[x] = IF x = ListPrevs(heap)[c] THEN ListNexts(heap)[c]
                                               ELSE ListNexts(heap)[x]
                      /\ ListPrevs(heap')[x] = IF x = ListNexts(heap)[c] THEN ListPrevs(heap)[c]
                                               ELSE ListPrevs(heap)[x]
    BY <1>1, <1>2 DEF ClosedAround
  <2>1. /\ heap'[x].listnext = IF x = heap[c].listprev THEN heap[c].listnext
                               ELSE heap[x].listnext
        /\ heap'[x].listprev = IF x = heap[c].listnext THEN heap[c].listprev
                               ELSE heap[x].listprev
    <3>1. ClosedCell(x, heap'[x], heap[x], heap[c])
      BY <1>1, UnlinkedCells, Zenon
    <3> QED
      BY <3>1, Zenon DEF ClosedCell
  <2> QED
    BY <1>3, <2>1, Zenon DEF ListNexts, ListPrevs
<1>5. /\ Strung(t, IF ListPrevs(heap)[c] = Null THEN ListNexts(heap)[c] ELSE firsthashelem,
                ListNexts(heap'), ListPrevs(heap'))
      /\ Elements(t) = Elements(L) \ {c}
      /\ At(t, Len(t)) = IF ListNexts(heap)[c] = Null THEN ListPrevs(heap)[c] ELSE At(L, Len(L))
  <2>1. i \in 1..Len(L)
    OBVIOUS
  <2>2. FollowRest(L, i, firsthashelem, ListNexts(heap), ListPrevs(heap), ListNexts(heap'),
                   ListPrevs(heap'))
    BY ONLY <1>2, <1>4, <2>1, Removed, Zenon
  <2> QED
    BY <2>2, Zenon DEF FollowRest
<1> HIDE DEF t
<1>6. /\ firsthashelem' = IF heap[c].listprev = Null THEN heap[c].listnext ELSE firsthashelem
      /\ lasthashelem' = IF heap[c].listnext = Null THEN heap[c].listprev ELSE lasthashelem
  BY Zenon DEF Unlink
<1>7. UsedIn(heap') = UsedIn(heap) \ {c}
  BY <1>1, UnlinkedCells, Zenon
<1> QED
  BY <1>2, <1>3, <1>5, <1>6, <1>7, Zenon DEF OrderedIn, t

\* Its chain is closed, and no other one is touched.
LEMMA UnlinkedChains ==
  ASSUME HashInv, NEW c \in UsedIn(heap), Unlink(c), NEW b \in Bucket
  PROVE  \E C : ChainedIn(C, heap', table'[b], b)
<1> DEFINE e == HashOf[heap[c].key]
<1>1. c \in Addr /\ UsedIn(heap) \subseteq Addr /\ heap[c].key \in Key /\ e \in Bucket
  BY TableAssumption DEF HashInv, UsedIn, Cell
<1>2. PICK C : ChainedIn(C, heap, table[b], b)
  BY Zenon DEF HashInv
<1>3. PICK E : ChainedIn(E, heap, table[e], e)
  BY <1>1, Zenon DEF HashInv
<1>4. UsedIn(heap') = UsedIn(heap) \ {c} /\ \A x \in Addr \ {c} : heap'[x].key = heap[x].key
  BY UnlinkedCells, Zenon DEF ClosedCell
<1>5. InBucket(heap', b) = InBucket(heap, b) \ {c}
  BY <1>1, <1>4 DEF InBucket
<1>6. table' = IF heap[c].hashprev = Null THEN [table EXCEPT ![e] = heap[c].hashnext] ELSE table
  BY Zenon DEF Unlink
<1>7. table'[b] = IF b = e /\ heap[c].hashprev = Null THEN heap[c].hashnext ELSE table[b]
  BY <1>6 DEF HashInv
<1> HIDE DEF e
<1>8. \A x \in Addr \ {c} :
         /\ HashNexts(heap')[x] = IF x = heap[c].hashprev THEN heap[c].hashnext
                                  ELSE HashNexts(heap)[x]
         /\ HashPrevs(heap')[x] = IF x = heap[c].hashnext THEN heap[c].hashprev
                                  ELSE HashPrevs(heap)[x]
  <2> SUFFICES ASSUME NEW x \in Addr, x # c
               PROVE  /\ HashNexts(heap')[x] = IF x = heap[c].hashprev THEN heap[c].hashnext
                                               ELSE HashNexts(heap)[x]
                      /\ HashPrevs(heap')[x] = IF x = heap[c].hashnext THEN heap[c].hashprev
                                               ELSE HashPrevs(heap)[x]
    BY Zenon
  <2>1. /\ heap'[x].hashnext = IF x = heap[c].hashprev THEN heap[c].hashnext
                               ELSE heap[x].hashnext
        /\ heap'[x].hashprev = IF x = heap[c].hashnext THEN heap[c].hashprev
                               ELSE heap[x].hashprev
    <3>1. ClosedCell(x, heap'[x], heap[x], heap[c])
      BY UnlinkedCells, Zenon
    <3> QED
      BY <3>1, Zenon DEF ClosedCell
  <2> QED
    BY <2>1, Zenon DEF HashNexts, HashPrevs
<1>9. HashNexts(heap)[c] = heap[c].hashnext /\ HashPrevs(heap)[c] = heap[c].hashprev
  BY <1>1, Zenon DEF HashNexts, HashPrevs
<1>10. Strung(E, table[e], HashNexts(heap), HashPrevs(heap)) /\ Elements(E) = InBucket(heap, e)
  BY <1>3, Zenon DEF ChainedIn
<1>11. PICK j \in 1..Len(E) : E[j] = c
  <2>1. c \in InBucket(heap, e)
    BY DEF InBucket, e
  <2> QED
    BY <1>10, <2>1, Zenon DEF Elements
<1>12. InBucket(heap, b) \subseteq UsedIn(heap) /\ InBucket(heap, e) \subseteq Addr
       /\ (b # e => InBucket(heap, b) \cap InBucket(heap, e) = {})
  BY <1>1 DEF InBucket
<1>13. CASE b = e
  <2> DEFINE t == Without(E, j)
  <2>2. ClosedAround(E, j, HashNexts(heap), HashPrevs(heap), HashNexts(heap'), HashPrevs(heap'))
    <3>1. \A x \in Elements(E) \ {E[j]} : x \in Addr \ {c}
      BY <1>10, <1>11, <1>12
    <3> QED
      BY <1>8, <1>9, <1>11, <3>1, Zenon DEF ClosedAround
  <2>3. /\ Strung(t, IF HashPrevs(heap)[E[j]] = Null THEN HashNexts(heap)[E[j]] ELSE table[e],
                  HashNexts(heap'), HashPrevs(heap'))
        /\ Elements(t) = Elements(E) \ {E[j]}
    <3>1. FollowRest(E, j, table[e], HashNexts(heap), HashPrevs(heap), HashNexts(heap'),
                     HashPrevs(heap'))
      BY <1>10, <2>2, Removed, Zenon
    <3> QED
      BY <3>1, Zenon DEF FollowRest
  <2> HIDE DEF t
  <2>4. table'[b] = IF HashPrevs(heap)[E[j]] = Null THEN HashNexts(heap)[E[j]] ELSE table[e]
    BY <1>7, <1>9, <1>11, <1>13, Zenon
  <2>5. Elements(t) = InBucket(heap', b)
    BY <1>5, <1>10, <1>11, <1>13, <2>3, Zenon
  <2>6. ChainedIn(t, heap', table'[b], b)
    BY <2>3, <2>4, <2>5, Zenon DEF ChainedIn
  <2> QED
    BY <2>6, Zenon
<1>14. CASE b # e
  <2>1. Strung(C, table[b], HashNexts(heap), HashPrevs(heap)) /\ Elements(C) = InBucket(heap, b)
    BY <1>2, Zenon DEF ChainedIn
  <2>2. heap[c].hashprev \in InBucket(heap, e) \cup {Null}
        /\ heap[c].hashnext \in InBucket(heap, e) \cup {Null}
    <3>1. HashNexts(heap)[c] = At(E, j + 1) /\ HashPrevs(heap)[c] = At(E, j - 1)
      BY <1>10, <1>11, Zenon DEF Strung
    <3>2. \A n : At(E, n) \in Elements(E) \cup {Null}
      BY DEF At, Elements
    <3> QED
      BY <1>9, <1>10, <3>1, <3>2
  <2>3. \A x \in InBucket(heap, b) : x \in Addr \ {c} /\ x # heap[c].hashprev /\ x # heap[c].hashnext
    <3>1. c \in InBucket(heap, e) /\ Null \notin Addr
      BY AddrFacts DEF InBucket, e
    <3> QED
      BY <1>1, <1>12, <1>14, <2>2, <3>1
  <2>4. \A x \in Elements(C) : /\ HashNexts(heap')[x] = HashNexts(heap)[x]
                               /\ HashPrevs(heap')[x] = HashPrevs(heap)[x]
    BY <1>8, <2>1, <2>3, Zenon
  <2>5. Strung(C, table[b], HashNexts(heap'), HashPrevs(heap'))
    BY <2>1, <2>4, Untouched, Zenon
  <2>6. InBucket(heap', b) = InBucket(heap, b)
    BY <1>5, <2>3
  <2>7. ChainedIn(C, heap', table'[b], b)
    BY <1>7, <1>14, <2>1, <2>5, <2>6, Zenon DEF ChainedIn
  <2> QED
    BY <2>7, Zenon
<1> QED
  BY <1>13, <1>14

\* The abstract element goes, and the cursor to the next one.
LEMMA UnlinkStep ==
  ASSUME HashInv, NEW L, NEW p, ListSeen(L, p), NEW i \in 1..Len(L), Unlink(L[i])
  PROVE  /\ HashInv'
         /\ Items' = Abstract!RemoveAt(Items, i)
         /\ Cursor' = IF i = Len(Items) THEN 0 ELSE i
<1> DEFINE c == L[i]
           n == Len(L)
           t == Without(L, i)
           q == IF i = n THEN 0 ELSE i
<1>2. L \in Seq(Addr) /\ n \in Nat /\ c \in UsedIn(heap) /\ c \in Addr /\ Len(Items) = n
      /\ heap[c].listnext = At(L, i + 1)
  BY ListFacts, Zenon
<1>3. \A j \in 1..n : Items[j] = heap[L[j]].key /\ L[j] \in Addr
  BY ListFacts, Zenon
<1>4. OrderedIn(t, heap', firsthashelem', lasthashelem')
  BY UnlinkedList, Zenon
<1>5. t \in Seq(Addr) /\ Len(t) = n - 1 /\ \A j \in 1..(n - 1) : t[j] = L[Back(i, j)]
  BY <1>2, OneLess, Zenon
<1> HIDE DEF t
<1>6. curhashelem' = heap[c].listnext /\ stale' = FALSE
  BY Zenon DEF Unlink
<1>7. i \in 1..n /\ \A j \in 1..(n - 1) : Back(i, j) \in 1..n /\ Back(i, j) # i
  BY <1>2, BackIs
<1>8. At(L, i + 1) = At(t, q) /\ q \in 0..Len(t)
  <2>1. CASE i = n
    <3>1. i + 1 \notin 1..n /\ q = 0 /\ 0 \notin 1..Len(t) /\ 0 \in 0..Len(t)
      BY <1>2, <1>5, <2>1
    <3> QED
      BY <3>1, Zenon DEF At
  <2>2. CASE i # n
    <3>1. q = i /\ i \in 1..(n - 1) /\ i \in 0..(n - 1) /\ i + 1 \in 1..n /\ Back(i, i) = i + 1
      BY <1>2, <2>2 DEF Back
    <3>2. t[i] = L[i + 1]
      BY <1>5, <3>1, Zenon
    <3> HIDE DEF q
    <3> QED
      BY <1>5, <3>1, <3>2, Zenon DEF At
  <2> QED
    BY <2>1, <2>2
<1> HIDE DEF n
<1>9. Pointed(t, curhashelem', stale', q)
  <2> HIDE DEF q
  <2> QED
    BY <1>2, <1>6, <1>8, Zenon DEF Pointed
<1>10. Items' = KeysOf(heap', t) /\ Cursor' = q
  <2>1. stale' \in BOOLEAN
    BY <1>6
  <2> HIDE DEF q
  <2> QED
    BY <1>4, <1>9, <2>1, SeenNext, Zenon
<1>11. KeysOf(heap', t) = Abstract!RemoveAt(Items, i)
  <2> DEFINE u == Abstract!RemoveAt(Items, i)
  <2>1. u = Without(Items, i)
    BY Zenon DEF Abstract!RemoveAt, Without
  <2>2. Items \in Seq(Key \cup {Null})
    <3>1. Items = KeysOf(heap, L)
      BY ListFacts, Zenon
    <3>2. \A j \in 1..n : heap[L[j]].key \in Key \cup {Null}
      <4>1. \A a \in Addr : heap[a].key \in Key \cup {Null}
        BY DEF HashInv, Cell
      <4> QED
        BY <1>3, <4>1, Zenon
    <3>3. Items = [j \in 1..n |-> heap[L[j]].key]
      BY <3>1, Zenon DEF KeysOf, n
    <3> QED
      BY <1>2, <3>2, <3>3
  <2> HIDE DEF u
  <2>3. i \in 1..Len(Items)
    BY <1>2, <1>7
  <2>4. u \in Seq(Key \cup {Null}) /\ Len(u) = n - 1
        /\ \A j \in 1..(n - 1) : u[j] = Items[Back(i, j)]
    <3> DEFINE S == Key \cup {Null}
    <3>1. Items \in Seq(S)
      BY <2>2
    <3> HIDE DEF S
    <3>2. /\ Without(Items, i) \in Seq(S) /\ Len(Without(Items, i)) = Len(Items) - 1
          /\ \A j \in 1..(Len(Items) - 1) : Without(Items, i)[j] = Items[Back(i, j)]
      BY <2>3, <3>1, OneLess, Zenon
    <3> QED
      BY <1>2, <2>1, <3>2, Zenon DEF S
  <2>5. \A j \in 1..(n - 1) : heap'[t[j]].key = u[j]
    <3> SUFFICES ASSUME NEW j \in 1..(n - 1) PROVE heap'[t[j]].key = u[j]
      OBVIOUS
    <3>1. PICK k \in 1..n : k = Back(i, j) /\ k # i
      BY <1>7, Zenon
    <3>2. t[j] = L[k] /\ u[j] = heap[L[k]].key /\ L[k] \in Addr
      BY <1>2, <1>3, <1>5, <2>4, <3>1, Zenon
    <3>3. L[k] # c
      <4>1. \A x, y \in 1..n : L[x] = L[y] => x = y
        BY Zenon DEF ListSeen, OrderedIn, Strung, n
      <4> QED
        BY <1>7, <3>1, <4>1, Zenon
    <3>4. heap'[L[k]].key = heap[L[k]].key
      BY <1>2, <3>2, <3>3, UnlinkedCells, Zenon DEF ClosedCell
    <3> QED
      BY <3>2, <3>4, Zenon
  <2>6. u = [j \in 1..(n - 1) |-> u[j]]
    BY <1>2, <2>4
  <2>7. KeysOf(heap', t) = [j \in 1..(n - 1) |-> heap'[t[j]].key]
    BY <1>5, Zenon DEF KeysOf
  <2> HIDE DEF c
  <2>8. KeysOf(heap', t) = u
    BY <2>5, <2>6, <2>7, Zenon
  <2> QED
    BY <2>8 DEF u
<1>12. HashInv'
  <2>1. heap' \in [Addr -> Cell]
    BY <1>2, UnlinkedCells, Zenon
  <2>2. table' \in [Bucket -> Link]
    <3>1. heap[c].hashnext \in Link /\ table \in [Bucket -> Link]
      BY <1>2 DEF HashInv, Cell
    <3>2. table' = IF heap[c].hashprev = Null
                   THEN [table EXCEPT ![HashOf[heap[c].key]] = heap[c].hashnext] ELSE table
      BY Zenon DEF Unlink
    <3> QED
      BY <3>1, <3>2
  <2>3. curhashelem' \in Link /\ stale' \in BOOLEAN
    <3>1. heap[c].listnext \in Link
      BY <1>2 DEF HashInv, Cell
    <3> QED
      BY <1>6, <3>1
  <2>4. KeysOnce(heap')
    <3>1. UsedIn(heap') = UsedIn(heap) \ {c}
          /\ \A x \in UsedIn(heap) \ {c} : heap'[x].key = heap[x].key
      BY <1>2, UnlinkedCells, Zenon DEF UsedIn, ClosedCell
    <3>2. KeysOnce(heap)
      BY Zenon DEF HashInv
    <3> QED
      BY <3>1, <3>2 DEF KeysOnce
  <2>5. \A b \in Bucket : \E C : ChainedIn(C, heap', table'[b], b)
    BY <1>2, UnlinkedChains, Zenon
  <2>6. \E M, r : /\ OrderedIn(M, heap', firsthashelem', lasthashelem')
                  /\ Pointed(M, curhashelem', stale', r)
    BY <1>4, <1>9, Zenon
  <2> QED
    BY <2>1, <2>2, <2>3, <2>4, <2>5, <2>6, Zenon DEF HashInv
<1> QED
  BY <1>2, <1>10, <1>11, <1>12, Zenon DEF n

-----------------------------------------------------------------------------
(* An element is added.                                                     *)

\* As many addresses as keys: there is memory for a key that no element has, and the
\* least free address is taken.
LEMMA FreeIs ==
  ASSUME HashInv, NEW k \in Key, \A a \in UsedIn(heap) : heap[a].key # k
  PROVE  Min({a \in Addr : heap[a].key = Null}) \in Addr \ UsedIn(heap)
<1> DEFINE F == {a \in Addr : heap[a].key = Null}
           K == Key \ {k}
           f == [a \in Addr |-> heap[a].key]
<1>1. heap \in [Addr -> Cell]
  BY Zenon DEF HashInv
<1>2. F # {}
  <2> SUFFICES ASSUME F = {} PROVE FALSE
    OBVIOUS
  <2>1. UsedIn(heap) = Addr
    BY DEF UsedIn
  <2>2. f \in [Addr -> K]
    <3>1. \A a \in Addr : heap[a].key \in K
      BY <1>1, <2>1 DEF Cell, UsedIn
    <3> QED
      BY <3>1
  <2>3. IsFiniteSet(K) /\ Cardinality(K) = Cardinality(Key) - 1
    BY TableAssumption, FS_RemoveElement, Zenon
  <2>4. Cardinality(Key) \in Nat /\ Cardinality(Addr) \in Nat
    BY TableAssumption, FS_CardinalityType, Zenon
  <2>5. Cardinality(K) < Cardinality(Addr) /\ IsFiniteSet(Addr)
    <3>1. Cardinality(Key) <= Cardinality(Addr) /\ IsFiniteSet(Addr)
      BY TableAssumption
    <3> HIDE DEF K
    <3> QED
      BY <2>3, <2>4, <3>1
  <2> HIDE DEF f, K
  <2>6. PICK a, c \in Addr : a # c /\ f[a] = f[c]
    <3>1. IsFiniteSet(Addr) /\ IsFiniteSet(K) /\ Cardinality(K) < Cardinality(Addr)
          /\ f \in [Addr -> K]
      BY <2>2, <2>3, <2>5, Zenon
    <3> QED
      BY ONLY <3>1, FS_PigeonHole, Zenon
  <2>7. heap[a].key = heap[c].key
    BY <2>6 DEF f
  <2> QED
    BY <2>1, <2>6, <2>7, Zenon DEF HashInv, KeysOnce
<1>3. F \in SUBSET Nat
  BY TableAssumption
<1> HIDE DEF F
<1>4. \E x \in F : \A y \in F : x <= y
  BY <1>2, <1>3, LeastNat, Zenon
<1>5. Min(F) \in F
  BY <1>4, Zenon DEF Min
<1> QED
  BY <1>5 DEF F, UsedIn

\* What becomes of another element, where c is put before e in its chain and after d
\* in the list.
JoinedCell(x, new, old, c, e, d) ==
    /\ new.key = old.key /\ new.hashnext = old.hashnext /\ new.listprev = old.listprev
    /\ new.hashprev = IF x = e THEN c ELSE old.hashprev
    /\ new.listnext = IF x = d THEN c ELSE old.listnext

\* The step of AddElement, with the address named.
Joined(k, c) ==
    /\ c \in Addr \ UsedIn(heap)
    /\ heap' \in [Addr -> Cell]
    /\ heap'[c] = [key |-> k, hashprev |-> Null, hashnext |-> table[HashOf[k]],
                   listprev |-> lasthashelem, listnext |-> Null]
    /\ \A x \in Addr \ {c} : JoinedCell(x, heap'[x], heap[x], c, table[HashOf[k]], lasthashelem)
    /\ UsedIn(heap') = UsedIn(heap) \cup {c}
    /\ table' = [table EXCEPT ![HashOf[k]] = c]
    /\ firsthashelem' = IF firsthashelem = Null THEN c ELSE firsthashelem
    /\ lasthashelem' = c
    /\ UNCHANGED <<curhashelem, stale>>

\* AddElement is such a step.
LEMMA AddJoins ==
  ASSUME HashInv, NEW L, NEW p, ListSeen(L, p), NEW k \in Key,
         \A a \in UsedIn(heap) : heap[a].key # k, AddElement(k)
  PROVE  \E c : Joined(k, c)
<1> DEFINE c == Min({a \in Addr : heap[a].key = Null})
           e == table[HashOf[k]]
           cell == [key |-> k, hashprev |-> Null, hashnext |-> e,
                    listprev |-> lasthashelem, listnext |-> Null]
           Changed(x) == IF x = c THEN cell
                         ELSE [heap[x] EXCEPT !.hashprev = IF x = e THEN c ELSE @,
                                              !.listnext = IF x = lasthashelem THEN c ELSE @]
<1>1. /\ heap' = [x \in Addr |-> Changed(x)]
      /\ table' = [table EXCEPT ![HashOf[k]] = c]
      /\ firsthashelem' = IF firsthashelem = Null THEN c ELSE firsthashelem
      /\ lasthashelem' = c
      /\ UNCHANGED <<curhashelem, stale>>
  BY Zenon DEF AddElement
<1>2. c \in Addr \ UsedIn(heap)
  BY FreeIs, Zenon
<1> HIDE DEF c
<1>3. heap \in [Addr -> Cell] /\ e \in Link /\ lasthashelem \in Link /\ c \in Addr
  <2>1. lasthashelem = At(L, Len(L)) /\ L \in Seq(Addr) /\ Len(L) \in Int
    BY ListFacts
  <2>2. lasthashelem \in Link
    BY <2>1, AtIs, Zenon DEF Link
  <2>3. HashOf[k] \in Bucket
    BY TableAssumption
  <2> QED
    BY <1>2, <2>2, <2>3 DEF HashInv
<1>4. cell \in Cell /\ cell.key = k /\ k # Null
  BY <1>3, TableAssumption DEF Cell, Link
<1>5. ASSUME NEW x \in Addr, x # c
      PROVE  Changed(x) \in Cell /\ JoinedCell(x, Changed(x), heap[x], c, e, lasthashelem)
  <2>1. heap[x] \in Cell
    BY <1>3
  <2> HIDE DEF e
  <2> QED
    BY <1>3, <1>5, <2>1 DEF Cell, JoinedCell, Link
<1>6. Changed(c) = cell
  OBVIOUS
<1> HIDE DEF Changed, cell, e
<1>7. \A x \in Addr : heap'[x] = Changed(x)
  BY <1>1, Zenon
<1>8. heap' \in [Addr -> Cell]
  <2>1. \A x \in Addr : Changed(x) \in Cell
    BY <1>4, <1>5, <1>6, Zenon
  <2> QED
    BY <1>1, <2>1
<1>9. heap'[c] = cell
  BY <1>3, <1>6, <1>7, Zenon
<1>10. ASSUME NEW x \in Addr \ {c} PROVE JoinedCell(x, heap'[x], heap[x], c, e, lasthashelem)
  BY <1>5, <1>7, Zenon
<1>11. UsedIn(heap') = UsedIn(heap) \cup {c}
  <2>1. \A x \in Addr \ {c} : heap'[x].key = heap[x].key
    BY <1>10, Zenon DEF JoinedCell
  <2> QED
    BY <1>3, <1>4, <1>9, <2>1 DEF UsedIn
<1>12. Joined(k, c)
  BY <1>1, <1>2, <1>8, <1>9, <1>10, <1>11, Zenon DEF Joined, cell, e
<1> QED
  BY <1>12

\* The element is the last of the list.
LEMMA JoinedList ==
  ASSUME HashInv, NEW L, NEW p, ListSeen(L, p), NEW k \in Key, NEW c, Joined(k, c)
  PROVE  OrderedIn(Append(L, c), heap', firsthashelem', lasthashelem')
<1>1. Strung(L, firsthashelem, ListNexts(heap), ListPrevs(heap))
      /\ Elements(L) = UsedIn(heap) /\ lasthashelem = At(L, Len(L))
  BY Zenon DEF ListSeen, OrderedIn
<1>2. c \in Addr /\ c \notin Elements(L)
  BY <1>1, Zenon DEF Joined
<1>3. AddedLast(L, c, ListNexts(heap), ListPrevs(heap), ListNexts(heap'), ListPrevs(heap'))
  <2>1. ListNexts(heap')[c] = Null /\ ListPrevs(heap')[c] = lasthashelem
    BY <1>2 DEF Joined, ListNexts, ListPrevs
  <2>2. ASSUME NEW x \in Addr \ {c}
        PROVE  /\ ListNexts(heap')[x] = IF x = lasthashelem THEN c ELSE ListNexts(heap)[x]
               /\ ListPrevs(heap')[x] = ListPrevs(heap)[x]
    BY Zenon DEF Joined, JoinedCell, ListNexts, ListPrevs
  <2>3. \A x \in Elements(L) : x \in Addr \ {c}
    BY <1>1, <1>2 DEF UsedIn
  <2> QED
    BY <1>1, <2>1, <2>2, <2>3, Zenon DEF AddedLast
<1>4. FollowAppended(L, c, firsthashelem, ListNexts(heap'), ListPrevs(heap'))
  BY <1>1, <1>2, <1>3, Appended, Zenon
<1>5. Elements(Append(L, c)) = UsedIn(heap')
  BY <1>1, <1>4, Zenon DEF FollowAppended, Joined
<1> QED
  BY <1>4, <1>5, Zenon DEF FollowAppended, OrderedIn, Joined

\* It is the first of its chain; the others are not touched.
LEMMA JoinedChains ==
  ASSUME HashInv, NEW k \in Key, NEW c, Joined(k, c), NEW b \in Bucket
  PROVE  \E C : ChainedIn(C, heap', table'[b], b)
<1> DEFINE g == HashOf[k]
           e == table[g]
<1>1. c \in Addr /\ c \notin UsedIn(heap) /\ UsedIn(heap) \subseteq Addr /\ g \in Bucket
      /\ heap'[c].key = k /\ UsedIn(heap') = UsedIn(heap) \cup {c}
  BY TableAssumption DEF Joined, UsedIn
<1>2. PICK C : ChainedIn(C, heap, table[b], b)
  BY Zenon DEF HashInv
<1>3. Strung(C, table[b], HashNexts(heap), HashPrevs(heap)) /\ Elements(C) = InBucket(heap, b)
  BY <1>2, Zenon DEF ChainedIn
<1>4. PICK E : ChainedIn(E, heap, e, g)
  BY <1>1, Zenon DEF HashInv
<1>5. Strung(E, e, HashNexts(heap), HashPrevs(heap)) /\ Elements(E) = InBucket(heap, g)
  BY <1>4, Zenon DEF ChainedIn
<1>6. \A x \in Addr \ {c} : heap'[x].key = heap[x].key
  BY Zenon DEF Joined, JoinedCell
<1>7. InBucket(heap', b) = InBucket(heap, b) \cup (IF b = g THEN {c} ELSE {})
  <2> HIDE DEF g
  <2>1. HashOf[k] = g
    BY DEF g
  <2> QED
    BY <1>1, <1>6, <2>1 DEF InBucket
<1>8. table'[b] = IF b = g THEN c ELSE table[b]
  <2>1. table \in [Bucket -> Link] /\ table' = [table EXCEPT ![g] = c]
    BY Zenon DEF HashInv, Joined
  <2> HIDE DEF g
  <2> QED
    BY <2>1
<1>9. HashNexts(heap')[c] = e /\ HashPrevs(heap')[c] = Null
  BY <1>1 DEF Joined, HashNexts, HashPrevs
<1>10. ASSUME NEW x \in Addr \ {c}
       PROVE  /\ HashNexts(heap')[x] = HashNexts(heap)[x]
              /\ HashPrevs(heap')[x] = IF x = e THEN c ELSE HashPrevs(heap)[x]
  BY Zenon DEF Joined, JoinedCell, HashNexts, HashPrevs
<1>11. InBucket(heap, b) \subseteq UsedIn(heap)
       /\ (b # g => InBucket(heap, b) \cap InBucket(heap, g) = {})
  <2> HIDE DEF g
  <2> QED
    BY DEF InBucket
<1>12. \A x \in InBucket(heap, b) : x \in Addr \ {c}
  BY <1>1, <1>11
<1> HIDE DEF e, g
<1>13. CASE b = g
  <2>1. table[b] = e
    BY <1>13 DEF e
  <2>2. AddedFirst(C, c, e, HashNexts(heap), HashPrevs(heap), HashNexts(heap'), HashPrevs(heap'))
    BY <1>3, <1>9, <1>10, <1>12, Zenon DEF AddedFirst
  <2>3. Strung(C, e, HashNexts(heap), HashPrevs(heap)) /\ c \notin Elements(C)
    BY <1>1, <1>3, <1>11, <2>1
  <2>4. FollowPrepended(C, c, HashNexts(heap'), HashPrevs(heap'))
    BY <1>1, <2>2, <2>3, Prepended, Zenon
  <2>5. Elements(<<c>> \o C) = InBucket(heap', b)
    BY <1>3, <1>7, <1>13, <2>4, Zenon DEF FollowPrepended
  <2>6. ChainedIn(<<c>> \o C, heap', table'[b], b)
    BY <1>8, <1>13, <2>4, <2>5, Zenon DEF FollowPrepended, ChainedIn
  <2> QED
    BY <2>6, Zenon
<1>14. CASE b # g
  <2>1. e \in InBucket(heap, g) \cup {Null}
    <3>1. e = At(E, 1)
      BY <1>5, Zenon DEF Strung
    <3>2. At(E, 1) \in Elements(E) \cup {Null}
      BY DEF At, Elements
    <3> QED
      BY <1>5, <3>1, <3>2
  <2>2. \A x \in InBucket(heap, b) : x # e
    BY <1>1, <1>11, <1>14, <2>1, AddrFacts
  <2>3. \A x \in Elements(C) : /\ HashNexts(heap')[x] = HashNexts(heap)[x]
                               /\ HashPrevs(heap')[x] = HashPrevs(heap)[x]
    BY <1>3, <1>10, <1>12, <2>2, Zenon
  <2>4. Strung(C, table[b], HashNexts(heap'), HashPrevs(heap'))
    BY <1>3, <2>3, Untouched, Zenon
  <2>5. InBucket(heap', b) = InBucket(heap, b)
    BY <1>7, <1>14
  <2>6. ChainedIn(C, heap', table'[b], b)
    BY <1>3, <1>8, <1>14, <2>4, <2>5, Zenon DEF ChainedIn
  <2> QED
    BY <2>6, Zenon
<1> QED
  BY <1>13, <1>14

\* The key is the last of the abstract table; the cursor stays.
LEMMA AddStep ==
  ASSUME HashInv, NEW L, NEW p, ListSeen(L, p), NEW k \in Key,
         \A a \in UsedIn(heap) : heap[a].key # k, AddElement(k)
  PROVE  HashInv' /\ Items' = Append(Items, k) /\ Cursor' = p
<1>1. PICK c : Joined(k, c)
  BY AddJoins, Zenon
<1> DEFINE t == Append(L, c)
           n == Len(L)
<1>2. L \in Seq(Addr) /\ n \in Nat /\ Items = KeysOf(heap, L)
      /\ \A i \in 1..n : L[i] \in UsedIn(heap) /\ L[i] \in Addr
  BY ListFacts, Zenon
<1>3. c \in Addr /\ c \notin UsedIn(heap) /\ heap'[c].key = k /\ UNCHANGED <<curhashelem, stale>>
      /\ heap' \in [Addr -> Cell] /\ UsedIn(heap') = UsedIn(heap) \cup {c}
  BY <1>1 DEF Joined
<1>4. OrderedIn(t, heap', firsthashelem', lasthashelem')
  BY <1>1, JoinedList, Zenon
<1>5. t \in Seq(Addr) /\ Len(t) = n + 1 /\ t[n + 1] = c /\ \A i \in 1..n : t[i] = L[i]
  BY <1>2, <1>3
<1> HIDE DEF t, n
<1>6. Pointed(t, curhashelem', stale', p)
  <2>1. Pointed(L, curhashelem, stale, p)
    BY Zenon DEF ListSeen
  <2>2. CASE stale
    BY <1>3, <2>1, <2>2 DEF Pointed
  <2>3. CASE ~stale
    <3>1. p \in 0..n /\ curhashelem = At(L, p)
      BY <2>1, <2>3, Zenon DEF Pointed, n
    <3>2. p \in 0..(n + 1) /\ (p \in 1..n \/ (p \notin 1..n /\ p \notin 1..(n + 1)))
      BY <1>2, <3>1
    <3>3. At(t, p) = At(L, p)
      <4>1. p \in 1..n => p \in 1..(n + 1)
        BY <1>2
      <4> QED
        BY <1>5, <3>2, <4>1, Zenon DEF At, n
    <3> QED
      BY <1>3, <1>5, <2>3, <3>1, <3>2, <3>3, Zenon DEF Pointed
  <2> QED
    BY <2>2, <2>3
<1>7. \A x \in UsedIn(heap) : heap'[x].key = heap[x].key
  BY <1>1, <1>3, Zenon DEF Joined, JoinedCell, UsedIn
<1>8. Items' = KeysOf(heap', t) /\ Cursor' = p
  <2>1. stale' \in BOOLEAN
    BY <1>3 DEF HashInv
  <2> QED
    BY <1>4, <1>6, <2>1, SeenNext, Zenon
<1>9. KeysOf(heap', t) = Append(Items, k)
  <2>1. Items = [i \in 1..n |-> heap[L[i]].key]
    BY <1>2, Zenon DEF KeysOf, n
  <2>2. Items \in Seq({heap[a].key : a \in Addr}) /\ Len(Items) = n
        /\ \A i \in 1..n : Items[i] = heap[L[i]].key
    BY <1>2, <2>1
  <2> DEFINE u == Append(Items, k)
             S == {heap[a].key : a \in Addr} \cup {k}
  <2>3. u \in Seq(S) /\ Len(u) = n + 1 /\ u[n + 1] = k /\ \A i \in 1..n : u[i] = Items[i]
    <3>1. Items \in Seq(S) /\ k \in S
      BY <2>2
    <3> HIDE DEF S
    <3> QED
      BY ONLY <1>2, <2>2, <3>1
  <2> HIDE DEF u, S
  <2>4. u = [i \in 1..(n + 1) |-> u[i]]
    BY <1>2, <2>3
  <2>5. KeysOf(heap', t) = [i \in 1..(n + 1) |-> heap'[t[i]].key]
    BY <1>5, Zenon DEF KeysOf
  <2>6. ASSUME NEW i \in 1..(n + 1) PROVE heap'[t[i]].key = u[i]
    <3>1. CASE i = n + 1
      BY <1>3, <1>5, <2>3, <3>1, Zenon
    <3>2. CASE i # n + 1
      <4>1. i \in 1..n
        BY <1>2, <3>2
      <4>2. t[i] = L[i] /\ u[i] = heap[L[i]].key /\ L[i] \in UsedIn(heap)
        BY <1>2, <1>5, <2>2, <2>3, <4>1, Zenon
      <4> QED
        BY <1>7, <4>2, Zenon
    <3> QED
      BY <3>1, <3>2
  <2>7. KeysOf(heap', t) = u
    BY <2>4, <2>5, <2>6, Zenon
  <2> QED
    BY <2>7 DEF u
<1>10. HashInv'
  <2>1. table' \in [Bucket -> Link] /\ curhashelem' \in Link /\ stale' \in BOOLEAN
    <3>1. table' = [table EXCEPT ![HashOf[k]] = c]
      BY <1>1, Zenon DEF Joined
    <3> QED
      BY <1>3, <3>1 DEF HashInv, Link
  <2>2. KeysOnce(heap')
    <3>1. KeysOnce(heap)
      BY Zenon DEF HashInv
    <3> QED
      BY <1>3, <1>7, <3>1 DEF KeysOnce
  <2>3. \A b \in Bucket : \E C : ChainedIn(C, heap', table'[b], b)
    BY <1>1, JoinedChains, Zenon
  <2>4. \E M, r : /\ OrderedIn(M, heap', firsthashelem', lasthashelem')
                  /\ Pointed(M, curhashelem', stale', r)
    BY <1>4, <1>6, Zenon
  <2> QED
    BY <1>3, <2>1, <2>2, <2>3, <2>4, Zenon DEF HashInv
<1> QED
  BY <1>8, <1>9, <1>10

-----------------------------------------------------------------------------
(* The table is the abstract one.                                           *)

\* Nothing is listed or chained in an empty table.
LEMMA EmptyIs ==
  ASSUME NEW h, h = [a \in Addr |-> Free]
  PROVE  /\ h \in [Addr -> Cell] /\ KeysOnce(h)
         /\ OrderedIn(<<>>, h, Null, Null)
         /\ \A b : ChainedIn(<<>>, h, Null, b)
         /\ KeysOf(h, <<>>) = <<>>
<1>1. Free \in Cell /\ Free.key = Null
  BY DEF Free, Cell, Link
<1>2. h \in [Addr -> Cell] /\ UsedIn(h) = {} /\ \A b : InBucket(h, b) = {}
  BY <1>1 DEF UsedIn, InBucket
<1>3. \A next, prev : Strung(<<>>, Null, next, prev)
  BY Emptied, Zenon
<1>4. Elements(<<>>) = {} /\ At(<<>>, Len(<<>>)) = Null
  BY DEF At, Elements
<1>5. KeysOf(h, <<>>) = <<>>
  BY DEF KeysOf
<1> QED
  BY <1>2, <1>3, <1>4, <1>5, Zenon DEF KeysOnce, OrderedIn, ChainedIn

\* The table begins empty, without a cursor.
LEMMA TableStarts == HashInit => HashInv /\ Abstract!Init
<1> SUFFICES ASSUME HashInit PROVE HashInv /\ Abstract!Init
  OBVIOUS
<1>1. /\ heap = [a \in Addr |-> Free] /\ table = [b \in Bucket |-> Null]
      /\ firsthashelem = Null /\ lasthashelem = Null /\ curhashelem = Null /\ stale = TRUE
  BY Zenon DEF HashInit
<1>2. OrderedIn(<<>>, heap, firsthashelem, lasthashelem) /\ KeysOf(heap, <<>>) = <<>>
      /\ heap \in [Addr -> Cell] /\ KeysOnce(heap) /\ \A b : ChainedIn(<<>>, heap, Null, b)
  BY <1>1, EmptyIs, Zenon
<1>3. Pointed(<<>>, curhashelem, stale, -1) /\ stale \in BOOLEAN
  BY <1>1 DEF Pointed
<1>4. Items = <<>> /\ Cursor = -1
  BY <1>2, <1>3, SeenIs, Zenon
<1>5. \A b \in Bucket : table[b] = Null
  BY <1>1
<1>6. table \in [Bucket -> Link] /\ curhashelem \in Link
  BY <1>1 DEF Link
<1>7. \A b \in Bucket : \E C : ChainedIn(C, heap, table[b], b)
  BY <1>2, <1>5, Zenon
<1>8. HashInv
  BY <1>2, <1>3, <1>6, <1>7, Zenon DEF HashInv
<1> QED
  BY <1>4, <1>8, Zenon DEF Abstract!Init, Abstract!Stale

\* Clear empties the table; a cursor at an element is stale.
LEMMA ClearStep ==
  ASSUME HashInv, NEW L, NEW p, ListSeen(L, p), Clear
  PROVE  HashInv' /\ Abstract!Clear
<1> DEFINE q == IF p = 0 THEN 0 ELSE -1
<1>1. /\ heap' = [a \in Addr |-> Free] /\ table' = [b \in Bucket |-> Null]
      /\ firsthashelem' = Null /\ lasthashelem' = Null
      /\ stale' = (stale \/ curhashelem # Null) /\ curhashelem' = curhashelem
  BY Zenon DEF Clear
<1>2. OrderedIn(<<>>, heap', firsthashelem', lasthashelem') /\ KeysOf(heap', <<>>) = <<>>
      /\ heap' \in [Addr -> Cell] /\ KeysOnce(heap') /\ \A b : ChainedIn(<<>>, heap', Null, b)
  BY <1>1, EmptyIs, Zenon
<1>3. stale' \in BOOLEAN /\ curhashelem' \in Link /\ stale \in BOOLEAN
  BY <1>1 DEF HashInv
<1>4. p = 0 <=> ~stale /\ curhashelem = Null
  <2>1. CASE stale
    <3>1. p = -1
      BY <2>1 DEF ListSeen, Pointed
    <3> QED
      BY <2>1, <3>1
  <2>2. CASE ~stale
    <3>1. p \in 0..Len(L) /\ curhashelem = At(L, p) /\ Len(L) \in Nat
      BY <2>2, ListFacts, Zenon DEF ListSeen, Pointed
    <3>2. p \in Int /\ (p = 0 <=> p \notin 1..Len(L))
      BY <3>1
    <3>3. At(L, p) = Null <=> p \notin 1..Len(L)
      BY <3>2, ListFacts, Zenon
    <3> QED
      BY <2>2, <3>1, <3>2, <3>3, Zenon
  <2> QED
    BY <2>1, <2>2
<1>5. Pointed(<<>>, curhashelem', stale', q)
  <2>1. CASE p = 0
    <3>1. stale' = FALSE /\ curhashelem' = Null
      BY <1>1, <1>3, <1>4, <2>1
    <3>2. At(<<>>, 0) = Null /\ 0 \in 0..Len(<<>>)
      BY DEF At
    <3> QED
      BY <2>1, <3>1, <3>2, Zenon DEF Pointed
  <2>2. CASE p # 0
    <3>1. stale' = TRUE
      BY <1>1, <1>3, <1>4, <2>2
    <3> QED
      BY <2>2, <3>1, Zenon DEF Pointed
  <2> QED
    BY <2>1, <2>2
<1> HIDE DEF q
<1>6. Items' = <<>> /\ Cursor' = q /\ Cursor = p
  <2>1. Items' = KeysOf(heap', <<>>) /\ Cursor' = q
    BY <1>2, <1>3, <1>5, SeenNext, Zenon
  <2> QED
    BY <1>2, <2>1, ListFacts, Zenon
<1>7. table' \in [Bucket -> Link] /\ \A b \in Bucket : table'[b] = Null
  BY <1>1 DEF Link
<1>8. \A b \in Bucket : \E C : ChainedIn(C, heap', table'[b], b)
  BY <1>2, <1>7, Zenon
<1>9. HashInv'
  BY <1>2, <1>3, <1>5, <1>7, <1>8, Zenon DEF HashInv
<1> QED
  BY <1>6, <1>9, Zenon DEF Abstract!Clear, Abstract!Stale, q

\* The cursor goes to the ends and the neighbours.
LEMMA MoveStep ==
  ASSUME HashInv, NEW L, NEW p, ListSeen(L, p),
         GotoFirstElement \/ GotoLastElement \/ GotoNextElement \/ GotoPreviousElement
  PROVE  /\ HashInv'
         /\ \/ Abstract!GotoFirstElement \/ Abstract!GotoLastElement
            \/ Abstract!GotoNextElement \/ Abstract!GotoPreviousElement
<1> DEFINE n == Len(L)
<1>1. L \in Seq(Addr) /\ n \in Nat /\ Len(Items) = n /\ Cursor = p
      /\ firsthashelem = At(L, 1) /\ lasthashelem = At(L, n)
  BY ListFacts, Zenon
<1>2. ~stale => p \in 0..n /\ curhashelem = At(L, p)
  BY Zenon DEF ListSeen, Pointed
<1>3. \A i \in Int : At(L, i) = Null <=> i \notin 1..n
  BY ListFacts, Zenon
<1>4. \A i \in 1..n : /\ heap[At(L, i)].listnext = At(L, i + 1)
                      /\ heap[At(L, i)].listprev = At(L, i - 1)
  <2>1. \A i \in 1..n : At(L, i) = L[i] /\ heap[L[i]].listnext = At(L, i + 1)
                        /\ heap[L[i]].listprev = At(L, i - 1)
    BY ListFacts, Zenon
  <2> QED
    BY <2>1, Zenon
<1>5. ASSUME NEW q \in 0..n, SetCurrent(At(L, q)) PROVE HashInv' /\ Items' = Items /\ Cursor' = q
  BY <1>5, Moved, Zenon
<1> HIDE DEF n
<1>6. CASE GotoFirstElement
  <2> DEFINE q == IF n = 0 THEN 0 ELSE 1
  <2>1. q \in 0..n /\ (Items = <<>> <=> n = 0)
    <3>1. Items = KeysOf(heap, L)
      BY ListFacts, Zenon
    <3>2. n = 0 => Items = <<>>
      BY <3>1 DEF KeysOf, n
    <3>3. Items = <<>> => n = 0
      BY <1>1
    <3> QED
      BY <1>1, <3>2, <3>3
  <2>2. At(L, q) = At(L, 1)
    <3>1. n = 0 => 0 \notin 1..n /\ 1 \notin 1..n /\ 0 \in Int /\ 1 \in Int
      BY <1>1
    <3> QED
      BY <1>3, <3>1, Zenon
  <2>3. HashInv' /\ Items' = Items /\ Cursor' = q
    <3> HIDE DEF q
    <3> QED
      BY <1>1, <1>5, <1>6, <2>1, <2>2, Zenon DEF GotoFirstElement
  <2> QED
    BY <2>1, <2>3, Zenon DEF Abstract!GotoFirstElement
<1>7. CASE GotoLastElement
  <2>1. n \in 0..n
    BY <1>1
  <2>2. HashInv' /\ Items' = Items /\ Cursor' = n
    BY <1>1, <1>5, <1>7, <2>1, Zenon DEF GotoLastElement
  <2> QED
    BY <1>1, <2>2, Zenon DEF Abstract!GotoLastElement
<1>8. CASE GotoNextElement
  <2> DEFINE q == IF p \in {0, n} THEN 0 ELSE p + 1
  <2>1. ~stale /\ SetCurrent(IF curhashelem = Null THEN Null ELSE heap[curhashelem].listnext)
    BY <1>8, Zenon DEF GotoNextElement
  <2>2. p \in 0..n /\ p \in Int /\ p # -1 /\ (p = 0 <=> p \notin 1..n)
    BY <1>1, <1>2, <2>1
  <2>3. q \in 0..n /\ q \in Int
    BY <1>1, <2>2
  <2>4. At(L, q) = IF curhashelem = Null THEN Null ELSE heap[curhashelem].listnext
    <3>1. CASE p = 0
      <4>1. q = 0 /\ At(L, 0) = Null /\ curhashelem = Null
        BY <1>2, <1>3, <2>1, <2>2, <3>1, Zenon
      <4> QED
        BY <4>1, Zenon
    <3>2. CASE p # 0
      <4>1. curhashelem # Null /\ heap[curhashelem].listnext = At(L, p + 1)
        BY <1>2, <1>3, <1>4, <2>1, <2>2, <3>2, Zenon
      <4>2. At(L, p + 1) = At(L, q)
        <5>1. p = n => p + 1 \notin 1..n /\ 0 \notin 1..n /\ p + 1 \in Int /\ 0 \in Int
          BY <1>1
        <5> QED
          BY <1>3, <3>2, <5>1, Zenon
      <4> HIDE DEF q
      <4> QED
        BY <4>1, <4>2, Zenon
    <3> QED
      BY <3>1, <3>2
  <2>5. HashInv' /\ Items' = Items /\ Cursor' = q
    <3> HIDE DEF q
    <3> QED
      BY <1>5, <2>1, <2>3, <2>4, Zenon
  <2> QED
    BY <1>1, <2>2, <2>5, Zenon DEF Abstract!GotoNextElement, Abstract!Stale
<1>9. CASE GotoPreviousElement
  <2> DEFINE q == IF p = 0 THEN 0 ELSE p - 1
  <2>1. ~stale /\ SetCurrent(IF curhashelem = Null THEN Null ELSE heap[curhashelem].listprev)
    BY <1>9, Zenon DEF GotoPreviousElement
  <2>2. p \in 0..n /\ p \in Int /\ p # -1 /\ (p = 0 <=> p \notin 1..n)
    BY <1>1, <1>2, <2>1
  <2>3. q \in 0..n /\ q \in Int
    BY <1>1, <2>2
  <2>4. At(L, q) = IF curhashelem = Null THEN Null ELSE heap[curhashelem].listprev
    <3>1. CASE p = 0
      <4>1. q = 0 /\ At(L, 0) = Null /\ curhashelem = Null
        BY <1>2, <1>3, <2>1, <2>2, <3>1, Zenon
      <4> QED
        BY <4>1, Zenon
    <3>2. CASE p # 0
      <4>1. curhashelem # Null /\ heap[curhashelem].listprev = At(L, p - 1)
        BY <1>2, <1>3, <1>4, <2>1, <2>2, <3>2, Zenon
      <4> QED
        BY <3>2, <4>1, Zenon
    <3> QED
      BY <3>1, <3>2
  <2>5. HashInv' /\ Items' = Items /\ Cursor' = q
    <3> HIDE DEF q
    <3> QED
      BY <1>5, <2>1, <2>3, <2>4, Zenon
  <2> QED
    BY <1>1, <2>2, <2>5, Zenon DEF Abstract!GotoPreviousElement, Abstract!Stale
<1> QED
  BY <1>6, <1>7, <1>8, <1>9

\* A key is looked up, added or deleted.
LEMMA KeyStep ==
  ASSUME HashInv, NEW L, NEW p, ListSeen(L, p), NEW k \in Key,
         GotoElement(k) \/ AddElement(k) \/ DeleteElement(k)
  PROVE  /\ HashInv'
         /\ Abstract!GotoElement(k) \/ Abstract!AddElement(k) \/ Abstract!DeleteElement(k)
<1>1. L \in Seq(Addr) /\ Len(Items) = Len(L) /\ Cursor = p
      /\ (\A i \in 1..Len(L) : At(L, i) = L[i] /\ L[i] # Null)
  BY ListFacts, Zenon
<1>2. PICK q \in 0..Len(L) :
         /\ Abstract!Position(k) = q /\ Find(k) = At(L, q)
         /\ q # 0 => q \in 1..Len(L) /\ heap[L[q]].key = k
         /\ q = 0 => \A a \in UsedIn(heap) : heap[a].key # k
  BY FoundIs, Zenon
<1>3. HasElement(k) <=> q # 0
  <2>1. q = 0 => At(L, q) = Null
    <3>1. 0 \notin 1..Len(L)
      BY SMT
    <3> QED
      BY <3>1, Zenon DEF At
  <2> QED
    BY <1>1, <1>2, <2>1, Zenon DEF HasElement
<1>4. CASE GotoElement(k)
  <2>1. SetCurrent(At(L, q))
    BY <1>2, <1>4, Zenon DEF GotoElement
  <2> QED
    BY <1>2, <2>1, Moved, Zenon DEF Abstract!GotoElement
<1>5. CASE AddElement(k)
  <2>1. q = 0
    BY <1>3, <1>5, Zenon DEF AddElement
  <2>2. HashInv' /\ Items' = Append(Items, k) /\ Cursor' = p
    BY <1>2, <1>5, <2>1, AddStep, Zenon
  <2> QED
    BY <1>1, <1>2, <2>1, <2>2, Zenon DEF Abstract!AddElement, Abstract!HasElement
<1>6. CASE DeleteElement(k)
  <2>1. CASE q = 0
    <3>1. SetCurrent(At(L, q))
      BY <1>2, <1>3, <1>6, <2>1, Zenon DEF DeleteElement, GotoElement
    <3>2. HashInv' /\ Items' = Items /\ Cursor' = q
      BY <3>1, Moved, Zenon
    <3> QED
      BY <1>2, <2>1, <3>2, Zenon DEF Abstract!DeleteElement, Abstract!HasElement
  <2>2. CASE q # 0
    <3>1. q \in 1..Len(L) /\ Unlink(L[q])
      BY <1>1, <1>2, <1>3, <1>6, <2>2, Zenon DEF DeleteElement
    <3>2. /\ HashInv' /\ Items' = Abstract!RemoveAt(Items, q)
          /\ Cursor' = IF q = Len(Items) THEN 0 ELSE q
      BY <3>1, UnlinkStep, Zenon
    <3> QED
      BY <1>2, <2>2, <3>2, Zenon
      DEF Abstract!DeleteElement, Abstract!HasElement, Abstract!DeleteAt
  <2> QED
    BY <2>1, <2>2
<1> QED
  BY <1>4, <1>5, <1>6

\* The element at the cursor is deleted.
LEMMA CurrentStep ==
  ASSUME HashInv, NEW L, NEW p, ListSeen(L, p), DeleteCurrentElement
  PROVE  HashInv' /\ Abstract!DeleteCurrentElement
<1>1. L \in Seq(Addr) /\ Len(L) \in Nat /\ Len(Items) = Len(L) /\ Cursor = p
      /\ (\A i \in 1..Len(L) : At(L, i) = L[i]) /\ Items = KeysOf(heap, L)
  BY ListFacts, Zenon
<1>2. ~stale /\ curhashelem # Null /\ Unlink(curhashelem)
  BY Zenon DEF DeleteCurrentElement
<1>3. p \in 0..Len(L) /\ curhashelem = At(L, p)
  BY <1>2, Zenon DEF ListSeen, Pointed
<1>4. p \in 1..Len(L)
  BY <1>2, <1>3, Zenon DEF At
<1>5. Unlink(L[p])
  BY <1>1, <1>2, <1>3, <1>4, Zenon
<1>6. /\ HashInv' /\ Items' = Abstract!RemoveAt(Items, p)
      /\ Cursor' = IF p = Len(Items) THEN 0 ELSE p
  BY <1>4, <1>5, UnlinkStep, Zenon
<1>7. DOMAIN Items = 1..Len(L)
  BY <1>1, Zenon DEF KeysOf
<1> QED
  BY <1>1, <1>4, <1>6, <1>7, Zenon DEF Abstract!DeleteCurrentElement, Abstract!DeleteAt

\* Every step keeps the invariant and is one of the abstract table, or none.
LEMMA TableSteps ==
  HashInv /\ [HashNext]_hashvars => HashInv' /\ [Abstract!Next]_Abstract!tablevars
<1> SUFFICES ASSUME HashInv, [HashNext]_hashvars
             PROVE  HashInv' /\ [Abstract!Next]_Abstract!tablevars
  OBVIOUS
<1>1. PICK L, p : ListSeen(L, p)
  BY Zenon DEF HashInv, ListSeen
<1>2. CASE GotoFirstElement \/ GotoLastElement \/ GotoNextElement \/ GotoPreviousElement
  BY <1>1, <1>2, MoveStep, Zenon DEF Abstract!Next
<1>3. CASE \E k \in Key : GotoElement(k) \/ AddElement(k) \/ DeleteElement(k)
  BY <1>1, <1>3, KeyStep, Zenon DEF Abstract!Next
<1>4. CASE DeleteCurrentElement
  BY <1>1, <1>4, CurrentStep, Zenon DEF Abstract!Next
<1>5. CASE Clear
  BY <1>1, <1>5, ClearStep, Zenon DEF Abstract!Next
<1>6. CASE UNCHANGED hashvars
  <2>1. UNCHANGED <<heap, table, firsthashelem, lasthashelem, curhashelem, stale>>
    BY <1>6, Zenon DEF hashvars
  <2>2. HashInv'
    BY <2>1, Zenon DEF HashInv
  <2>3. Listed' = Listed
    BY <2>1, Zenon DEF Listed
  <2>4. Items' = Items /\ Cursor' = Cursor
    BY <2>1, <2>3 DEF Items, Cursor
  <2> QED
    BY <2>2, <2>4, Zenon DEF Abstract!tablevars
<1> QED
  BY <1>2, <1>3, <1>4, <1>5, <1>6, Zenon DEF HashNext

\* Whatever the keys and however they share buckets: chains, list and cursor behave as
\* the ordered set of keys with a cursor.
THEOREM TableBehavesAsMap == HashSpec => TableIsMap
<1>1. HashInit => HashInv /\ Abstract!Init
  BY TableStarts
<1>2. HashInv /\ [HashNext]_hashvars => HashInv' /\ [Abstract!Next]_Abstract!tablevars
  BY TableSteps
<1> QED
  BY <1>1, <1>2, PTL DEF HashSpec, TableIsMap, Abstract!Spec

=============================================================================
