SPECIFICATION MCSpec
CONSTANTS
    Ip = {1, 127}
    Port = {1, 4}
    Group = {224, 225}
    Interfaces = {2}
    Loopback = 127
    PortBase = 4
    MaxSize = 2
    MaxArrivals = 3
    Injector = {i1, i2}
    PipeCapacity = 3
    MaxInjections = 4
    Key = {1, 2, 3, 4}
    Bucket = {0, 1}
    Addr = {1, 2, 3, 4}
    HashOf <- MCHashOf
INVARIANTS
    SelectedAsAsked
    ResourcesBalanced
    EchoesKnown
    WakeupNotLost
    SectionsApart
PROPERTIES
    PolledInOrder
    PacketsTaken
    TableIsMap
CHECK_DEADLOCK FALSE
