SPECIFICATION MCSpec
CONSTANTS
    own = own
    r1 = r1
    r2 = r2
    r3 = r3
    NoSsrc = NoSsrc
    MaxCount = 2
    MinPacketSize = 40
    Source = {r1, r2}
    Maximum = {44, 110}
    Item <- MCItem
    App <- MCApp
    Bye <- MCBye
    Own = own
    Member = {r1, r2, r3}
    CnameLength = 1
    Sdes <- MCSdes
    ItemLength <- MCItemLength
    Intervals = {1, 2}
    CountCycle = 2
    MaxMembers = 4
    MinInterval = 6
    Cost = 1
    UseHalf = TRUE
    Immediate = TRUE
    ByeLimit = 2
    MaxBye = 3
    MaxTime = 7
    Id = {r1, r2, r3}
    Request <- MCRequest
    BufferSize = {16, 30}
    MaxCsrcs = 2
    SeqModulus = 4
    TimeModulus = 4
    CountModulus = 2
    WordsModulus = 2
    MaxLog = 3
    MaxNow = 1
    Prefix <- MCPrefix
    LongPrefix <- MCLongPrefix
    Cut <- MCCut
    Text = {"t1", "t2"}
    MaxItems = 3
    NoText = "none"
INVARIANTS
    CompoundSound
    PrivateItemsSound
    ReportsFair
    PacketsSound
PROPERTIES
    SpacedOut
    ReportsContinue
CHECK_DEADLOCK FALSE
