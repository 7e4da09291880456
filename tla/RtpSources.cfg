SPECIFICATION MCSpec
CONSTANTS
    me = me
    s1 = s1
    s2 = s2
    h1 = h1
    h2 = h2
    c1 = c1
    c2 = c2
    Ssrc = {me, s1, s2}
    Host = {h1, h2}
    Cname = {c1, c2}
    ProbationCount = 2
    ProbationLength = 2
    SenderDelay = 1
    ByeDelay = 0
    GeneralDelay = 1
    NoteDelay = 1
    MaxAge = 2
    NoSsrc = NoSsrc
    Self = Self
    Unset = Unset
    NoName = NoName
    Modulus = 8
    MaxProbationPackets = 2
    Late = 1
    Ahead = 2
    LastIndex = 8
    MaxQueue = 3
    MaxExtended = 25
INVARIANTS
    CountsAgree
    EntriesSound
    QueueSound
PROPERTIES
    OwnEntryKept
CHECK_DEADLOCK FALSE
