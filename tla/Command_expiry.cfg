SPECIFICATION FairSpec

CONSTANTS
    a = a
    b = b
    ab = ab
    none = none
    nil = nil
    NotInt = NotInt
    NULL = NULL
    NoFile = NoFile
    EmptyMark = none
    NullWord = nil
    Strings <- MCStrings
    Words <- MCWords
    FirstPart <- MCFirstPart
    k1 = k1
    Keys = {k1}
    AuthLevels = {0, 1}
    StringArgs = {ab}
    ListArgs = {}
    AuthArgs = {0, 1}
    TimeArgs <- MCTimes
    IndexArgs = {}
    WordArgs = {}
    MaxLen = 2
    MaxClock = 3

INVARIANTS
    TtlReply

PROPERTIES
    FreshReads
    WriteProtected
    EventuallySaved
