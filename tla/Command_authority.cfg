SPECIFICATION Spec

CONSTANTS
    a = a
    b = b
    ab = ab
    none = none
    nil = nil
    NotInt = NotInt
    NULL = NULL
    NoFile = NoFile
    EmptyMark = none
    NullWord = nil
    Strings <- MCStrings
    Words <- MCWords
    FirstPart <- MCFirstPart
    k1 = k1
    k2 = k2
    Keys = {k1, k2}
    AuthLevels = {0, 2}
    StringArgs = {a}
    ListArgs = {}
    AuthArgs <- MCAuthArgs
    TimeArgs = {}
    IndexArgs = {}
    WordArgs = {}
    MaxLen = 2
    MaxClock = 0

INVARIANTS
    TypeOK
    AuthOrdered

PROPERTIES
    Disclosure
    WriteProtected
    NoLockout
    RestoreExact
