SPECIFICATION Spec

CONSTANTS
    a = a
    b = b
    ab = ab
    none = none
    nil = nil
    NotInt = NotInt
    NULL = NULL
    NoFile = NoFile
    EmptyMark = none
    NullWord = nil
    Strings <- MCStrings
    Words <- MCWords
    FirstPart <- MCFirstPart
    k1 = k1
    Keys = {k1}
    AuthLevels = {0}
    StringArgs = {a, ab}
    ListArgs = {}
    AuthArgs = {}
    TimeArgs = {}
    IndexArgs = {}
    WordArgs = {}
    MaxLen = 2
    MaxClock = 0

PROPERTIES
    RestoreKeepsValue
