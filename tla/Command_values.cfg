SPECIFICATION Spec

CONSTANTS
    a = a
    b = b
    ab = ab
    none = none
    nil = nil
    NotInt = NotInt
    NULL = NULL
    NoFile = NoFile
    EmptyMark = none
    NullWord = nil
    Strings <- MCStrings
    Words <- MCWords
    FirstPart <- MCFirstPart
    k1 = k1
    Keys = {k1}
    AuthLevels = {0, 1}
    StringArgs = {a}
    ListArgs <- MCLists
    AuthArgs = {1}
    TimeArgs = {}
    IndexArgs <- MCIndices
    WordArgs = {a}
    MaxLen = 2
    MaxClock = 0


    

PROPERTIES
    
    Disclosure
    WriteProtected
