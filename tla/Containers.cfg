\* Two lists, which are copied into each other and into themselves; two sets,
\* three arrays of up to two rows, and one object in hand.
SPECIFICATION ContainersSpec
CONSTANTS
    Lists = {l1, l2}
    Elems = {e1, e2, e3, e4}
    Values = {v1, v2}
    Nil = Nil
    Key = Key
    Json = Json
    Unknown = Unknown
    Fields = {Key, Json}
    ID = Key
    ByName = {Json}
    JsonFields = {Key, Json}
    OmitEmpty = {Json}
    Stored = {Key}
    FieldValues = {0, 1}
    Zero = 0
    Null = Null
    Bad = Bad
    Sets = {s1, s2}
    Arrays = {r1, r2, r3}
    NoArray = NoArray
    NoObject = NoObject
    InitCap = 1
    MaxCap = 2
    MaxRows = 2
    Layouts <- MCLayouts
    Other = Other
    Texts <- MCTexts
SYMMETRY Symmetry
VIEW View
INVARIANTS
    Inv
    WalkIsComplete
    ObjectsInv
    WhatIsSentArrives
PROPERTIES
    ImplementsListContents
    ImplementsObjectSets
    RowInPlace
