\* One JsonView and one SQLView, made from each other, read and changed.
SPECIFICATION Spec
CONSTANTS
    Both = Both
    Json = Json
    Column = Column
    Fields = {Both, Json, Column}
    Values = {0, 1}
    Zero = 0
    JsonFields = {Both, Json}
    OmitEmpty = {Json}
    Stored = {Both, Column}
    Unknown = Unknown
    Bad = Bad
    JsonViews = {j}
    SQLViews = {s}
    Arrays = {r1, r2, r3}
    NoArray = NoArray
    NoField = NoField
    MaxFilled = 3
    Texts <- MCTexts
    Rows <- MCRows
SYMMETRY Symmetry
INVARIANTS
    Inv
PROPERTIES
    ImplementsViewSets
    WhatIsSentArrives
