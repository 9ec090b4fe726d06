SPECIFICATION Spec
CONSTANTS
    Strings <- MCStrings
    InitialCapacity = 2
INVARIANTS
    StrictlySorted
    InBounds
    ContainsIsMembership
PROPERTIES
    InsertAdds
    RemoveIsDifference
    CallsReturn
