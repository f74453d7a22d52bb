CONSTANTS
    Launches <- Uneven
    Values <- MCValues
    PointerSize = 8
    SizeLimit = 50
    Free = Free
    Address = Address
SPECIFICATION Spec
INVARIANT EveryWorkItem
