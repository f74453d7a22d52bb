CONSTANTS
    Launches <- MCLaunches
    Values <- MCValues
    PointerSize = 8
    SizeLimit = 50
    Free = Free
    Address = Address
SPECIFICATION Spec
INVARIANTS TypeOK FullGroupsSeen LastGroupSeen GroupsExact LinearIdsDiffer ArgumentExact CrashExplained ArraysDisjoint BuffersKept
PROPERTY Ends
