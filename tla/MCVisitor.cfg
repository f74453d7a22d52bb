CONSTANTS
    x = x
    i = i
    mem0 = mem0
    p = p
    ret = ret
    ret1 = ret1
    ret2 = ret2
    ret3 = ret3
    ret4 = ret4
    Free = Free
    Worlds <- MCWorlds
    Vals <- MCVals
    Ids <- MCIds
    MemIds = {mem0}
    NameOf <- MCNameOf
    MetaKeys = {}
    Programs <- MCPrograms
    Limit = 3
    DepthLimit = 2
    Functions <- MCFunctions
    Rets <- MCRets
    Opaque <- MCOpaque
SPECIFICATION Spec
PROPERTY Terminates
INVARIANTS TypeOK SetFound Sound Precise StoreExact ReturnExact
