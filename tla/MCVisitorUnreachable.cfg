CONSTANTS
    x = x
    i = i
    mem0 = mem0
    p = p
    ret = ret
    ret1 = ret1
    ret2 = ret2
    ret3 = ret3
    ret4 = ret4
    Free = Free
    Worlds <- FewWorlds
    Vals <- MCVals
    Ids <- MCIds
    MemIds = {mem0}
    NameOf <- SameName
    MetaKeys = {}
    Programs <- Unreachable
    Limit = 3
    DepthLimit = 2
    Functions <- MCFunctions
    Rets <- MCRets
    Opaque <- MCOpaque
SPECIFICATION Spec
INVARIANT Sound
