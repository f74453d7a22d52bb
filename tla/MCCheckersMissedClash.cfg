CONSTANTS
    a = a
    b = b
    d = d
    q = q
    x = x
    i = i
    dst = dst
    src = src
    r = r
    ret = ret
    ret1 = ret1
    ret2 = ret2
    Free = Free
    Worlds <- MCWorlds
    Vals <- MCVals
    Ids <- MCIds
    MemIds = {}
    NameOf <- MCNameOf
    MetaKeys <- MCMetaKeys
    Programs <- MissedClash
    Limit = 3
    DepthLimit = 2
    Functions <- MCFunctions
    Rets <- MCRets
    Opaque <- MCOpaque
    Restricted = {a, d, dst}
SPECIFICATION CheckSpec
PROPERTY AnyClashReported
