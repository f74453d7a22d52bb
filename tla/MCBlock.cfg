CONSTANTS
    w1 = w1
    w2 = w2
    x = x
    mem = mem
    base = base
    Free = Free
    Worlds <- MCWorlds
    Vals <- MCVals
    Ids = {x, mem}
    MemIds = {mem}
    NameOf <- MCNameOf
    MetaKeys <- MCMetaKeys
    Payloads <- MCPayloads
    Conditions <- MCConditions
    Assumptions <- MCAssumptions
    MaxBlocks = 3
    MaxAssumptions = 1
    MaxEquations = 2
SPECIFICATION Spec
INVARIANTS TypeOK Consistent
PROPERTIES Guarded JoinMerges Implements
CHECK_DEADLOCK FALSE
