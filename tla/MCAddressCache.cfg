\* Two entries per cache, up to eight keys: most lookups evict.
SPECIFICATION Spec
CONSTANTS
    lower = lower
    mixed = mixed
    other = other
    bad0X = bad0X
    Addresses <- MCAddresses
    WellFormed <- MCWellFormed
    LowerCase <- MCLowerCase
    Undefined = Undefined
    EmptyString = EmptyString
    ChainIds = {Undefined, chain1}
    MaxSize = 2
INVARIANTS
    CachesBounded
    MemoIsCorrect
PROPERTIES
    ImplementsFunctions
