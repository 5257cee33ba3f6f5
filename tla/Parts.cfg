SPECIFICATION PartsSpec
CONSTANTS
    Request = {r1, r2, r3}
    None = None
    Skew = 1
    NonceCapacity = 2
    Drift = 1
    MaxClock = 3
    MaxRestarts = 1
    Prompt <- MCPrompt
    CacheCapacity = 2
    MaxInfers = 5
    Window = 2
    MaxChunks = 4
    MaxUpstream = 1
    Key = {k1, k2}
    NoKey = NoKey
    KeyFile = KeyFile
    MaxTtl = 1
    MaxHours = 2
    MaxTokens = 1
    MaxKeyTime = 2
    Task = {t1, t2}
    Branch = {"feature/a", "featurea", "fix"}
    Nobody = "nobody"
    MaxOps = 4
    LogCapacity = 2
    LogLimit = 1
    Tenant = {t1, t2}
    NoTenant = NoTenant
    Capacity = 4
    Cost = 2
    MaxTime = 8
    IdleEviction = 2
    SweepEvery = 3
SYMMETRY Symmetry
INVARIANTS RepeatNeedsFlood NonceSpentByService TrieIsExact  
INVARIANTS  CredentialSurvivesRotation  StreamIsContiguous
INVARIANT WithinRate
PROPERTIES Eviction SweepBoundsAge
CHECK_DEADLOCK FALSE
