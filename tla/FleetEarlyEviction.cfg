SPECIFICATION FairSpec
CONSTANTS
    Node = {n1}
    Cred = {k1}
    Record = {r1}
    Code = {}
    UseLimits = {1}
    StaleAfter = 3
    MaxCrashes = 1
    Mortal = {}
    SchemaDrift = FALSE
    Absent = Absent
    NoCred = NoCred
    NoCode = NoCode
    NoInvite = NoInvite
    NoScript = NoScript
PROPERTY EvictedOnlyAfterSilence
