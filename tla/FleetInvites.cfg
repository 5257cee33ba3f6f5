SPECIFICATION FairSpec
CONSTANTS
    Node = {n1}
    Cred = {k1}
    Record = {r1}
    Code = {c1, c2}
    UseLimits = {2}
    StaleAfter = 1
    MaxCrashes = 1
    Mortal = {n1}
    SchemaDrift = FALSE
    Absent = Absent
    NoCred = NoCred
    NoCode = NoCode
    NoInvite = NoInvite
    NoScript = NoScript
INVARIANTS AdmissionsBounded UsesAccountForAdmissions
PROPERTIES EveryAdmissionCounted DeadHostsAgeOut
