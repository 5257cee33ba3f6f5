SPECIFICATION Spec
CONSTANTS
    Node = {n1, n2}
    Cred = {k1, k2}
    Record = {r1, r2}
    Code = {}
    UseLimits = {1}
    StaleAfter = 3
    MaxCrashes = 2
    Mortal = {}
    SchemaDrift = TRUE
    Absent = Absent
    NoCred = NoCred
    NoCode = NoCode
    NoInvite = NoInvite
    NoScript = NoScript
SYMMETRY NodeSymmetry
INVARIANTS TypeOK  ObservationsBelongToMembers CredentialIsLatest
PROPERTY ProvenNodeKept
