SPECIFICATION FairSpec
CONSTANTS
    Catalogue = {nothing, m1}
    Nothing = nothing
    Absent = Absent
    Faulty = {"register", "put", "beat", "delete"}
    MaxFaults = 3
    MaxStops = 0
    EarlierRecord = FALSE
    Overlap = FALSE
PROPERTY RegistrationRecovers
CHECK_DEADLOCK FALSE
