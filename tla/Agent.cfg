SPECIFICATION RecoverySpec
CONSTANTS
    Catalogue = {nothing, m1}
    Nothing = nothing
    Absent = Absent
    Faulty = {"register", "put", "delete"}
    MaxFaults = 2
    MaxStops = 2
    EarlierRecord = FALSE
    Overlap = TRUE
INVARIANTS PendingIsRetried CleanStop
 
CHECK_DEADLOCK FALSE
