SPECIFICATION FairSpec
CONSTANTS
    Catalogue = {nothing, m1}
    Nothing = nothing
    Absent = Absent
    Faulty = {"register", "put", "beat", "delete"}
    MaxFaults = 0
    MaxStops = 1
    EarlierRecord = FALSE
    Overlap = TRUE
INVARIANT StopLeavesNothingRunning
CHECK_DEADLOCK FALSE
