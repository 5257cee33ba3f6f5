SPECIFICATION FairSpec
CONSTANTS
    Catalogue = {nothing, m1}
    Nothing = nothing
    Absent = Absent
    Faulty = {"put"}
    MaxFaults = 3
    MaxStops = 0
    EarlierRecord = FALSE
    Overlap = FALSE
PROPERTY CatalogueConverges
CHECK_DEADLOCK FALSE
