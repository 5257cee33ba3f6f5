SPECIFICATION Spec
CONSTANTS
    Server = {s1, s2, s3}
    Change = {c1, c2}
    None = None
    InFlight = 2
    MaxEvents = 2
    MaxForwards = 1
SYMMETRY Symmetry
VIEW View
INVARIANTS  LogMatching AppliedAgree ConfirmedSurvives
CHECK_DEADLOCK FALSE
