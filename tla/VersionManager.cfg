SPECIFICATION FairSpec
CONSTANTS
    Versions = {v1, v2, v3}
    FirstVersion = v1
    v1 = v1
    v2 = v2
    v3 = v3
    Working = {v1, v2}
    MAX_STARTS = 2
    BbuHabits = {}
    MaxActivations = 3
    MaxDownloads = 3
    MaxPowerCuts = 2
    MaxFailures = 1
INVARIANTS CurrentUsable UnprovenIsGuarded
PROPERTIES ConfirmsItself 
CHECK_DEADLOCK FALSE
