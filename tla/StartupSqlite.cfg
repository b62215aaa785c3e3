SPECIFICATION FairSpec
CONSTANTS
    Deployments <- NewOnSqlite
    MaxStops = 1
PROPERTIES
    LocalRunServes
CHECK_DEADLOCK FALSE
