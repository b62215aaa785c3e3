SPECIFICATION FairSpec
CONSTANTS
    Deployments <- NewOnPostgres
    MaxStops = 1
PROPERTIES
    ProductionServes
CHECK_DEADLOCK FALSE
