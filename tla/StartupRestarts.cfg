SPECIFICATION FairSpec
CONSTANTS
    Deployments <- AllDeployments
    MaxStops = 2
INVARIANTS
    ServingIsReady
    RepeatIsHarmless
PROPERTIES
    StartCompletes
    UpgradeArrives
CHECK_DEADLOCK FALSE
