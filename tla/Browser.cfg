SPECIFICATION BrowserSpec
CONSTANTS
    Nothing = Nothing
    Failed = Failed
    Tabs = {tab1, tab2}
    spot1 = spot1
    spot2 = spot2
    Shown = {spot1, spot2}
    FirstStatus <- OneReserved
    KeptEvents = 2
    MaxRefusals = 1
    Languages = {"en", "fa"}
    LateLabels = {"exit"}
    MaxSwitches = 3
    SeedInYard = inYard
    SeedHeld = held
    SeedReady = ready
    NewCars = {arrived}
    Lists = {"inspection"}
    MaxChanges = 3
    StudioCars = {studio1, studio2}
    MaxForms = 4
    car1 = car1
    car2 = car2
    DeskCars = {car1, car2}
    FirstExits <- TwoLeft
    MaxCalls = 2
    MaxFlights = 2
    MaxOutages = 1
    MaxVisits = 2
    PlainTabs = {"vehicles"}
    FetchedTabs = {"manifest", "aging"}
    RowsTabs = {"yard"}
    Texts = {"vin", "plate"}
    MaxClicks = 4
    MaxOut = 2
INVARIANTS
    BrowserTypeOK
    TimerMatchesButton
    TrailExplainsMap
    HoldStatusHasActiveHold
    GateTrailMatches
    TallyCoversYard
    BodyMatchesTab
PROPERTIES
    LanguageSettles
    DepartedStaysDeparted
    ExitIsTheConfirmedOne
    SessionEndIsNoticed
CHECK_DEADLOCK FALSE
