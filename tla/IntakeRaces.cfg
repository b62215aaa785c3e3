SPECIFICATION IntakeSpec
CONSTANTS
    None = None
    Shipments = {sh1, sh2}
    Vins = {x1, x2, x3}
    Counts <- DeclaredCounts
    Workers = {w1, w2}
    Clerks = {c1, c2}
INVARIANTS
    TypeOK
    TallyDense
    NotOverDeclared
    CompletedIsComplete
    VinRegisteredOnce
    ArrivalMatchesVehicles
    ReportBalances
PROPERTIES
    CompletedStays
    ImplementsTallyBook
    MissingIsMissing
SYMMETRY Interchangeable
