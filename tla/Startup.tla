------------------------------ MODULE Startup ------------------------------
(***************************************************************************)
(* What the process does before it serves requests (Program.cs 127-138):   *)
(* EnsureCreated, for SQLite the bootstrap statements that bring an older  *)
(* database up to date, and the seeding of slots, administrator and        *)
(* sensors.  The process may stop between any two awaits and is started    *)
(* again on the same database; a step the database refuses throws, which   *)
(* ends the process too.                                                   *)
(*                                                                         *)
(* Schema objects are tables, the column added to ParkingSpots, and unique *)
(* indexes.  Two indexes have other names in OnModelCreating; here they    *)
(* have the bootstrap's.  Indexes that constrain nothing are left out.     *)
(***************************************************************************)
EXTENDS Naturals, Sequences

CONSTANTS
    Deployments,   \* the [provider, found] the process is started with
    MaxStops       \* bound on stops from outside

Providers == {"sqlite", "postgres", "other"}

-----------------------------------------------------------------------------
(* The schema, by the batches of the bootstrappers, in their order.        *)

\* Mutant: an index ahead of its table.
ImportStatementsIndexFirst ==
    <<"IX_ParkingSpots_ImportedVehicleId",
      "IX_ImportShipments_ShipmentReference", "ImportShipments",
      "ImportedVehicles", "IX_ImportedVehicles_Vin",
      "IX_ImportedVehicles_ImportShipmentId_TallySequence",
      "VehicleArrivalRecords", "IX_VehicleArrivalRecords_ImportShipmentId_TallySequence">>

ImportStatements ==
    <<"IX_ParkingSpots_ImportedVehicleId",
      "ImportShipments", "IX_ImportShipments_ShipmentReference",
      "ImportedVehicles", "IX_ImportedVehicles_Vin",
      "IX_ImportedVehicles_ImportShipmentId_TallySequence",
      "VehicleArrivalRecords", "IX_VehicleArrivalRecords_ImportShipmentId_TallySequence">>

DispatchStatements ==
    <<"VehicleDispatchRecords", "IX_VehicleDispatchRecords_DispatchReference">>

AdvancedStatements ==
    <<"ImportManifestEntries", "IX_ImportManifestEntries_Shipment_Vin",
      "VehicleInspections", "VehicleInspectionPhotos", "VehicleHolds",
      "YardNodes", "IX_YardNodes_Code", "YardQrCodes", "IX_YardQrCodes_Token",
      "Drivers", "IX_Drivers_DriverNumber",
      "TransportTrucks", "IX_TransportTrucks_PlateNumber", "GateVisits",
      "DispatchLoadPlans", "IX_DispatchLoadPlans_LoadReference",
      "DispatchLoadItems", "IX_DispatchLoadItems_Plan_Vehicle",
      "VehicleDocuments", "CustomerAccounts", "IX_CustomerAccounts_ExternalReference",
      "VehicleCustomerLinks", "KeyAssignments", "BillingActivities",
      "VehicleLprDetections">>

BootStatements == ImportStatements \o DispatchStatements \o AdvancedStatements

\* The table, or added column, an index is on.
IndexOn ==
    [IX_ParkingSpots_ImportedVehicleId |-> "ImportedVehicleId",
     IX_ImportShipments_ShipmentReference |-> "ImportShipments",
     IX_ImportedVehicles_Vin |-> "ImportedVehicles",
     IX_ImportedVehicles_ImportShipmentId_TallySequence |-> "ImportedVehicles",
     IX_VehicleArrivalRecords_ImportShipmentId_TallySequence |-> "VehicleArrivalRecords",
     IX_VehicleDispatchRecords_DispatchReference |-> "VehicleDispatchRecords",
     IX_ImportManifestEntries_Shipment_Vin |-> "ImportManifestEntries",
     IX_YardNodes_Code |-> "YardNodes",
     IX_YardQrCodes_Token |-> "YardQrCodes",
     IX_Drivers_DriverNumber |-> "Drivers",
     IX_TransportTrucks_PlateNumber |-> "TransportTrucks",
     IX_DispatchLoadPlans_LoadReference |-> "DispatchLoadPlans",
     IX_DispatchLoadItems_Plan_Vehicle |-> "DispatchLoadItems",
     IX_CustomerAccounts_ExternalReference |-> "CustomerAccounts"]

Objects(statements) == {statements[i] : i \in DOMAIN statements}

\* What the releases before the import module created, and what OnModelCreating
\* declares now.
CoreSchema ==
    {"ParkingSpots", "ParkingEvents", "Users", "ParkingSensors", "ParkingSensorReadings"}

ModelSchema == CoreSchema \cup {"ImportedVehicleId"} \cup Objects(BootStatements)

ImportSchema == CoreSchema \cup {"ImportedVehicleId"} \cup Objects(ImportStatements)

\* The databases of earlier releases, one release after the other, and none.
FoundSchemas ==
    {{}, CoreSchema, ImportSchema, ImportSchema \cup Objects(DispatchStatements)}

\* Only SQLite was the database of those releases.
AllDeployments ==
    {d \in [provider : Providers, found : FoundSchemas] :
        d.provider = "postgres" => d.found = {}}

ASSUME DeploymentsAssumption == Deployments \subseteq AllDeployments
ASSUME MaxStopsAssumption == MaxStops \in Nat

-----------------------------------------------------------------------------
VARIABLES
    deployment,    \* Database:Provider and the schema found at the first start
    schema,        \* the objects that exist
    rows,          \* which of the seeded tables have rows
    at,            \* the await the start has reached; down, serving
    next,          \* the bootstrap statement that comes next
    configured,    \* seeds whose secret this start is configured with
    pending,       \* seeds added to the DbContext and not saved
    refused,       \* what made a start throw, if one did
    stops          \* stops from outside so far

vars == <<deployment, schema, rows, at, next, configured, pending, refused, stops>>

Secrets == {"admin", "sensors"}   \* BootstrapAdminPassword, SensorIngressKey
Seeds   == {"spots"} \cup Secrets

Refusals ==
    {"nothing", "EnsureCreated", "AddColumn", "SaveSpots", "ListSpots"}
        \cup Objects(BootStatements)

Stages ==
    {"down", "create", "checkColumn", "addColumn", "statements", "seedSpots",
     "saveSpots", "seedUsers", "seedSensors", "listSpots", "save", "serving"}

Init ==
    /\ deployment \in Deployments
    /\ schema = deployment.found
    /\ rows \in {r \in SUBSET Seeds : r # {} => "spots" \in r /\ schema # {}}
    /\ at = "down"
    /\ next = 1
    /\ configured = {}
    /\ pending = {}
    /\ refused = "nothing"
    /\ stops = 0

-----------------------------------------------------------------------------
\* The process ends at an exception nobody catches.
Throw(what) ==
    /\ refused' = what
    /\ at' = "down"
    /\ UNCHANGED <<deployment, schema, rows, next, configured, pending, stops>>

\* An index needs what it is on; a table needs nothing, as SQLite does not look
\* for the tables its foreign keys name.
Needs(object) == IF object \in DOMAIN IndexOn THEN {IndexOn[object]} ELSE {}

\* PRIMARY is a reserved word: SQLite does not parse the statement that declares
\* a column of that name, whether or not the table exists.
Parses(object) == object # "VehicleCustomerLinks"

\* The queries EF Core generates name the column, so they need it.
CanQuerySpots == {"ParkingSpots", "ImportedVehicleId"} \subseteq schema

-----------------------------------------------------------------------------
\* The service manager starts the process, with or without each secret.
Start ==
    /\ at = "down"
    /\ \E secrets \in SUBSET Secrets : configured' = secrets
    /\ at' = "create"
    /\ next' = 1
    /\ pending' = {}
    /\ UNCHANGED <<deployment, schema, rows, refused, stops>>

\* EnsureCreated: nothing unless the database has no table; then everything in
\* one transaction.  PostgreSQL refuses the filter of the index on the slot's
\* vehicle: unquoted, it names a column in lower case, which there is none of.
EnsureCreated ==
    /\ at = "create"
    /\ IF schema = {} /\ deployment.provider = "postgres"
       THEN Throw("EnsureCreated")
       ELSE /\ schema' = IF schema = {} THEN ModelSchema ELSE schema
            /\ at' = IF deployment.provider = "sqlite" THEN "checkColumn" ELSE "seedSpots"
            /\ UNCHANGED <<deployment, rows, next, configured, pending, refused, stops>>

\* Mutant: the column is added without asking whether it exists.
CheckColumnUnasked ==
    /\ at = "checkColumn"
    /\ at' = "addColumn"
    /\ UNCHANGED <<deployment, schema, rows, next, configured, pending, refused, stops>>

CheckColumn ==
    /\ at = "checkColumn"
    /\ at' = IF "ImportedVehicleId" \in schema THEN "statements" ELSE "addColumn"
    /\ UNCHANGED <<deployment, schema, rows, next, configured, pending, refused, stops>>

AddColumn ==
    /\ at = "addColumn"
    /\ IF "ImportedVehicleId" \in schema \/ "ParkingSpots" \notin schema
       THEN Throw("AddColumn")
       ELSE /\ schema' = schema \cup {"ImportedVehicleId"}
            /\ at' = "statements"
            /\ UNCHANGED <<deployment, rows, next, configured, pending, refused, stops>>

\* Without a transaction around them, each statement of a batch takes effect on
\* its own; all say IF NOT EXISTS.  After the last the seeding begins.
RunStatement ==
    LET object == BootStatements[next] IN
    /\ at = "statements"
    /\ IF Parses(object) /\ Needs(object) \subseteq schema
       THEN /\ schema' = schema \cup {object}
            /\ next' = next + 1
            /\ at' = IF next = Len(BootStatements) THEN "seedSpots" ELSE "statements"
            /\ UNCHANGED <<deployment, rows, configured, pending, refused, stops>>
       ELSE Throw(object)

\* Mutant: users and sensors are seeded only together with the slots.
SeedSpotsOrNothing ==
    /\ at = "seedSpots"
    /\ at' = IF "spots" \in rows THEN "save" ELSE "saveSpots"
    /\ UNCHANGED <<deployment, schema, rows, next, configured, pending, refused, stops>>

\* Mutant: the slots are inserted at every start.
SeedSpotsUnasked ==
    /\ at = "seedSpots"
    /\ at' = "saveSpots"
    /\ UNCHANGED <<deployment, schema, rows, next, configured, pending, refused, stops>>

\* SeedAsync: is there a slot, else insert the yard's 48 with a save of their own;
\* their unique index lets them in once.
SeedSpots ==
    /\ at = "seedSpots"
    /\ at' = IF "spots" \in rows THEN "seedUsers" ELSE "saveSpots"
    /\ UNCHANGED <<deployment, schema, rows, next, configured, pending, refused, stops>>

SaveSpots ==
    /\ at = "saveSpots"
    /\ IF CanQuerySpots /\ "spots" \notin rows
       THEN /\ rows' = rows \cup {"spots"}
            /\ at' = "seedUsers"
            /\ UNCHANGED <<deployment, schema, next, configured, pending, refused, stops>>
       ELSE Throw("SaveSpots")

\* Without a user the administrator is added, if a password is configured; it is
\* saved only with what follows.
SeedUsers ==
    /\ at = "seedUsers"
    /\ pending' = (configured \cap {"admin"}) \ rows
    /\ at' = "seedSensors"
    /\ UNCHANGED <<deployment, schema, rows, next, configured, refused, stops>>

SeedSensors ==
    /\ at = "seedSensors"
    /\ at' = IF "sensors" \in configured \ rows THEN "listSpots" ELSE "save"
    /\ UNCHANGED <<deployment, schema, rows, next, configured, pending, refused, stops>>

\* One sensor for every slot.
ListSpots ==
    /\ at = "listSpots"
    /\ IF CanQuerySpots
       THEN /\ pending' = pending \cup {"sensors"}
            /\ at' = "save"
            /\ UNCHANGED <<deployment, schema, rows, next, configured, refused, stops>>
       ELSE Throw("ListSpots")

SaveRest ==
    /\ at = "save"
    /\ rows' = rows \cup pending
    /\ at' = "serving"
    /\ UNCHANGED <<deployment, schema, next, configured, pending, refused, stops>>

SeedAsync ==
    SeedSpots \/ SaveSpots \/ SeedUsers \/ SeedSensors \/ ListSpots \/ SaveRest

\* The process is stopped or dies, starting or serving.
Stop ==
    /\ at # "down"
    /\ stops < MaxStops
    /\ stops' = stops + 1
    /\ at' = "down"
    /\ UNCHANGED <<deployment, schema, rows, next, configured, pending, refused>>

Step == EnsureCreated \/ CheckColumn \/ AddColumn \/ RunStatement \/ SeedAsync

Next == Start \/ Step \/ Stop

Spec == Init /\ [][Next]_vars

\* The service manager restarts a process that ended (restart: unless-stopped),
\* and no step of a start waits for anyone.
FairSpec == Spec /\ WF_vars(Start) /\ WF_vars(Step)

-----------------------------------------------------------------------------
\* The database holds objects and seeds the program knows, and a start is at one
\* of its awaits.
TypeOK ==
    /\ deployment \in Deployments
    /\ schema \subseteq ModelSchema
    /\ rows \subseteq Seeds
    /\ at \in Stages
    /\ next \in 1 .. Len(BootStatements) + 1
    /\ at = "statements" => next <= Len(BootStatements)
    /\ configured \subseteq Secrets
    /\ pending \subseteq Secrets
    /\ refused \in Refusals
    /\ stops \in 0 .. MaxStops

\* Requests are served only with a seeded yard, with the administrator and the
\* sensors this start is configured with, wherever earlier starts were cut short
\* between the two saves of SeedAsync, and, unless an older database was opened
\* without the bootstrap, with every table and index the model declares.
ServingIsReady ==
    at = "serving" =>
        /\ {"spots"} \cup configured \subseteq rows
        /\ deployment.provider = "sqlite" \/ deployment.found = {} => schema = ModelSchema

\* Repeating what interrupted starts already did is harmless: on a database of any
\* release SQLite refuses neither the column nor a statement nor a seed, but only
\* the statement it cannot parse; without the bootstrap nothing is refused.
RepeatIsHarmless ==
    /\ deployment.provider = "sqlite" => refused \in {"nothing", "VehicleCustomerLinks"}
    /\ deployment.provider = "other" /\ deployment.found = {} => refused = "nothing"

\* Where the bootstrap is not run, a new installation ends up serving and stays
\* so, once nobody stops it any more.
StartCompletes ==
    deployment.provider = "other" /\ deployment.found = {} => <>[](at = "serving")

\* On SQLite a database of any release gets, in the end, whatever the bootstrap
\* declares ahead of the statement that does not parse.
UpgradeArrives ==
    deployment.provider = "sqlite" =>
        <>[](\A i \in DOMAIN BootStatements :
                 (\A j \in 1 .. i : Parses(BootStatements[j]))
                     => BootStatements[i] \in schema)

\* Started as README.md says, with SQLite, the program comes to serve its login page.
LocalRunServes == deployment.provider = "sqlite" => <>(at = "serving")

\* Started with the provider the documentation names for production, it serves.
ProductionServes == deployment.provider = "postgres" => <>(at = "serving")
=============================================================================
