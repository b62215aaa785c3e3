------------------------------ MODULE Manifest ------------------------------
(***************************************************************************)
(* The manifest of a shipment and its reconciliation with the tally        *)
(* (AdvancedOperationsEndpoints.cs), while Intake registers the vehicles.  *)
(*                                                                         *)
(* Reconciling is two queries without a transaction: the entries first,    *)
(* then the vehicles.  What comes and goes between them is in one list and *)
(* not in the other.  VINs are upper case and compared as such, so equal   *)
(* VINs are one value here.                                                *)
(***************************************************************************)
EXTENDS Intake

CONSTANT Clerks    \* manifest requests the server can have in flight at once

VARIABLES
    manifest,   \* ImportManifestEntries rows
    errand      \* per clerk, the manifest request in flight

manifestVars == <<manifest, errand>>

\* copy stands for the Guid that tells rows of one VIN apart.
ManifestEntry == [shipment : Shipments, vin : Vins, copy : Nat \ {0}]

\* The answer of reconcile; for matched, unexpected, missing and duplicates
\* the client gets the sizes of these sets.
Report ==
    [expected : Nat, received : Nat,
     matched : SUBSET Vins, unexpected : SUBSET Vins, missing : SUBSET Vins,
     duplicates : SUBSET Vins]

NoReport ==
    [expected |-> 0, received |-> 0, matched |-> {}, unexpected |-> {}, missing |-> {},
     duplicates |-> {}]

Errand ==
    [at       : {"idle", "entryVin", "entrySave", "reconcileVehicles", "answered"},
     shipment : Shipments \cup {None},
     vin      : Vins \cup {None},
     entries  : SUBSET ManifestEntry,       \* the shipment's, when read
     answer   : Report]

NoErrand ==
    [at |-> "idle", shipment |-> None, vin |-> None, entries |-> {},
     answer |-> NoReport]

ManifestInit ==
    /\ manifest = {}
    /\ errand   = [c \in Clerks |-> NoErrand]

OnErrand(c, step) == errand[c].at = step
Proceed(c, e)     == errand' = [errand EXCEPT ![c] = e]
Finish(c)         == Proceed(c, NoErrand)

-----------------------------------------------------------------------------
(* POST /api/ops/manifest/{shipmentId}                                     *)

EntryCheckShipment(c, s, x) ==
    /\ OnErrand(c, "idle")
    /\ Exists(s)                                      \* else 404
    /\ Proceed(c, [NoErrand EXCEPT !.at = "entryVin", !.shipment = s, !.vin = x])
    /\ UNCHANGED manifest

Entries(s)     == {e \in manifest : e.shipment = s}
Copies(s, x)   == {e \in Entries(s) : e.vin = x}
HasEntry(s, x) == Copies(s, x) # {}                   \* AnyAsync

EntryCheckVin(c) ==
    LET e == errand[c]
    IN  /\ OnErrand(c, "entryVin")
        /\ \/ /\ ~HasEntry(e.shipment, e.vin)
              /\ Proceed(c, [e EXCEPT !.at = "entrySave"])
           \/ /\ HasEntry(e.shipment, e.vin)          \* 409
              /\ Finish(c)
        /\ UNCHANGED manifest

\* Mutant: no such index.
EntryIndexRejectsNothing(s, x) == FALSE

\* The unique index on (ImportShipmentId, Vin).
EntryIndexRejects(s, x) == HasEntry(s, x)

EntrySave(c) ==
    LET e == errand[c]
    IN  /\ OnErrand(c, "entrySave")
        /\ ~EntryIndexRejects(e.shipment, e.vin)
        /\ manifest' = manifest \cup
               {[shipment |-> e.shipment, vin |-> e.vin,
                 copy |-> Cardinality(Copies(e.shipment, e.vin)) + 1]}
        /\ Finish(c)

EntryRejected(c) ==
    /\ OnErrand(c, "entrySave")
    /\ EntryIndexRejects(errand[c].shipment, errand[c].vin)
    /\ Finish(c)
    /\ UNCHANGED manifest

-----------------------------------------------------------------------------
(* GET /api/ops/manifest/{shipmentId}/reconcile                            *)

Listed(entries) == {e.vin : e \in entries}            \* manifestVins
Arrived(s)      == {y.vin : y \in Rows(s)}            \* actualVins

\* Mutant: the operands of Except are swapped.
MissingSwapped(listed, arrived) == arrived \ listed

Missing(listed, arrived) == listed \ arrived

\* A shipment nobody knows has no entries and no vehicles: no 404 here.
ReconcileReadEntries(c, s) ==
    /\ OnErrand(c, "idle")
    /\ Proceed(c, [NoErrand EXCEPT !.at = "reconcileVehicles", !.shipment = s,
                                   !.entries = Entries(s)])
    /\ UNCHANGED manifest

ReconcileReadVehicles(c) ==
    LET s       == errand[c].shipment
        entries == errand[c].entries
        listed  == Listed(entries)
    IN  /\ OnErrand(c, "reconcileVehicles")
        /\ Proceed(c, [errand[c] EXCEPT
               !.at = "answered",
               !.answer = [expected   |-> Cardinality(entries),
                           received   |-> Received(s),
                           matched    |-> listed \cap Arrived(s),
                           unexpected |-> Arrived(s) \ listed,
                           missing    |-> Missing(listed, Arrived(s)),
                           duplicates |-> {x \in listed : \E e, f \in entries :
                                              e # f /\ e.vin = x /\ f.vin = x}]])
        /\ UNCHANGED manifest

\* The answer has reached the client, or the request of either kind was
\* cancelled or failed before its save.
EndErrand(c) ==
    /\ ~OnErrand(c, "idle")
    /\ Finish(c)
    /\ UNCHANGED manifest

-----------------------------------------------------------------------------
ManifestStep(c) ==
    \/ \E s \in Shipments, x \in Vins : EntryCheckShipment(c, s, x)
    \/ EntryCheckVin(c)
    \/ EntrySave(c)
    \/ EntryRejected(c)
    \/ \E s \in Shipments : ReconcileReadEntries(c, s)
    \/ ReconcileReadVehicles(c)
    \/ EndErrand(c)

ManifestNext ==
    \/ Next /\ UNCHANGED manifestVars
    \/ (\E c \in Clerks : ManifestStep(c)) /\ UNCHANGED vars

ManifestSpec == Init /\ ManifestInit /\ [][ManifestNext]_<<vars, manifestVars>>

-----------------------------------------------------------------------------
ManifestTypeOK ==
    /\ manifest \subseteq ManifestEntry
    /\ errand \in [Clerks -> Errand]

\* Whatever entries and registrations race, an answer adds up: every entry is
\* matched or missing, every vehicle matched or unexpected, and no VIN is
\* entered twice, although the handler only looks before it inserts and
\* reconcile counts rows on one side and VINs on the other.
ReportBalances ==
    \A c \in Clerks :
        LET r == errand[c].answer
        IN  OnErrand(c, "answered") =>
                /\ r.expected = Cardinality(r.matched) + Cardinality(r.missing)
                /\ r.received = Cardinality(r.matched) + Cardinality(r.unexpected)
                /\ r.duplicates = {}

\* A vehicle reported missing is on the manifest and has not arrived, and one
\* reported matched is both, at the moment of the answer: the entries, read
\* first, are still there, and no vehicle is read that leaves again.  The same
\* is not so of the unexpected ones, whose entries may have come in between.
MissingIsMissing ==
    [][\A c \in Clerks :
           OnErrand(c, "reconcileVehicles") /\ OnErrand(c, "answered")' =>
               LET s == errand[c].shipment
                   r == errand'[c].answer
               IN  /\ r.missing \subseteq Listed(Entries(s)) \ Arrived(s)
                   /\ r.matched \subseteq Listed(Entries(s)) \cap Arrived(s)]_<<vars, manifestVars>>
=============================================================================
