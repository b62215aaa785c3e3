------------------------------ MODULE MCIntake ------------------------------
(***************************************************************************)
(* Instances of Intake and Manifest for TLC, in one state space.  A        *)
(* behaviour either races intake requests on all shipments and leaves the  *)
(* manifests alone, or races manifest requests of one shipment with each   *)
(* other and with one intake request at a time on it.  A manifest request  *)
(* sees of Intake which shipments and vehicles are saved, and each save is *)
(* one step in both.                                                       *)
(***************************************************************************)
EXTENDS Manifest, TLC

\* One count the handler refuses, none declared, and two it enforces.
DeclaredCounts == {-1, 0, 1, 2}

Interchangeable ==
    Permutations(Shipments) \cup Permutations(Vins) \cup Permutations(Workers)
        \cup Permutations(Clerks)

VARIABLE subject    \* the shipment whose manifest is reconciled, or None

intakeVars == <<vars, manifestVars, subject>>

IntakeInit == Init /\ ManifestInit /\ subject \in Shipments \cup {None}

Racing == subject = None /\ Next /\ UNCHANGED <<manifestVars, subject>>

AboutSubject ==
    /\ \A w \in Workers : request'[w].shipment \in {subject, None}
    /\ \A c \in Clerks : errand'[c].shipment \in {subject, None}
    /\ \A v, w \in Workers : request'[v].at # "idle" /\ request'[w].at # "idle" => v = w

Reconciling == subject # None /\ ManifestNext /\ AboutSubject /\ UNCHANGED subject

IntakeNext == Racing \/ Reconciling

IntakeSpec == IntakeInit /\ [][IntakeNext]_intakeVars

IntakeTypeOK == TypeOK /\ ManifestTypeOK
=============================================================================
