---------------------------- MODULE SchemaVersion ----------------------------
(***************************************************************************)
(* checkSchemaVersion, schema.go: services of different builds start on a  *)
(* namespace at the same time.  The first to find no version record stamps *)
(* it; all others are held against the stamp.                              *)
(***************************************************************************)
EXTENDS Absent, Integers

CONSTANTS
    Service,    \* services that start
    Build       \* builds: schema version and the oldest version they admit

ASSUME SchemaAssumption ==
    /\ Build \subseteq [version : Nat, min : Nat]
    /\ \A b \in Build : b.min <= b.version
    /\ Nil \notin Build

VARIABLES
    schema,     \* the version record, or Nil
    build,      \* build[s]: the build of service s
    boot        \* boot[s]: "read", "stamp", "reread", or the outcome

svvars == <<schema, build, boot>>

SchemaInit ==
    /\ schema = Nil
    /\ build \in [Service -> Build]
    /\ boot = [s \in Service |-> "read"]

\* The stored version is not older than the build's, and admits the build.
Admits(stored, b) == b.version <= stored.version /\ stored.min <= b.version

Validate(s) == boot' = [boot EXCEPT ![s] = IF Admits(schema, build[s]) THEN "ready" ELSE "refused"]

ReadSchema(s) ==
    /\ boot[s] = "read"
    /\ IF schema = Nil THEN boot' = [boot EXCEPT ![s] = "stamp"] ELSE Validate(s)
    /\ UNCHANGED <<schema, build>>

\* CREATE_ONLY: the loser of the race reads again.
StampSchema(s) ==
    /\ boot[s] = "stamp"
    /\ IF schema = Nil
       THEN schema' = build[s] /\ boot' = [boot EXCEPT ![s] = "ready"]
       ELSE boot' = [boot EXCEPT ![s] = "reread"] /\ UNCHANGED schema
    /\ UNCHANGED build

\* Mutant: "losing the race is fine".
TrustWinner(s) ==
    /\ boot[s] = "reread"
    /\ boot' = [boot EXCEPT ![s] = "ready"]
    /\ UNCHANGED <<schema, build>>

RereadSchema(s) ==
    /\ boot[s] = "reread"
    /\ Validate(s)
    /\ UNCHANGED <<schema, build>>

\* The service is started again, perhaps as another build.
Restart(s, b) ==
    /\ boot' = [boot EXCEPT ![s] = "read"]
    /\ build' = [build EXCEPT ![s] = b]
    /\ UNCHANGED schema

SchemaNext == \E s \in Service :
    \/ ReadSchema(s)
    \/ StampSchema(s)
    \/ RereadSchema(s)
    \/ \E b \in Build : Restart(s, b)

SchemaSpec == SchemaInit /\ [][SchemaNext]_svvars

-----------------------------------------------------------------------------
\* checkSchemaVersion, for services that race at boot and are restarted as other
\* builds: whichever of them run, the stamp admits every one.
RunningBuildsAreAdmitted ==
    \A s \in Service : boot[s] = "ready" => schema # Nil /\ Admits(schema, build[s])
=============================================================================
