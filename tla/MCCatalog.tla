----------------------------- MODULE MCCatalog ------------------------------
(* The stores that keep records by name, for TLC: executions (as ExecutionStore*)
(* promises them), the mutable state in their records, namespaces, task queue  *)
(* user data, Nexus endpoints, cluster metadata and membership, and the schema *)
(* version.  They are independent of each other, so one run takes them one at  *)
(* a time: `part` picks the one that moves.                                    *)
EXTENDS MCExecutionStore, Namespaces, UserData, MutableState, NexusEndpoints,
        ClusterMetadata, SchemaVersion

VARIABLE part

mcvars == <<part, vars, nsvars, udvars, msvars, nxvars, cmvars, svvars>>

\* A build that requires its own schema, one that admits older data, and one
\* from before both.
Builds == {[version |-> 1, min |-> 1], [version |-> 2, min |-> 1], [version |-> 2, min |-> 2]}

MCInit ==
    /\ part \in {"executions", "namespaces", "user data", "mutable state", "nexus", "metadata",
                 "members", "schema"}
    /\ Init
    /\ NamespaceInit
    /\ UserDataInit
    /\ MutableStateInit
    /\ NexusInit
    /\ ClusterInit
    /\ SchemaInit
    /\ part # "schema" => \A s \in Service : build[s] = [version |-> 1, min |-> 1]

MCNext ==
    /\ UNCHANGED part
    /\ \/ part = "executions" /\ Next /\ UNCHANGED <<nsvars, udvars, msvars, nxvars, cmvars, svvars>>
       \/ part = "namespaces" /\ NamespaceNext /\ UNCHANGED <<vars, udvars, msvars, nxvars, cmvars, svvars>>
       \/ part = "user data" /\ UserDataNext /\ UNCHANGED <<vars, nsvars, msvars, nxvars, cmvars, svvars>>
       \/ part = "mutable state" /\ MutableStateNext /\ UNCHANGED <<vars, nsvars, udvars, nxvars, cmvars, svvars>>
       \/ part = "nexus" /\ NexusNext /\ UNCHANGED <<vars, nsvars, udvars, msvars, cmvars, svvars>>
       \/ part = "metadata" /\ MetadataStep /\ UNCHANGED <<vars, nsvars, udvars, msvars, nxvars, svvars>>
       \/ part = "members" /\ MemberStep /\ UNCHANGED <<vars, nsvars, udvars, msvars, nxvars, svvars>>
       \/ part = "schema" /\ SchemaNext /\ UNCHANGED <<vars, nsvars, udvars, msvars, nxvars, cmvars>>

MCSpec == MCInit /\ [][MCNext]_mcvars
=============================================================================
