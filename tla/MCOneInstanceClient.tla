-------------------------- MODULE MCOneInstanceClient --------------------------
(* Small instances of OneInstanceClient for TLC.                             *)
EXTENDS OneInstanceClient, TLC

CONSTANTS t1, t2, s1, s2, web, job

OwnSlug == [t \in Tenants |-> IF t = t1 THEN s1 ELSE s2]
Interfaces == [m \in Manifests |-> PortNames]
DeclaredPorts == [m \in Manifests |-> IF m = web THEN PortNames ELSE {}]
AllHaveImages == [m \in Manifests |-> TRUE]

IdSymmetry == Permutations(AppIds) \cup Permutations(InstanceIds)
              \cup Permutations(ClusterIPs)

===============================================================================
