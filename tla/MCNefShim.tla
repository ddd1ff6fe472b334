------------------------------- MODULE MCNefShim -------------------------------
(***************************************************************************)
(* Small instances of NefShim for TLC: tenants, manifests and what they    *)
(* declare.                                                                *)
(***************************************************************************)
EXTENDS NefShim, TLC

CONSTANTS t1, t2, s1, s2, web, job

(* Each tenant has a slug of its own.                                        *)
OwnSlug == [t \in Tenants |-> IF t = t1 THEN s1 ELSE s2]

(* Both declare every interface; "web" gives only one a port, "job" all.     *)
Interfaces == [m \in Manifests |-> PortNames]
DeclaredPorts == [m \in Manifests |-> IF m = web THEN {"http"} ELSE PortNames]
AllHaveImages == [m \in Manifests |-> TRUE]

(* Ids and addresses are interchangeable: nothing orders or computes them.   *)
IdSymmetry == Permutations(AppIds) \cup Permutations(InstanceIds)
              \cup Permutations(ClusterIPs)

(* "job" lacks an image.                                                     *)
JobHasNoImage == [m \in Manifests |-> m = web]

===============================================================================
