------------------------------ MODULE Kubernetes ------------------------------
(***************************************************************************)
(* The part of a Kubernetes cluster that the nef-shim relies on: per zone  *)
(* and tenant slug one Deployment, one pod and one NodePort Service, all   *)
(* with the fixed name "<slug>-app" or the fixed label "tenant=<slug>".    *)
(*                                                                         *)
(* Kubernetes is not part of the repository.  It is modelled from how      *)
(* k8s_manager.py calls it: create, delete with Foreground propagation,    *)
(* read, and list by label.  The points that matter to the shim:           *)
(*   - a delete with Foreground propagation returns at once; it marks the  *)
(*     Deployment, and the garbage collector removes it only after its pod *)
(*     is gone, so until then its name stays taken;                        *)
(*   - a create under a taken name answers 409;                            *)
(*   - a Service created anew may get another ClusterIP, or the same one.  *)
(***************************************************************************)
EXTENDS Naturals, FiniteSets

CONSTANTS
  Clusters,    \* the clusters the shim may hold clients of
  Slugs,       \* tenant slugs, the names of all the objects of a tenant
  Manifests,   \* app manifests
  PortNames,   \* names of network interfaces
  ClusterIPs,  \* the addresses a cluster gives to its Services
  None         \* an absent object or value

ASSUME NoneAssumption ==
  /\ None \notin Clusters /\ None \notin Slugs
  /\ None \notin Manifests /\ None \notin ClusterIPs
  /\ None \notin [manifest: Manifests, deleting: BOOLEAN]
  /\ None \notin [manifest: Manifests, phase: {"pending", "ready", "crashed"}]
  /\ None \notin [ip: ClusterIPs, ports: SUBSET PortNames]

VARIABLES
  deployment,  \* the Deployment named <slug>-app of each cluster and slug, or None
  pod,         \* the pod that its label selector finds, or None
  service      \* the Service named <slug>-app, or None

clusterVars == <<deployment, pod, service>>

Keys == Clusters \X Slugs

(* "pending" stands for every pod state in which no container is ready and  *)
(* none is in a crash loop: unscheduled, pulling, starting, running.        *)
PodPhases == {"pending", "ready", "crashed"}

Deployments == [manifest: Manifests, deleting: BOOLEAN]
Pods        == [manifest: Manifests, phase: PodPhases]
Services    == [ip: ClusterIPs, ports: SUBSET PortNames]

ClusterTypeOK ==
  /\ deployment \in [Keys -> Deployments \cup {None}]
  /\ pod \in [Keys -> Pods \cup {None}]
  /\ service \in [Keys -> Services \cup {None}]

ClusterInit ==
  /\ deployment = [k \in Keys |-> None]
  /\ pod = [k \in Keys |-> None]
  /\ service = [k \in Keys |-> None]

Live(k) == deployment[k] # None /\ ~deployment[k].deleting

-------------------------------------------------------------------------------
(* The effects of the API calls.  Each is enabled exactly when the call can  *)
(* take effect; the caller decides what an answer 404 or 409 means to it.    *)

CreatesDeployment(k, m) ==
  /\ deployment[k] = None
  /\ deployment' = [deployment EXCEPT ![k] = [manifest |-> m, deleting |-> FALSE]]

(* Foreground propagation: the object is only marked; the pod is untouched.  *)
MarksDeployment(k) ==
  /\ deployment[k] # None
  /\ deployment' = [deployment EXCEPT ![k].deleting = TRUE]

FreeIPs(c) == {a \in ClusterIPs :
                 \A s \in Slugs : service[<<c, s>>] # None => service[<<c, s>>].ip # a}

CreatesService(k, ports) ==
  /\ service[k] = None
  /\ \E a \in FreeIPs(k[1]) :
       service' = [service EXCEPT ![k] = [ip |-> a, ports |-> ports]]

RemovesService(k) ==
  /\ service[k] # None
  /\ service' = [service EXCEPT ![k] = None]

-------------------------------------------------------------------------------
(* What the cluster does by itself, at any time.                             *)

(* The ReplicaSet of a live Deployment starts its pod.                       *)
PodStarts(k) ==
  /\ Live(k) /\ pod[k] = None
  /\ pod' = [pod EXCEPT ![k] = [manifest |-> deployment[k].manifest, phase |-> "pending"]]
  /\ UNCHANGED <<deployment, service>>

(* The container becomes ready, fails its readiness probe, crashes, restarts. *)
PodChanges(k) ==
  /\ pod[k] # None
  /\ \E p \in PodPhases \ {pod[k].phase} : pod' = [pod EXCEPT ![k].phase = p]
  /\ UNCHANGED <<deployment, service>>

(* The kubelet has terminated the pod, of a marked Deployment or evicted.    *)
PodGone(k) ==
  /\ pod[k] # None
  /\ pod' = [pod EXCEPT ![k] = None]
  /\ UNCHANGED <<deployment, service>>

(* The garbage collector removes a marked Deployment that owns nothing.      *)
DeploymentGone(k) ==
  /\ deployment[k] # None /\ deployment[k].deleting
  /\ pod[k] = None
  /\ deployment' = [deployment EXCEPT ![k] = None]
  /\ UNCHANGED <<pod, service>>

ClusterStep ==
  \E k \in Keys : PodStarts(k) \/ PodChanges(k) \/ PodGone(k) \/ DeploymentGone(k)

===============================================================================
