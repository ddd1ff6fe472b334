-------------------------------- MODULE NefShim --------------------------------
(***************************************************************************)
(* The nef-shim (src/edge-infra/nef-shim): the CAMARA control plane that   *)
(* registers app manifests, instantiates them as a Deployment and a        *)
(* Service on one of two clusters, reports their status and endpoints, and *)
(* deletes them.                                                           *)
(*                                                                         *)
(* All handlers run on one asyncio loop.  The management handlers contain  *)
(* no await: their Kubernetes calls are blocking, so one handler runs at a *)
(* time (`handler`), and only the cluster moves between two of its calls.  *)
(* Each call is an action; an exception that leaves the handler ends it    *)
(* with a 500 and undoes nothing.                                          *)
(***************************************************************************)
EXTENDS Kubernetes

CONSTANTS
  Tenants,         \* source addresses of requests
  SlugOf,          \* get_tenant_slug: "t-" and 8 hex digits of a hash of the address
  AppIds,          \* ids that register_app can hand out: bounds the apps registered
  InstanceIds,     \* ids that create_instance can hand out: bounds the live records
  ZoneRequests,    \* what a body's edgeCloudZoneId can be; None when it has none
  HasImage,        \* whether _container_image finds an image in the manifest
  InterfacesOf,    \* the network interfaces of the manifest, by name
  PortsOf,         \* those of them that have a port number
  Zone2Configured, \* whether init found the kubeconfig of the second cluster
  Faults           \* the ways an API call may fail, beyond 404 and 409:
                   \*   "api"  it is answered by another ApiException
                   \*   "net"  the connection fails, and the call may have been done

ZONE_LOCAL  == "lth-5glab-gpu-zone"
ZONE_XERCES == "xerces-cloud-zone"

ZoneIds == (ZoneRequests \ {None}) \cup {ZONE_LOCAL, ZONE_XERCES}

ASSUME ClustersAssumption == Clusters = {ZONE_LOCAL, ZONE_XERCES}
ASSUME ConstantsAssumption ==
  /\ SlugOf \in [Tenants -> Slugs]
  /\ HasImage \in [Manifests -> BOOLEAN]
  /\ InterfacesOf \in [Manifests -> SUBSET PortNames]
  /\ PortsOf \in [Manifests -> SUBSET PortNames]
  /\ \A m \in Manifests : PortsOf[m] \subseteq InterfacesOf[m]
  /\ Zone2Configured \in BOOLEAN
  /\ Faults \subseteq {"api", "net"}

VARIABLES
  apps,            \* _apps: appId -> manifest and its tenant
  instances,       \* _instances: appInstanceId -> record
  tenantZone,      \* _tenant_zone
  tenantManifest,  \* _tenant_manifest
  clusterIpCache,  \* _cluster_ip_cache
  handler,         \* the management handler in progress and its next call
  latest           \* history: per slug, the instance of the last create, if that
                   \* succeeded and no create or delete of the slug came after it

shimVars == <<apps, instances, tenantZone, tenantManifest, clusterIpCache>>
vars     == <<clusterVars, shimVars, handler, latest>>

CreateSteps == {"createDeployment", "replaceDeployment", "recreateDeployment",
                "createService", "replaceService", "recreateService", "record"}
DeleteSteps == {"removeDeployment", "removeService", "forget"}

AppRecords == [manifest: Manifests, tenant: Tenants]
InstanceRecords ==
  [app: AppIds, zone: ZoneIds \cup {None}, tenant: Tenants, slug: Slugs,
   status: {"instantiating", "ready", "failed"}]
Handlers ==
  [step: CreateSteps \cup DeleteSteps, tenant: Tenants, slug: Slugs, zone: ZoneIds,
   requested: ZoneIds \cup {None}, app: AppIds \cup {None},
   instance: InstanceIds \cup {None}]

ASSUME NoneIsNoRecord ==
  /\ None \notin Tenants /\ None \notin AppIds /\ None \notin InstanceIds
  /\ None \notin {ZONE_LOCAL, ZONE_XERCES}
  /\ None \notin AppRecords /\ None \notin InstanceRecords /\ None \notin Handlers

(* Type correctness of the shim's stores and of the cluster under it.        *)
TypeOK ==
  /\ ClusterTypeOK
  /\ apps \in [AppIds -> AppRecords \cup {None}]
  /\ instances \in [InstanceIds -> InstanceRecords \cup {None}]
  /\ tenantZone \in [Slugs -> ZoneIds \cup {None}]
  /\ tenantManifest \in [Slugs -> Manifests \cup {None}]
  /\ clusterIpCache \in [Slugs -> ClusterIPs \cup {None}]
  /\ handler \in Handlers \cup {None}
  /\ latest \in [Slugs -> InstanceIds \cup {None}]

EmptyStores ==
  /\ apps' = [a \in AppIds |-> None]
  /\ instances' = [i \in InstanceIds |-> None]
  /\ tenantZone' = [s \in Slugs |-> None]
  /\ tenantManifest' = [s \in Slugs |-> None]
  /\ clusterIpCache' = [s \in Slugs |-> None]
  /\ latest' = [s \in Slugs |-> None]

Init ==
  /\ ClusterInit
  /\ apps = [a \in AppIds |-> None]
  /\ instances = [i \in InstanceIds |-> None]
  /\ tenantZone = [s \in Slugs |-> None]
  /\ tenantManifest = [s \in Slugs |-> None]
  /\ clusterIpCache = [s \in Slugs |-> None]
  /\ handler = None
  /\ latest = [s \in Slugs |-> None]

-------------------------------------------------------------------------------
(* Zones.  Any zone id that is not the second zone's means the local one.    *)

ZoneOf(s) == IF tenantZone[s] = None THEN ZONE_LOCAL ELSE tenantZone[s]

ClusterOf(z) == IF z = ZONE_XERCES THEN ZONE_XERCES ELSE ZONE_LOCAL

(* _get_clients: RuntimeError "Zone2 not configured" otherwise.              *)
HasClients(z) == z = ZONE_XERCES => Zone2Configured

KeyOf(s) == <<ClusterOf(ZoneOf(s)), s>>

-------------------------------------------------------------------------------
(* How a handler proceeds.                                                   *)

HandlerKey == <<ClusterOf(handler.zone), handler.slug>>

At(step) == handler # None /\ handler.step = step

GoTo(step) == handler' = [handler EXCEPT !.step = step]

(* An exception leaves the handler, or the handler answers.                  *)
Ends == handler' = None

(* A call fails: done is its effect, had the cluster done it.  A connection  *)
(* failure loses the answer, whether or not the call was done; an            *)
(* ApiException says it was not done.                                        *)
LosesAnswer(done) == "net" \in Faults /\ done

-------------------------------------------------------------------------------
(* The pieces of the handlers.  Where one has a second form beside it, that  *)
(* is the form a plausible bug would give it: the properties below tell the  *)
(* two apart, and no action uses it.                                         *)

(* _cluster_ip_cache.pop(slug, None)                                         *)
KeepsCachedIp(s) == UNCHANGED clusterIpCache
DropsCachedIp(s) == clusterIpCache' = [clusterIpCache EXCEPT ![s] = None]

(* The checks before a poll or a delete: 404 for no record, 403 for another  *)
(* tenant's.                                                                 *)
Exists(t, i) == instances[i] # None
Owns(t, i)   == instances[i] # None /\ instances[i].tenant = t

(* zone_id or ZONE_LOCAL                                                     *)
ZoneAsGiven(z)   == z
ZoneRequested(z) == IF z = None THEN ZONE_LOCAL ELSE z

(* _tenant_zone.pop(slug, ZONE_LOCAL), whose result names the cluster        *)
LocalZone(s)  == ZONE_LOCAL
PoppedZone(s) == ZoneOf(s)

(* Deletes are asked for with propagation_policy="Foreground".               *)
InBackground(k) == deployment[k] # None /\ deployment' = [deployment EXCEPT ![k] = None]
InForeground(k) == MarksDeployment(k)

(* The first attempt to create the Deployment meets an old one: 409.         *)
ReportsConflict    == deployment[HandlerKey] # None /\ UNCHANGED deployment /\ Ends
DeploymentConflict == /\ deployment[HandlerKey] # None /\ UNCHANGED deployment
                      /\ GoTo("replaceDeployment")

(* The second attempt meets one: an exception.                               *)
TakesOldDeployment == /\ deployment[HandlerKey] # None /\ UNCHANGED deployment
                      /\ GoTo("createService")
SecondConflict     == deployment[HandlerKey] # None /\ UNCHANGED deployment /\ Ends

(* The create of the Service meets an old one: 409.                          *)
TakesOldService == /\ service[HandlerKey] # None /\ UNCHANGED service
                   /\ GoTo("record")
ServiceConflict == /\ service[HandlerKey] # None /\ UNCHANGED service
                   /\ GoTo("replaceService")

-------------------------------------------------------------------------------
(* POST /apps: every registration gets a new id (uuid4).                     *)
RegisterApp(t, m) ==
  /\ handler = None
  /\ \E a \in AppIds :
       /\ apps[a] = None
       /\ apps' = [apps EXCEPT ![a] = [manifest |-> m, tenant |-> t]]
  /\ UNCHANGED <<clusterVars, instances, tenantZone, tenantManifest, clusterIpCache,
                 handler, latest>>

(* POST /app-instances: 404 for an unknown app, 403 for another tenant's;    *)
(* then the stores of the slug are overwritten before anything can fail.     *)
(* A missing client (RuntimeError) or image (ValueError) ends it there.      *)
CreateInstance(t, a, z) ==
  /\ handler = None
  /\ \E i \in InstanceIds : instances[i] = None
  /\ apps[a] # None
  /\ apps[a].tenant = t
  /\ LET s == SlugOf[t]
         m == apps[a].manifest
         zone == ZoneRequested(z)
     IN /\ DropsCachedIp(s)
        /\ tenantZone' = [tenantZone EXCEPT ![s] = zone]
        /\ tenantManifest' = [tenantManifest EXCEPT ![s] = m]
        /\ latest' = [latest EXCEPT ![s] = None]
        /\ handler' = IF HasClients(zone) /\ HasImage[m]
                      THEN [step |-> "createDeployment", tenant |-> t, slug |-> s,
                            zone |-> zone, requested |-> z, app |-> a,
                            instance |-> None]
                      ELSE None
  /\ UNCHANGED <<clusterVars, apps, instances>>

HandlerManifest == apps[handler.app].manifest

(* _create_deployment: the first attempt.                                    *)
CreateDeployment ==
  /\ At("createDeployment")
  /\ \/ CreatesDeployment(HandlerKey, HandlerManifest) /\ GoTo("createService")
     \/ DeploymentConflict
     \/ Faults # {} /\ UNCHANGED deployment /\ Ends
     \/ LosesAnswer(CreatesDeployment(HandlerKey, HandlerManifest)) /\ Ends
  /\ UNCHANGED <<pod, service, shimVars, latest>>

(* On 409 the old one is deleted; a 404 here is an exception like any other. *)
ReplaceDeployment ==
  /\ At("replaceDeployment")
  /\ \/ InForeground(HandlerKey) /\ GoTo("recreateDeployment")
     \/ deployment[HandlerKey] = None /\ UNCHANGED deployment /\ Ends
     \/ Faults # {} /\ UNCHANGED deployment /\ Ends
     \/ LosesAnswer(InForeground(HandlerKey)) /\ Ends
  /\ UNCHANGED <<pod, service, shimVars, latest>>

(* The second attempt follows at once; a second 409 is an exception.         *)
RecreateDeployment ==
  /\ At("recreateDeployment")
  /\ \/ CreatesDeployment(HandlerKey, HandlerManifest) /\ GoTo("createService")
     \/ SecondConflict
     \/ Faults # {} /\ UNCHANGED deployment /\ Ends
     \/ LosesAnswer(CreatesDeployment(HandlerKey, HandlerManifest)) /\ Ends
  /\ UNCHANGED <<pod, service, shimVars, latest>>

(* _create_service: skipped when the manifest declares no port.              *)
CreateService ==
  /\ At("createService")
  /\ LET ports == PortsOf[HandlerManifest] IN
     \/ ports = {} /\ UNCHANGED service /\ GoTo("record")
     \/ ports # {} /\ CreatesService(HandlerKey, ports) /\ GoTo("record")
     \/ ports # {} /\ ServiceConflict
     \/ ports # {} /\ Faults # {} /\ UNCHANGED service /\ Ends
     \/ ports # {} /\ LosesAnswer(CreatesService(HandlerKey, ports)) /\ Ends
  /\ UNCHANGED <<deployment, pod, shimVars, latest>>

ReplaceService ==
  /\ At("replaceService")
  /\ \/ RemovesService(HandlerKey) /\ GoTo("recreateService")
     \/ Faults # {} /\ UNCHANGED service /\ Ends
     \/ LosesAnswer(RemovesService(HandlerKey)) /\ Ends
  /\ UNCHANGED <<deployment, pod, shimVars, latest>>

RecreateService ==
  /\ At("recreateService")
  /\ LET ports == PortsOf[HandlerManifest] IN
     \/ CreatesService(HandlerKey, ports) /\ GoTo("record")
     \/ Faults # {} /\ UNCHANGED service /\ Ends
     \/ LosesAnswer(CreatesService(HandlerKey, ports)) /\ Ends
  /\ UNCHANGED <<deployment, pod, shimVars, latest>>

(* The record is written last, when every object has been created.           *)
RecordInstance ==
  /\ At("record")
  /\ \E i \in InstanceIds :
       /\ instances[i] = None
       /\ instances' = [instances EXCEPT ![i] =
                          [app |-> handler.app, zone |-> handler.requested,
                           tenant |-> handler.tenant, slug |-> handler.slug,
                           status |-> "instantiating"]]
       /\ latest' = [latest EXCEPT ![handler.slug] = i]
  /\ Ends
  /\ UNCHANGED <<clusterVars, apps, tenantZone, tenantManifest, clusterIpCache>>

-------------------------------------------------------------------------------
(* GET /app-instances/{id}.                                                  *)

(* get_instance_status_detail: what the first pod of the slug, in the zone   *)
(* that the slug has now, says; the default when there is none.              *)
StatusDetail(s) ==
  LET p == pod[KeyOf(s)] IN
    IF p = None THEN "instantiating"
    ELSE CASE p.phase = "ready" -> "ready"
           [] p.phase = "crashed" -> "failed"
           [] p.phase = "pending" -> "instantiating"

(* 404, 403 and a RuntimeError or connection failure change nothing; an      *)
(* ApiException counts as "instantiating".                                   *)
GetInstance(t, i) ==
  /\ handler = None
  /\ Owns(t, i)
  /\ HasClients(ZoneOf(instances[i].slug))
  /\ \/ instances' = [instances EXCEPT ![i].status = StatusDetail(instances[i].slug)]
     \/ /\ "api" \in Faults
        /\ instances' = [instances EXCEPT ![i].status = "instantiating"]
  /\ UNCHANGED <<clusterVars, apps, tenantZone, tenantManifest, clusterIpCache,
                 handler, latest>>

-------------------------------------------------------------------------------
(* DELETE /app-instances/{id}: 404, 403, then the stores of the slug are     *)
(* popped, then the objects are deleted in the zone the slug had.            *)
DeleteInstance(t, i) ==
  /\ handler = None
  /\ Owns(t, i)
  /\ LET s == instances[i].slug
         zone == PoppedZone(s)
     IN /\ DropsCachedIp(s)
        /\ tenantManifest' = [tenantManifest EXCEPT ![s] = None]
        /\ tenantZone' = [tenantZone EXCEPT ![s] = None]
        /\ latest' = [latest EXCEPT ![s] = None]
        /\ handler' = IF HasClients(zone)
                      THEN [step |-> "removeDeployment", tenant |-> t, slug |-> s,
                            zone |-> zone, requested |-> None, app |-> None,
                            instance |-> i]
                      ELSE None
  /\ UNCHANGED <<clusterVars, apps, instances>>

(* k8s_manager.delete_instance: a 404 is expected, any other ApiException is *)
(* only logged; a connection failure is not an ApiException and gets out.    *)
RemoveDeployment ==
  /\ At("removeDeployment")
  /\ \/ InForeground(HandlerKey) /\ GoTo("removeService")
     \/ deployment[HandlerKey] = None /\ UNCHANGED deployment /\ GoTo("removeService")
     \/ "api" \in Faults /\ UNCHANGED deployment /\ GoTo("removeService")
     \/ "net" \in Faults /\ UNCHANGED deployment /\ Ends
     \/ LosesAnswer(InForeground(HandlerKey)) /\ Ends
  /\ UNCHANGED <<pod, service, shimVars, latest>>

RemoveService ==
  /\ At("removeService")
  /\ \/ RemovesService(HandlerKey) /\ GoTo("forget")
     \/ service[HandlerKey] = None /\ UNCHANGED service /\ GoTo("forget")
     \/ "api" \in Faults /\ UNCHANGED service /\ GoTo("forget")
     \/ "net" \in Faults /\ UNCHANGED service /\ Ends
     \/ LosesAnswer(RemovesService(HandlerKey)) /\ Ends
  /\ UNCHANGED <<deployment, pod, shimVars, latest>>

(* The record goes last; the client gets its 204.                            *)
ForgetInstance ==
  /\ At("forget")
  /\ instances' = [instances EXCEPT ![handler.instance] = None]
  /\ Ends
  /\ UNCHANGED <<clusterVars, apps, tenantZone, tenantManifest, clusterIpCache, latest>>

-------------------------------------------------------------------------------
(* ANY /proxy/{slug}/{port}/...: 403 for another slug, 404 without manifest  *)
(* or port, 502 without Service.  Resolving the address fills the cache; the *)
(* request sent to it after the awaits changes nothing here.                 *)
ProxyRequest(t, p) ==
  LET s == SlugOf[t] IN
  /\ handler = None
  /\ tenantManifest[s] # None
  /\ p \in PortsOf[tenantManifest[s]]
  /\ clusterIpCache[s] = None
  /\ HasClients(ZoneOf(s))
  /\ service[KeyOf(s)] # None
  /\ clusterIpCache' = [clusterIpCache EXCEPT ![s] = service[KeyOf(s)].ip]
  /\ UNCHANGED <<clusterVars, apps, instances, tenantZone, tenantManifest, handler, latest>>

(* GET /endpoints changes nothing.  What it answers for the instances of a   *)
(* slug: every interface of the slug's manifest, with the public host of the *)
(* slug's zone if the Service has a node port of its name, with an empty url *)
(* otherwise.  An ApiException while the Service is read counts as a Service *)
(* without node ports; a connection failure or RuntimeError is a 500 without *)
(* an answer.                                                                *)
Reads == {TRUE} \cup {FALSE : f \in Faults \cap {"api"}}

NodePorts(s, read) == IF read /\ service[KeyOf(s)] # None THEN service[KeyOf(s)].ports ELSE {}

OmitsUnreachable(listed, nodePorts) == {}
ListsUnreachable(listed, nodePorts) == listed \ nodePorts

Endpoints(s, read) ==
  LET listed == IF tenantManifest[s] = None THEN {} ELSE InterfacesOf[tenantManifest[s]]
  IN [host |-> ClusterOf(ZoneOf(s)), reachable |-> listed \cap NodePorts(s, read),
      empty |-> ListsUnreachable(listed, NodePorts(s, read))]

(* The process dies and starts again: everything in memory is gone, at any   *)
(* point of a handler; the clusters keep what they have.                     *)
Restart ==
  /\ EmptyStores
  /\ handler' = None
  /\ UNCHANGED clusterVars

ClusterMoves == ClusterStep /\ UNCHANGED <<shimVars, handler, latest>>

HandlerStep ==
  \/ CreateDeployment \/ ReplaceDeployment \/ RecreateDeployment
  \/ CreateService \/ ReplaceService \/ RecreateService
  \/ RecordInstance
  \/ RemoveDeployment \/ RemoveService \/ ForgetInstance

Requests ==
  \E t \in Tenants :
    \/ \E m \in Manifests : RegisterApp(t, m)
    \/ \E a \in AppIds, z \in ZoneRequests : CreateInstance(t, a, z)
    \/ \E i \in InstanceIds : GetInstance(t, i) \/ DeleteInstance(t, i)
    \/ \E p \in PortNames : ProxyRequest(t, p)

Next == Requests \/ HandlerStep \/ ClusterMoves \/ Restart

Spec == Init /\ [][Next]_vars

-------------------------------------------------------------------------------
(* Properties.                                                               *)

(* A cached ClusterIP is the address that the tenant's Service has now, in   *)
(* the zone that the tenant has now: no create, replacement, zone change,    *)
(* failure or delete leaves the proxy a stale one (k8s_manager.py:178, 518). *)
CacheCoherent ==
  \A s \in Slugs :
    clusterIpCache[s] # None =>
      /\ service[KeyOf(s)] # None
      /\ service[KeyOf(s)].ip = clusterIpCache[s]

ManifestOf(i) == apps[instances[i].app].manifest
ZoneRecorded(i) == IF instances[i].zone = None THEN ZONE_LOCAL ELSE instances[i].zone

(* A create that answered 200 has delivered, and until the slug is created   *)
(* or deleted again it stays so: the zone of the record runs a Deployment of *)
(* the record's own manifest, not one being deleted, and a Service with      *)
(* exactly the ports of that manifest (k8s_manager.py:188-305).              *)
LatestDeployed ==
  \A s \in Slugs : latest[s] # None =>
    LET i == latest[s]
        k == <<ClusterOf(ZoneRecorded(i)), s>>
    IN /\ instances[i] # None /\ instances[i].slug = s
       /\ Live(k) /\ deployment[k].manifest = ManifestOf(i)
       /\ PortsOf[ManifestOf(i)] # {} =>
            service[k] # None /\ service[k].ports = PortsOf[ManifestOf(i)]

(* Every answer of endpoint discovery for such an instance lists every       *)
(* interface of the instance's own manifest, on the host of the zone that    *)
(* its record names.  Those with a port number have a url and the others     *)
(* none; or, when the Service could not be read (k8s_manager.py:505-506), no *)
(* interface has one: never a part of them.  A manifest without any port     *)
(* number is left out of the second half: its create leaves the Service of   *)
(* an earlier instance where it is (k8s_manager.py:275-278), and an          *)
(* interface may show its node port (endpoint_discovery.py:74-99).           *)
EndpointsComplete ==
  \A s \in Slugs, read \in Reads : latest[s] # None =>
    LET m == ManifestOf(latest[s])
        answer == Endpoints(s, read)
    IN /\ answer.host = ClusterOf(ZoneRecorded(latest[s]))
       /\ answer.reachable \subseteq InterfacesOf[m]
       /\ answer.empty = InterfacesOf[m] \ answer.reachable
       /\ ~read => answer.reachable = {}
       /\ read /\ PortsOf[m] # {} => answer.reachable = PortsOf[m]

(* Only the tenant of a request has its objects created, marked for deletion *)
(* or replaced by it, and only its own record dropped, unless the process    *)
(* restarts (app_management.py:61, 118; k8s names by slug).                  *)
Touched(k) == \/ service'[k] # service[k]
              \/ deployment'[k] # deployment[k] /\ deployment'[k] # None
OnlyOwnerTouches ==
  [][/\ \A k \in Keys : Touched(k) => handler # None /\ k[2] = SlugOf[handler.tenant]
     /\ \A i \in InstanceIds :
          (instances[i] # None /\ instances'[i] = None) =>
             \/ EmptyStores
             \/ handler # None /\ handler.tenant = instances[i].tenant]_vars

(* A poll of an instance whose create was the last word on its slug reports  *)
(* ready only when the pod of its own manifest, in its own zone, is ready:   *)
(* never for a pod that an earlier Deployment left behind, which is what the *)
(* Foreground propagation is for (k8s_manager.py:262, 412).                  *)
ReportsReady(i) ==
  /\ instances[i] # None /\ instances'[i] # None
  /\ instances[i].status # "ready" /\ instances'[i].status = "ready"
PodReadyFor(i) ==
  pod[<<ClusterOf(ZoneRecorded(i)), instances[i].slug>>]
    = [manifest |-> ManifestOf(i), phase |-> "ready"]
ReadyIsOwnPod ==
  [][\A i \in InstanceIds :
       (ReportsReady(i) /\ latest[instances[i].slug] = i) => PodReadyFor(i)]_vars

-------------------------------------------------------------------------------
(* What comments and documents say, and the code does not do: each is a      *)
(* property of its own run, which finds it violated.                         *)

(* "Terminate an app instance - deletes all k8s resources for the tenant"    *)
(* (app_management.py:111): when a delete is about to answer 204, the tenant *)
(* has no Deployment that is not being deleted and no Service, in any zone.  *)
DeleteRemovesAll ==
  At("forget") =>
    \A c \in Clusters : LET k == <<c, handler.slug>> IN
      ~Live(k) /\ service[k] = None

(* "Foreground deletion blocks until owned resources are gone"               *)
(* (k8s_manager.py:264): the second create of a replacement meets no         *)
(* Deployment of that name.                                                  *)
DeleteBlocks ==
  At("recreateDeployment") => deployment[HandlerKey] = None

(* "The NEF-shim won't return status=ready until this [the container's       *)
(* readiness probe] passes" (apps/edge-demo/README.md:242): a poll of any    *)
(* instance reports ready only when the pod of its own manifest, in its own  *)
(* zone, is ready.                                                           *)
ReadyIsReadiness ==
  [][\A i \in InstanceIds : ReportsReady(i) => PodReadyFor(i)]_vars

===============================================================================
