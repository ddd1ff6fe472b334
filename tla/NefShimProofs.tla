----------------------------- MODULE NefShimProofs -----------------------------
(***************************************************************************)
(* Theorems about NefShim, for any tenants, slugs, manifests, ids, zones   *)
(* and failures of API calls.                                              *)
(***************************************************************************)
EXTENDS NefShim, TLAPS

(* The small pieces of the handlers are expanded everywhere.                 *)
USE DEF DropsCachedIp, Owns, ZoneRequested, PoppedZone, InForeground,
        DeploymentConflict, SecondConflict, ServiceConflict

(* What a handler in progress knows: its tenant's slug; that the slug's      *)
(* stores are as its first lines left them; and, by the step it has reached, *)
(* what it has created or which record it is deleting.                       *)
HandlerOK ==
  handler # None =>
    /\ handler.slug = SlugOf[handler.tenant]
    /\ clusterIpCache[handler.slug] = None
    /\ latest[handler.slug] = None
    /\ handler.step \in CreateSteps =>
         /\ handler.app \in AppIds
         /\ apps[handler.app] # None
         /\ tenantZone[handler.slug] = handler.zone
         /\ tenantManifest[handler.slug] = HandlerManifest
         /\ handler.zone = IF handler.requested = None THEN ZONE_LOCAL
                                                       ELSE handler.requested
    /\ handler.step \in DeleteSteps =>
         /\ handler.instance \in InstanceIds
         /\ instances[handler.instance] # None
         /\ instances[handler.instance].tenant = handler.tenant
         /\ instances[handler.instance].slug = handler.slug

RecordsOK ==
  \A i \in InstanceIds : instances[i] # None =>
    /\ instances[i].slug = SlugOf[instances[i].tenant]
    /\ apps[instances[i].app] # None

(* The steps after the Deployment's creation find it, and no other one, live. *)
CreatedOK ==
  handler # None =>
    /\ handler.step \in {"createService", "replaceService", "recreateService", "record"} =>
         Live(HandlerKey) /\ deployment[HandlerKey].manifest = HandlerManifest
    /\ handler.step = "record" /\ PortsOf[HandlerManifest] # {} =>
         /\ service[HandlerKey] # None
         /\ service[HandlerKey].ports = PortsOf[HandlerManifest]

IInv == TypeOK /\ HandlerOK /\ RecordsOK

-------------------------------------------------------------------------------
LEMMA ZoneOfType ==
  ASSUME TypeOK, NEW s \in Slugs
  PROVE  ZoneOf(s) \in ZoneIds /\ KeyOf(s) \in Keys
  BY ClustersAssumption, NoneIsNoRecord DEF TypeOK, ZoneOf, ZoneIds, KeyOf, ClusterOf, Keys

LEMMA HandlerKeyType ==
  ASSUME TypeOK, handler # None
  PROVE  HandlerKey \in Keys /\ HandlerKey[2] = handler.slug
  BY ClustersAssumption DEF TypeOK, HandlerKey, ClusterOf, Keys, Handlers

LEMMA InitInv == Init => IInv
<1> SUFFICES ASSUME Init PROVE IInv
  OBVIOUS
<1>1. TypeOK
  BY DEF Init, ClusterInit, TypeOK, ClusterTypeOK
<1>2. HandlerOK /\ RecordsOK
  BY DEF Init, HandlerOK, RecordsOK
<1> QED
  BY <1>1, <1>2 DEF IInv

(* A step of a handler within a create or a delete writes no store.          *)
LEMMA CallsKeepType ==
  ASSUME IInv,
         CreateDeployment \/ ReplaceDeployment \/ RecreateDeployment \/ CreateService
           \/ ReplaceService \/ RecreateService \/ RemoveDeployment \/ RemoveService
  PROVE  /\ deployment' \in [Keys -> Deployments \cup {None}]
         /\ service' \in [Keys -> Services \cup {None}]
         /\ handler' = None \/ \E step \in CreateSteps \cup DeleteSteps :
                                 /\ handler' = [handler EXCEPT !.step = step]
                                 /\ step \in CreateSteps <=> handler.step \in CreateSteps
         /\ handler # None
         /\ UNCHANGED <<pod, shimVars, latest>>
<1>1. handler # None /\ HandlerKey \in Keys
  BY HandlerKeyType DEF IInv, At, CreateDeployment, ReplaceDeployment, RecreateDeployment,
     CreateService, ReplaceService, RecreateService, RemoveDeployment, RemoveService
<1>2. handler.step \in CreateSteps => HandlerManifest \in Manifests
  BY <1>1 DEF IInv, HandlerOK, TypeOK, AppRecords, HandlerManifest
<1>3. ASSUME handler.step \in CreateSteps, CreatesDeployment(HandlerKey, HandlerManifest)
      PROVE  deployment' \in [Keys -> Deployments \cup {None}]
  BY <1>1, <1>2, <1>3 DEF IInv, TypeOK, ClusterTypeOK, CreatesDeployment, Deployments
<1>4. ASSUME MarksDeployment(HandlerKey)
      PROVE  deployment' \in [Keys -> Deployments \cup {None}]
  <2>1. /\ deployment \in [Keys -> Deployments \cup {None}]
        /\ deployment[HandlerKey] # None
        /\ deployment' = [deployment EXCEPT ![HandlerKey].deleting = TRUE]
    BY <1>4 DEF IInv, TypeOK, ClusterTypeOK, MarksDeployment
  <2>2. deployment[HandlerKey] \in Deployments
    BY <1>1, <2>1
  <2> QED
    BY <1>1, <2>1, <2>2 DEF Deployments
<1>5. ASSUME handler.step \in CreateSteps,
             CreatesService(HandlerKey, PortsOf[HandlerManifest])
      PROVE  service' \in [Keys -> Services \cup {None}]
  BY <1>1, <1>2, <1>5, ConstantsAssumption
  DEF IInv, TypeOK, ClusterTypeOK, CreatesService, FreeIPs, Services
<1>6. ASSUME RemovesService(HandlerKey)
      PROVE  service' \in [Keys -> Services \cup {None}]
  BY <1>1, <1>6 DEF IInv, TypeOK, ClusterTypeOK, RemovesService, Services
<1>7. deployment \in [Keys -> Deployments \cup {None}] /\ service \in [Keys -> Services \cup {None}]
  BY DEF IInv, TypeOK, ClusterTypeOK
<1>8. CASE CreateDeployment
  BY <1>1, <1>3, <1>7, <1>8 DEF CreateDeployment, At, GoTo, Ends, LosesAnswer, CreateSteps, DeleteSteps
<1>9. CASE ReplaceDeployment
  BY <1>1, <1>4, <1>7, <1>9 DEF ReplaceDeployment, At, GoTo, Ends, LosesAnswer, CreateSteps, DeleteSteps
<1>10. CASE RecreateDeployment
  BY <1>1, <1>3, <1>7, <1>10 DEF RecreateDeployment, At, GoTo, Ends, LosesAnswer, CreateSteps, DeleteSteps
<1>11. CASE CreateService
  BY <1>1, <1>5, <1>7, <1>11 DEF CreateService, At, GoTo, Ends, LosesAnswer, CreateSteps, DeleteSteps
<1>12. CASE ReplaceService
  BY <1>1, <1>6, <1>7, <1>12 DEF ReplaceService, At, GoTo, Ends, LosesAnswer, CreateSteps, DeleteSteps
<1>13. CASE RecreateService
  BY <1>1, <1>5, <1>7, <1>13 DEF RecreateService, At, GoTo, Ends, LosesAnswer, CreateSteps, DeleteSteps
<1>14. CASE RemoveDeployment
  BY <1>1, <1>4, <1>7, <1>14 DEF RemoveDeployment, At, GoTo, Ends, LosesAnswer, CreateSteps, DeleteSteps
<1>15. CASE RemoveService
  BY <1>1, <1>6, <1>7, <1>15 DEF RemoveService, At, GoTo, Ends, LosesAnswer, CreateSteps, DeleteSteps
<1> QED
  BY <1>8, <1>9, <1>10, <1>11, <1>12, <1>13, <1>14, <1>15

Calls ==
  \/ CreateDeployment \/ ReplaceDeployment \/ RecreateDeployment \/ CreateService
  \/ ReplaceService \/ RecreateService \/ RemoveDeployment \/ RemoveService

LEMMA ClusterMovesType ==
  ASSUME TypeOK, ClusterMoves
  PROVE  ClusterTypeOK'
<1> USE DEF TypeOK, ClusterTypeOK
<1> PICK k \in Keys : PodStarts(k) \/ PodChanges(k) \/ PodGone(k) \/ DeploymentGone(k)
  BY DEF ClusterMoves, ClusterStep
<1>1. CASE PodStarts(k)
  BY <1>1 DEF PodStarts, Live, Deployments, Pods, PodPhases
<1>2. CASE PodChanges(k)
  BY <1>2 DEF PodChanges, Pods, PodPhases
<1>3. CASE PodGone(k)
  BY <1>3 DEF PodGone
<1>4. CASE DeploymentGone(k)
  BY <1>4 DEF DeploymentGone
<1> QED
  BY <1>1, <1>2, <1>3, <1>4

LEMMA StatusType ==
  ASSUME TypeOK, NEW i \in InstanceIds, instances[i] # None
  PROVE  StatusDetail(instances[i].slug) \in {"instantiating", "ready", "failed"}
<1>1. instances[i].slug \in Slugs
  BY DEF TypeOK, InstanceRecords
<1>2. pod[KeyOf(instances[i].slug)] \in Pods \cup {None}
  BY <1>1, ZoneOfType DEF TypeOK, ClusterTypeOK
<1> QED
  BY <1>2 DEF StatusDetail, Pods, PodPhases

LEMMA TypeStep == IInv /\ [Next]_vars => TypeOK'
<1> SUFFICES ASSUME IInv, [Next]_vars PROVE TypeOK'
  OBVIOUS
<1> USE DEF IInv
<1>1. ASSUME NEW t \in Tenants, NEW m \in Manifests, RegisterApp(t, m)
      PROVE  TypeOK'
  BY <1>1 DEF TypeOK, ClusterTypeOK, RegisterApp, AppRecords, clusterVars
<1>2. ASSUME NEW t \in Tenants, NEW a \in AppIds, NEW z \in ZoneRequests,
             CreateInstance(t, a, z)
      PROVE  TypeOK'
  <2> DEFINE zone == IF z = None THEN ZONE_LOCAL ELSE z
  <2>1. /\ zone \in ZoneIds /\ z \in ZoneIds \cup {None}
        /\ apps[a].manifest \in Manifests /\ SlugOf[t] \in Slugs
    BY <1>2, ConstantsAssumption DEF TypeOK, CreateInstance, AppRecords, ZoneIds
  <2>2. handler' \in Handlers \cup {None}
    BY <1>2, <2>1 DEF CreateInstance, Handlers, CreateSteps
  <2> QED
    BY <1>2, <2>1, <2>2 DEF TypeOK, ClusterTypeOK, CreateInstance, clusterVars
<1>3. ASSUME NEW t \in Tenants, NEW i \in InstanceIds, GetInstance(t, i)
      PROVE  TypeOK'
  <2>1. StatusDetail(instances[i].slug) \in {"instantiating", "ready", "failed"}
    BY <1>3, StatusType DEF GetInstance
  <2>2. instances' \in [InstanceIds -> InstanceRecords \cup {None}]
    BY <1>3, <2>1 DEF TypeOK, GetInstance, InstanceRecords
  <2> QED
    BY <1>3, <2>2 DEF TypeOK, ClusterTypeOK, GetInstance, clusterVars
<1>4. ASSUME NEW t \in Tenants, NEW i \in InstanceIds, DeleteInstance(t, i)
      PROVE  TypeOK'
  <2>1. instances[i].slug \in Slugs
    BY <1>4 DEF TypeOK, DeleteInstance, InstanceRecords
  <2>2. ZoneOf(instances[i].slug) \in ZoneIds
    BY <2>1, ZoneOfType
  <2>3. handler' \in Handlers \cup {None}
    BY <1>4, <2>1, <2>2 DEF DeleteInstance, Handlers, DeleteSteps
  <2> QED
    BY <1>4, <2>1, <2>3 DEF TypeOK, ClusterTypeOK, DeleteInstance, clusterVars
<1>5. ASSUME NEW t \in Tenants, NEW p \in PortNames, ProxyRequest(t, p)
      PROVE  TypeOK'
  <2>1. SlugOf[t] \in Slugs
    BY ConstantsAssumption
  <2>2. service[KeyOf(SlugOf[t])].ip \in ClusterIPs
    BY <1>5, <2>1, ZoneOfType DEF TypeOK, ClusterTypeOK, ProxyRequest, Services
  <2> QED
    BY <1>5, <2>1, <2>2 DEF TypeOK, ClusterTypeOK, ProxyRequest, clusterVars
<1>6. CASE Calls
  <2>1. handler' \in Handlers \cup {None}
    BY <1>6, CallsKeepType DEF Calls, TypeOK, Handlers
  <2> QED
    BY <1>6, <2>1, CallsKeepType DEF Calls, TypeOK, ClusterTypeOK, shimVars
<1>7. CASE RecordInstance
  <2>1. handler \in Handlers /\ handler.app \in AppIds
    BY <1>7 DEF TypeOK, RecordInstance, At, HandlerOK, CreateSteps
  <2>2. PICK i \in InstanceIds :
          /\ instances' = [instances EXCEPT ![i] =
                             [app |-> handler.app, zone |-> handler.requested,
                              tenant |-> handler.tenant, slug |-> handler.slug,
                              status |-> "instantiating"]]
          /\ latest' = [latest EXCEPT ![handler.slug] = i]
    BY <1>7 DEF RecordInstance
  <2>3. instances' \in [InstanceIds -> InstanceRecords \cup {None}]
    BY <2>1, <2>2 DEF TypeOK, InstanceRecords, Handlers
  <2> QED
    BY <1>7, <2>1, <2>2, <2>3 DEF TypeOK, ClusterTypeOK, RecordInstance, Ends, clusterVars, Handlers
<1>8. CASE ForgetInstance
  BY <1>8 DEF TypeOK, ClusterTypeOK, ForgetInstance, Ends, clusterVars
<1>9. CASE ClusterMoves
  BY <1>9, ClusterMovesType DEF TypeOK, ClusterMoves, shimVars
<1>10. CASE Restart
  BY <1>10 DEF TypeOK, ClusterTypeOK, Restart, EmptyStores, clusterVars
<1>11. CASE UNCHANGED vars
  BY <1>11 DEF TypeOK, ClusterTypeOK, vars, shimVars, clusterVars
<1> QED
  BY <1>1, <1>2, <1>3, <1>4, <1>5, <1>6, <1>7, <1>8, <1>9, <1>10, <1>11
  DEF Next, Requests, HandlerStep, Calls

LEMMA HandlerStepOK == IInv /\ [Next]_vars => HandlerOK'
<1> SUFFICES ASSUME IInv, [Next]_vars PROVE HandlerOK'
  OBVIOUS
<1> USE DEF IInv
<1>1. ASSUME NEW t \in Tenants, NEW m \in Manifests, RegisterApp(t, m)
      PROVE  HandlerOK'
  BY <1>1 DEF RegisterApp, HandlerOK
<1>2. ASSUME NEW t \in Tenants, NEW a \in AppIds, NEW z \in ZoneRequests,
             CreateInstance(t, a, z)
      PROVE  HandlerOK'
  <2> DEFINE zone == IF z = None THEN ZONE_LOCAL ELSE z
  <2> DEFINE s == SlugOf[t]
  <2>1. CASE handler' = None
    BY <2>1 DEF HandlerOK
  <2>2. CASE handler' # None
    <3>1. handler' = [step |-> "createDeployment", tenant |-> t, slug |-> s,
                      zone |-> zone, requested |-> z, app |-> a, instance |-> None]
      BY <1>2, <2>2 DEF CreateInstance
    <3>2. /\ s \in Slugs
          /\ apps' = apps /\ apps[a] # None
          /\ clusterIpCache'[s] = None /\ latest'[s] = None
          /\ tenantZone'[s] = zone /\ tenantManifest'[s] = apps[a].manifest
      BY <1>2, ConstantsAssumption DEF CreateInstance, TypeOK
    <3> QED
      BY <3>1, <3>2 DEF HandlerOK, HandlerManifest, CreateSteps, DeleteSteps
  <2> QED
    BY <2>1, <2>2
<1>3. ASSUME NEW t \in Tenants, NEW i \in InstanceIds, GetInstance(t, i)
      PROVE  HandlerOK'
  BY <1>3 DEF GetInstance, HandlerOK
<1>4. ASSUME NEW t \in Tenants, NEW i \in InstanceIds, DeleteInstance(t, i)
      PROVE  HandlerOK'
  <2> DEFINE s == instances[i].slug
  <2>1. CASE handler' = None
    BY <2>1 DEF HandlerOK
  <2>2. CASE handler' # None
    <3>1. handler' = [step |-> "removeDeployment", tenant |-> t, slug |-> s,
                      zone |-> ZoneOf(s), requested |-> None, app |-> None,
                      instance |-> i]
      BY <1>4, <2>2 DEF DeleteInstance
    <3>2. /\ s \in Slugs /\ s = SlugOf[t]
          /\ instances' = instances /\ instances[i] # None /\ instances[i].tenant = t
          /\ clusterIpCache'[s] = None /\ latest'[s] = None
      BY <1>4 DEF DeleteInstance, TypeOK, InstanceRecords, RecordsOK
    <3> QED
      BY <3>1, <3>2 DEF HandlerOK, CreateSteps, DeleteSteps
  <2> QED
    BY <2>1, <2>2
<1>5. ASSUME NEW t \in Tenants, NEW p \in PortNames, ProxyRequest(t, p)
      PROVE  HandlerOK'
  BY <1>5 DEF ProxyRequest, HandlerOK
<1>6. CASE Calls
  <2>1. CASE handler' = None
    BY <2>1 DEF HandlerOK
  <2>2. CASE handler' # None
    <3>1. PICK step \in CreateSteps \cup DeleteSteps :
            /\ handler' = [handler EXCEPT !.step = step]
            /\ step \in CreateSteps <=> handler.step \in CreateSteps
      BY <1>6, <2>2, CallsKeepType DEF Calls
    <3>2. handler \in Handlers
      BY <1>6, CallsKeepType DEF Calls, TypeOK
    <3>3. /\ handler'.step = step /\ handler'.slug = handler.slug
          /\ handler'.tenant = handler.tenant /\ handler'.zone = handler.zone
          /\ handler'.requested = handler.requested /\ handler'.app = handler.app
          /\ handler'.instance = handler.instance
      BY <3>1, <3>2 DEF Handlers
    <3>4. /\ handler'.step \in CreateSteps => handler.step \in CreateSteps
          /\ handler'.step \in DeleteSteps => handler.step \in DeleteSteps
      BY <3>1, <3>2, <3>3 DEF Handlers, CreateSteps, DeleteSteps
    <3>5. /\ UNCHANGED <<apps, instances, tenantZone, tenantManifest, clusterIpCache, latest>>
          /\ handler # None
      BY <1>6, CallsKeepType DEF Calls, shimVars
    <3> QED
      BY <3>3, <3>4, <3>5 DEF HandlerOK, HandlerManifest
  <2> QED
    BY <2>1, <2>2
<1>7. CASE RecordInstance \/ ForgetInstance \/ Restart
  BY <1>7 DEF RecordInstance, ForgetInstance, Restart, Ends, HandlerOK
<1>8. CASE ClusterMoves
  BY <1>8 DEF ClusterMoves, shimVars, HandlerOK, HandlerManifest
<1>9. CASE UNCHANGED vars
  BY <1>9 DEF vars, shimVars, HandlerOK, HandlerManifest
<1> QED
  BY <1>1, <1>2, <1>3, <1>4, <1>5, <1>6, <1>7, <1>8, <1>9
  DEF Next, Requests, HandlerStep, Calls

LEMMA RecordsStepOK == IInv /\ [Next]_vars => RecordsOK'
<1> SUFFICES ASSUME IInv, [Next]_vars PROVE RecordsOK'
  OBVIOUS
<1> USE DEF IInv
<1>1. ASSUME NEW t \in Tenants, NEW m \in Manifests, RegisterApp(t, m)
      PROVE  RecordsOK'
  <2>1. \A a \in AppIds : apps[a] # None => apps'[a] # None
    BY <1>1 DEF RegisterApp, TypeOK
  <2> QED
    BY <1>1, <2>1 DEF RegisterApp, RecordsOK, TypeOK, InstanceRecords
<1>2. ASSUME NEW t \in Tenants, NEW i \in InstanceIds, GetInstance(t, i)
      PROVE  RecordsOK'
  <2>1. \A j \in InstanceIds : instances'[j] # None =>
          /\ instances[j] # None /\ instances'[j].slug = instances[j].slug
          /\ instances'[j].tenant = instances[j].tenant
          /\ instances'[j].app = instances[j].app
    BY <1>2 DEF GetInstance, TypeOK, InstanceRecords
  <2> QED
    BY <1>2, <2>1 DEF GetInstance, RecordsOK
<1>3. CASE RecordInstance
  <2>1. PICK i \in InstanceIds :
          instances' = [instances EXCEPT ![i] =
                          [app |-> handler.app, zone |-> handler.requested,
                           tenant |-> handler.tenant, slug |-> handler.slug,
                           status |-> "instantiating"]]
    BY <1>3 DEF RecordInstance
  <2>2. /\ handler.slug = SlugOf[handler.tenant]
        /\ apps[handler.app] # None /\ apps' = apps
    BY <1>3 DEF RecordInstance, At, HandlerOK, CreateSteps
  <2> QED
    BY <2>1, <2>2 DEF RecordsOK, TypeOK
<1>4. CASE ForgetInstance
  BY <1>4 DEF ForgetInstance, RecordsOK, TypeOK
<1>5. CASE Restart
  BY <1>5 DEF Restart, EmptyStores, RecordsOK
<1>6. CASE UNCHANGED <<apps, instances>>
  BY <1>6 DEF RecordsOK
<1>7. CASE Calls
  BY <1>6, <1>7, CallsKeepType DEF Calls, shimVars
<1> QED
  BY <1>1, <1>2, <1>3, <1>4, <1>5, <1>6, <1>7
  DEF Next, Requests, HandlerStep, Calls, CreateInstance, DeleteInstance, ProxyRequest,
      ClusterMoves, vars, shimVars

(* A handler's calls reach the objects of its own zone and slug, no other.   *)
LEMMA CallsTouchOwnKey ==
  ASSUME IInv, Calls, NEW k \in Keys, k # HandlerKey
  PROVE  deployment'[k] = deployment[k] /\ service'[k] = service[k]
<1>1. \A m : CreatesDeployment(HandlerKey, m) => deployment'[k] = deployment[k]
  BY DEF IInv, TypeOK, ClusterTypeOK, CreatesDeployment
<1>2. MarksDeployment(HandlerKey) => deployment'[k] = deployment[k]
  BY DEF IInv, TypeOK, ClusterTypeOK, MarksDeployment
<1>3. \A p : CreatesService(HandlerKey, p) => service'[k] = service[k]
  BY DEF IInv, TypeOK, ClusterTypeOK, CreatesService
<1>4. RemovesService(HandlerKey) => service'[k] = service[k]
  BY DEF IInv, TypeOK, ClusterTypeOK, RemovesService
<1>5. deployment'[k] = deployment[k]
  BY <1>1, <1>2 DEF Calls, CreateDeployment, ReplaceDeployment, RecreateDeployment,
     CreateService, ReplaceService, RecreateService, RemoveDeployment, RemoveService, LosesAnswer
<1>6. service'[k] = service[k]
  BY <1>3, <1>4 DEF Calls, CreateDeployment, ReplaceDeployment, RecreateDeployment,
     CreateService, ReplaceService, RecreateService, RemoveDeployment, RemoveService, LosesAnswer
<1> QED
  BY <1>5, <1>6

(* So the objects of a slug that has no handler at work stay as they are.    *)
LEMMA CallsSpareOthers ==
  ASSUME IInv, Calls, NEW s \in Slugs, s # handler.slug
  PROVE  /\ KeyOf(s)' = KeyOf(s)
         /\ deployment'[KeyOf(s)] = deployment[KeyOf(s)]
         /\ service'[KeyOf(s)] = service[KeyOf(s)]
<1>1. KeyOf(s) \in Keys /\ KeyOf(s) # HandlerKey
  BY ZoneOfType DEF IInv, KeyOf, HandlerKey
<1>2. tenantZone' = tenantZone
  BY CallsKeepType DEF Calls, shimVars
<1> QED
  BY <1>1, <1>2, CallsTouchOwnKey DEF KeyOf, ZoneOf

LEMMA CacheStep == IInv /\ CacheCoherent /\ [Next]_vars => CacheCoherent'
<1> SUFFICES ASSUME IInv, CacheCoherent, [Next]_vars,
                    NEW s \in Slugs, clusterIpCache'[s] # None
             PROVE  /\ service'[KeyOf(s)'] # None
                    /\ service'[KeyOf(s)'].ip = clusterIpCache'[s]
  BY DEF CacheCoherent
<1>1. CASE UNCHANGED <<service, tenantZone, clusterIpCache>>
  BY <1>1 DEF CacheCoherent, KeyOf, ZoneOf
<1>2. ASSUME NEW t \in Tenants, NEW a \in AppIds, NEW z \in ZoneRequests,
             CreateInstance(t, a, z)
      PROVE  /\ service'[KeyOf(s)'] # None
             /\ service'[KeyOf(s)'].ip = clusterIpCache'[s]
  <2>1. s # SlugOf[t]
    BY <1>2 DEF CreateInstance, IInv, TypeOK
  <2>2. /\ clusterIpCache'[s] = clusterIpCache[s] /\ tenantZone'[s] = tenantZone[s]
        /\ service' = service
    BY <1>2, <2>1 DEF CreateInstance, IInv, TypeOK, clusterVars
  <2> QED
    BY <2>2 DEF CacheCoherent, KeyOf, ZoneOf
<1>3. ASSUME NEW t \in Tenants, NEW i \in InstanceIds, DeleteInstance(t, i)
      PROVE  /\ service'[KeyOf(s)'] # None
             /\ service'[KeyOf(s)'].ip = clusterIpCache'[s]
  <2>1. s # instances[i].slug
    BY <1>3 DEF DeleteInstance, IInv, TypeOK
  <2>2. /\ clusterIpCache'[s] = clusterIpCache[s] /\ tenantZone'[s] = tenantZone[s]
        /\ service' = service
    BY <1>3, <2>1 DEF DeleteInstance, IInv, TypeOK, clusterVars
  <2> QED
    BY <2>2 DEF CacheCoherent, KeyOf, ZoneOf
<1>4. ASSUME NEW t \in Tenants, NEW p \in PortNames, ProxyRequest(t, p)
      PROVE  /\ service'[KeyOf(s)'] # None
             /\ service'[KeyOf(s)'].ip = clusterIpCache'[s]
  <2>1. service' = service /\ KeyOf(s)' = KeyOf(s)
    BY <1>4 DEF ProxyRequest, clusterVars, KeyOf, ZoneOf
  <2>2. CASE s = SlugOf[t]
    BY <1>4, <2>1, <2>2 DEF ProxyRequest, IInv, TypeOK
  <2>3. CASE s # SlugOf[t]
    BY <1>4, <2>1, <2>3 DEF ProxyRequest, IInv, TypeOK, CacheCoherent
  <2> QED
    BY <2>2, <2>3
<1>5. CASE Calls
  <2>1. clusterIpCache' = clusterIpCache /\ handler # None
    BY <1>5, CallsKeepType DEF Calls, shimVars
  <2>2. s # handler.slug
    BY <2>1 DEF IInv, HandlerOK
  <2> QED
    BY <1>5, <2>1, <2>2, CallsSpareOthers DEF CacheCoherent
<1>6. CASE Restart
  BY <1>6 DEF Restart, EmptyStores
<1>7. CASE ClusterMoves
  BY <1>1, <1>7 DEF ClusterMoves, ClusterStep, shimVars, PodStarts, PodChanges, PodGone,
     DeploymentGone
<1> QED
  BY <1>1, <1>2, <1>3, <1>4, <1>5, <1>6, <1>7
  DEF Next, Requests, HandlerStep, Calls, RegisterApp, GetInstance, RecordInstance,
      ForgetInstance, vars, shimVars, clusterVars

-------------------------------------------------------------------------------
LEMMA Invariance == Spec => []IInv
<1>1. IInv /\ [Next]_vars => IInv'
  BY TypeStep, HandlerStepOK, RecordsStepOK DEF IInv
<1> QED
  BY InitInv, <1>1, PTL DEF Spec

(* The stores and the clusters stay well typed, whatever fails and whenever  *)
(* the process restarts.                                                     *)
THEOREM TypeCorrect == Spec => []TypeOK
<1>1. IInv => TypeOK
  BY DEF IInv
<1> QED
  BY Invariance, <1>1, PTL

(* The cache never holds an address that the tenant's Service has not: for   *)
(* any number of tenants, even ones that share a slug (proxy.py:79,          *)
(* k8s_manager.py:178, 484-496, 518).                                        *)
THEOREM CacheCoherence == Spec => []CacheCoherent
<1>1. Init => CacheCoherent
  BY DEF Init, CacheCoherent
<1> QED
  BY Invariance, <1>1, CacheStep, PTL DEF Spec

-------------------------------------------------------------------------------
(* Why LatestDeployed holds: the stores of the slug name the record's zone   *)
(* and manifest, and the objects are at the place those stores name.         *)
Deployed(s) ==
  /\ latest[s] \in InstanceIds
  /\ instances[latest[s]] # None
  /\ instances[latest[s]].slug = s
  /\ tenantZone[s] = ZoneRecorded(latest[s])
  /\ tenantManifest[s] = ManifestOf(latest[s])
  /\ Live(KeyOf(s))
  /\ deployment[KeyOf(s)].manifest = tenantManifest[s]
  /\ PortsOf[tenantManifest[s]] # {} =>
       /\ service[KeyOf(s)] # None
       /\ service[KeyOf(s)].ports = PortsOf[tenantManifest[s]]

DeployedOK == \A s \in Slugs : latest[s] # None => Deployed(s)

(* No pod outlives its Deployment: it is the pod of the one that is there.   *)
PodsOK ==
  \A k \in Keys : pod[k] # None =>
    deployment[k] # None /\ pod[k].manifest = deployment[k].manifest

DInv == IInv /\ CreatedOK /\ DeployedOK /\ PodsOK

LEMMA InitDeployed == Init => CreatedOK /\ DeployedOK /\ PodsOK
  BY DEF Init, ClusterInit, CreatedOK, DeployedOK, PodsOK

(* The cluster by itself removes only Deployments that are being deleted.    *)
LEMMA ClusterKeepsLive ==
  ASSUME TypeOK, ClusterMoves, NEW k \in Keys, Live(k)
  PROVE  deployment'[k] = deployment[k] /\ service' = service
  BY DEF ClusterMoves, ClusterStep, PodStarts, PodChanges, PodGone, DeploymentGone, Live,
     TypeOK, ClusterTypeOK

LEMMA CallsNames ==
  ASSUME IInv, Calls, handler' # None
  PROVE  /\ handler # None /\ HandlerKey' = HandlerKey /\ HandlerManifest' = HandlerManifest
         /\ handler.step \in CreateSteps <=> handler'.step \in CreateSteps
<1>1. PICK step \in CreateSteps \cup DeleteSteps :
        /\ handler' = [handler EXCEPT !.step = step]
        /\ step \in CreateSteps <=> handler.step \in CreateSteps
  BY CallsKeepType DEF Calls
<1>2. handler # None /\ apps' = apps
  BY CallsKeepType DEF Calls, shimVars
<1>3. handler \in Handlers
  BY <1>2 DEF IInv, TypeOK
<1>4. /\ handler'.step = step /\ handler'.slug = handler.slug
      /\ handler'.zone = handler.zone /\ handler'.app = handler.app
  BY <1>1, <1>3 DEF Handlers
<1> QED
  BY <1>1, <1>2, <1>4 DEF HandlerKey, HandlerManifest

(* The steps of a create, one by one: what they have made is there.          *)
LEMMA CreatedStep ==
  ASSUME DInv, Calls
  PROVE  CreatedOK'
<1> SUFFICES ASSUME handler' # None
             PROVE  CreatedOK'
  BY DEF CreatedOK
<1>1. /\ handler # None /\ handler \in Handlers /\ HandlerKey \in Keys
      /\ HandlerKey' = HandlerKey /\ HandlerManifest' = HandlerManifest
  BY CallsNames, HandlerKeyType DEF DInv, IInv, TypeOK
<1>2. ASSUME NEW step, GoTo(step)
      PROVE  handler'.step = step
  BY <1>1, <1>2 DEF GoTo, Handlers
<1>3. ASSUME handler.step \in CreateSteps, CreatesDeployment(HandlerKey, HandlerManifest)
      PROVE  Live(HandlerKey)' /\ deployment'[HandlerKey].manifest = HandlerManifest
  <2>1. deployment'[HandlerKey] = [manifest |-> HandlerManifest, deleting |-> FALSE]
    BY <1>1, <1>3 DEF CreatesDeployment, DInv, IInv, TypeOK, ClusterTypeOK
  <2>2. HandlerManifest \in Manifests
    BY <1>1, <1>3 DEF DInv, IInv, HandlerOK, TypeOK, AppRecords, HandlerManifest
  <2>3. deployment'[HandlerKey] # None
    <3>1. deployment'[HandlerKey] \in [manifest: Manifests, deleting: BOOLEAN]
      BY <2>1, <2>2
    <3> QED
      BY <3>1, NoneAssumption, Zenon
  <2>4. /\ deployment'[HandlerKey].manifest = HandlerManifest
        /\ ~ deployment'[HandlerKey].deleting
    BY <2>1
  <2> QED
    BY <1>1, <2>3, <2>4 DEF Live
<1>4. ASSUME handler.step \in CreateSteps,
             CreatesService(HandlerKey, PortsOf[HandlerManifest])
      PROVE  service'[HandlerKey] # None /\ service'[HandlerKey].ports = PortsOf[HandlerManifest]
  <2>1. PICK a \in ClusterIPs :
          service'[HandlerKey] = [ip |-> a, ports |-> PortsOf[HandlerManifest]]
    BY <1>1, <1>4 DEF CreatesService, FreeIPs, DInv, IInv, TypeOK, ClusterTypeOK
  <2>2. PortsOf[HandlerManifest] \in SUBSET PortNames
    BY <1>1, <1>4, ConstantsAssumption DEF DInv, IInv, HandlerOK, TypeOK, AppRecords,
       HandlerManifest
  <2> QED
    BY <2>1, <2>2, NoneAssumption
<1>5. CASE CreateDeployment \/ RecreateDeployment
  <2>1. handler.step \in CreateSteps
    BY <1>5 DEF CreateDeployment, RecreateDeployment, At, CreateSteps
  <2>2. CASE handler'.step = "createService"
    <3>1. CreatesDeployment(HandlerKey, HandlerManifest)
      BY <1>1, <1>2, <1>5, <2>2 DEF CreateDeployment, RecreateDeployment, Ends
    <3> QED
      BY <1>1, <1>3, <2>1, <2>2, <3>1 DEF CreatedOK
  <2>3. CASE handler'.step = "replaceDeployment"
    BY <2>3 DEF CreatedOK
  <2> QED
    BY <1>2, <1>5, <2>2, <2>3 DEF CreateDeployment, RecreateDeployment, Ends
<1>6. CASE ReplaceDeployment
  <2>1. handler'.step = "recreateDeployment"
    BY <1>2, <1>6 DEF ReplaceDeployment, Ends
  <2> QED
    BY <2>1 DEF CreatedOK
<1>7. CASE CreateService \/ ReplaceService \/ RecreateService
  <2>1. /\ deployment' = deployment
        /\ Live(HandlerKey) /\ deployment[HandlerKey].manifest = HandlerManifest
    BY <1>7 DEF CreateService, ReplaceService, RecreateService, At, DInv, CreatedOK
  <2>2. Live(HandlerKey)' /\ (deployment[HandlerKey].manifest = HandlerManifest)'
    BY <1>1, <2>1 DEF Live
  <2>3. CASE handler'.step = "record" /\ PortsOf[HandlerManifest] # {}
    <3>1. /\ CreatesService(HandlerKey, PortsOf[HandlerManifest])
          /\ handler.step \in CreateSteps
      BY <1>2, <1>7, <2>3
      DEF CreateService, ReplaceService, RecreateService, Ends, At, CreateSteps
    <3> QED
      BY <1>1, <1>4, <2>2, <3>1 DEF CreatedOK
  <2>4. CASE ~(handler'.step = "record" /\ PortsOf[HandlerManifest] # {})
    BY <1>1, <2>2, <2>4 DEF CreatedOK
  <2> QED
    BY <2>3, <2>4
<1>8. CASE RemoveDeployment \/ RemoveService
  <2>1. handler'.step = "removeService" \/ handler'.step = "forget"
    BY <1>2, <1>8 DEF RemoveDeployment, RemoveService, Ends
  <2> QED
    BY <2>1 DEF CreatedOK
<1> QED
  BY <1>5, <1>6, <1>7, <1>8 DEF Calls

LEMMA CreatedStepOK == DInv /\ [Next]_vars => CreatedOK'
<1> SUFFICES ASSUME DInv, [Next]_vars PROVE CreatedOK'
  OBVIOUS
<1>1. CASE handler' = None
  BY <1>1 DEF CreatedOK
<1>2. CASE Calls
  BY <1>2, CreatedStep
<1>3. ASSUME NEW t \in Tenants, NEW a \in AppIds, NEW z \in ZoneRequests,
             CreateInstance(t, a, z), handler' # None
      PROVE  CreatedOK'
  <2>1. handler'.step = "createDeployment"
    BY <1>3 DEF CreateInstance
  <2> QED
    BY <2>1 DEF CreatedOK
<1>4. ASSUME NEW t \in Tenants, NEW i \in InstanceIds, DeleteInstance(t, i), handler' # None
      PROVE  CreatedOK'
  <2>1. handler'.step = "removeDeployment"
    BY <1>4 DEF DeleteInstance
  <2> QED
    BY <2>1 DEF CreatedOK
<1>5. CASE ClusterMoves /\ handler' # None
  <2>1. /\ handler' = handler /\ HandlerKey' = HandlerKey /\ HandlerManifest' = HandlerManifest
        /\ HandlerKey \in Keys /\ service' = service
    BY <1>5, HandlerKeyType
    DEF ClusterMoves, ClusterStep, PodStarts, PodChanges, PodGone, DeploymentGone,
        HandlerKey, HandlerManifest, shimVars, DInv, IInv
  <2>2. Live(HandlerKey) => deployment'[HandlerKey] = deployment[HandlerKey]
    BY <1>5, <2>1, ClusterKeepsLive DEF DInv, IInv
  <2> QED
    BY <1>5, <2>1, <2>2 DEF CreatedOK, Live, DInv
<1>6. CASE UNCHANGED vars
  BY <1>6 DEF CreatedOK, DInv, Live, HandlerKey, HandlerManifest, vars, clusterVars, shimVars
<1> QED
  BY <1>1, <1>2, <1>3, <1>4, <1>5, <1>6
  DEF Next, Requests, HandlerStep, Calls, RegisterApp, GetInstance, ProxyRequest,
      RecordInstance, ForgetInstance, Restart, Ends

LEMMA PodsStepOK == DInv /\ [Next]_vars => PodsOK'
<1> SUFFICES ASSUME DInv, [Next]_vars, NEW k \in Keys, pod'[k] # None
             PROVE  deployment'[k] # None /\ pod'[k].manifest = deployment'[k].manifest
  BY DEF PodsOK
<1>1. CASE UNCHANGED <<deployment, pod>>
  BY <1>1 DEF DInv, PodsOK
<1>2. CASE Calls
  <2>1. pod' = pod
    BY <1>2, CallsKeepType DEF Calls, DInv
  <2>2. deployment[k] # None /\ pod[k].manifest = deployment[k].manifest
    BY <2>1 DEF DInv, PodsOK
  <2>3. CASE k # HandlerKey
    BY <1>2, <2>1, <2>2, <2>3, CallsTouchOwnKey DEF DInv
  <2>4. CASE k = HandlerKey
    <3>1. ~ CreatesDeployment(HandlerKey, HandlerManifest)
      BY <2>2, <2>4 DEF CreatesDeployment
    <3>2. CASE MarksDeployment(HandlerKey)
      <4>1. deployment[k] \in Deployments
        BY <2>2 DEF DInv, IInv, TypeOK, ClusterTypeOK
      <4>2. deployment'[k] = [deployment[k] EXCEPT !.deleting = TRUE]
        BY <2>4, <3>2 DEF MarksDeployment, DInv, IInv, TypeOK, ClusterTypeOK
      <4>3. /\ deployment'[k] \in [manifest: Manifests, deleting: BOOLEAN]
            /\ deployment'[k].manifest = deployment[k].manifest
        BY <4>1, <4>2 DEF Deployments
      <4>4. deployment'[k] # None
        BY <4>3, NoneAssumption, Zenon
      <4> QED
        BY <2>1, <2>2, <4>3, <4>4
    <3>3. CASE deployment' = deployment
      BY <2>1, <2>2, <3>3
    <3> QED
      BY <1>2, <3>1, <3>2, <3>3
      DEF Calls, CreateDeployment, ReplaceDeployment, RecreateDeployment, CreateService,
          ReplaceService, RecreateService, RemoveDeployment, RemoveService, LosesAnswer
  <2> QED
    BY <2>3, <2>4
<1>3. CASE ClusterMoves
  <2>1. PICK c \in Keys : PodStarts(c) \/ PodChanges(c) \/ PodGone(c) \/ DeploymentGone(c)
    BY <1>3 DEF ClusterMoves, ClusterStep
  <2>2. CASE PodStarts(c)
    BY <2>2 DEF PodStarts, Live, DInv, PodsOK, IInv, TypeOK, ClusterTypeOK
  <2>3. CASE PodChanges(c)
    <3>1. PICK p \in PodPhases : pod' = [pod EXCEPT ![c].phase = p]
      BY <2>3 DEF PodChanges
    <3>2. pod[c] \in Pods
      BY <2>3 DEF PodChanges, DInv, IInv, TypeOK, ClusterTypeOK
    <3>3. pod[k] # None /\ pod'[k].manifest = pod[k].manifest
      BY <2>3, <3>1, <3>2 DEF PodChanges, Pods, DInv, IInv, TypeOK, ClusterTypeOK
    <3> QED
      BY <2>3, <3>3 DEF PodChanges, DInv, PodsOK
  <2>4. CASE PodGone(c)
    BY <2>4 DEF PodGone, DInv, PodsOK, IInv, TypeOK, ClusterTypeOK
  <2>5. CASE DeploymentGone(c)
    BY <2>5 DEF DeploymentGone, DInv, PodsOK, IInv, TypeOK, ClusterTypeOK
  <2> QED
    BY <2>1, <2>2, <2>3, <2>4, <2>5
<1> QED
  BY <1>1, <1>2, <1>3
  DEF Next, Requests, HandlerStep, Calls, RegisterApp, CreateInstance, GetInstance,
      DeleteInstance, ProxyRequest, RecordInstance, ForgetInstance, Restart,
      vars, clusterVars

LEMMA UntouchedSlug ==
  ASSUME DInv, NEW s \in Slugs, latest[s] # None, latest'[s] = latest[s],
         tenantZone'[s] = tenantZone[s], tenantManifest'[s] = tenantManifest[s],
         deployment'[KeyOf(s)] = deployment[KeyOf(s)],
         service'[KeyOf(s)] = service[KeyOf(s)],
         instances'[latest[s]] # None,
         instances'[latest[s]].slug = instances[latest[s]].slug,
         instances'[latest[s]].zone = instances[latest[s]].zone,
         instances'[latest[s]].app = instances[latest[s]].app,
         apps'[instances[latest[s]].app] = apps[instances[latest[s]].app]
  PROVE  Deployed(s)'
<1>1. Deployed(s)
  BY DEF DInv, DeployedOK, Deployed
<1>2. KeyOf(s)' = KeyOf(s)
  BY DEF KeyOf, ZoneOf
<1>3. /\ ZoneRecorded(latest[s])' = ZoneRecorded(latest[s])
      /\ ManifestOf(latest[s])' = ManifestOf(latest[s])
  BY DEF ZoneRecorded, ManifestOf
<1> QED
  BY <1>1, <1>2, <1>3 DEF Deployed, Live

(* A poll writes the status of a record and nothing else.                    *)
LEMMA PollKeepsRecords ==
  ASSUME IInv, NEW t \in Tenants, NEW i \in InstanceIds, GetInstance(t, i),
         NEW j \in InstanceIds, instances[j] # None
  PROVE  /\ instances'[j] # None
         /\ instances'[j].slug = instances[j].slug
         /\ instances'[j].zone = instances[j].zone
         /\ instances'[j].app = instances[j].app
<1>1. CASE j # i
  BY <1>1 DEF GetInstance, IInv, TypeOK
<1>2. CASE j = i
  <2>1. PICK st \in {StatusDetail(instances[i].slug), "instantiating"} :
          instances' = [instances EXCEPT ![i].status = st]
    BY DEF GetInstance
  <2>2. instances[i] \in InstanceRecords /\ st \in {"instantiating", "ready", "failed"}
    BY <1>2, StatusType DEF IInv, TypeOK
  <2>3. /\ instances'[i] \in InstanceRecords
        /\ instances'[i].slug = instances[i].slug
        /\ instances'[i].zone = instances[i].zone
        /\ instances'[i].app = instances[i].app
    BY <2>1, <2>2 DEF InstanceRecords, IInv, TypeOK
  <2> QED
    BY <1>2, <2>3, NoneIsNoRecord
<1> QED
  BY <1>1, <1>2

LEMMA DeployedStepOK == DInv /\ [Next]_vars => DeployedOK'
<1> SUFFICES ASSUME DInv, [Next]_vars, NEW s \in Slugs, latest'[s] # None
             PROVE  Deployed(s)'
  BY DEF DeployedOK
<1> USE DEF DInv
<1>0. latest[s] # None =>
        /\ latest[s] \in InstanceIds
        /\ instances[latest[s]] # None /\ instances[latest[s]].slug = s
        /\ instances[latest[s]].app \in AppIds /\ apps[instances[latest[s]].app] # None
        /\ Live(KeyOf(s)) /\ KeyOf(s) \in Keys
  BY ZoneOfType DEF DeployedOK, Deployed, IInv, RecordsOK, TypeOK, InstanceRecords
<1>1. ASSUME NEW t \in Tenants, NEW m \in Manifests, RegisterApp(t, m)
      PROVE  Deployed(s)'
  <2>1. \A a \in AppIds : apps[a] # None => apps'[a] = apps[a]
    BY <1>1 DEF RegisterApp, IInv, TypeOK
  <2> QED
    BY <1>0, <1>1, <2>1, UntouchedSlug DEF RegisterApp, clusterVars
<1>2. ASSUME NEW t \in Tenants, NEW a \in AppIds, NEW z \in ZoneRequests,
             CreateInstance(t, a, z)
      PROVE  Deployed(s)'
  <2>1. s # SlugOf[t]
    BY <1>2 DEF CreateInstance, IInv, TypeOK
  <2>2. /\ latest'[s] = latest[s] /\ tenantZone'[s] = tenantZone[s]
        /\ tenantManifest'[s] = tenantManifest[s]
    BY <1>2, <2>1 DEF CreateInstance, IInv, TypeOK
  <2> QED
    BY <1>0, <1>2, <2>2, UntouchedSlug DEF CreateInstance, clusterVars
<1>3. ASSUME NEW t \in Tenants, NEW i \in InstanceIds, GetInstance(t, i)
      PROVE  Deployed(s)'
  <2>1. latest' = latest
    BY <1>3 DEF GetInstance
  <2>2. LET j == latest[s] IN
          /\ instances'[j] # None /\ instances'[j].slug = instances[j].slug
          /\ instances'[j].zone = instances[j].zone /\ instances'[j].app = instances[j].app
    BY <1>0, <1>3, <2>1, PollKeepsRecords
  <2> QED
    BY <1>0, <1>3, <2>1, <2>2, UntouchedSlug DEF GetInstance, clusterVars
<1>4. ASSUME NEW t \in Tenants, NEW i \in InstanceIds, DeleteInstance(t, i)
      PROVE  Deployed(s)'
  <2>1. s # instances[i].slug
    BY <1>4 DEF DeleteInstance, IInv, TypeOK
  <2>2. /\ latest'[s] = latest[s] /\ tenantZone'[s] = tenantZone[s]
        /\ tenantManifest'[s] = tenantManifest[s]
    BY <1>4, <2>1 DEF DeleteInstance, IInv, TypeOK
  <2> QED
    BY <1>0, <1>4, <2>2, UntouchedSlug DEF DeleteInstance, clusterVars
<1>5. CASE Calls
  <2>1. UNCHANGED <<shimVars, latest>> /\ handler # None
    BY <1>5, CallsKeepType DEF Calls
  <2>2. s # handler.slug
    BY <2>1 DEF IInv, HandlerOK
  <2> QED
    BY <1>0, <1>5, <2>1, <2>2, CallsSpareOthers, UntouchedSlug DEF shimVars
<1>6. CASE RecordInstance
  <2>1. PICK i \in InstanceIds :
          /\ instances[i] = None
          /\ instances' = [instances EXCEPT ![i] =
                             [app |-> handler.app, zone |-> handler.requested,
                              tenant |-> handler.tenant, slug |-> handler.slug,
                              status |-> "instantiating"]]
          /\ latest' = [latest EXCEPT ![handler.slug] = i]
    BY <1>6 DEF RecordInstance
  <2>2. UNCHANGED <<clusterVars, apps, tenantZone, tenantManifest>>
    BY <1>6 DEF RecordInstance
  <2>3. CASE s = handler.slug
    <3>1. /\ handler \in Handlers /\ handler.step = "record" /\ handler.step \in CreateSteps
          /\ handler # None
      BY <1>6 DEF RecordInstance, At, CreateSteps, IInv, TypeOK
    <3>2. latest'[s] = i
      BY <2>1, <2>3 DEF IInv, TypeOK
    <3>3. /\ instances'[i] = [app |-> handler.app, zone |-> handler.requested,
                              tenant |-> handler.tenant, slug |-> handler.slug,
                              status |-> "instantiating"]
          /\ instances'[i] # None
      BY <2>1, <3>1, NoneIsNoRecord
      DEF IInv, TypeOK, HandlerOK, InstanceRecords, Handlers
    <3>4. /\ ZoneRecorded(i)' = handler.zone /\ ManifestOf(i)' = HandlerManifest
          /\ tenantZone'[s] = handler.zone /\ tenantManifest'[s] = HandlerManifest
      BY <2>2, <2>3, <3>1, <3>3
      DEF ZoneRecorded, ManifestOf, HandlerManifest, IInv, HandlerOK
    <3>5. KeyOf(s)' = HandlerKey
      <4>1. handler.zone # None
        BY <3>1, NoneIsNoRecord DEF Handlers, ZoneIds
      <4> QED
        BY <2>3, <3>4, <4>1 DEF KeyOf, ZoneOf, HandlerKey
    <3>6. /\ deployment'[HandlerKey] # None /\ ~ deployment'[HandlerKey].deleting
          /\ deployment'[HandlerKey].manifest = HandlerManifest
          /\ PortsOf[HandlerManifest] # {} =>
               /\ service'[HandlerKey] # None
               /\ service'[HandlerKey].ports = PortsOf[HandlerManifest]
      BY <2>2, <3>1 DEF CreatedOK, clusterVars, Live
    <3> QED
      BY <2>3, <3>2, <3>3, <3>4, <3>5, <3>6 DEF Deployed, Live
  <2>4. CASE s # handler.slug
    <3>1. latest'[s] = latest[s]
      BY <2>1, <2>4 DEF IInv, TypeOK
    <3>2. instances'[latest[s]] = instances[latest[s]]
      BY <1>0, <2>1, <3>1 DEF IInv, TypeOK
    <3> QED
      BY <1>0, <2>2, <3>1, <3>2, UntouchedSlug DEF clusterVars
  <2> QED
    BY <2>3, <2>4
<1>7. CASE ForgetInstance
  <2>1. UNCHANGED <<clusterVars, apps, tenantZone, tenantManifest, latest>>
    BY <1>7 DEF ForgetInstance
  <2>2. /\ instances[handler.instance].slug = handler.slug
        /\ latest[handler.slug] = None
    BY <1>7 DEF ForgetInstance, At, IInv, HandlerOK, DeleteSteps
  <2>3. instances'[latest[s]] = instances[latest[s]]
    BY <1>0, <1>7, <2>1, <2>2 DEF ForgetInstance, IInv, TypeOK
  <2> QED
    BY <1>0, <2>1, <2>3, UntouchedSlug DEF clusterVars
<1>8. CASE ClusterMoves
  BY <1>0, <1>8, ClusterKeepsLive, UntouchedSlug DEF ClusterMoves, shimVars, IInv
<1>9. CASE Restart
  BY <1>9 DEF Restart, EmptyStores
<1>10. ASSUME NEW t \in Tenants, NEW p \in PortNames, ProxyRequest(t, p)
       PROVE  Deployed(s)'
  BY <1>0, <1>10, UntouchedSlug DEF ProxyRequest, clusterVars
<1>11. CASE UNCHANGED vars
  BY <1>0, <1>11, UntouchedSlug DEF vars, clusterVars, shimVars
<1> QED
  BY <1>1, <1>2, <1>3, <1>4, <1>5, <1>6, <1>7, <1>8, <1>9, <1>10, <1>11
  DEF Next, Requests, HandlerStep, Calls

LEMMA DeployedInvariance == Spec => []DInv
<1>1. Init => DInv
  BY InitInv, InitDeployed DEF DInv
<1>2. DInv /\ [Next]_vars => DInv'
  BY TypeStep, HandlerStepOK, RecordsStepOK, CreatedStepOK, DeployedStepOK, PodsStepOK
  DEF DInv, IInv
<1> QED
  BY <1>1, <1>2, PTL DEF Spec

(* A create that answered 200 has delivered what the record says, until the  *)
(* slug is created or deleted again: whatever the cluster, other tenants,    *)
(* and failed calls do meanwhile (k8s_manager.py:188-305).                   *)
THEOREM Delivery == Spec => []LatestDeployed
<1>1. DInv => LatestDeployed
  <2> SUFFICES ASSUME DInv, NEW s \in Slugs, latest[s] # None
               PROVE  LET i == latest[s]
                          k == <<ClusterOf(ZoneRecorded(i)), s>>
                      IN /\ instances[i] # None /\ instances[i].slug = s
                         /\ Live(k) /\ deployment[k].manifest = ManifestOf(i)
                         /\ PortsOf[ManifestOf(i)] # {} =>
                              service[k] # None /\ service[k].ports = PortsOf[ManifestOf(i)]
    BY DEF LatestDeployed
  <2>1. Deployed(s)
    BY DEF DInv, DeployedOK
  <2>2. tenantZone[s] # None
    BY <2>1, NoneIsNoRecord DEF Deployed, ZoneRecorded, DInv, IInv, TypeOK, InstanceRecords
  <2>3. KeyOf(s) = <<ClusterOf(ZoneRecorded(latest[s])), s>>
    BY <2>1, <2>2 DEF Deployed, KeyOf, ZoneOf
  <2> QED
    BY <2>1, <2>3 DEF Deployed
<1> QED
  BY DeployedInvariance, <1>1, PTL

(* Every answer of endpoint discovery for such an instance lists all its     *)
(* interfaces on the host of its own zone, with a url for each numbered one, *)
(* or for none when the Service could not be read                            *)
(* (endpoint_discovery.py:74-99, k8s_manager.py:505-506).                    *)
THEOREM EndpointDiscovery == Spec => []EndpointsComplete
<1>1. DInv => EndpointsComplete
  <2> DEFINE m(s) == ManifestOf(latest[s])
  <2> SUFFICES ASSUME DInv, NEW s \in Slugs, NEW read \in Reads, latest[s] # None
               PROVE  LET answer == Endpoints(s, read) IN
                        /\ answer.host = ClusterOf(ZoneRecorded(latest[s]))
                        /\ answer.reachable \subseteq InterfacesOf[m(s)]
                        /\ answer.empty = InterfacesOf[m(s)] \ answer.reachable
                        /\ ~read => answer.reachable = {}
                        /\ read /\ PortsOf[m(s)] # {} => answer.reachable = PortsOf[m(s)]
    BY DEF EndpointsComplete
  <2>1. Deployed(s)
    BY DEF DInv, DeployedOK
  <2>2. tenantZone[s] # None
    BY <2>1, NoneIsNoRecord DEF Deployed, ZoneRecorded, DInv, IInv, TypeOK, InstanceRecords
  <2>3. tenantManifest[s] = m(s) /\ m(s) \in Manifests /\ m(s) # None
    BY <2>1, NoneAssumption
    DEF Deployed, ManifestOf, DInv, IInv, RecordsOK, TypeOK, InstanceRecords, AppRecords
  <2>4. ClusterOf(ZoneOf(s)) = ClusterOf(ZoneRecorded(latest[s]))
    BY <2>1, <2>2 DEF Deployed, ZoneOf
  <2>5. PortsOf[m(s)] \subseteq InterfacesOf[m(s)]
    BY <2>3, ConstantsAssumption
  <2>6. /\ ~read => NodePorts(s, read) = {}
        /\ read /\ PortsOf[m(s)] # {} => NodePorts(s, read) = PortsOf[m(s)]
    BY <2>1, <2>3 DEF NodePorts, Deployed
  <2>7. Endpoints(s, read) =
          [host |-> ClusterOf(ZoneOf(s)),
           reachable |-> InterfacesOf[m(s)] \cap NodePorts(s, read),
           empty |-> InterfacesOf[m(s)] \ NodePorts(s, read)]
    BY <2>3 DEF Endpoints, ListsUnreachable
  <2> QED
    BY <2>4, <2>5, <2>6, <2>7
<1> QED
  BY DeployedInvariance, <1>1, PTL

(* A poll of such an instance never takes an earlier Deployment's pod for    *)
(* its own (k8s_manager.py:262, 412).                                        *)
THEOREM ReadyReports == Spec => ReadyIsOwnPod
<1>1. ASSUME DInv, [Next]_vars, NEW i \in InstanceIds, ReportsReady(i),
             latest[instances[i].slug] = i
      PROVE  PodReadyFor(i)
  <2> DEFINE s == instances[i].slug
  <2> DEFINE k == <<ClusterOf(ZoneRecorded(i)), s>>
  <2>1. PICK t \in Tenants : GetInstance(t, i)
    <3>1. instances' # instances
      BY <1>1 DEF ReportsReady
    <3>2. ~ Calls /\ ~ ClusterMoves /\ ~ UNCHANGED vars
      BY <1>1, <3>1, CallsKeepType DEF Calls, ClusterMoves, shimVars, vars, DInv
    <3>3. ~ Restart
      BY <1>1 DEF Restart, EmptyStores, ReportsReady
    <3>4. ~ ForgetInstance /\ ~ RecordInstance
      BY <1>1 DEF ForgetInstance, RecordInstance, ReportsReady, DInv, IInv, TypeOK
    <3>5. ASSUME NEW t \in Tenants, NEW j \in InstanceIds, GetInstance(t, j)
          PROVE  j = i
      BY <1>1, <3>5 DEF GetInstance, ReportsReady, DInv, IInv, TypeOK
    <3> QED
      BY <1>1, <3>1, <3>2, <3>3, <3>4, <3>5
      DEF Next, Requests, HandlerStep, Calls, RegisterApp, CreateInstance, DeleteInstance,
          ProxyRequest
  <2>2. s \in Slugs /\ instances[i] \in InstanceRecords /\ i # None
    BY <1>1, NoneIsNoRecord DEF ReportsReady, DInv, IInv, TypeOK, InstanceRecords
  <2>3. Deployed(s) /\ PodsOK
    BY <1>1, <2>2 DEF DInv, DeployedOK
  <2>4. KeyOf(s) = k /\ k \in Keys
    <3>1. tenantZone[s] # None
      BY <1>1, <2>2, <2>3, NoneIsNoRecord
      DEF Deployed, ZoneRecorded, DInv, IInv, TypeOK, InstanceRecords
    <3> QED
      BY <1>1, <2>2, <2>3, <3>1, ZoneOfType DEF Deployed, KeyOf, ZoneOf, DInv, IInv
  <2>5. StatusDetail(s) = "ready"
    BY <1>1, <2>1, <2>2 DEF GetInstance, ReportsReady, DInv, IInv, TypeOK, InstanceRecords
  <2>6. pod[k] \in Pods /\ pod[k] # None /\ pod[k].phase = "ready"
    <3>1. pod[k] \in Pods \cup {None}
      BY <1>1, <2>4 DEF DInv, IInv, TypeOK, ClusterTypeOK
    <3> QED
      BY <2>4, <2>5, <3>1, NoneAssumption DEF StatusDetail, Pods, PodPhases
  <2>7. pod[k].manifest = ManifestOf(i)
    BY <1>1, <2>3, <2>4, <2>6 DEF Deployed, PodsOK
  <2> QED
    BY <2>6, <2>7 DEF PodReadyFor, Pods
<1>2. DInv /\ [Next]_vars =>
        [\A i \in InstanceIds :
           (ReportsReady(i) /\ latest[instances[i].slug] = i) => PodReadyFor(i)]_vars
  BY <1>1
<1> QED
  BY DeployedInvariance, <1>2, PTL DEF Spec, ReadyIsOwnPod

(* A request touches the objects and the record of its own tenant's slug     *)
(* only (app_management.py:61, 90, 118).                                     *)
THEOREM Isolation == Spec => OnlyOwnerTouches
<1>1. ASSUME IInv, [Next]_vars, NEW k \in Keys, Touched(k)
      PROVE  handler # None /\ k[2] = SlugOf[handler.tenant]
  <2>1. Calls
    <3>1. ~ (service' = service /\ deployment' = deployment)
      BY <1>1 DEF Touched
    <3>2. ~ ClusterMoves
      BY <1>1 DEF ClusterMoves, ClusterStep, PodStarts, PodChanges, PodGone, DeploymentGone,
         Touched, IInv, TypeOK, ClusterTypeOK
    <3> QED
      BY <1>1, <3>1, <3>2
      DEF Next, Requests, HandlerStep, Calls, RegisterApp, CreateInstance, GetInstance,
          DeleteInstance, ProxyRequest, RecordInstance, ForgetInstance, Restart,
          vars, clusterVars
  <2>2. k = HandlerKey
    BY <1>1, <2>1, CallsTouchOwnKey DEF Touched
  <2> QED
    BY <1>1, <2>1, <2>2, CallsKeepType DEF Calls, HandlerKey, IInv, HandlerOK
<1>2. ASSUME IInv, [Next]_vars, NEW i \in InstanceIds, instances[i] # None, instances'[i] = None
      PROVE  EmptyStores \/ (handler # None /\ handler.tenant = instances[i].tenant)
  <2>1. CASE ForgetInstance
    <3>1. i = handler.instance
      BY <1>2, <2>1 DEF ForgetInstance, IInv, TypeOK
    <3>2. handler # None /\ handler.step \in DeleteSteps
      BY <2>1 DEF ForgetInstance, At, DeleteSteps
    <3> QED
      BY <1>2, <3>1, <3>2 DEF IInv, HandlerOK
  <2>2. CASE Restart
    BY <2>2 DEF Restart
  <2>3. ASSUME NEW t \in Tenants, NEW j \in InstanceIds, GetInstance(t, j)
        PROVE  FALSE
    BY <1>2, <2>3, PollKeepsRecords
  <2>4. ~ RecordInstance
    BY <1>2, NoneIsNoRecord
    DEF RecordInstance, IInv, TypeOK
  <2>5. ~ (instances' = instances)
    BY <1>2
  <2>6. ~ Calls
    BY <1>2, <2>5, CallsKeepType DEF Calls, shimVars
  <2> QED
    BY <1>2, <2>1, <2>2, <2>3, <2>4, <2>5, <2>6
    DEF Next, Requests, HandlerStep, Calls, RegisterApp, CreateInstance, DeleteInstance,
        ProxyRequest, ClusterMoves, vars, shimVars
<1>3. IInv /\ [Next]_vars =>
        [/\ \A k \in Keys : Touched(k) => handler # None /\ k[2] = SlugOf[handler.tenant]
         /\ \A i \in InstanceIds :
              (instances[i] # None /\ instances'[i] = None) =>
                 \/ EmptyStores
                 \/ handler # None /\ handler.tenant = instances[i].tenant]_vars
  BY <1>1, <1>2
<1> QED
  BY Invariance, <1>3, PTL DEF Spec, OnlyOwnerTouches

===============================================================================
