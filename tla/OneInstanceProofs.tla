--------------------------- MODULE OneInstanceProofs ---------------------------
(***************************************************************************)
(* Theorem about the nef-shim under clients that follow its samples        *)
(* (OneInstanceClient.tla), for any number of tenants that have slugs of   *)
(* their own, over failing API calls and restarts of the shim.             *)
(***************************************************************************)
EXTENDS OneInstanceClient, NefShimProofs

(* No two source addresses have one 32-bit slug.                             *)
OwnSlugs == \A t, u \in Tenants : SlugOf[t] = SlugOf[u] => t = u

-------------------------------------------------------------------------------
(* The inductive invariant.                                                  *)

(* Nothing runs, or what runs a failure left.                                *)
Excused(k) == Clean(k) \/ k \in left

(* While no handler is at work on a tenant, what it has is in its one zone.  *)
AccountedOK == \A k \in Keys : AtWork(k[2]) \/ Excused(k) \/ OfRecord(k)

(* A handler works in the one zone where the tenant has something.  There is *)
(* nothing there until the Deployment is created, a delete that has not      *)
(* failed leaves nothing, and a create is for a tenant without a record.     *)
WorkOK ==
  handler # None =>
    /\ \A k \in Keys : k[2] = handler.slug /\ k # HandlerKey => Excused(k)
    /\ handler.step \in {"createDeployment", "replaceDeployment", "recreateDeployment", "forget"}
         => Excused(HandlerKey)
    /\ handler.step = "removeService" => ~Live(HandlerKey) \/ HandlerKey \in left
    /\ handler.step \in CreateSteps => ~Recorded(handler.slug) /\ HasClients(handler.zone)

(* A tenant has one record, in a zone that has clients to delete it with.    *)
SingleOK ==
  \A i \in InstanceIds : instances[i] # None =>
    /\ HasClients(ZoneOf(instances[i].slug))
    /\ \A j \in InstanceIds :
         instances[j] # None /\ instances[j].slug = instances[i].slug => j = i

OneInv == IInv /\ AccountedOK /\ WorkOK /\ SingleOK

-------------------------------------------------------------------------------
(* What the steps do to the pieces of it.                                    *)

LEMMA ClientNextIsNext == [ClientNext]_clientVars => [Next]_vars
  BY DEF ClientNext, ClientStep, ClientRequests, AsksInstance, Next, Requests, clientVars

LEMMA OneInit == Init /\ left = {} => OneInv
<1> SUFFICES ASSUME Init PROVE OneInv
  OBVIOUS
<1>1. ASSUME NEW k \in Keys PROVE Excused(k)
  BY DEF Init, ClusterInit, Clean, Live, Excused
<1> QED
  BY <1>1, InitInv DEF Init, OneInv, AccountedOK, WorkOK, SingleOK

(* What a failure left, or is found clean and stays so, remains excused      *)
(* unless a record accounts for it.                                          *)
LEMMA StaysExcused ==
  ASSUME NEW failed, LeftAfter(failed), NEW k \in Keys,
         k \in left \cup failed \/ (Clean(k) /\ Clean(k)')
  PROVE  Excused(k)' \/ OfRecord(k)'
  BY DEF LeftAfter, Excused

(* A tenant without a record of its own has none under its slug.             *)
LEMMA NoRecordOfSlug ==
  ASSUME OwnSlugs, IInv, NEW t \in Tenants, ~HasRecord(t)
  PROVE  ~Recorded(SlugOf[t])
<1> SUFFICES ASSUME NEW i \in InstanceIds, instances[i] # None, instances[i].slug = SlugOf[t]
             PROVE  FALSE
  BY DEF Recorded
<1>1. instances[i].slug = SlugOf[instances[i].tenant] /\ instances[i].tenant \in Tenants
  BY DEF IInv, RecordsOK, TypeOK, InstanceRecords
<1>2. instances[i].tenant = t
  BY <1>1 DEF OwnSlugs
<1> QED
  BY <1>2 DEF HasRecord

(* A step between the calls, which creates nothing and leaves the slugs'     *)
(* zones and the records' slugs alone.                                       *)
LEMMA QuietOne ==
  ASSUME OneInv, NEW failed, LeftAfter(failed),
         UNCHANGED <<service, tenantZone, handler>>,
         \A k \in Keys : Live(k)' => Live(k),
         \A i \in InstanceIds : instances[i] # None <=> instances'[i] # None,
         \A i \in InstanceIds : instances[i] # None => instances'[i].slug = instances[i].slug
  PROVE  AccountedOK' /\ WorkOK' /\ SingleOK'
<1>1. /\ \A k \in Keys : Clean(k) => Clean(k)'
      /\ \A s : Recorded(s)' <=> Recorded(s)
      /\ \A s : KeyOf(s)' = KeyOf(s) /\ ZoneOf(s)' = ZoneOf(s)
      /\ \A s : AtWork(s)' <=> AtWork(s)
      /\ HandlerKey' = HandlerKey
  BY DEF Clean, Recorded, KeyOf, ZoneOf, AtWork, HandlerKey
<1>2. \A k : OfRecord(k)' <=> OfRecord(k)
  BY <1>1 DEF OfRecord
<1>3. ASSUME NEW k \in Keys, Excused(k) PROVE Excused(k)' \/ OfRecord(k)
  BY <1>1, <1>2, <1>3, StaysExcused DEF Excused
<1>4. AccountedOK'
  BY <1>1, <1>2, <1>3 DEF OneInv, AccountedOK
<1>5. WorkOK'
  <2> SUFFICES ASSUME handler # None PROVE WorkOK'
    BY DEF WorkOK
  <2> PICK key : key = HandlerKey
    OBVIOUS
  <2>1. key \in Keys /\ key[2] = handler.slug /\ HandlerKey' = key
    BY <1>1, HandlerKeyType DEF OneInv, IInv, HandlerKey
  <2>2. ASSUME NEW k \in Keys, k[2] = handler.slug, Excused(k) PROVE Excused(k)'
    BY <1>3, <2>2 DEF OfRecord, AtWork
  <2>3. ~Live(key) \/ key \in left => ~Live(key)' \/ key \in left'
    <3>1. key \in left => Excused(key)'
      BY <2>1, <2>2 DEF Excused
    <3> QED
      BY <2>1, <3>1 DEF Excused, Clean
  <2>4. /\ \A k \in Keys : k[2] = handler.slug /\ k # key => Excused(k)
        /\ handler.step \in {"createDeployment", "replaceDeployment", "recreateDeployment",
                            "forget"} => Excused(key)
        /\ handler.step = "removeService" => ~Live(key) \/ key \in left
        /\ handler.step \in CreateSteps => ~Recorded(handler.slug) /\ HasClients(handler.zone)
    BY DEF OneInv, WorkOK
  <2> HIDE DEF HandlerKey
  <2> QED
    BY <1>1, <2>1, <2>2, <2>3, <2>4 DEF WorkOK, HasClients, Excused, Clean, Live
<1>6. SingleOK'
  BY <1>1 DEF OneInv, SingleOK, HasClients
<1> QED
  BY <1>4, <1>5, <1>6

LEMMA AskOne ==
  ASSUME OwnSlugs, OneInv, NEW failed, LeftAfter(failed), NEW t \in Tenants, AsksInstance(t)
  PROVE  AccountedOK' /\ WorkOK' /\ SingleOK'
<1> DEFINE s == SlugOf[t]
<1>1. s \in Slugs /\ ~Recorded(s) /\ handler = None
  BY NoRecordOfSlug, ConstantsAssumption DEF OneInv, AsksInstance, CreateInstance
<1>2. ASSUME NEW k \in Keys, k[2] = s PROVE Excused(k)
  BY <1>1, <1>2 DEF OneInv, AccountedOK, AtWork, OfRecord
<1>3. PICK a \in AppIds, z \in ZoneRequests : CreateInstance(t, a, z)
  BY DEF AsksInstance
<1> DEFINE zone == ZoneRequested(z)
<1>4. /\ UNCHANGED <<deployment, service, instances>>
      /\ tenantZone' = [tenantZone EXCEPT ![s] = zone]
      /\ handler' # None => /\ handler'.step = "createDeployment" /\ handler'.slug = s
                            /\ handler'.zone = zone /\ HasClients(zone)
  BY <1>3 DEF CreateInstance, clusterVars
<1>5. /\ \A k \in Keys : Clean(k)' <=> Clean(k)
      /\ \A r : Recorded(r)' <=> Recorded(r)
  BY <1>4 DEF Clean, Live, Recorded
<1>6. ASSUME NEW r \in Slugs, r # s PROVE KeyOf(r)' = KeyOf(r) /\ ZoneOf(r)' = ZoneOf(r)
  BY <1>4, <1>6 DEF OneInv, IInv, TypeOK, KeyOf, ZoneOf
<1>7. ASSUME NEW k \in Keys, Excused(k) PROVE Excused(k)' \/ OfRecord(k)'
  BY <1>5, <1>7, StaysExcused DEF Excused
<1>8. AccountedOK'
  <2> SUFFICES ASSUME NEW k \in Keys, ~Excused(k)
               PROVE  OfRecord(k)'
    BY <1>7 DEF AccountedOK
  <2>1. k[2] # s /\ k[2] \in Slugs
    BY <1>2 DEF Keys
  <2>2. Recorded(k[2]) /\ KeyOf(k[2]) = k
    BY <1>1 DEF OneInv, AccountedOK, AtWork, OfRecord
  <2>3. ~AtWork(k[2])'
    BY <1>4, <2>1 DEF AtWork
  <2> QED
    BY <1>5, <1>6, <2>1, <2>2, <2>3 DEF OfRecord
<1>9. WorkOK'
  <2> SUFFICES ASSUME handler' # None PROVE WorkOK'
    BY DEF WorkOK
  <2>1. HandlerKey' \in Keys /\ HandlerKey'[2] = s
    BY <1>1, <1>4, ClustersAssumption DEF HandlerKey, ClusterOf, Keys
  <2>2. ASSUME NEW k \in Keys, k[2] = s PROVE Excused(k)'
    BY <1>2, <1>4, <1>7, <2>2 DEF OfRecord, AtWork
  <2>3. Excused(HandlerKey)'
    BY <2>1, <2>2 DEF Excused, Clean, Live
  <2>4. HasClients(zone)'
    BY <1>4 DEF HasClients
  <2> QED
    BY <1>1, <1>4, <1>5, <2>2, <2>3, <2>4 DEF WorkOK
<1>10. SingleOK'
  <2> SUFFICES ASSUME NEW i \in InstanceIds, instances[i] # None
               PROVE  HasClients(ZoneOf(instances[i].slug))'
    BY <1>4 DEF OneInv, SingleOK
  <2>1. instances[i].slug # s /\ instances[i].slug \in Slugs
    BY <1>1, NoneIsNoRecord DEF Recorded, OneInv, IInv, TypeOK, InstanceRecords
  <2>2. ZoneOf(instances[i].slug)' = ZoneOf(instances[i].slug)
    BY <1>4, <1>6, <2>1
  <2> QED
    BY <2>2 DEF OneInv, SingleOK, HasClients
<1> QED
  BY <1>8, <1>9, <1>10

LEMMA DeleteOne ==
  ASSUME OneInv, NEW failed, LeftAfter(failed),
         NEW t \in Tenants, NEW i \in InstanceIds, DeleteInstance(t, i)
  PROVE  AccountedOK' /\ WorkOK' /\ SingleOK'
<1> DEFINE s == instances[i].slug
           zone == ZoneOf(s)
<1>1. s \in Slugs /\ Recorded(s) /\ handler = None /\ instances[i] # None /\ HasClients(zone)
  <2>1. instances[i] # None /\ instances[i] \in InstanceRecords /\ handler = None
    BY DEF DeleteInstance, Owns, OneInv, IInv, TypeOK
  <2> QED
    BY <2>1 DEF OneInv, SingleOK, Recorded, InstanceRecords
<1>2. ASSUME NEW k \in Keys, k[2] = s, ~Excused(k) PROVE k = <<ClusterOf(zone), s>>
  BY <1>1, <1>2 DEF OneInv, AccountedOK, AtWork, OfRecord, KeyOf
<1>3. /\ UNCHANGED <<deployment, service, instances>>
      /\ tenantZone' = [tenantZone EXCEPT ![s] = None]
      /\ handler' # None /\ handler'.step = "removeDeployment" /\ handler'.slug = s
      /\ handler'.zone = zone
  <2> DEFINE begun == [step |-> "removeDeployment", tenant |-> t, slug |-> s, zone |-> zone,
                       requested |-> None, app |-> None, instance |-> i]
  <2>1. begun \in Handlers
    BY <1>1, ZoneOfType DEF OneInv, IInv, Handlers, DeleteSteps
  <2>2. handler' = begun
    BY <1>1 DEF DeleteInstance, PoppedZone
  <2> QED
    BY <2>1, <2>2, NoneIsNoRecord DEF DeleteInstance, clusterVars
<1>4. /\ \A k \in Keys : Clean(k)' <=> Clean(k)
      /\ \A r : Recorded(r)' <=> Recorded(r)
  BY <1>3 DEF Clean, Live, Recorded
<1>5. ASSUME NEW r \in Slugs, r # s PROVE KeyOf(r)' = KeyOf(r) /\ ZoneOf(r)' = ZoneOf(r)
  BY <1>3, <1>5 DEF OneInv, IInv, TypeOK, KeyOf, ZoneOf
<1>6. ASSUME NEW k \in Keys, Excused(k) PROVE Excused(k)' \/ OfRecord(k)'
  BY <1>4, <1>6, StaysExcused DEF Excused
<1>7. AccountedOK'
  <2> SUFFICES ASSUME NEW k \in Keys, ~Excused(k), k[2] # s
               PROVE  OfRecord(k)'
    BY <1>3, <1>6 DEF AccountedOK, AtWork
  <2>1. k[2] \in Slugs
    BY DEF Keys
  <2>2. Recorded(k[2]) /\ KeyOf(k[2]) = k
    BY <1>1 DEF OneInv, AccountedOK, AtWork, OfRecord
  <2>3. ~AtWork(k[2])'
    BY <1>3 DEF AtWork
  <2> QED
    BY <1>4, <1>5, <2>1, <2>2, <2>3 DEF OfRecord
<1>8. WorkOK'
  <2>1. HandlerKey' = <<ClusterOf(zone), s>>
    BY <1>3 DEF HandlerKey, ClusterOf
  <2>2. ASSUME NEW k \in Keys, k[2] = s, k # HandlerKey' PROVE Excused(k)'
    BY <1>2, <1>3, <1>6, <2>1, <2>2 DEF OfRecord, AtWork
  <2> QED
    BY <1>3, <2>2 DEF WorkOK, CreateSteps
<1>9. SingleOK'
  <2>1. ASSUME NEW j \in InstanceIds, instances[j] # None
        PROVE  HasClients(ZoneOf(instances[j].slug))'
    <3>1. CASE instances[j].slug = s
      <4>1. ZoneOf(s)' = ZONE_LOCAL
        BY <1>1, <1>3 DEF ZoneOf, OneInv, IInv, TypeOK
      <4> QED
        BY <1>3, <3>1, <4>1 DEF HasClients, ZONE_LOCAL, ZONE_XERCES
    <3>2. CASE instances[j].slug # s
      <4>1. instances[j].slug \in Slugs
        BY <2>1 DEF OneInv, IInv, TypeOK, InstanceRecords
      <4>2. ZoneOf(instances[j].slug)' = ZoneOf(instances[j].slug)
        BY <1>3, <1>5, <3>2, <4>1
      <4> QED
        BY <2>1, <4>2 DEF OneInv, SingleOK, HasClients
    <3> QED
      BY <3>1, <3>2
  <2> QED
    BY <1>3, <2>1 DEF OneInv, SingleOK
<1> QED
  BY <1>7, <1>8, <1>9

(* A call of a handler, whether it fails or not.                             *)
LEMMA CallOne ==
  ASSUME OneInv, Calls, LeftAfter(FailedOn)
  PROVE  AccountedOK' /\ WorkOK' /\ SingleOK'
<1> PICK key : key = HandlerKey
  OBVIOUS
<1> PICK failed : failed = FailedOn
  OBVIOUS
<1>1. /\ handler # None /\ key \in Keys /\ key[2] = handler.slug
      /\ UNCHANGED <<instances, tenantZone>>
  BY CallsKeepType, HandlerKeyType DEF Calls, OneInv, IInv, shimVars, HandlerKey
<1>2. /\ \A s : Recorded(s)' <=> Recorded(s)
      /\ \A s : KeyOf(s)' = KeyOf(s) /\ ZoneOf(s)' = ZoneOf(s)
  BY <1>1 DEF Recorded, KeyOf, ZoneOf
<1>3. ASSUME NEW k \in Keys, k # key PROVE Clean(k)' <=> Clean(k)
  BY <1>3, CallsTouchOwnKey DEF OneInv, Clean, Live
<1>4. \/ handler' = None
      \/ handler' # None /\ HandlerKey' = key /\ handler'.slug = handler.slug
         /\ handler'.zone = handler.zone
         /\ (handler.step \in CreateSteps <=> handler'.step \in CreateSteps)
  <2>1. handler \in Handlers
    BY <1>1 DEF OneInv, IInv, TypeOK
  <2>2. CASE handler' # None
    <3>1. PICK step \in CreateSteps \cup DeleteSteps : handler' = [handler EXCEPT !.step = step]
      BY <2>2, CallsKeepType DEF Calls, OneInv
    <3>2. handler'.slug = handler.slug /\ handler'.zone = handler.zone
      BY <2>1, <3>1 DEF Handlers
    <3> QED
      BY <2>2, <3>2, CallsNames DEF OneInv
  <2> QED
    BY <2>2
<1>5. ASSUME NEW k \in Keys, k \in left \cup failed \/ (Clean(k) /\ Clean(k)')
      PROVE  Excused(k)' \/ OfRecord(k)'
  BY <1>5, StaysExcused
<1>6. ASSUME handler' # None PROVE \A k : k[2] = handler.slug => ~OfRecord(k)'
  BY <1>4, <1>6 DEF OfRecord, AtWork
<1>7. /\ handler' = None => key \in failed \/ (Excused(key) /\ (Clean(key) => Clean(key)'))
      /\ handler' # None =>
           /\ handler'.step \in {"replaceDeployment", "recreateDeployment"}
                => Excused(key) /\ (Clean(key) => Clean(key)')
           /\ handler'.step = "removeService" => ~Live(key)' \/ key \in failed
           /\ handler'.step = "forget" => key \in left \cup failed \/ Clean(key)'
           /\ handler'.step # "createDeployment"
  <2>1. /\ handler \in Handlers /\ deployment \in [Keys -> Deployments \cup {None}]
        /\ service \in [Keys -> Services \cup {None}]
        /\ \A step : GoTo(step) => handler'.step = step
    BY <1>1 DEF OneInv, IInv, TypeOK, ClusterTypeOK, Handlers, GoTo
  <2>2. ASSUME Faults # {}, handler' = None, handler.step \notin {"record", "forget"}
        PROVE  key \in failed
    BY <1>1, <2>2 DEF FailedOn
  <2>3. CASE CreateDeployment
    <3>1. Excused(key) /\ handler.step = "createDeployment"
      BY <1>1, <2>3 DEF CreateDeployment, At, OneInv, WorkOK
    <3>2. UNCHANGED service
      BY <2>3 DEF CreateDeployment
    <3>3. \/ handler'.step = "createService"
          \/ UNCHANGED deployment /\ handler'.step = "replaceDeployment"
          \/ Faults # {} /\ handler' = None
      BY <2>1, <2>3 DEF CreateDeployment, DeploymentConflict, Ends, LosesAnswer
    <3>4. handler' = None => Faults # {}
      BY <1>1, <2>1, <2>3, CallsKeepType, NoneIsNoRecord
      DEF CreateDeployment, DeploymentConflict, GoTo, LosesAnswer, Handlers, CreateSteps
    <3> QED
      BY <2>2, <3>1, <3>2, <3>3, <3>4 DEF Clean, Live
  <2>4. CASE ReplaceDeployment
    <3>1. Excused(key) /\ handler.step = "replaceDeployment"
      BY <1>1, <2>4 DEF ReplaceDeployment, At, OneInv, WorkOK
    <3>2. UNCHANGED service /\ (~Live(key) => ~Live(key)')
      BY <1>1, <2>1, <2>4
      DEF ReplaceDeployment, InForeground, MarksDeployment, LosesAnswer, Live, Deployments
    <3>3. handler' = None \/ handler'.step = "recreateDeployment"
      BY <2>1, <2>4 DEF ReplaceDeployment, Ends, LosesAnswer
    <3> QED
      BY <3>1, <3>2, <3>3 DEF Clean
  <2>5. CASE RecreateDeployment
    <3>1. Excused(key) /\ handler.step = "recreateDeployment"
      BY <1>1, <2>5 DEF RecreateDeployment, At, OneInv, WorkOK
    <3>2. UNCHANGED service
      BY <2>5 DEF RecreateDeployment
    <3>3. \/ handler' # None /\ handler'.step = "createService"
          \/ handler' = None /\ (UNCHANGED deployment \/ Faults # {})
      <4>1. \/ GoTo("createService")
            \/ Ends /\ (UNCHANGED deployment \/ Faults # {})
        BY <2>5 DEF RecreateDeployment, SecondConflict, LosesAnswer
      <4>2. GoTo("createService") => handler' # None /\ handler'.step = "createService"
        BY <2>1, NoneIsNoRecord DEF GoTo, Handlers, CreateSteps
      <4> QED
        BY <4>1, <4>2 DEF Ends
    <3> QED
      BY <2>2, <3>1, <3>2, <3>3 DEF Clean, Live
  <2>6. CASE CreateService \/ ReplaceService \/ RecreateService
    <3>1. handler.step \in {"createService", "replaceService", "recreateService"}
      BY <2>6 DEF CreateService, ReplaceService, RecreateService, At
    <3>2. \/ \E step \in {"replaceService", "recreateService", "record"} : GoTo(step)
          \/ Ends /\ Faults # {}
      BY <2>6
      DEF CreateService, ServiceConflict, ReplaceService, RecreateService, LosesAnswer
    <3>3. \A step \in {"replaceService", "recreateService", "record"} :
            GoTo(step) => handler' # None /\ handler'.step = step
      BY <2>1, NoneIsNoRecord DEF GoTo, Handlers, CreateSteps
    <3> QED
      BY <2>2, <3>1, <3>2, <3>3 DEF Ends
  <2>7. CASE RemoveDeployment
    <3>1. handler.step = "removeDeployment" /\ (~Live(key)' \/ Faults # {})
      BY <1>1, <2>1, <2>7
      DEF RemoveDeployment, At, InForeground, MarksDeployment, LosesAnswer, Live, Deployments
    <3>2. GoTo("removeService") \/ (Ends /\ Faults # {})
      BY <2>7 DEF RemoveDeployment, LosesAnswer
    <3>3. GoTo("removeService") => handler' # None /\ handler'.step = "removeService"
      BY <2>1, NoneIsNoRecord DEF GoTo, Handlers, DeleteSteps
    <3>4. ASSUME Live(key)' PROVE key \in failed
      BY <1>1, <3>1, <3>4 DEF FailedOn, At, Live
    <3> QED
      BY <2>2, <3>1, <3>2, <3>3, <3>4 DEF Ends
  <2>8. CASE RemoveService
    <3>1. /\ handler.step = "removeService" /\ UNCHANGED deployment
          /\ service'[key] = None \/ Faults # {}
      BY <1>1, <2>1, <2>8 DEF RemoveService, At, RemovesService, LosesAnswer
    <3>2. GoTo("forget") \/ (Ends /\ Faults # {})
      BY <2>8 DEF RemoveService, LosesAnswer
    <3>3. GoTo("forget") => handler' # None /\ handler'.step = "forget"
      BY <2>1, NoneIsNoRecord DEF GoTo, Handlers, DeleteSteps
    <3>4. service'[key] # None => key \in failed
      BY <1>1, <3>1 DEF FailedOn, At
    <3>5. ~Live(key) \/ key \in left
      BY <1>1, <3>1 DEF OneInv, WorkOK
    <3>6. key \in left \cup failed \/ Clean(key)'
      BY <3>1, <3>4, <3>5 DEF Clean, Live
    <3> QED
      BY <2>2, <3>1, <3>2, <3>3, <3>6 DEF Ends
  <2> QED
    BY <2>3, <2>4, <2>5, <2>6, <2>7, <2>8 DEF Calls
<1>8. AccountedOK'
  <2> SUFFICES ASSUME NEW k \in Keys, ~AtWork(k[2])'
               PROVE  Excused(k)' \/ OfRecord(k)'
    BY DEF AccountedOK
  <2>1. CASE k = key
    <3>1. handler' = None
      BY <1>1, <1>4, <2>1 DEF AtWork
    <3> QED
      BY <1>1, <1>5, <1>7, <2>1, <3>1 DEF Excused
  <2>2. CASE k # key
    <3>1. CASE Excused(k)
      BY <1>3, <1>5, <2>2, <3>1 DEF Excused
    <3>2. CASE ~Excused(k)
      <4>1. ~AtWork(k[2])
        BY <1>1, <2>2, <3>2 DEF AtWork, OneInv, WorkOK
      <4>2. Recorded(k[2]) /\ KeyOf(k[2]) = k
        BY <3>2, <4>1 DEF OneInv, AccountedOK, OfRecord
      <4> QED
        BY <1>2, <4>2 DEF OfRecord
    <3> QED
      BY <3>1, <3>2
  <2> QED
    BY <2>1, <2>2
<1>9. WorkOK'
  <2> SUFFICES ASSUME handler' # None PROVE WorkOK'
    BY DEF WorkOK
  <2>1. ASSUME NEW k \in Keys, k[2] = handler.slug, k # key PROVE Excused(k)'
    <3>1. Excused(k)
      BY <1>1, <2>1 DEF OneInv, WorkOK
    <3> QED
      BY <1>3, <1>5, <1>6, <2>1, <3>1 DEF Excused
  <2>2. handler'.step \in {"createDeployment", "replaceDeployment", "recreateDeployment", "forget"}
          => Excused(key)'
    <3>1. key \in left \cup failed \/ (Clean(key) /\ Clean(key)') => Excused(key)'
      BY <1>1, <1>5, <1>6
    <3> QED
      BY <1>7, <3>1 DEF Excused
  <2>3. handler'.step = "removeService" => ~Live(key)' \/ key \in left'
    <3>1. key \in failed => Excused(key)'
      BY <1>1, <1>5, <1>6
    <3> QED
      BY <1>7, <3>1 DEF Excused, Clean
  <2>4. handler'.step \in CreateSteps => ~Recorded(handler.slug) /\ HasClients(handler.zone)
    BY <1>1, <1>4 DEF OneInv, WorkOK
  <2> QED
    BY <1>1, <1>2, <1>4, <2>1, <2>2, <2>3, <2>4 DEF WorkOK, HasClients, Excused, Clean, Live
<1>10. SingleOK'
  BY <1>1, <1>2 DEF OneInv, SingleOK, HasClients
<1> QED
  BY <1>8, <1>9, <1>10

LEMMA RecordOne ==
  ASSUME OneInv, NEW failed, LeftAfter(failed), RecordInstance
  PROVE  AccountedOK' /\ WorkOK' /\ SingleOK'
<1> DEFINE s == handler.slug
<1>1. /\ handler # None /\ handler \in Handlers /\ HandlerKey \in Keys /\ s \in Slugs
      /\ handler.step \in CreateSteps /\ ~Recorded(s) /\ HasClients(handler.zone)
      /\ tenantZone[s] = handler.zone /\ handler.zone \in ZoneIds
  BY HandlerKeyType
  DEF RecordInstance, At, CreateSteps, OneInv, WorkOK, IInv, HandlerOK, TypeOK, Handlers
<1>2. PICK i \in InstanceIds :
        /\ instances[i] = None
        /\ instances' = [instances EXCEPT ![i] =
                           [app |-> handler.app, zone |-> handler.requested,
                            tenant |-> handler.tenant, slug |-> s, status |-> "instantiating"]]
  BY DEF RecordInstance
<1>3. /\ handler' = None /\ UNCHANGED <<deployment, service, tenantZone>>
  BY DEF RecordInstance, Ends, clusterVars
<1>4. /\ instances'[i] # None /\ instances'[i].slug = s
      /\ \A j \in InstanceIds : j # i => instances'[j] = instances[j]
  <2>1. instances \in [InstanceIds -> InstanceRecords \cup {None}]
    BY DEF OneInv, IInv, TypeOK
  <2>2. instances' \in [InstanceIds -> InstanceRecords \cup {None}]
    BY TypeStep DEF OneInv, Next, HandlerStep, TypeOK
  <2>3. instances'[i].slug = s /\ \A j \in InstanceIds : j # i => instances'[j] = instances[j]
    BY <1>2, <2>1
  <2>4. handler.app \in AppIds
    BY <1>1 DEF OneInv, IInv, HandlerOK
  <2>5. [app |-> handler.app, zone |-> handler.requested, tenant |-> handler.tenant,
         slug |-> s, status |-> "instantiating"] \in InstanceRecords
    BY <1>1, <2>4 DEF Handlers, InstanceRecords
  <2> QED
    BY <1>2, <2>1, <2>3, <2>5, NoneIsNoRecord
<1>5. /\ \A k \in Keys : Clean(k)' <=> Clean(k)
      /\ \A r : KeyOf(r)' = KeyOf(r) /\ ZoneOf(r)' = ZoneOf(r)
  BY <1>3 DEF Clean, Live, KeyOf, ZoneOf
<1>6. ZoneOf(s) = handler.zone /\ KeyOf(s) = HandlerKey
  BY <1>1, NoneIsNoRecord, ClustersAssumption, NoneAssumption
  DEF ZoneOf, KeyOf, HandlerKey, ZoneIds
<1>7. AccountedOK'
  <2> SUFFICES ASSUME NEW k \in Keys PROVE Excused(k)' \/ OfRecord(k)'
    BY DEF AccountedOK
  <2>1. CASE Excused(k)
    BY <1>5, <2>1, StaysExcused DEF Excused
  <2>2. CASE ~Excused(k) /\ k[2] = s
    <3>1. k = HandlerKey
      BY <1>1, <2>2 DEF OneInv, WorkOK
    <3> QED
      BY <1>3, <1>4, <1>5, <1>6, <2>2, <3>1 DEF OfRecord, Recorded, AtWork
  <2>3. CASE ~Excused(k) /\ k[2] # s
    <3>1. Recorded(k[2]) /\ KeyOf(k[2]) = k
      BY <2>3 DEF OneInv, AccountedOK, AtWork, OfRecord
    <3>2. PICK j \in InstanceIds : instances[j] # None /\ instances[j].slug = k[2]
      BY <3>1 DEF Recorded
    <3>3. instances'[j] = instances[j]
      BY <1>2, <1>4, <3>2
    <3> QED
      BY <1>3, <1>5, <3>1, <3>2, <3>3 DEF OfRecord, Recorded, AtWork
  <2> QED
    BY <2>1, <2>2, <2>3
<1>8. WorkOK'
  BY <1>3 DEF WorkOK
<1>9. SingleOK'
  <2>1. \A r : HasClients(ZoneOf(r))' <=> HasClients(ZoneOf(r))
    BY <1>5 DEF HasClients
  <2>2. HasClients(ZoneOf(s))
    BY <1>1, <1>6
  <2>3. \A j \in InstanceIds : instances[j] # None => instances[j].slug # s
    BY <1>1 DEF Recorded
  <2> QED
    BY <1>2, <1>4, <2>1, <2>2, <2>3 DEF OneInv, SingleOK
<1> QED
  BY <1>7, <1>8, <1>9

LEMMA ForgetOne ==
  ASSUME OneInv, NEW failed, LeftAfter(failed), ForgetInstance
  PROVE  AccountedOK' /\ WorkOK' /\ SingleOK'
<1> DEFINE s == handler.slug
           i == handler.instance
<1>1. /\ handler # None /\ HandlerKey \in Keys /\ i \in InstanceIds
      /\ instances[i] # None /\ instances[i].slug = s
  BY HandlerKeyType DEF ForgetInstance, At, DeleteSteps, OneInv, IInv, HandlerOK
<1>2. ASSUME NEW k \in Keys, k[2] = s PROVE Excused(k)
  BY <1>1, <1>2 DEF ForgetInstance, At, OneInv, WorkOK
<1>3. /\ handler' = None /\ UNCHANGED <<deployment, service, tenantZone>>
      /\ instances'[i] = None
      /\ \A j \in InstanceIds : j # i => instances'[j] = instances[j]
  BY <1>1 DEF ForgetInstance, Ends, clusterVars, OneInv, IInv, TypeOK
<1>4. /\ \A k \in Keys : Clean(k)' <=> Clean(k)
      /\ \A r : KeyOf(r)' = KeyOf(r) /\ ZoneOf(r)' = ZoneOf(r)
  BY <1>3 DEF Clean, Live, KeyOf, ZoneOf
<1>5. AccountedOK'
  <2> SUFFICES ASSUME NEW k \in Keys PROVE Excused(k)' \/ OfRecord(k)'
    BY DEF AccountedOK
  <2>1. CASE Excused(k)
    BY <1>4, <2>1, StaysExcused DEF Excused
  <2>2. CASE ~Excused(k)
    <3>1. k[2] # s
      BY <1>2, <2>2
    <3>2. Recorded(k[2]) /\ KeyOf(k[2]) = k
      BY <2>2, <3>1 DEF OneInv, AccountedOK, AtWork, OfRecord
    <3>3. PICK j \in InstanceIds : instances[j] # None /\ instances[j].slug = k[2]
      BY <3>2 DEF Recorded
    <3>4. instances'[j] = instances[j]
      BY <1>1, <1>3, <3>1, <3>3
    <3> QED
      BY <1>3, <1>4, <3>2, <3>3, <3>4 DEF OfRecord, Recorded, AtWork
  <2> QED
    BY <2>1, <2>2
<1>6. WorkOK'
  BY <1>3 DEF WorkOK
<1>7. SingleOK'
  BY <1>3, <1>4 DEF OneInv, SingleOK, HasClients
<1> QED
  BY <1>5, <1>6, <1>7

LEMMA ClusterOne ==
  ASSUME OneInv, NEW failed, LeftAfter(failed), ClusterMoves
  PROVE  AccountedOK' /\ WorkOK' /\ SingleOK'
<1>1. UNCHANGED <<handler, instances, tenantZone, service>>
  BY DEF ClusterMoves, ClusterStep, PodStarts, PodChanges, PodGone, DeploymentGone, shimVars
<1>2. ASSUME NEW k \in Keys, Live(k)' PROVE Live(k)
  BY <1>2
  DEF ClusterMoves, ClusterStep, PodStarts, PodChanges, PodGone, DeploymentGone, Live,
      OneInv, IInv, TypeOK, ClusterTypeOK
<1> QED
  BY <1>1, <1>2, QuietOne

(* A restart forgets every record: what runs is left.                        *)
LEMMA RestartOne ==
  ASSUME Restart, LeftAfter(Keys)
  PROVE  AccountedOK' /\ WorkOK' /\ SingleOK'
<1>1. handler' = None /\ \A i \in InstanceIds : instances'[i] = None
  BY DEF Restart, EmptyStores
<1>2. AccountedOK'
  BY StaysExcused DEF AccountedOK
<1> QED
  BY <1>1, <1>2 DEF WorkOK, SingleOK

-------------------------------------------------------------------------------
(* The theorem.                                                              *)

LEMMA OneNext ==
  ASSUME OwnSlugs, OneInv, [ClientNext]_clientVars
  PROVE  OneInv'
<1>1. [Next]_vars
  BY ClientNextIsNext
<1>2. IInv'
  BY <1>1, TypeStep, HandlerStepOK, RecordsStepOK DEF OneInv, IInv
<1> SUFFICES AccountedOK' /\ WorkOK' /\ SingleOK'
  BY <1>2 DEF OneInv
<1>3. ASSUME NEW failed, LeftAfter(failed), NEW t \in Tenants, NEW i \in InstanceIds,
             GetInstance(t, i)
      PROVE  AccountedOK' /\ WorkOK' /\ SingleOK'
  <2>1. UNCHANGED <<deployment, service, tenantZone, handler>>
    BY <1>3 DEF GetInstance, clusterVars
  <2>2. ASSUME NEW j \in InstanceIds, instances[j] # None
        PROVE  instances'[j] # None /\ instances'[j].slug = instances[j].slug
    BY <1>3, <2>2, PollKeepsRecords DEF OneInv
  <2>3. ASSUME NEW j \in InstanceIds, instances'[j] # None
        PROVE  instances[j] # None
    BY <1>3, <2>3 DEF GetInstance, Owns, OneInv, IInv, TypeOK
  <2>4. \A k \in Keys : Live(k)' => Live(k)
    BY <2>1 DEF Live
  <2> QED
    BY <1>3, <2>1, <2>2, <2>3, <2>4, QuietOne
<1>4. ASSUME NEW failed, LeftAfter(failed), NEW t \in Tenants,
             \/ \E m \in Manifests : RegisterApp(t, m)
             \/ \E p \in PortNames : ProxyRequest(t, p)
      PROVE  AccountedOK' /\ WorkOK' /\ SingleOK'
  <2>1. UNCHANGED <<deployment, service, instances, tenantZone, handler>>
    BY <1>4 DEF RegisterApp, ProxyRequest, clusterVars
  <2>2. \A k \in Keys : Live(k)' => Live(k)
    BY <2>1 DEF Live
  <2> QED
    BY <1>4, <2>1, <2>2, QuietOne
<1>5. ASSUME NEW failed, LeftAfter(failed), ClientRequests
      PROVE  AccountedOK' /\ WorkOK' /\ SingleOK'
  <2>1. PICK t \in Tenants :
          \/ \E m \in Manifests : RegisterApp(t, m)
          \/ AsksInstance(t)
          \/ \E i \in InstanceIds : GetInstance(t, i) \/ DeleteInstance(t, i)
          \/ \E p \in PortNames : ProxyRequest(t, p)
    BY <1>5 DEF ClientRequests
  <2> QED
    BY <1>3, <1>4, <1>5, <2>1, AskOne, DeleteOne
<1>6. ASSUME HandlerStep, LeftAfter(FailedOn)
      PROVE  AccountedOK' /\ WorkOK' /\ SingleOK'
  <2>1. Calls \/ RecordInstance \/ ForgetInstance
    BY <1>6 DEF HandlerStep, Calls
  <2> QED
    BY <1>6, <2>1, CallOne, RecordOne, ForgetOne
<1>7. CASE UNCHANGED clientVars
  <2>1. UNCHANGED <<deployment, service, instances, tenantZone, handler, left>>
    BY <1>7 DEF clientVars, vars, clusterVars, shimVars
  <2>2. AccountedOK'
    BY <2>1
    DEF OneInv, AccountedOK, AtWork, Excused, OfRecord, Clean, Live, Recorded, KeyOf, ZoneOf
  <2>3. WorkOK'
    BY <2>1
    DEF OneInv, WorkOK, Excused, Clean, Live, Recorded, HandlerKey, HasClients
  <2>4. SingleOK'
    BY <2>1 DEF OneInv, SingleOK, HasClients, ZoneOf
  <2> QED
    BY <2>2, <2>3, <2>4
<1> QED
  BY <1>5, <1>6, <1>7, ClusterOne, RestartOne DEF ClientNext, ClientStep

(* Where each tenant has a slug of its own, a client that deletes what it    *)
(* has before it asks again has nothing running behind its back, except what *)
(* a failed call or a restart left there: every Deployment that is not being *)
(* deleted and every Service is its record's, in the zone that its delete    *)
(* will look in, or that of the handler at work on it, or has stood there    *)
(* since such a failure (k8s_manager.py:188-305, 516-539).                   *)
THEOREM NothingOrphaned ==
  ASSUME OwnSlugs
  PROVE  ClientSpec => []NoOrphans
<1>1. OneInv /\ [ClientNext]_clientVars => OneInv'
  BY OneNext
<1>2. OneInv => NoOrphans
  BY DEF OneInv, AccountedOK, Excused, OfRecord, NoOrphans, Accounted
<1> QED
  BY OneInit, <1>1, <1>2, PTL DEF ClientSpec

===============================================================================
