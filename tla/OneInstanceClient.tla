--------------------------- MODULE OneInstanceClient ---------------------------
(***************************************************************************)
(* The nef-shim under the one client discipline that its samples follow    *)
(* (apps/edge-demo/edge_demo.py:78-235, the GUI's fast path and teardown): *)
(* a tenant asks for an instance only while it has none, and deletes the   *)
(* one it has before it asks again.  After a failed create the client may  *)
(* ask again, with any app and zone.                                       *)
(***************************************************************************)
EXTENDS NefShim

VARIABLE
  left   \* history: what a failed call or a restart left running, until it is
         \* gone or a record accounts for it again

clientVars == <<vars, left>>

HasRecord(t) == \E i \in InstanceIds : instances[i] # None /\ instances[i].tenant = t

AsksInstance(t) ==
  /\ ~HasRecord(t)
  /\ \E a \in AppIds, z \in ZoneRequests : CreateInstance(t, a, z)

ClientRequests ==
  \E t \in Tenants :
    \/ \E m \in Manifests : RegisterApp(t, m)
    \/ AsksInstance(t)
    \/ \E i \in InstanceIds : GetInstance(t, i) \/ DeleteInstance(t, i)
    \/ \E p \in PortNames : ProxyRequest(t, p)

ClientStep == ClientRequests \/ HandlerStep \/ ClusterMoves

-------------------------------------------------------------------------------
(* What is running: a Deployment that is not being deleted, or a Service.    *)
Clean(k) == ~Live(k) /\ service[k] = None

(* A tenant's record accounts for what runs in the zone that its delete will *)
(* look in.                                                                  *)
Recorded(s) == \E i \in InstanceIds : instances[i] # None /\ instances[i].slug = s
AtWork(s)   == handler # None /\ handler.slug = s
OfRecord(k) == Recorded(k[2]) /\ KeyOf(k[2]) = k /\ ~AtWork(k[2])

(* What the step works on, if it is a call that fails: one that ends the     *)
(* handler with a 500, or that of a delete whose ApiException is only logged *)
(* (k8s_manager.py:527-539).                                                 *)
FailedOn ==
  {k \in Keys :
     /\ Faults # {} /\ handler # None /\ k = HandlerKey
     /\ \/ handler' = None /\ handler.step \notin {"record", "forget"}
        \/ At("removeDeployment") /\ Live(k)'
        \/ At("removeService") /\ service'[k] # None}

LeftAfter(failed) == left' = {k \in left \cup failed : ~Clean(k)' /\ ~OfRecord(k)'}

(* A restart forgets the tenants' records and apps, but not what runs.       *)
ClientNext ==
  \/ ClientStep /\ LeftAfter(FailedOn)
  \/ Restart /\ LeftAfter(Keys)

ClientSpec == Init /\ left = {} /\ [][ClientNext]_clientVars

-------------------------------------------------------------------------------
(* Fairness: a handler's calls return; the kubelet terminates the pods of a  *)
(* marked Deployment and the garbage collector then removes it; and a client *)
(* without an instance asks again and again, between the other requests that *)
(* the one event loop serves.                                                *)
ClusterFairness ==
  \A k \in Keys :
    /\ WF_vars(~Live(k) /\ PodGone(k) /\ UNCHANGED <<shimVars, handler, latest>>)
    /\ WF_vars(DeploymentGone(k) /\ UNCHANGED <<shimVars, handler, latest>>)

FairClientSpec ==
  /\ ClientSpec
  /\ WF_vars(HandlerStep)
  /\ ClusterFairness
  /\ \A t \in Tenants : SF_vars(AsksInstance(t))

-------------------------------------------------------------------------------
(* Nothing is left running behind a tenant's back, unless a failed call or a *)
(* restart left it there: a Deployment that is not being deleted, or a       *)
(* Service, belongs to a tenant that has a record, in the zone that its      *)
(* delete will look in, or to the handler at work on it, or it has stood     *)
(* there since a call on it failed or the shim restarted                     *)
(* (k8s_manager.py:188-305, 516-539).                                        *)
Accounted(k) ==
  \/ Recorded(k[2]) /\ KeyOf(k[2]) = k
  \/ AtWork(k[2])
  \/ k \in left
NoOrphans == \A k \in Keys : ~Clean(k) => Accounted(k)

(* A single create over an existing Deployment fails when the old one is     *)
(* still being deleted (k8s_manager.py:252-266), but the state it leaves is  *)
(* never one that further tries cannot get out of: a tenant that has         *)
(* registered an app and keeps asking gets an instance, unless a restart     *)
(* forgets its app.                                                          *)
CanAsk(t) == \E a \in AppIds : apps[a] # None /\ apps[a].tenant = t
RetrySucceeds == \A t \in Tenants : CanAsk(t) ~> (HasRecord(t) \/ ~CanAsk(t))

===============================================================================
