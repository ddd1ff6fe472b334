-------------------------------- MODULE ProxyRace --------------------------------
(***************************************************************************)
(* The nef-shim's reverse proxy (nef-shim/proxy.py) over its two awaits: a *)
(* request resolves slug, port and address in one turn of the event loop,  *)
(* waits for its body, then for the upstream, while other handlers create, *)
(* replace and delete instances and Kubernetes hands freed addresses out   *)
(* again.  NefShim.tla has those handlers step by step; here each is one   *)
(* step, whose failures are the Services it may leave.                     *)
(***************************************************************************)
EXTENDS FiniteSets, Absent

CONSTANTS
  Callers,    \* tenants, which also stand for their slugs
  Addresses,  \* cluster IPs: those of the two clusters may be the same
  Flights     \* requests: bounds those in flight at once

Stages == {"body", "upstream", "answered"}
ProxyZones == {"local", "second"}

ASSUME ProxyNoneAssumption == None \notin Callers \cup Addresses \cup Stages

VARIABLES
  localIp,   \* external: the ClusterIP of each tenant's Service in the local
             \* cluster, or None
  secondIp,  \* external: the same in the second cluster
  zoneOf,    \* _tenant_zone: local when it has none
  cachedIp,  \* _cluster_ip_cache
  declared,  \* _tenant_manifest: whether the tenant has one
  flight     \* each request: what it waits for, its caller, slug and address,
             \* whether that is of the second cluster, its answer, and history:
             \* whether its caller asked for a create or delete meanwhile

proxyVars == <<localIp, secondIp, zoneOf, cachedIp, declared, flight>>

NoFlight == [at |-> None, caller |-> None, slug |-> None, address |-> None,
             remote |-> FALSE, interrupted |-> FALSE, from |-> None]

ProxyInit ==
  /\ localIp = [t \in Callers |-> None] /\ secondIp = [t \in Callers |-> None]
  /\ zoneOf = [t \in Callers |-> "local"]
  /\ cachedIp = [t \in Callers |-> None]
  /\ declared = [t \in Callers |-> FALSE]
  /\ flight = [r \in Flights |-> NoFlight]

-------------------------------------------------------------------------------
(* The management handlers of a tenant, each of which runs in one turn.      *)

Interrupts(t) ==
  flight' = [r \in Flights |-> IF flight[r].slug = t
                               THEN [flight[r] EXCEPT !.interrupted = TRUE] ELSE flight[r]]

(* What a create leaves of the tenant's Service: the one that was there,     *)
(* when it failed before or the manifest has no port; none, when it failed   *)
(* between a 409's delete and the second create; or a new one, at an address *)
(* that nobody else has.                                                     *)
Free(ips, t, a) == \A u \in Callers \ {t} : ips[u] # a
Recreated(ips, t) ==
  {[ips EXCEPT ![t] = a] : a \in {ips[t], None} \cup {b \in Addresses : Free(ips, t, b)}}

ProxyCreate(t, z) ==
  /\ \/ z = "local" /\ localIp' \in Recreated(localIp, t) /\ UNCHANGED secondIp
     \/ z = "second" /\ secondIp' \in Recreated(secondIp, t) /\ UNCHANGED localIp
  /\ zoneOf' = [zoneOf EXCEPT ![t] = z]
  /\ declared' = [declared EXCEPT ![t] = TRUE]
  /\ cachedIp' = [cachedIp EXCEPT ![t] = None]
  /\ Interrupts(t)

(* A delete drops what the shim knows of the tenant, and the Service of the  *)
(* zone that the tenant had, unless the call fails.                          *)
Removed(ips, t) == {ips, [ips EXCEPT ![t] = None]}

ProxyDelete(t) ==
  /\ \/ zoneOf[t] = "local" /\ localIp' \in Removed(localIp, t) /\ UNCHANGED secondIp
     \/ zoneOf[t] = "second" /\ secondIp' \in Removed(secondIp, t) /\ UNCHANGED localIp
  /\ zoneOf' = [zoneOf EXCEPT ![t] = "local"]
  /\ declared' = [declared EXCEPT ![t] = FALSE]
  /\ cachedIp' = [cachedIp EXCEPT ![t] = None]
  /\ Interrupts(t)

(* The process dies and starts again: what it knew is gone, and with it the  *)
(* requests; the Services stay.                                              *)
ProxyRestart ==
  /\ zoneOf' = [t \in Callers |-> "local"]
  /\ cachedIp' = [t \in Callers |-> None]
  /\ declared' = [t \in Callers |-> FALSE]
  /\ flight' = [r \in Flights |-> NoFlight]
  /\ UNCHANGED <<localIp, secondIp>>

-------------------------------------------------------------------------------
(* A request.                                                                *)

(* 403 for another tenant's slug.  Where a definition has another form before*)
(* it, that is the form a plausible bug would give it; no action uses it.    *)
AnySlug(t, slug) == TRUE
OwnSlug(t, slug) == slug = t

(* The turn up to the first await: 403, 404 and 502 end the request.  The    *)
(* address is that of the Service in the zone that the tenant has.           *)
ServiceIp(t) == IF zoneOf[t] = "local" THEN localIp[t] ELSE secondIp[t]
AddressFor(slug) == IF cachedIp[slug] # None THEN cachedIp[slug] ELSE ServiceIp(slug)
Resolve(r, t, slug) ==
  /\ flight[r] = NoFlight
  /\ OwnSlug(t, slug) /\ declared[slug] /\ AddressFor(slug) # None
  /\ cachedIp' = [cachedIp EXCEPT ![slug] = AddressFor(slug)]
  /\ flight' = [flight EXCEPT ![r] =
                  [at |-> "body", caller |-> t, slug |-> slug, address |-> AddressFor(slug),
                   remote |-> zoneOf[slug] = "second", interrupted |-> FALSE,
                   from |-> None]]
  /\ UNCHANGED <<localIp, secondIp, zoneOf, declared>>

OnlyFlight == UNCHANGED <<localIp, secondIp, zoneOf, cachedIp, declared>>

(* The body is there, and the upstream is asked.                             *)
Send(r) ==
  /\ flight[r].at = "body"
  /\ flight' = [flight EXCEPT ![r].at = "upstream"]
  /\ OnlyFlight

(* The shim runs in the local cluster, and connects to an address there:     *)
(* whoever has it answers; 502 and 504 otherwise.                            *)
Upstream(r) ==
  /\ flight[r].at = "upstream"
  /\ \/ \E t \in Callers : /\ localIp[t] = flight[r].address
                           /\ flight' = [flight EXCEPT ![r].at = "answered", ![r].from = t]
     \/ flight' = [flight EXCEPT ![r] = NoFlight]
  /\ OnlyFlight

Answer(r) ==
  /\ flight[r].at = "answered"
  /\ flight' = [flight EXCEPT ![r] = NoFlight]
  /\ OnlyFlight

ProxyNext ==
  \/ \E t \in Callers : \/ \E z \in ProxyZones : ProxyCreate(t, z)
                        \/ ProxyDelete(t)
  \/ \E r \in Flights : \/ \E t, slug \in Callers : Resolve(r, t, slug)
                        \/ Send(r) \/ Upstream(r) \/ Answer(r)
  \/ ProxyRestart
ProxySpec == ProxyInit /\ [][ProxyNext]_proxyVars

-------------------------------------------------------------------------------
(* Properties.                                                               *)

(* A request is answered by its caller's own container, with two exceptions. *)
(* Its caller asked for a create or a delete while it waited: then the       *)
(* Service was replaced or deleted, and another tenant's may have got the    *)
(* address.  Or the caller's instance is in the second zone: then the        *)
(* address is one of the other cluster, and in this one it may be another    *)
(* tenant's.  No other request, no failure and no cached address does it     *)
(* (proxy.py:63-118; k8s_manager.py:178, 296-302, 484-496, 518).             *)
AnsweredByOwn ==
  \A r \in Flights : flight[r].at = "answered" =>
    \/ flight[r].from = flight[r].caller
    \/ flight[r].interrupted \/ flight[r].remote

===============================================================================
