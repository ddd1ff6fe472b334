--------------------------- MODULE ShimRequestProofs ---------------------------
(***************************************************************************)
(* Theorems about what the nef-shim answers: a proxied request (ProxyRace) *)
(* and a status (PodStatus), for any tenants, addresses, requests in       *)
(* flight and number of events.                                            *)
(***************************************************************************)
EXTENDS ProxyRace, PodStatus, TLAPS

(* The piece of the handler that has another form is expanded everywhere.    *)
USE DEF OwnSlug

-------------------------------------------------------------------------------
(* The proxy.                                                                *)

FlightRecords == [at: Stages \cup {None}, caller: Callers \cup {None},
                  slug: Callers \cup {None}, address: Addresses \cup {None},
                  remote: BOOLEAN, interrupted: BOOLEAN, from: Callers \cup {None}]
ClusterAddresses == [Callers -> Addresses \cup {None}]
ProxyTypeOK ==
  /\ localIp \in ClusterAddresses /\ secondIp \in ClusterAddresses
  /\ zoneOf \in [Callers -> ProxyZones]
  /\ cachedIp \in ClusterAddresses
  /\ declared \in [Callers -> BOOLEAN]
  /\ flight \in [Flights -> FlightRecords]

(* Two Services of a cluster never have one address, and what is cached is   *)
(* the address of the present Service in the present zone.                   *)
Distinct(ips) == \A t, u \in Callers : t # u /\ ips[t] # None => ips[t] # ips[u]
AddressesOK ==
  /\ Distinct(localIp)
  /\ \A t \in Callers : cachedIp[t] # None => cachedIp[t] = ServiceIp(t)

(* A request under way is for its caller's slug and, until the caller asks   *)
(* for a create or delete, for the present local address of it.              *)
FlightsOK ==
  \A r \in Flights : flight[r].at # None =>
    /\ flight[r].caller \in Callers /\ flight[r].slug = flight[r].caller
    /\ ~flight[r].interrupted /\ ~flight[r].remote =>
         /\ flight[r].address # None
         /\ flight[r].address = localIp[flight[r].slug]

ProxyInv == ProxyTypeOK /\ AddressesOK /\ FlightsOK /\ AnsweredByOwn

LEMMA NoFlightType == NoFlight \in FlightRecords /\ NoFlight.at = None
  BY DEF NoFlight, FlightRecords

LEMMA ProxyInvInit == ProxyInit => ProxyInv
  BY ProxyNoneAssumption, NoFlightType
  DEF ProxyInit, ProxyInv, ProxyTypeOK, ClusterAddresses, AddressesOK, Distinct, FlightsOK,
      AnsweredByOwn, ServiceIp, ProxyZones, Stages

(* A create and a delete change the address of their own tenant only, and to *)
(* one that nobody else has.                                                 *)
OwnChange(ips, new, t) ==
  /\ new \in ClusterAddresses
  /\ \A u \in Callers \ {t} : new[u] = ips[u]
  /\ Distinct(ips) => Distinct(new)

LEMMA RecreatedOwn ==
  ASSUME NEW ips \in ClusterAddresses, NEW t \in Callers, NEW new \in Recreated(ips, t)
  PROVE  OwnChange(ips, new, t)
<1>1. PICK a \in {ips[t], None} \cup {b \in Addresses : Free(ips, t, b)} :
        new = [ips EXCEPT ![t] = a]
  BY DEF Recreated
<1>2. a \in Addresses \cup {None}
  BY <1>1 DEF ClusterAddresses
<1>3. Distinct(ips) => Distinct(new)
  <2>1. CASE a = ips[t]
    BY <1>1, <2>1 DEF Distinct, ClusterAddresses
  <2>2. CASE a = None
    BY <1>1, <2>2 DEF Distinct, ClusterAddresses
  <2>3. CASE a \in Addresses /\ Free(ips, t, a)
    BY <1>1, <2>3 DEF Distinct, Free, ClusterAddresses
  <2> QED
    BY <1>1, <2>1, <2>2, <2>3
<1> QED
  BY <1>1, <1>2, <1>3 DEF OwnChange, ClusterAddresses

LEMMA RemovedOwn ==
  ASSUME NEW ips \in ClusterAddresses, NEW t \in Callers, NEW new \in Removed(ips, t)
  PROVE  OwnChange(ips, new, t)
<1>1. CASE new = ips
  BY <1>1 DEF OwnChange
<1>2. CASE new = [ips EXCEPT ![t] = None]
  BY <1>2 DEF OwnChange, Distinct, ClusterAddresses
<1> QED
  BY <1>1, <1>2 DEF Removed

LEMMA SameOwn ==
  ASSUME NEW ips \in ClusterAddresses, NEW t PROVE OwnChange(ips, ips, t)
  BY DEF OwnChange

(* So they keep the invariant: the tenant's own requests are marked.         *)
LEMMA ManagementKeeps ==
  ASSUME ProxyInv, NEW t \in Callers, NEW z \in ProxyZones, Interrupts(t),
         OwnChange(localIp, localIp', t), OwnChange(secondIp, secondIp', t),
         zoneOf' = [zoneOf EXCEPT ![t] = z], cachedIp' = [cachedIp EXCEPT ![t] = None],
         declared' \in [Callers -> BOOLEAN]
  PROVE  ProxyInv'
<1> USE DEF ProxyInv
<1>1. ASSUME NEW r \in Flights
      PROVE  /\ flight[r] \in FlightRecords /\ flight'[r] \in FlightRecords
             /\ flight'[r].at = flight[r].at /\ flight'[r].caller = flight[r].caller
             /\ flight'[r].slug = flight[r].slug /\ flight'[r].address = flight[r].address
             /\ flight'[r].remote = flight[r].remote /\ flight'[r].from = flight[r].from
  <2>1. flight[r] \in FlightRecords
    BY DEF ProxyTypeOK
  <2>2. flight'[r] = flight[r] \/ flight'[r] = [flight[r] EXCEPT !.interrupted = TRUE]
    BY DEF Interrupts
  <2> QED
    BY <2>1, <2>2 DEF FlightRecords
<1>2. ASSUME NEW r \in Flights
      PROVE  /\ flight[r].slug = t => flight'[r].interrupted
             /\ flight[r].slug # t => flight'[r] = flight[r]
  <2>1. flight[r] \in FlightRecords
    BY DEF ProxyTypeOK
  <2> QED
    BY <2>1 DEF Interrupts, FlightRecords
<1>3. ProxyTypeOK'
  <2>1. flight' \in [Flights -> FlightRecords]
    BY <1>1 DEF Interrupts
  <2>2. zoneOf' \in [Callers -> ProxyZones] /\ cachedIp' \in ClusterAddresses
    BY DEF ProxyTypeOK, ClusterAddresses
  <2> QED
    BY <2>1, <2>2 DEF ProxyTypeOK, OwnChange
<1>4. AddressesOK'
  <2>1. ASSUME NEW u \in Callers, cachedIp'[u] # None PROVE cachedIp'[u] = ServiceIp(u)'
    <3>1. u # t /\ cachedIp'[u] = cachedIp[u] /\ zoneOf'[u] = zoneOf[u]
      BY <2>1 DEF ProxyTypeOK, ClusterAddresses
    <3>2. localIp'[u] = localIp[u] /\ secondIp'[u] = secondIp[u]
      BY <3>1 DEF OwnChange
    <3> QED
      BY <2>1, <3>1, <3>2 DEF AddressesOK, ServiceIp
  <2> QED
    BY <2>1 DEF AddressesOK, OwnChange
<1>5. FlightsOK'
  <2> SUFFICES ASSUME NEW r \in Flights, flight'[r].at # None
               PROVE  /\ flight'[r].caller \in Callers /\ flight'[r].slug = flight'[r].caller
                      /\ ~flight'[r].interrupted /\ ~flight'[r].remote =>
                           /\ flight'[r].address # None
                           /\ flight'[r].address = localIp'[flight'[r].slug]
    BY DEF FlightsOK
  <2>1. flight[r].caller \in Callers /\ flight[r].slug = flight[r].caller
    BY <1>1 DEF FlightsOK
  <2>2. CASE flight[r].slug = t
    BY <1>1, <1>2, <2>1, <2>2
  <2>3. CASE flight[r].slug # t
    <3>1. flight'[r] = flight[r] /\ localIp'[flight[r].slug] = localIp[flight[r].slug]
      BY <1>2, <2>1, <2>3 DEF OwnChange
    <3> QED
      BY <2>1, <3>1 DEF FlightsOK
  <2> QED
    BY <2>2, <2>3
<1>6. AnsweredByOwn'
  <2>1. ASSUME NEW r \in Flights, flight'[r].at = "answered"
        PROVE  \/ flight'[r].from = flight'[r].caller
               \/ flight'[r].interrupted \/ flight'[r].remote
    <3>1. CASE flight[r].slug = t
      BY <1>2, <3>1
    <3>2. CASE flight[r].slug # t
      BY <1>2, <2>1, <3>2 DEF AnsweredByOwn
    <3> QED
      BY <3>1, <3>2
  <2> QED
    BY <2>1 DEF AnsweredByOwn
<1> QED
  BY <1>3, <1>4, <1>5, <1>6

(* A step of one request, to the record x, keeps it when x fits.             *)
Fits(x) ==
  x.at # None =>
    /\ x.caller \in Callers /\ x.slug = x.caller
    /\ ~x.interrupted /\ ~x.remote => x.address # None /\ x.address = localIp[x.slug]
    /\ x.at = "answered" => x.from = x.caller \/ x.interrupted \/ x.remote

LEMMA FlightMoves ==
  ASSUME ProxyInv, NEW r \in Flights, NEW x \in FlightRecords, Fits(x),
         flight' = [flight EXCEPT ![r] = x], UNCHANGED <<localIp, secondIp, zoneOf, declared>>,
         cachedIp' \in ClusterAddresses,
         \A u \in Callers : cachedIp'[u] \in {cachedIp[u], ServiceIp(u)}
  PROVE  ProxyInv'
<1> USE DEF ProxyInv
<1>1. ProxyTypeOK'
  BY DEF ProxyTypeOK
<1>2. AddressesOK'
  BY DEF AddressesOK, ServiceIp
<1>3. \A q \in Flights : flight'[q] = IF q = r THEN x ELSE flight[q]
  BY DEF ProxyTypeOK
<1>4. FlightsOK'
  BY <1>3, ProxyNoneAssumption DEF FlightsOK, Fits
<1>5. AnsweredByOwn'
  BY <1>3, ProxyNoneAssumption DEF AnsweredByOwn, Fits, Stages
<1> QED
  BY <1>1, <1>2, <1>4, <1>5

LEMMA ProxyInvNext == ProxyInv /\ [ProxyNext]_proxyVars => ProxyInv'
<1> SUFFICES ASSUME ProxyInv, [ProxyNext]_proxyVars PROVE ProxyInv'
  OBVIOUS
<1>1. localIp \in ClusterAddresses /\ secondIp \in ClusterAddresses
  BY DEF ProxyInv, ProxyTypeOK
<1>2. ASSUME NEW t \in Callers, NEW z \in ProxyZones, ProxyCreate(t, z) PROVE ProxyInv'
  <2>1. OwnChange(localIp, localIp', t) /\ OwnChange(secondIp, secondIp', t)
    BY <1>1, <1>2, RecreatedOwn, SameOwn DEF ProxyCreate
  <2>2. declared' \in [Callers -> BOOLEAN]
    BY <1>2 DEF ProxyCreate, ProxyInv, ProxyTypeOK
  <2> QED
    BY <1>2, <2>1, <2>2, ManagementKeeps DEF ProxyCreate
<1>3. ASSUME NEW t \in Callers, ProxyDelete(t) PROVE ProxyInv'
  <2>1. OwnChange(localIp, localIp', t) /\ OwnChange(secondIp, secondIp', t)
    BY <1>1, <1>3, RemovedOwn, SameOwn DEF ProxyDelete
  <2>2. declared' \in [Callers -> BOOLEAN] /\ "local" \in ProxyZones
    BY <1>3 DEF ProxyDelete, ProxyInv, ProxyTypeOK, ProxyZones
  <2> QED
    BY <1>3, <2>1, <2>2, ManagementKeeps DEF ProxyDelete
<1>4. ASSUME NEW r \in Flights, NEW t \in Callers, NEW slug \in Callers, Resolve(r, t, slug)
      PROVE  ProxyInv'
  <2> DEFINE x == [at |-> "body", caller |-> t, slug |-> slug, address |-> AddressFor(slug),
                   remote |-> zoneOf[slug] = "second", interrupted |-> FALSE, from |-> None]
  <2>1. slug = t /\ AddressFor(slug) # None /\ AddressFor(slug) = ServiceIp(slug)
    BY <1>4 DEF Resolve, AddressFor, ProxyInv, AddressesOK
  <2>2. AddressFor(slug) \in Addresses \cup {None}
    BY <1>1, <2>1 DEF ServiceIp, ClusterAddresses
  <2>3. x \in FlightRecords
    BY <2>2 DEF FlightRecords, Stages
  <2>4. zoneOf[slug] # "second" => AddressFor(slug) = localIp[slug]
    BY <2>1 DEF ServiceIp, ProxyInv, ProxyTypeOK, ProxyZones
  <2>5. Fits(x)
    BY <2>1, <2>4 DEF Fits
  <2>6. /\ cachedIp' \in ClusterAddresses
        /\ \A u \in Callers : cachedIp'[u] \in {cachedIp[u], ServiceIp(u)}
    BY <1>4, <2>1, <2>2 DEF Resolve, ProxyInv, ProxyTypeOK, ClusterAddresses
  <2>7. flight' = [flight EXCEPT ![r] = x] /\ UNCHANGED <<localIp, secondIp, zoneOf, declared>>
    BY <1>4 DEF Resolve
  <2> HIDE DEF x
  <2> QED
    BY <2>3, <2>5, <2>6, <2>7, FlightMoves
<1>5. ASSUME NEW r \in Flights, NEW x \in FlightRecords, Fits(x), OnlyFlight,
             flight' = [flight EXCEPT ![r] = x]
      PROVE  ProxyInv'
  <2>1. cachedIp' \in ClusterAddresses /\ \A u \in Callers : cachedIp'[u] = cachedIp[u]
    BY <1>5 DEF OnlyFlight, ProxyInv, ProxyTypeOK
  <2> QED
    BY <1>5, <2>1, FlightMoves DEF OnlyFlight
<1>6. ASSUME NEW r \in Flights, flight[r].at # None
      PROVE  /\ flight[r] \in FlightRecords
             /\ flight[r].caller \in Callers /\ flight[r].slug = flight[r].caller
             /\ ~flight[r].interrupted /\ ~flight[r].remote =>
                  flight[r].address # None /\ flight[r].address = localIp[flight[r].slug]
  BY <1>6 DEF ProxyInv, ProxyTypeOK, FlightsOK
<1>7. ASSUME NEW r \in Flights, Send(r) PROVE ProxyInv'
  <2> DEFINE x == [flight[r] EXCEPT !.at = "upstream"]
  <2>1. flight[r].at = "body" /\ flight' = [flight EXCEPT ![r] = x] /\ OnlyFlight
    BY <1>7 DEF Send
  <2>2. flight[r].at # None
    BY <2>1, ProxyNoneAssumption DEF Stages
  <2>3. /\ x \in FlightRecords /\ x.at = "upstream" /\ x.caller = flight[r].caller
        /\ x.slug = flight[r].slug /\ x.address = flight[r].address
        /\ x.interrupted = flight[r].interrupted /\ x.remote = flight[r].remote
    BY <1>6, <2>2 DEF FlightRecords, Stages
  <2>4. Fits(x)
    BY <1>6, <2>2, <2>3 DEF Fits
  <2> HIDE DEF x
  <2> QED
    BY <1>5, <2>1, <2>3, <2>4
<1>8. ASSUME NEW r \in Flights, Upstream(r), NEW t \in Callers,
             localIp[t] = flight[r].address,
             flight' = [flight EXCEPT ![r].at = "answered", ![r].from = t]
      PROVE  ProxyInv'
  <2> DEFINE x == [flight[r] EXCEPT !.at = "answered", !.from = t]
  <2>1. flight[r].at = "upstream" /\ flight' = [flight EXCEPT ![r] = x] /\ OnlyFlight
    BY <1>8 DEF Upstream, ProxyInv, ProxyTypeOK, FlightRecords
  <2>2. flight[r].at # None
    BY <2>1, ProxyNoneAssumption DEF Stages
  <2>3. /\ x \in FlightRecords /\ x.caller = flight[r].caller /\ x.from = t
        /\ x.slug = flight[r].slug /\ x.address = flight[r].address
        /\ x.interrupted = flight[r].interrupted /\ x.remote = flight[r].remote
    BY <1>6, <2>2 DEF FlightRecords, Stages
  <2>4. ~flight[r].interrupted /\ ~flight[r].remote => flight[r].caller = t
    BY <1>6, <1>8, <2>2 DEF ProxyInv, AddressesOK, Distinct
  <2>5. Fits(x)
    BY <1>6, <2>2, <2>3, <2>4 DEF Fits
  <2> HIDE DEF x
  <2> QED
    BY <1>5, <2>1, <2>3, <2>5
<1>9. ASSUME NEW r \in Flights, OnlyFlight, flight' = [flight EXCEPT ![r] = NoFlight]
      PROVE  ProxyInv'
  BY <1>5, <1>9, NoFlightType DEF Fits
<1>10. CASE ProxyRestart
  <2>1. \A r \in Flights : flight'[r].at = None
    BY <1>10, NoFlightType DEF ProxyRestart
  <2>2. ProxyTypeOK'
    BY <1>1, <1>10, NoFlightType
    DEF ProxyRestart, ProxyTypeOK, ClusterAddresses, ProxyZones
  <2>3. AddressesOK'
    BY <1>10 DEF ProxyRestart, ProxyInv, AddressesOK, Distinct
  <2> QED
    BY <2>1, <2>2, <2>3, ProxyNoneAssumption DEF ProxyInv, FlightsOK, AnsweredByOwn, Stages
<1>11. CASE UNCHANGED proxyVars
  BY <1>11
  DEF proxyVars, ProxyInv, ProxyTypeOK, AddressesOK, Distinct, ServiceIp, FlightsOK, AnsweredByOwn
<1> QED
  BY <1>2, <1>3, <1>4, <1>7, <1>8, <1>9, <1>10, <1>11 DEF ProxyNext, Upstream, Answer

(* However creates, replacements, deletes, failures, restarts and the reuse  *)
(* of addresses fall between the awaits of a request, another tenant's       *)
(* container answers it only when its caller itself asked for a create or    *)
(* delete meanwhile, or has its instance in the second zone, whose address   *)
(* the shim uses in its own cluster (proxy.py:63-118; k8s_manager.py:178,    *)
(* 296-302, 484-496, 518).                                                   *)
THEOREM ProxiedToOwn == ProxySpec => []AnsweredByOwn
<1>1. ProxyInv => AnsweredByOwn
  BY DEF ProxyInv
<1> QED
  BY ProxyInvInit, ProxyInvNext, <1>1, PTL DEF ProxySpec

-------------------------------------------------------------------------------
(* The status.                                                               *)

Times == Nat \cup {None}
PodRecords == [phase: {"Pending", "Running", "Failed"}, createdAt: Nat, scheduledAt: Times,
               container: Containers, startedAt: Times, ready: BOOLEAN, readyAt: Times]

(* The stages, at time t, of a pod that nothing goes wrong with.             *)
JustCreated(p, t) == /\ p.phase = "Pending" /\ p.container = "none" /\ ~p.ready
                     /\ p.scheduledAt = None /\ p.createdAt \in 0 .. t
Assigned(p, t)    == /\ p.phase = "Pending" /\ p.container = "none" /\ ~p.ready
                     /\ p.scheduledAt \in 0 .. t
Creating(p, t)    == /\ p.phase = "Pending" /\ p.container = "creating" /\ ~p.ready
                     /\ p.scheduledAt \in 0 .. t
Running(p, t)     == /\ p.phase = "Running" /\ p.container = "running" /\ ~p.ready
                     /\ p.startedAt \in 0 .. t
Serving(p, t)     == /\ p.phase = "Running" /\ p.container = "running" /\ p.ready
                     /\ p.readyAt \in 0 .. t

Stage(p, t) == \/ JustCreated(p, t) \/ Assigned(p, t) \/ Creating(p, t)
               \/ Running(p, t) \/ Serving(p, t)

(* While everything goes well there is at most one pod, at one of the stages.*)
PodInv ==
  /\ now \in Nat /\ smooth \in BOOLEAN
  /\ smooth => \/ podList = <<>>
               \/ /\ DOMAIN podList = {1} /\ podList[1] \in PodRecords
                  /\ Stage(podList[1], now)

LEMMA PodInvInit == PodInit => PodInv
  BY DEF PodInit, PodInv

LEMMA Ranks ==
  /\ DOMAIN Rank = {"scheduling", "pulling", "starting", "running", "ready"}
  /\ Rank["scheduling"] = 1 /\ Rank["pulling"] = 2 /\ Rank["starting"] = 3
  /\ Rank["running"] = 4 /\ Rank["ready"] = 5
<1>1. /\ DOMAIN PHASE_ORDER = {1, 2, 3, 4, 5}
      /\ PHASE_ORDER[1] = "scheduling" /\ PHASE_ORDER[2] = "pulling"
      /\ PHASE_ORDER[3] = "starting" /\ PHASE_ORDER[4] = "running" /\ PHASE_ORDER[5] = "ready"
  BY DEF PHASE_ORDER
<1>2. ToSet(PHASE_ORDER) = {"scheduling", "pulling", "starting", "running", "ready"}
  BY <1>1 DEF ToSet
<1>3. ASSUME NEW r \in DOMAIN PHASE_ORDER
      PROVE  (CHOOSE n \in DOMAIN PHASE_ORDER : PHASE_ORDER[n] = PHASE_ORDER[r]) = r
  BY <1>1
<1>4. \A r \in DOMAIN PHASE_ORDER : Rank[PHASE_ORDER[r]] = r
  BY <1>1, <1>2, <1>3 DEF Rank
<1> QED
  BY <1>1, <1>2, <1>4 DEF Rank

(* From one stage of a pod to the next.                                      *)
Advances(p, t, q, u) ==
  \/ JustCreated(p, t) /\ Assigned(q, u) /\ q.scheduledAt = u
  \/ Assigned(p, t) /\ Creating(q, u) /\ q.scheduledAt = p.scheduledAt
  \/ Creating(p, t) /\ Running(q, u) /\ q.startedAt = u
  \/ Running(p, t) /\ Serving(q, u) /\ q.readyAt = u

(* Without trouble a pod goes from each stage to the next one.               *)
LEMMA PodAdvances ==
  ASSUME PodInv, smooth', NEW i \in DOMAIN podList, PodMoves(i)
  PROVE  /\ podList # <<>> /\ now' = now + 1
         /\ podList[1] \in PodRecords /\ Stage(podList[1], now)
         /\ DOMAIN podList' = {1} /\ podList'[1] \in PodRecords
         /\ Advances(podList[1], now, podList'[1], now')
<1>1. ASSUME NEW pod, NEW fine, Changes(i, pod, fine)
      PROVE  /\ fine /\ i = 1 /\ podList # <<>> /\ now' = now + 1 /\ now' \in Nat
             /\ podList[1] \in PodRecords /\ Stage(podList[1], now)
             /\ DOMAIN podList' = {1} /\ podList'[1] = pod
  <2>1. smooth /\ fine
    <3>1. smooth' = (smooth /\ fine)
      BY <1>1 DEF Changes
    <3> QED
      BY <3>1, Zenon
  <2>3. now' = now + 1 /\ now' \in Nat
    BY <1>1 DEF Changes, Tick, PodInv
  <2>2. /\ DOMAIN podList = {1} /\ podList # <<>>
        /\ podList[1] \in PodRecords /\ Stage(podList[1], now)
    BY <2>1 DEF PodInv
  <2> QED
    BY <1>1, <2>1, <2>2, <2>3 DEF Changes
<1>2. ASSUME NEW t, t \in 0 .. now PROVE t \in Nat /\ t # None /\ t \in Times
  BY <1>2, NoTimeAssumption DEF PodInv, Times
<1>3. CASE Scheduled(i)
  <2> DEFINE pod == [podList[1] EXCEPT !.scheduledAt = now']
  <2>1. Changes(1, pod, TRUE) /\ podList[1].scheduledAt = None /\ i = 1
    BY <1>1, <1>3 DEF Scheduled
  <2>2. JustCreated(podList[1], now)
    BY <1>1, <1>2, <1>3, <2>1 DEF Scheduled, Stage, Assigned, Creating, Running, Serving
  <2>3. /\ pod \in PodRecords /\ pod.phase = podList[1].phase
        /\ pod.container = podList[1].container /\ pod.ready = podList[1].ready
        /\ pod.scheduledAt = now'
    BY <1>1, <2>1 DEF PodRecords, Times
  <2>4. now \in Nat /\ now' = now + 1
    BY <1>1, <2>1 DEF PodInv
  <2>5. pod.scheduledAt \in 0 .. now'
    BY <2>2, <2>3, <2>4
  <2>6. Assigned(pod, now')
    BY <2>2, <2>3, <2>5, Zenon DEF JustCreated, Assigned
  <2> HIDE DEF pod
  <2>7. podList'[1] = pod /\ DOMAIN podList' = {1}
    BY <1>1, <2>1
  <2> QED
    BY <1>1, <2>1, <2>2, <2>3, <2>6, <2>7 DEF Advances
<1>4. CASE Pulls(i)
  <2> DEFINE pod == [podList[1] EXCEPT !.container = "creating"]
  <2>1. /\ Changes(1, pod, TRUE) /\ i = 1 /\ podList[1].scheduledAt # None
        /\ podList[1].phase = "Pending" /\ podList[1].container \in {"none", "pull error"}
    BY <1>1, <1>4 DEF Pulls
  <2>2. Assigned(podList[1], now)
    BY <1>1, <2>1 DEF Stage, JustCreated, Assigned, Creating, Running, Serving
  <2>3. /\ pod \in PodRecords /\ pod.phase = podList[1].phase
        /\ pod.container = "creating" /\ pod.ready = podList[1].ready
        /\ pod.scheduledAt = podList[1].scheduledAt
    BY <1>1, <2>1 DEF PodRecords, Containers
  <2>4. now \in Nat /\ now' = now + 1
    BY <1>1, <2>1 DEF PodInv
  <2>5. pod.scheduledAt \in 0 .. now'
    BY <2>2, <2>3, <2>4 DEF Assigned
  <2>6. Creating(pod, now')
    BY <2>2, <2>3, <2>5, Zenon DEF Assigned, Creating
  <2> HIDE DEF pod
  <2>7. podList'[1] = pod /\ DOMAIN podList' = {1}
    BY <1>1, <2>1
  <2> QED
    BY <1>1, <2>1, <2>2, <2>3, <2>6, <2>7 DEF Advances
<1>5. CASE Starts(i)
  <2> DEFINE pod == [podList[1] EXCEPT !.container = "running", !.startedAt = now',
                                       !.phase = "Running"]
  <2>1. /\ Changes(1, pod, TRUE) /\ i = 1
        /\ podList[1].container \in {"creating", "terminated", "crash loop"}
    BY <1>1, <1>5 DEF Starts
  <2>2. Creating(podList[1], now)
    BY <1>1, <2>1 DEF Stage, JustCreated, Assigned, Creating, Running, Serving
  <2>3. /\ pod \in PodRecords /\ pod.phase = "Running" /\ pod.container = "running"
        /\ pod.ready = podList[1].ready /\ pod.startedAt = now'
    BY <1>1, <2>1 DEF PodRecords, Containers, Times
  <2>4. now \in Nat /\ now' = now + 1
    BY <1>1, <2>1 DEF PodInv
  <2>5. pod.startedAt \in 0 .. now'
    BY <2>2, <2>3, <2>4
  <2>6. Running(pod, now')
    BY <2>2, <2>3, <2>5, Zenon DEF Creating, Running
  <2> HIDE DEF pod
  <2>7. podList'[1] = pod /\ DOMAIN podList' = {1}
    BY <1>1, <2>1
  <2> QED
    BY <1>1, <2>1, <2>2, <2>3, <2>6, <2>7 DEF Advances
<1>6. CASE Probed(i)
  <2> DEFINE pod == [podList[1] EXCEPT !.ready = TRUE, !.readyAt = now']
  <2>1. Changes(1, pod, TRUE) /\ i = 1 /\ podList[1].container = "running" /\ ~podList[1].ready
    BY <1>1, <1>6 DEF Probed
  <2>2. Running(podList[1], now)
    BY <1>1, <2>1 DEF Stage, JustCreated, Assigned, Creating, Running, Serving
  <2>3. /\ pod \in PodRecords /\ pod.phase = podList[1].phase
        /\ pod.container = podList[1].container /\ pod.ready = TRUE /\ pod.readyAt = now'
    BY <1>1, <2>1 DEF PodRecords, Times
  <2>4. now \in Nat /\ now' = now + 1
    BY <1>1, <2>1 DEF PodInv
  <2>5. pod.readyAt \in 0 .. now'
    BY <2>2, <2>3, <2>4
  <2>6. Serving(pod, now')
    BY <2>2, <2>3, <2>5, Zenon DEF Running, Serving
  <2> HIDE DEF pod
  <2>7. podList'[1] = pod /\ DOMAIN podList' = {1}
    BY <1>1, <2>1
  <2> QED
    BY <1>1, <2>1, <2>2, <2>3, <2>6, <2>7 DEF Advances
<1>7. ~Crashes(i) /\ ~Evicted(i)
  BY <1>1 DEF Crashes, Evicted
<1> QED
  BY <1>3, <1>4, <1>5, <1>6, <1>7 DEF PodMoves

(* The first pod is the only one that is created while everything goes well. *)
LEMMA FirstPod ==
  ASSUME PodInv, smooth', PodCreated
  PROVE  /\ podList = <<>> /\ now' \in Nat
         /\ DOMAIN podList' = {1} /\ podList'[1] \in PodRecords
         /\ JustCreated(podList'[1], now')
<1>1. podList = <<>> /\ podList' = <<NewPod>> /\ now' \in Nat
  BY DEF PodCreated, Tick, PodInv
<1>2. NewPod \in PodRecords /\ JustCreated(NewPod, now')
  BY <1>1 DEF NewPod, PodRecords, Containers, Times, JustCreated
<1>3. DOMAIN podList' = {1} /\ podList'[1] = NewPod
  BY <1>1
<1> QED
  BY <1>1, <1>2, <1>3

LEMMA PodInvNext == PodInv /\ [PodNext]_podVars => PodInv'
<1> SUFFICES ASSUME PodInv, [PodNext]_podVars PROVE PodInv'
  OBVIOUS
<1>1. CASE UNCHANGED podVars
  BY <1>1 DEF podVars, PodInv
<1>2. CASE PodNext
  <2>1. now' \in Nat /\ smooth' \in BOOLEAN
    <3>1. ASSUME NEW i, NEW pod, NEW fine, Changes(i, pod, fine)
          PROVE  now' \in Nat /\ smooth' \in BOOLEAN
      <4>1. now' \in Nat
        BY <3>1 DEF Changes, Tick, PodInv
      <4>2. smooth' = (smooth /\ fine)
        BY <3>1 DEF Changes
      <4> QED
        BY <4>1, <4>2, Zenon
    <3>2. ASSUME NEW i, PodMoves(i) PROVE now' \in Nat /\ smooth' \in BOOLEAN
      BY <3>1, <3>2 DEF PodMoves, Scheduled, Pulls, Starts, Probed, Crashes, Evicted
    <3>3. CASE PodCreated \/ PodRemoved
      <4>1. now' \in Nat
        BY <3>3 DEF PodCreated, PodRemoved, Tick, PodInv
      <4>2. smooth' = smooth \/ smooth' = FALSE
        BY <3>3 DEF PodCreated, PodRemoved
      <4> QED
        BY <4>1, <4>2 DEF PodInv
    <3> QED
      BY <1>2, <3>2, <3>3 DEF PodNext
  <2>2. ASSUME smooth'
        PROVE  /\ DOMAIN podList' = {1} /\ podList'[1] \in PodRecords
               /\ Stage(podList'[1], now')
    <3>1. CASE PodCreated
      BY <2>2, <3>1, FirstPod DEF Stage
    <3>2. ASSUME NEW i \in DOMAIN podList, PodMoves(i)
          PROVE  /\ DOMAIN podList' = {1} /\ podList'[1] \in PodRecords
                 /\ Stage(podList'[1], now')
      BY <2>2, <3>2, PodAdvances DEF Advances, Stage
    <3> QED
      BY <1>2, <2>2, <3>1, <3>2 DEF PodNext, PodRemoved
  <2> QED
    BY <2>1, <2>2 DEF PodInv
<1> QED
  BY <1>1, <1>2

(* What the status shows of each stage.                                      *)
StagesShown ==
  podList # <<>> /\ now \in Nat =>
    /\ JustCreated(podList[1], now)
         => Phase = "scheduling" /\ PhaseStartedAt = podList[1].createdAt
    /\ Assigned(podList[1], now)
         => Phase = "pulling" /\ PhaseStartedAt = podList[1].scheduledAt
    /\ Creating(podList[1], now)
         => Phase = "starting" /\ PhaseStartedAt = podList[1].scheduledAt
    /\ Running(podList[1], now)
         => Phase = "running" /\ PhaseStartedAt = podList[1].startedAt
    /\ Serving(podList[1], now)
         => Phase = "ready" /\ PhaseStartedAt = podList[1].readyAt

LEMMA Shows == StagesShown
<1> SUFFICES ASSUME podList # <<>>, now \in Nat PROVE StagesShown
  BY DEF StagesShown
<1>1. ASSUME NEW t, t \in 0 .. now PROVE t # None
  BY <1>1, NoTimeAssumption
<1>2. ASSUME JustCreated(podList[1], now)
      PROVE  Phase = "scheduling" /\ PhaseStartedAt = podList[1].createdAt
  BY <1>2 DEF JustCreated, Phase, PhaseStartedAt, TimeOf, HasPod, Pod, PodPhase
<1>3. ASSUME Assigned(podList[1], now)
      PROVE  Phase = "pulling" /\ PhaseStartedAt = podList[1].scheduledAt
  BY <1>1, <1>3 DEF Assigned, Phase, PhaseStartedAt, TimeOf, HasPod, Pod, PodPhase
<1>4. ASSUME Creating(podList[1], now)
      PROVE  Phase = "starting" /\ PhaseStartedAt = podList[1].scheduledAt
  BY <1>1, <1>4 DEF Creating, Phase, PhaseStartedAt, TimeOf, HasPod, Pod, WaitingPhase
<1>5. ASSUME Running(podList[1], now)
      PROVE  Phase = "running" /\ PhaseStartedAt = podList[1].startedAt
  BY <1>1, <1>5 DEF Running, Phase, PhaseStartedAt, TimeOf, HasPod, Pod
<1>6. ASSUME Serving(podList[1], now)
      PROVE  Phase = "ready" /\ PhaseStartedAt = podList[1].readyAt
  BY <1>1, <1>6 DEF Serving, Phase, PhaseStartedAt, TimeOf, HasPod, Pod
<1> QED
  BY <1>2, <1>3, <1>4, <1>5, <1>6 DEF StagesShown

(* A step that nothing goes wrong in shows the next phase: since now, or     *)
(* since when the last one was shown.                                        *)
LEMMA StatusAdvances ==
  ASSUME PodInv, PodNext, smooth'
  PROVE  /\ Phase' \in DOMAIN Rank
         /\ HasPod => /\ Rank[Phase'] >= Rank[Phase]
                      /\ PhaseStartedAt' \in PhaseStartedAt .. now'
<1>1. CASE PodCreated
  <2>1. /\ podList = <<>> /\ podList' # <<>> /\ now' \in Nat
        /\ JustCreated(podList'[1], now')
    BY <1>1, FirstPod
  <2>2. Phase' = "scheduling"
    BY <2>1 DEF JustCreated, Phase, HasPod, Pod, PodPhase
  <2> QED
    BY <2>1, <2>2, Ranks DEF HasPod
<1>2. ASSUME NEW i \in DOMAIN podList, PodMoves(i)
      PROVE  /\ Phase' \in DOMAIN Rank
             /\ HasPod => /\ Rank[Phase'] >= Rank[Phase]
                          /\ PhaseStartedAt' \in PhaseStartedAt .. now'
  <2>1. /\ podList # <<>> /\ podList' # <<>> /\ now \in Nat /\ now' = now + 1
        /\ Stage(podList[1], now) /\ Advances(podList[1], now, podList'[1], now')
    BY <1>2, PodAdvances DEF PodInv
  <2>2. StagesShown /\ StagesShown'
    BY Shows, PTL
  <2>3. CASE JustCreated(podList[1], now) /\ Assigned(podList'[1], now')
             /\ podList'[1].scheduledAt = now'
    <3>1. /\ Phase = "scheduling" /\ PhaseStartedAt = podList[1].createdAt
          /\ Phase' = "pulling" /\ PhaseStartedAt' = now'
      BY <2>1, <2>2, <2>3 DEF StagesShown
    <3> QED
      BY <2>1, <2>3, <3>1, Ranks DEF JustCreated
  <2>4. CASE Assigned(podList[1], now) /\ Creating(podList'[1], now')
             /\ podList'[1].scheduledAt = podList[1].scheduledAt
    <3>1. /\ Phase = "pulling" /\ PhaseStartedAt = podList[1].scheduledAt
          /\ Phase' = "starting" /\ PhaseStartedAt' = podList[1].scheduledAt
      BY <2>1, <2>2, <2>4 DEF StagesShown
    <3> QED
      BY <2>1, <2>4, <3>1, Ranks DEF Assigned
  <2>5. CASE Creating(podList[1], now) /\ Running(podList'[1], now')
             /\ podList'[1].startedAt = now'
    <3>1. /\ Phase = "starting" /\ PhaseStartedAt = podList[1].scheduledAt
          /\ Phase' = "running" /\ PhaseStartedAt' = now'
      BY <2>1, <2>2, <2>5 DEF StagesShown
    <3> QED
      BY <2>1, <2>5, <3>1, Ranks DEF Creating
  <2>6. CASE Running(podList[1], now) /\ Serving(podList'[1], now')
             /\ podList'[1].readyAt = now'
    <3>1. /\ Phase = "running" /\ PhaseStartedAt = podList[1].startedAt
          /\ Phase' = "ready" /\ PhaseStartedAt' = now'
      BY <2>1, <2>2, <2>6 DEF StagesShown
    <3> QED
      BY <2>1, <2>6, <3>1, Ranks DEF Running
  <2> QED
    BY <2>1, <2>3, <2>4, <2>5, <2>6 DEF Advances
<1> QED
  BY <1>1, <1>2 DEF PodNext, PodRemoved

(* While no pull failed, nothing crashed, no probe failed and no pod went,   *)
(* the phases that a client sees never go back, and it never sees "failed":  *)
(* a progress bar advances (k8s_manager.py:324, 411-468, gui.py:484-508).    *)
THEOREM StatusPhases == PodSpec => PhasesAdvance
<1>1. PodInv /\ [PodNext]_podVars =>
        [smooth' => Phase' \in DOMAIN Rank /\ (HasPod => Rank[Phase'] >= Rank[Phase])]_podVars
  BY StatusAdvances
<1> QED
  BY PodInvInit, PodInvNext, <1>1, PTL DEF PodSpec, PhasesAdvance

(* Nor does the time since when the phase lasts: the status of a healthy     *)
(* pod dates each phase between the one before and now                       *)
(* (k8s_manager.py:399-462).                                                 *)
THEOREM StatusClock == PodSpec => ClockAdvances
<1>1. PodInv /\ [PodNext]_podVars =>
        [smooth' /\ HasPod => PhaseStartedAt' \in PhaseStartedAt .. now']_podVars
  BY StatusAdvances
<1> QED
  BY PodInvInit, PodInvNext, <1>1, PTL DEF PodSpec, ClockAdvances

===============================================================================
