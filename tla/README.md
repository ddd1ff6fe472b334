# A verification project for 5glab

TLA+ models, model-checking runs and machine-checked proofs for the CAMARA edge
platform of this repository. The models are translated from the source under
`src/`; where a document and the code disagree, the code is modelled and the
disagreement is listed under *Findings*.

## 1. The system

5glab lets a device behind a 5G core run its own container at the edge. A
tenant is a source IP address. It registers an app manifest with the *nef-shim*
(a FastAPI service), asks for an instance of it on one of two zones, polls until
the pod is ready, discovers one URL per port, talks to the pod over them, and
deletes the instance. The applications (EdgeVision, edge-demo, benchmark) are
clients of that API; the EdgeVision container holds a sidecar in front of a
Triton server. Beside it stand a Compute API that runs batch jobs, and a TCP
benchmark of the core network.

### Components

| Component | State it keeps | Operations | Hard behaviour | What makes it correct | Module |
|---|---|---|---|---|---|
| nef-shim, app and instance lifecycle (`app_management.py`, `k8s_manager.py`) | `_apps`, `_instances`; per tenant slug `_tenant_zone`, `_tenant_manifest`, `_cluster_ip_cache`; the Deployment and Service named `<slug>-app` in two clusters | register, create, poll, delete | all instances of a tenant share one slug; replacement on 409 in several calls; Foreground deletion takes time; any call may fail half-way; restarts forget all ids | what a successful create delivered stays; the cache is never stale; other tenants are not touched; retries get through | `NefShim` |
| nef-shim, endpoint discovery (`endpoint_discovery.py`) | none (reads the stores and the Service) | `GET /endpoints` | trusts the status of an earlier poll | every declared port has a URL, on the right zone's host | `NefShim` |
| nef-shim, reverse proxy (`proxy.py`) | the ClusterIP cache; a request in flight across two awaits | `ANY /proxy/...` | the address is resolved before the awaits and used after | requests reach their own tenant's Service | `NefShim`, `ProxyRace` |
| nef-shim, pod status (`k8s_manager.py` 337-470) | none: derived on every poll | phase and its start | phases inferred from kubelet reasons in a fixed order of tests | phase and clock never go back while nothing goes wrong; ready only when the pod is ready | `PodStatus` |
| tenancy (`tenant.py`) | none | source IP to slug | 32-bit hash | isolation | `NefShim` (constant) |
| zone discovery, configuration (`discovery.py`, `config.py`) | none | constant answers | none | none | - |
| EdgeVision GUI (`gui.py`) | mode, endpoint, instance id, zone picker, flags, without a lock | mode switches, zone picker, setup, teardown, capture | window, capture, setup and discovery threads | no instance is lost; the E key works; the picker does not divide by zero | `GuiEdge` |
| remote detector (`detector_remote.py`) | cached gRPC channel and stub | detect, reset | stub cached without its target; used and reset by two threads | a failure does not outlive its cause; the transport is the endpoint's | `RemoteDetector` |
| EdgeVision headless client (`main.py`, `camara.py`), edge-demo, `bench.py`, `scripts/benchmark.py` | instance id, a shutdown flag | set up, work, tear down | exceptions and signals anywhere | the instance is deleted again; the program ends | `EdgeLifecycle`, `OneInstanceClient` |
| latency collector | deque, stop event, file | record, flush, stop | writer thread against recorder, end of the process | every sample written once, in order | `LatencyCollector` |
| modem poller | token, last sample | log in, poll | 401 and outages during a poll | fresh data again and again | `ModemPoller` |
| camera API | file list, round-robin index | next image | the directory changes | each image in turn | `CameraApi` |
| inference sidecars (`triton-infer/sidecar`, `infer-sidecar`, `triton-infer-cpu`, `k8s`) | shared-memory regions, or private tensors | HTTP and gRPC inference, suppression, masks | four workers and an event loop, no lock | each client gets its own detections; none overlap | `InferenceService`, `Sidecar`, `Detections` |
| container start-up (`entrypoint.sh`, `export_model.py`) | engine files, Triton, sidecar | build, start, wait | killed anywhere, restarted by the kubelet | the sidecar only comes up behind a working Triton; the container comes up at last | `InferContainer` |
| Compute API (`camara-deploy.yaml`), its demo (`camara-demo.py`) | `jobs_store`; one poll task per job | create, poll, get | retried runs, pods that vanish, restarts | each job ends, with its own result | `ComputeJobs` |
| benchmark client and server | a TCP stream each way | length-prefixed frames | partial reads | answers match requests | `BenchmarkStream` |
| local detectors, display, analysis, provisioning, monitoring, 5G core, slides | - | - | - | not modelled, see section 8 | - |

### How they interact

Clients call the shim over HTTP. The shim calls the two Kubernetes API servers,
blocking, from its one event loop: a handler without an `await` (all handlers of
`app_management.py` and `endpoint_discovery.py`) runs to its end before another
starts, while the *clusters* go on between any two of its calls. Only the proxy
awaits. Data traffic goes straight from client to pod, through NodePorts.

Inside the GUI four kinds of threads share one object's fields without a lock,
and the capture and window threads share the remote detector's module globals.
Inside the EdgeVision container the sidecar's threads share memory regions with
Triton. The Compute API's handlers and poll tasks share one event loop and a
dictionary. These groups interact with each other only by requests, and each is
modelled with the others reduced to what a request can bring back.

## 2. Modules

| Module | What it models |
|---|---|
| `Kubernetes` | External. The Deployment, pod and Service per cluster and slug: the effect of each API call, and what controllers do by themselves |
| `NefShim` | The shim over two clusters: every handler, call by call, with failures and restarts |
| `OneInstanceClient` | `NefShim` driven by the discipline of the repository's own clients: one instance at a time |
| `ProxyRace` | Proxied requests in flight over their two awaits, against creates and deletes of every tenant |
| `PodStatus` | Phase and `phaseStartedAt` of a status, over everything that can happen to the pods with the tenant's label |
| `GuiEdge` | The threads of the GUI over the object's fields, statement by statement |
| `RemoteDetector` | The cached channel and stub under the capture thread, the T key, zone switches and the HTTP fallback |
| `InferenceService` | Abstract: what an inference server promises, whatever its threads and buffers |
| `Sidecar` | The four inference servers; implements `InferenceService` |
| `Detections` | Threshold, non-maximum suppression and mask crop |
| `InferContainer` | From the first engine build to a sidecar that answers, with kills and restarts |
| `EdgeLifecycle` | Four programs that run an instance without a window, with failures and signals |
| `LatencyCollector`, `ModemPoller`, `CameraApi`, `BenchmarkStream` | The parts of these names |
| `ComputeJobs` | The Compute API, the Job controller and the demo client |
| `Absent` | The value for Python's `None`, shared by modules that are checked side by side |
| `MCNefShim`, `MCOneInstanceClient`, `MCGuiEdge` | Constants of the small instances |
| `MCRequestParts`, `MCFairParts` | Several state machines checked in one run (see section 4) |
| `NefShimProofs`, `OneInstanceProofs`, `ShimRequestProofs`, `GuiEdgeProofs`, `RemoteDetectorProofs`, `SidecarProofs`, `ClientProofs`, `ServiceProofs` | Theorems, for all constants (section 6) |

### `NefShim`: state

`apps`, `instances`, `tenantZone`, `tenantManifest` and `clusterIpCache` are the
five dictionaries of the code, with `None` for an absent key. `deployment`,
`pod` and `service` are functions of `<<cluster, slug>>`. `handler` is the
handler in progress: its step (the next Kubernetes call), and the local
variables it still needs. `latest` is a history variable: for each slug, the
instance of the last create if that succeeded and nothing (create, delete,
restart) has come after it. No action reads it.

### `NefShim`: actions

| Action | Code |
|---|---|
| `RegisterApp` | `app_management.register_app` |
| `CreateInstance` | `app_management.create_instance` to the first Kubernetes call, with `k8s_manager.create_instance`'s three writes |
| `CreateDeployment`, `ReplaceDeployment`, `RecreateDeployment` | `_create_deployment`: create; on 409 delete; create again |
| `CreateService`, `ReplaceService`, `RecreateService` | `_create_service`, likewise; skipped when no port is declared |
| `RecordInstance` | the write to `_instances` and the answer |
| `GetInstance` | `app_management.get_instance` with `get_instance_status_detail` |
| `DeleteInstance`, `RemoveDeployment`, `RemoveService`, `ForgetInstance` | `app_management.delete_instance` with `k8s_manager.delete_instance` |
| `ProxyRequest` | the resolution in `proxy.proxy_request` and `get_service_cluster_ip`, which fills the cache |
| `Restart` | the process ends at any point and starts with empty stores |
| `ClusterMoves` | a pod starts, changes or ends; a marked Deployment goes |

A handler that answers an error before changing anything (400, 403, 404, 409,
422) is no action: it would be a stutter. A Kubernetes call that raises ends the
handler, with the stores as they are at that point. `Endpoints(s, read)` is what
`GET /endpoints` answers: the host, the declared interfaces that get a url and those
listed with an empty one. The request changes nothing, so it is an operator and no
action. `read` is FALSE when the API server fails to read the Service: the shim then
answers 200 with every url empty (`k8s_manager.py:505-506`). `InterfacesOf` may hold
more than `PortsOf`: an interface without a port number gets no Service port, and is
listed all the same. A manifest without any port skips the Service and leaves an
earlier one in place (`k8s_manager.py:275-278`); of such a manifest
`EndpointsComplete` says only that all interfaces are listed.

Failures are of two kinds, both switched by `Faults`. `"api"`: the server answers
with an error other than 404 and 409, and has done nothing. `"net"`: the
connection fails, and the call may have been done or not. In a delete, `"api"`
failures are logged and passed over, as the code does; `"net"` failures are not
an `ApiException` and end the handler.

In all modules, operators in pairs (`DropsCachedIp` and `KeepsCachedIp`, `Owns` and `Exists`,
`InForeground` and `InBackground`, ...) put what the code does beside what a
plausible bug would make of it. No action uses the second one. Putting it in the
place of the first makes TLC find the violation named under *mutants* in
`PROJECT.json`, which is how each property was shown to depend on the code.

### The other modules: state and actions

Every definition is listed with its lines under *map* in `PROJECT.json`.

**`GuiEdge`** (`gui.py`). `self` is the object: mode, transport, the kept
instance and zone, the endpoint in use and the two urls it is chosen from, the
in-progress flag, and the picker. Each of `ui`, `discovery[d]`, `setup[s]` and
`capture` is where a thread is. An action ends at each write of a field another
thread reads, so `_confirm_zone_picker` is three actions (picker, mode, flag and
thread start), `_setup_edge` twenty steps with its fast path, its cancelled
return and its `except`, `_toggle_transport` two, the capture loop's test and
use of the endpoint two. The edge is the set `records` of the instances that the
shim has a record of; objects that a failed create left in a cluster without a record
are `NefShim`'s matter. A create may fail before anything is recorded, or after: its
answer is lost or comes after the client's 30 seconds (`camara.py:133`), and `gui.py`
forgets an instance that exists. The model lets that instance appear at the moment the
request fails; the shim may record it a little later, which no thread of the GUI can
tell. Three history variables carry excuses: `stranded` (an instance whose termination
failed or whose create was never answered), `overlapped` (a zone confirmed during a
setup), `hasty` (a key pressed before what the last one started had ended).

**`RemoteDetector`** (`detector_remote.py`, `gui.py` 77-85 and 308-339). The
globals `_channel` and `_stub` with the target of each channel; `_get_stub` in
its five statements, `_reset_channel` in its three, by either thread; attempts
with the stub that was fetched before the retries; the fallback. Servers are
numbered; a zone switch replaces one by the next, and the old one stops sooner
or later. `imported` is the transport as it was when the module was loaded.

**`Sidecar`** (four `main.py`). `region` says which image each shared region was
last written from. A handler goes through preprocess, inference, reading of
boxes, reading of masks (the arrays are *views*, so they are read when the
postprocessing gets there) and reply. `server` chooses the program: which
handlers share the event loop, whether it awaits Triton, whether tensors are
private. One gRPC worker and two loop handlers stand for the pool of four: any
race of two workers is also one of a worker and the loop.
`k8s/infer_sidecar_main.py` behaves as a restriction of these: its loop never
awaits, and its tensors are its own. **`Detections`** takes what the model may
find (`Postprocess`), keeps the best of the remaining candidates and drops those
near it, one `Keep` at a time, as `_nms` does; the crop is arithmetic on whole
pixels, with Python's `int()` and slices.

**`EdgeLifecycle`**. `stage` is the next request of whichever `program` runs; each
may answer, raise or have its answer lost. `Protected` says which stages the
program's `finally` covers. `excuse` records why an instance may be left.

**`ComputeJobs`** (`camara-deploy.yaml`, `camara-demo.py`). `job` and `pods` are
Kubernetes' view; `store` the API's; `polls` its task; `client` the demo. The
first pod of a list is any of them. Polls that raise count as polls. A create that
fails may have made the Job all the same, which then runs with no record.

**`InferContainer`**. `container` is the line of `entrypoint.sh`, `plan` each
engine file (its directory only, partly written, complete); a build may fail at each. `keepsModels` is
whether `MODEL_DIR` outlives the container. A kill may hit the container or
Triton alone, `MaxKills` times.

**`LatencyCollector`**: the deque, the writer's batch and file, `stop()` with its
timed join, and the exit that ends the daemons. **`ModemPoller`**: the login, the
request, the second login after a 401, against a modem with outages and sessions.
**`CameraApi`**: the listing, the index, and a directory that changes.
**`BenchmarkStream`**: both byte streams, delivered in pieces of any length.
**`PodStatus`**: up to two pods in list order, with the times Kubernetes sets;
`Phase` and `PhaseStartedAt` are what the poll answers.

**`ProxyRace`** (`proxy.py`). Each request is three steps, between which the handlers of
any tenant run. Each create, delete or restart is one step, since those handlers do
not await. A create leaves the tenant's Service in its zone as it was (it failed
before, or the manifest has no port), none at all (it failed between the delete of a
409 and the second create) or a new one, at any address that nobody else has: so a
replacement frees an address while a request holds it. Each cluster hands out addresses
of its own, and they may be equal. The shim reads the ClusterIP of the *tenant's* zone
(`k8s_manager.py:484-496`) and connects from the *local* cluster: an address of the
second cluster (`remote`) reaches whoever has it here, or nobody.

## 3. Properties

| Property | Says | Kind |
|---|---|---|
| `TypeOK` | the stores hold what their readers expect | invariant |
| `CacheCoherent` | a cached ClusterIP is that of the slug's present Service in its present zone | invariant |
| `LatestDeployed` | after a create that answered 200, until the slug's next create or delete, the record's zone runs a live Deployment of the record's manifest and a Service with exactly its ports | invariant |
| `EndpointsComplete` | for such an instance, discovery lists every declared interface on the host of the record's zone, with a url for exactly the numbered ones, and with empty urls only when the Service could not be read | invariant |
| `OnlyOwnerTouches` | objects are created, marked or replaced, and records dropped, only by a handler of their own tenant | action |
| `ReadyIsOwnPod` | a poll of such an instance says ready only if the pod of its own manifest is ready | action |
| `NoOrphans` | a one-instance client has nothing running that its record (in the zone its delete will look in) or handler does not account for, unless it has stood there since a call on it failed or the shim restarted | invariant |
| `RetrySucceeds` | a one-instance client that keeps asking gets an instance | liveness |
| `AnsweredByOwn` | a proxied request is answered by its caller's container, unless the caller asked for a create or delete meanwhile, or has its instance in the second zone | invariant |
| `PhasesAdvance`, `ClockAdvances` | while no pull, container or probe fails and no pod goes, neither the phase nor the time since when it lasts goes back, and "failed" is not seen | action |
| `NothingLeaked` | a GUI user who waits for what she started leaves no instance behind but one whose termination failed or whose create was never answered | invariant |
| `ArrowsWork` | nor does the picker's arithmetic divide by zero for her | invariant |
| `OnlyOverlapHurts` | whatever the user does, an instance that was answered and did not fail to terminate is lost, or the E key disabled for good, only after a zone was confirmed during a setup | invariant |
| `SetupEnds` | every setup lowers the in-progress flag again | liveness |
| `FailsForAReason` | a call gives up only over a lost attempt, a server that is gone or speaks another protocol, or the T key in this call or the last | invariant |
| `ServesTheLiving` | every server implements `InferenceService`: an answer is made of images that were in service with the request, never of one answered before | refinement |
| `OwnDetections` | all servers but `triton-infer` answer with the detections of the request's own image | invariant |
| `Suppression` | no two detections answered overlap beyond the threshold, and what is missing scored too low or overlaps one that is answered and scored as high | invariant |
| `MasksCropped` | a mask is cropped to exactly the part of its box in the image, for boxes that reach the image | invariant |
| `UpWhenLoaded` | the sidecar is up only after a Triton with complete engines | invariant |
| `ContainerComesUp` | the container comes up, unless a lasting directory kept a partial engine | liveness |
| `LeavesNothing` | a program that ended leaves an instance only if told to, killed, or for the failures it does not clean up after | invariant |
| `ProgramsEnd` | every program ends, `main` once signalled | liveness |
| `ComparesTheResult` | the demo compares with the result of the run that succeeded, unless a run of the job failed before | invariant |
| `AbortsForAReason` | an accepted job's demo aborts only after a failed run, lost pods or all its questions | invariant |
| `CompletedStays` | a completed job never has another status, also across a restart; it may be forgotten | action |
| `JobsEnd` | an accepted job gets a final status, unless a restart or lost pods end its poll task | liveness |
| `InOrder`, `SavedAtStop` | no sample is lost, doubled or reordered; a writer that finished in time has all that was recorded before `stop()` | invariants |
| `RadioRefreshes` | radio data is made fresh again and again while the modem is up | liveness |
| `CameraShowsAll` | every listed image is served again and again, unless one was removed | liveness |
| `InFrame` | however TCP cuts the bytes, each side reads exactly the message it is at | invariant |

The properties with an "unless" are written from both sides: what the code
guarantees, and, as the excuse, the behaviour it does have. Each excuse that is a
disagreement with a document or a comment is in section 7.

`CacheCoherent` is not obvious: the cache is dropped at the start of a create,
while the Service is replaced several calls later. It holds because no proxy
request can run between (the handler does not await). The remark applies to
the present code only: turning the blocking calls into awaited ones breaks it.

`ReadyIsOwnPod` depends on the Foreground propagation of the replacement: with
Background deletion the new Deployment may exist while the pod that the label
selector returns first is still the old one, ready.

## 4. Runs

| Run | Instance | Shows | Distinct states |
|---|---|---|---|
| `shim_zones` | 1 tenant, 2 zones, 2 manifests (both declare two interfaces, one numbers only one of them), 2 apps, 2 instances, 2 addresses, restarts, no faults | `TypeOK`, `CacheCoherent`, `EndpointsComplete`, `ReadyIsOwnPod` | 1.4 million |
| `shim_tenants` | 2 tenants with a slug each, second zone not configured, a manifest without image, `"api"` and `"net"` faults (also of the read that discovery does), restarts | `LatestDeployed`, `EndpointsComplete`, `OnlyOwnerTouches` | 660 thousand |
| `one_instance` | one-instance client, 2 zones, 2 manifests (one without ports), `"api"` and `"net"` faults, restarts | `NoOrphans` | 270 thousand |
| `one_instance_retry` | one app, instance and address, 2 zones, 2 manifests, restarts, fairness | `RetrySucceeds` | 32 thousand |
| `GuiAnyUser` | any user until a zone is confirmed during a setup; 2 zones, 3 instances, 2 discoveries at once, terminations that fail, lost answers | `TypeOK`, `OnlyOverlapHurts` | 400 thousand |
| `RequestParts` | `RemoteDetector`, `Sidecar`, `Detections`, `PodStatus`, `ProxyRace` | the nine properties of these five | 500 thousand |
| `FairParts` | `GuiEdge` with a patient user and two zones, `LatencyCollector`, `ModemPoller`, `EdgeLifecycle`, `ComputeJobs`, `CameraApi`, `InferContainer`, `BenchmarkStream`, with fairness | the seventeen properties of these eight | 21 thousand |
| `claim_*` | small instances of `shim_zones` | three statements of comments and documents, violated (section 7) | - |
| `ClaimKeyToggles`, `ClaimTransport` | `GuiEdge` with two zones; `RemoteDetector` | two statements of comments, violated (section 7) | - |

`RequestParts` and `FairParts` check several state machines in one run. `Init`
chooses which one runs (`part`); the others keep their initial state for ever, so
the states of the run are the *sum* of the parts' states and each part is explored
in full. A property of a part holds trivially in the behaviours of the others:
type invariants and safety properties hold in every part's initial state, and the
liveness properties that would not are stated `Runs(part) => ...`.

### Bounds

- `AppIds`, `InstanceIds`: ids are never used again in the code. In the model an
  id becomes free when its record is gone (a delete, or a restart, which loses
  every record; nothing else holds an id across it). Two live records of one
  slug are what all the sharing hazards need: one latest and one earlier.
- `ClusterIPs`: two addresses, so that a replaced Service may get a new address
  or its old one again. With two tenants, an address may also pass from one
  tenant to the other.
- Two manifests: the old and the new one of a replacement, with different ports.
- Two tenants: isolation relates a request to one other tenant.
- Two clusters: the code has two.
- `ZoneRequests` holds `None` (no zone in the body: the local zone) and the
  second zone. Any other string selects the local clients, as `ClusterOf` says;
  the proofs cover them.
- GUI: two instances, since the object keeps one and a setup under way another, and
  a third in `GuiAnyUser`, for one that is lost; two zones, for the switch between
  them; two discoveries, which may reopen the picker during a setup. `Discoveries` and
  `Setups` bound threads alive at once. `GuiAnyUser` checks `UntilOverlap`: the
  behaviours up to the step that confirms a zone during a setup. `OnlyOverlapHurts` says
  nothing of those that go on, and they are nearly all the states; `TypeOK` is proved for
  them as well (`GuiTypes`), and `ClaimKeyToggles` runs the full specification.
- `Flights`: one request in TLC, with all tenants' handlers against it; requests meet
  only in the cache. `ProxiedToOwn` is for any number.
- `Channels = 3`: the cached channel, the cached stub's and the call's own.
  `LastServer = 2`: one zone switch; `MaxRetries = 3`, the default of `detect`.
- `Handlers`: one worker and two loop handlers; `Images`: two, which tell whose an
  answer is. Three candidates: the least for which suppression is not transitive.
  `Boxes` has a chain of overlaps, boxes beyond either edge, an empty one and one
  outside; sizes 16 and 4 keep the ratio 4 of image to mask.
- `MaxEvents = 8`: a pod's whole life (created, scheduled, pulled, started, ready)
  and a failure or a replacement. The other `Max...` constants name the number of
  polls, kills, outages, restarts, samples, bytes; each lets its event happen and
  happen again, and the program's own limits (polls, tries) be reached.
- Ids and addresses are symmetric sets in the safety runs: nothing orders or
  computes them. The liveness run is checked without symmetry.

Deadlock is checked in the runs of `NefShim` and `OneInstanceClient`. The others
declare `CHECK_DEADLOCK FALSE`: a GUI that was closed, a program that ended, a
finished session and a pod whose events are used up do stop.

## 5. Fairness

Safety needs none. `RetrySucceeds` assumes, in `FairClientSpec`:

- `WF_vars(HandlerStep)`: a Kubernetes call returns, and the handler goes on.
  The client is used without a timeout (`k8s_manager.py` sets none), so a call
  that never returned would block the whole shim; the property is about a shim
  whose API servers answer.
- `WF_vars` of `PodGone` for a pod without a live Deployment, and of
  `DeploymentGone`: the kubelet's grace period ends and the garbage collector
  runs. Pods of live Deployments need not ever become ready.
- `SF_vars(AsksInstance(t))`: the client asks again and again, and the event
  loop serves it between other requests. Strong fairness, since its request is
  disabled while another handler runs. A client that gives up is not refuted by
  the property: it is the state left behind that must not be a trap.

No fairness is assumed of restarts, registrations, deletes or polls.

`FairParts` assumes of each part what its own specification states:

- GUI: `WF` of the rest of a key's handler and of each setup thread. The threads
  are scheduled, requests have timeouts, polls are counted. Nothing of the user.
- `ModemPoller`, `EdgeLifecycle`: `WF` of the poller's and the program's steps; all
  their requests have timeouts. Not of outages, signals or frames.
- `ComputeJobs`: `WF` of each job's poll task, which the event loop wakes. Nothing
  of the Job controller: a job that never runs times out.
- `CameraApi`: `WF` of the request. Clients ask in a loop.
- `InferContainer`: `WF` of the script and the kubelet; `SF` of each build and of
  Triton's loading: tried again and again, they succeed at last, within the wait.
  This is an assumption on trtexec and the hardware, not on the code; without it
  the container may restart for ever.

## 6. Proofs

Every safety invariant, action property and refinement that a run checks is also a
theorem, proved for all values of the constants. What TLC alone establishes are
the liveness properties (end of this section).

| Module | Theorem | Statement |
|---|---|---|
| `NefShimProofs` | `TypeCorrect` | `Spec => []TypeOK` |
| | `CacheCoherence` | `Spec => []CacheCoherent` |
| | `Delivery` | `Spec => []LatestDeployed` |
| | `EndpointDiscovery` | `Spec => []EndpointsComplete` |
| | `ReadyReports` | `Spec => ReadyIsOwnPod` |
| | `Isolation` | `Spec => OnlyOwnerTouches` |
| `OneInstanceProofs` | `NothingOrphaned` | `OwnSlugs` implies `ClientSpec => []NoOrphans` |
| `ShimRequestProofs` | `ProxiedToOwn` | `ProxySpec => []AnsweredByOwn` |
| | `StatusPhases` | `PodSpec => PhasesAdvance` |
| | `StatusClock` | `PodSpec => ClockAdvances` |
| `GuiEdgeProofs` | `GuiTypes` | `Spec => []TypeOK` |
| | `HurtByOverlapOnly` | `Spec => []OnlyOverlapHurts` |
| | `PatientLeaksNothing` | `Spec => []NothingLeaked` |
| | `PatientArrowsWork` | `Spec => []ArrowsWork` |
| `RemoteDetectorProofs` | `CallsFailForAReason` | `MaxRetries > 1` implies `RemoteSpec => []FailsForAReason` |
| `SidecarProofs` | `SidecarTypes` | `SidecarSpec => []SidecarTypeOK` |
| | `DetectsItsOwn` | `SidecarSpec => []OwnDetections` |
| | `ImplementsService` | `SidecarSpec => ServesTheLiving`, the refinement of `InferenceService` |
| | `Suppresses` | `DetectionsSpec => []Suppression` |
| | `CropsExactly` | `DetectionsSpec => []MasksCropped` |
| `ClientProofs` | `SamplesInOrder` | `LatencySpec => []InOrder` |
| | `SavesAtStop` | `LatencySpec => []SavedAtStop` |
| | `LeavesNoInstance` | `LifeSpec => []LeavesNothing` |
| `ServiceProofs` | `ComesUpLoaded` | `ContainerSpec => []UpWhenLoaded` |
| | `ComputeTypes` | `ComputeSpec => []ComputeTypeOK` |
| | `ComparesResult` | `ComputeSpec => []ComparesTheResult` |
| | `AbortsWithReason` | `ComputeSpec => []AbortsForAReason` |
| | `CompletedStaysSo` | `ComputeSpec => CompletedStays` |
| | `ReadsInFrame` | `StreamSpec => []InFrame` |

None of the invariants is inductive as it stands. Each proof strengthens it,
shows that the strengthening holds at the start and is kept by every action (one
step per action), and draws the property from it.

### Assumptions

Most say only that `None` is none of the values that it stands beside
(`NoneAssumption`, `NoJobAssumption`, ...), or give a bound its type. The others:

- `ClustersAssumption`, `ConstantsAssumption` (`NefShim`): two clusters, named as in
  the code; types of the parameters. Slugs are *not* assumed to be distinct in
  `NefShimProofs`: its theorems hold for tenants whose hashes collide.
  `OnlyOwnerTouches` then says that only a tenant *of that slug* touches an
  object, which is as much isolation as the code has.
- `OwnSlugs` (hypothesis of `NothingOrphaned`): no two tenants of one slug. Without
  it two clients, each with one instance, are not a one-instance client of the
  slug.
- `ZonesAssumption` (`GuiEdge`): discovery raises when there is no zone
  (`camara.py:98-100`).
- `ChannelAssumption` (`RemoteDetector`): there is a channel besides any two, since
  a new `grpc.Channel` is a new object.
- `MaxRetries > 1` (hypothesis of `CallsFailForAReason`): the default of `detect` is 3,
  which the GUI and `main.py` use. `bench.py:96` and `102` pass 1; it has one thread, no
  T key and no fallback, and is not what the theorem is about. It is needed: with one attempt the loop never
  resets the channel (`if attempt < max_retries - 1`, lines 164 and 170), and TLC
  shows a stub that the T key closed outliving the call.
- `BoxesAssumption`: boxes are not inverted, as `_postprocess` builds them from a
  centre, a width and a height that a network's output keeps non-negative.

### `NefShim`

Two strengthenings are inductive:

`IInv == TypeOK /\ HandlerOK /\ RecordsOK`. `HandlerOK` says what a handler may
rely on between two of its calls: its slug is its tenant's; the slug's cached
address and `latest` are empty, since its first lines emptied them and nobody
ran since; a create finds the zone and manifest it stored; a delete finds its
record, its own tenant's. `RecordsOK`: a record's slug is its tenant's and its
app exists. This carries types, `CacheCoherent` (a Service changes only under a
handler of its slug, which has no cached address) and `Isolation`.

`DInv == IInv /\ CreatedOK /\ DeployedOK /\ PodsOK`. `CreatedOK`: past the
creation of the Deployment, it is live and of the handler's manifest; before the
record is written, so is the Service with its ports. `DeployedOK` is
`LatestDeployed` with what its preservation needs: the slug's stores agree with
the record. `PodsOK`: a pod's Deployment exists and has its manifest; this is
where Foreground propagation enters, and what makes `ReadyReports` true.

Each invariance proof has one step per action. The calls of a handler share
lemmas: they touch only its key (`CallsTouchOwnKey`), leave other slugs alone
(`CallsSpareOthers`), and keep the names it uses (`CallsNames`); the cluster by
itself never removes a live Deployment (`ClusterKeepsLive`).

### One instance at a time

`left` is a history variable: the keys where a failed call or a restart left
something, until nothing of it runs any more or a record accounts for it again. A
call that fails is one that ends its handler with a 500, or one of a delete whose
`ApiException` is only logged (`k8s_manager.py:527-539`), after which the record goes
and the client gets its 204. With `Faults = {}` and no restart `left` stays empty, and
`NoOrphans` allows nothing at all behind a tenant's back.

`OneInv` is `IInv` with three parts, in which a key is *excused* when nothing runs
there or it is in `left`. `AccountedOK`: a key whose slug no handler works on is
excused or the place of the slug's record. `WorkOK`: a handler works in the one key of
its slug that may not be excused; a create starts from an excused one, and a delete
ends with one. `SingleOK`: one record to a slug, in a zone that has clients. The last
clause is where the zone's check at create time enters; without it a delete would
find no client and leave all.

### Requests to the shim

`ProxyInv`: in each cluster distinct tenants have distinct addresses, a cached address
is that of the Service in the present zone, and a request under way is for its caller's
slug and, until the caller asks for a create or delete, for that slug's present address. Of a pod, `PodInv` says that
while nothing has gone wrong there is at most one, at one of five stages (created,
assigned, creating, running, serving); `PodAdvances` says that the only steps
left lead from each stage to the next, and `Shows` what the status answers at each.

### GUI

`GuiInv` has two layers. `LoneOK` holds until a zone is confirmed during a setup
(`overlapped`): what confirms a zone and the setup it starts are one thread of
control, the only one that may hold an instance that the object does not track.
`Holds` says what that thread's step tells of the edge, `Flagged` of the
in-progress flag and the mode. `PatientOK` adds what a user guarantees who waits.
The proofs are by the kinds of step that share an effect: keys, the setup's steps,
the discovery's and the capture thread's.

### Remote detector

`RemoteInv` follows how long a closed channel may be met. `CallOK` holds whatever
the window does. `LeftAlone` holds of a call during which the window did nothing:
what it made is open, and once an attempt failed the stub is gone from the cache.
`Untroubled` holds when this is so of the call before as well: the stub it finds is
open until the call has an excuse. Each is what the next one needs at a call's
end, which is why the property counts two calls (`troubled`) and cannot count one.

### Inference servers

`SidecarInv`: a handler has *seen* its own image and every image in service with it
(`SeenOK`); what it holds, and what a shared region that it still reads was
written from, is among the seen (`HoldsOK`, `SharedOK`); private outputs are of its
own image (`PrivateOK`); `infer-sidecar` serves one at a time (`AloneOK`). The
refinement maps the answer and the seen images; each server step is a
step of `InferenceService` or a stutter. `DetectionsInv` is the loop invariant of the
suppression: what is kept is apart and scored no lower than what is still in
order, and what was dropped is near one kept. `MasksCropped` is arithmetic: the
cropping's rounding, clamping and ratio against the exact rectangle.

### Clients and services

- `LatencyInv`: the samples are numbered through file, batch and deque (`Numbered`),
  and once the writer's last round emptied the deque the batch reaches `atStop`
  (`StopOK`).
- `LifeInv`: an instance exists only after it was asked for, and then the program
  has its id or lost the answer.
- `ContainerInv`: Triton runs only between its start and the container's end, and
  serves only complete engines, which nothing rewrites meanwhile.
- `ComputeInv`: for each job, the Job's counts agree with its ended pods and with
  whether one was lost, the store with the Job, the demo's step with what it has
  been answered. A job's steps leave other jobs alone (`OthersStay`).
- `StreamInv`: the bytes under way are the rest of the message that each side is
  at.

### Only model-checked

The liveness properties (`RetrySucceeds`, `SetupEnds`, `RadioRefreshes`, `ProgramsEnd`,
`JobsEnd`, `CameraShowsAll`, `ContainerComesUp`): fairness and ENABLED are out of the
prover's reach.

## 7. Findings

Each is a run that checks one statement and finds it violated.

- **A delete leaves the other zone's objects** (`claim_delete_removes_all`).
  `app_management.py:111` says that a delete "deletes all k8s resources for the
  tenant". The zone of the slug is that of the latest create; after a create in
  the second zone and another in the local one, a delete of either id removes
  the local objects and answers 204. The first pair runs on, and nothing but
  another create there followed by a delete removes it.
- **Foreground deletion does not block** (`claim_delete_blocks`).
  `k8s_manager.py:264` relies on it; the API call only marks the object. The
  create that follows may meet it and raise a second 409, which nobody catches:
  a 500, with zone, manifest and cache already those of the new app and the old
  Deployment on its way out. `RetrySucceeds` shows that the client gets out of
  this state by asking again.
- **Ready may be another instance's readiness** (`claim_ready`).
  `apps/edge-demo/README.md:242` promises that `ready` waits for the container's
  probe. Status is read from the slug's pod in the slug's present zone, so an id
  from an earlier create is reported ready by the later one's pod.
  `ReadyIsOwnPod` is the part of the promise that holds.

- **A cancelled setup disables the E key** (`ClaimKeyToggles`). `gui.py:4` says that
  E toggles the mode. A setup that fails lowers the flag at 273 and sets the mode
  at 275; a zone confirmed meanwhile has its mode undone by that write, and ends as "Cancelled
  by user" (209-212) without lowering the flag, and `_toggle_mode` returns at once
  from then on. `OnlyOverlapHurts` bounds it: only overlapping setups get there.
- **The transport is imported by value** (`ClaimTransport`). `detector_remote.py:5`
  says that `EDGE_TRANSPORT` selects it; line 20 copies it, so the T key, the HTTP
  fallback and `bench.py` change a variable that nobody reads, and an HTTP url is
  called over gRPC.

Seen while modelling, without a run of their own; the models have the behaviour:

- *Detector.* The HTTP "fallback" of `HOW-IT-WORKS.md:188` never works, for the
  reason above. `detect` keeps a stub across its own reset, so one network failure
  or a zone switch over gRPC sends the GUI to the dead HTTP path until T is pressed;
  T pressed during a failing call is undone by the fallback (`gui.py` 315-318).
- *GUI.* An instance whose create was answered too late, or not at all, exists and is
  never deleted: nobody has its id (`camara.py:133`, `gui.py:271`). The fast path (157-162) reuses an endpoint without asking whether it
  answers. Quitting during a create leaves the instance (191). A second setup
  started during a first loses one of their instances. ESC between the discovery
  thread's two writes leaves a picker without zones, and UP divides by zero (881).
- *Programs.* `bench.py:68` unpacks a dict of dicts into two names and gets its
  keys. `scripts/benchmark.py:64` compares a dict with "ready", times out always,
  outside its `try`, and leaves the instance. `main.py` and `bench.py` have no
  cleanup for a failed setup.
- *Compute API.* A job that succeeded and whose pods are gone is pending for ever
  (315). One failed pod reports "failed" although `backoff_limit` retries (316);
  the result may be the failed pod's log (297, 357). The demo does not know the
  status "timeout" and asks on.
- *Sidecar.* Under its four workers `triton-infer/sidecar` may answer with another
  caller's detections (`OwnDetections` excludes it, `ServesTheLiving` says how far
  it may go). `/health` is HTTP 200 whatever Triton does (251-257), while
  `HOW-IT-WORKS.md:152-153` takes it for Triton's readiness; that it is so at start-up
  is `UpWhenLoaded`, that it stays so when Triton dies is not. A box wholly outside
  the image becomes a negative index (384), and its mask is cut by one row only.
- *Container.* An engine that was killed half-way in a lasting `MODEL_DIR` is taken
  for complete ever after.
- *Status.* `phaseStartedAt` of "starting" is when the pod was scheduled and that of
  "failed" when it was created, while line 371 speaks of the phase; an evicted pod
  listed first reports "failed" for as long as it exists (399).
- *Proxy.* A port without a name is advertised as `port-N` but looked up as the
  empty name (50): 404. An address freed by a delete, or by the delete and create of a
  replacement, during the request may be another tenant's when it is used. For an
  instance in the second zone the address is of that cluster, and is used in this one.
- *Discovery.* When the Service cannot be read, `/endpoints` answers 200 with empty
  urls (`k8s_manager.py:505`): the GUI goes on without an endpoint, `main.py` with an
  empty one.
- *Camera, modem.* A listed image that was removed stops the camera for ever (47).
  The window shows radio data without its age, however old.

Seen while reading: `HOW-IT-WORKS.md` (lines 206 and 345) offers
`DELETE /app-instances/all`; the code has no such route, and `all` is an unknown
id, answered 404. The edge-demo README says that a client whose address has
changed gets 404 for its app; the code answers 403.

## 8. Not modelled

- Formatting, logging, and the translation of manifest fields (images, probes,
  resources, GPU settings) into Kubernetes objects: data without control. What
  decides control is kept: whether an image resolves, which ports are declared.
- Request validation answers (400, 422): no state.
- The namespace and pull-secret set-up of `k8s_manager.init`.
- The messages of a status, and its events: text.
- The GUI's drawing, log and model toggle, local inference and the
  progress bar: they write no field that another thread decides on.
- `detector_remote.health_check`: nothing calls it.
- The Compute API's zone list and job list: constant, and a read of the store.
- The benchmark's statistics and a TCP connection that breaks: the client ends.
- Contours and labels of detections, and the rounding of float32.
- Local detectors, display, latency analysis: library calls and plots.
- Provisioning playbooks, monitoring values, the 5G core's values, shell scripts:
  configuration of other programs. Slides: no behaviour.

## 9. Plan

The models of the first plan are written, and all their safety properties proved.
What is left: safety kernels of the liveness arguments that TLC checks, that is the
measures that descend (polls left, tries left, attempts left), as action properties.

Parameters are CONSTANTS with named assumptions, every operation is an action, and
no module uses a RECURSIVE operator, so each of them can be proved about as it is.
