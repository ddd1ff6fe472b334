------------------------------ MODULE ServiceProofs ------------------------------
(***************************************************************************)
(* Theorems about the services beside the inference itself: the start of   *)
(* the container (InferContainer), the Compute API with its demo           *)
(* (ComputeJobs) and the benchmark's framing (BenchmarkStream), for any    *)
(* jobs, restarts, polls, kills and sizes.                                 *)
(***************************************************************************)
EXTENDS InferContainer, ComputeJobs, BenchmarkStream, SequenceTheorems, TLAPS

-------------------------------------------------------------------------------
(* The container.                                                            *)

(* Triton runs only between its start and the end of the container, and      *)
(* serves only with complete engines, which nothing rewrites meanwhile.      *)
TritonOK ==
  /\ plan \in [EngineModels -> Plans]
  /\ triton \in {"down", "loading", "serving", "dead"}
  /\ container \notin {"wait", "start sidecar", "up"} => triton = "down"
  /\ triton = "serving" => Loadable

ContainerInv == TritonOK /\ UpWhenLoaded

LEMMA ContainerInvNext == ContainerInv /\ [ContainerNext]_containerVars => ContainerInv'
<1> SUFFICES ASSUME ContainerInv, [ContainerNext]_containerVars PROVE ContainerInv'
  OBVIOUS
<1> USE DEF ContainerInv, TritonOK, UpWhenLoaded, Loadable
<1>1. ASSUME NEW m \in EngineModels, Builds(m) PROVE ContainerInv'
  <2>1. /\ container \in {Build[m], Write[m]}
        /\ container' \in {Build[m], Write[m], After[m], "exited"}
        /\ triton' = triton \/ triton' = "down"
        /\ plan' = plan \/ \E x \in Plans : plan' = [plan EXCEPT ![m] = x]
    BY <1>1 DEF Builds, ExportModel, BeginEngine, EndEngine, BuildFails, Exits, Plans
  <2>2. /\ container \in {"build detect", "build seg", "write detect", "write seg"}
        /\ container' \notin {"wait", "start sidecar", "up"}
    <3>1. CASE m = "detect"
      BY <2>1, <3>1 DEF Build, Write, After
    <3>2. CASE m = "seg"
      BY <2>1, <3>2 DEF Build, Write, After
    <3> QED
      BY <3>1, <3>2 DEF EngineModels
  <2> QED
    BY <2>1, <2>2
<1>2. CASE ContainerStep
  <2>1. CASE StartTriton \/ WaitEnds \/ StartSidecar
    BY <2>1 DEF StartTriton, WaitEnds, StartSidecar, Registers
  <2>2. CASE RestartContainer
    BY <2>2 DEF RestartContainer, InImage, Plans
  <2> QED
    BY <1>2, <2>1, <2>2 DEF ContainerStep
<1>3. CASE TritonLoads
  BY <1>3 DEF TritonLoads
<1>4. CASE Kill
  BY <1>4 DEF Kill, Exits
<1>5. CASE UNCHANGED containerVars
  BY <1>5 DEF containerVars, bootVars
<1> QED
  BY <1>1, <1>2, <1>3, <1>4, <1>5 DEF ContainerNext

(* The sidecar is up only behind a Triton that loaded complete engines,      *)
(* whatever was killed, failed or left half written before                   *)
(* (sidecar/main.py:73-100, 245-257, entrypoint.sh:31-41).                   *)
THEOREM ComesUpLoaded == ContainerSpec => []UpWhenLoaded
<1>1. ContainerInit => ContainerInv
  BY DEF ContainerInit, ContainerInv, TritonOK, UpWhenLoaded, InImage, Plans
<1>2. ContainerInv => UpWhenLoaded
  BY DEF ContainerInv
<1> QED
  BY <1>1, <1>2, ContainerInvNext, PTL DEF ContainerSpec

-------------------------------------------------------------------------------
(* The Compute API and its demo.                                             *)

(* What Kubernetes has of a job: its pods are those of its runs, and of a    *)
(* run that succeeded one is left unless pods were lost.                     *)
ClusterOK(j) ==
  /\ pods[j] # {} => job[j] # None
  /\ job[j] # None =>
       /\ job[j].active = 1 => job[j].failed < 2 /\ job[j].succeeded = 0
       /\ "failed" \in pods[j] => job[j].failed > 0
       /\ job[j].succeeded = 1 /\ ~job[j].gone /\ ~lost[j] => "good" \in pods[j]

(* What the store says of a job has happened; only a pending one is polled.  *)
StoreOK(j) ==
  /\ store[j] # None =>
       /\ job[j] # None
       /\ store[j].status = "failed" => job[j].failed > 0
       /\ store[j].status = "completed" => /\ job[j].succeeded = 1
                                           /\ store[j].result = "raw" => job[j].failed > 0
  /\ polls[j] # None => store[j] # None /\ store[j].status = "pending"

(* What the demo was told has happened too.                                  *)
DemoOK(j) ==
  /\ client[j].step \in {"discover", "submit"} => job[j] = None
  /\ client[j].step \in {"poll", "read", "compared", "aborted"} => job[j] # None
  /\ client[j].step \in {"read", "compared"} =>
       /\ client[j].result \in {"good", "raw", None}
       /\ client[j].result = "raw" => job[j].failed > 0
       /\ client[j].result = None => client[j].step = "read" /\ lost[j]
  /\ client[j].step = "aborted" =>
       client[j].tries = MaxTries \/ job[j].failed > 0 \/ lost[j]

JobOK(j) == ClusterOK(j) /\ StoreOK(j) /\ DemoOK(j)
ComputeInv == ComputeTypeOK /\ \A j \in Jobs : JobOK(j)

LEMMA ComputeInvInit == JobsInit => ComputeInv
  BY BoundsAssumption, NoJobAssumption
  DEF JobsInit, ComputeInv, ComputeTypeOK, JobOK, ClusterOK, StoreOK, DemoOK, DemoSteps

(* A job is not touched by the steps of another.                             *)
SameJob(j) ==
  /\ job'[j] = job[j] /\ pods'[j] = pods[j] /\ lost'[j] = lost[j]
  /\ store'[j] = store[j] /\ polls'[j] = polls[j] /\ client'[j] = client[j]

LEMMA OthersStay ==
  ASSUME ComputeInv, NEW j \in Jobs, JobOK(j)', ComputeTypeOK',
         \A k \in Jobs \ {j} : SameJob(k)
  PROVE  ComputeInv'
<1>1. ASSUME NEW k \in Jobs \ {j} PROVE JobOK(k)'
  BY <1>1 DEF SameJob, ComputeInv, JobOK, ClusterOK, StoreOK, DemoOK
<1> QED
  BY <1>1 DEF ComputeInv

LEMMA JobType ==
  ASSUME ComputeTypeOK, NEW j \in Jobs
  PROVE  /\ job[j] # None => job[j] \in JobStates
         /\ pods[j] \subseteq JobRuns /\ lost[j] \in BOOLEAN
         /\ polls[j] # None => polls[j] \in 0 .. MaxJobPolls
         /\ client[j] \in [step: DemoSteps, tries: 0 .. MaxTries, result: Results \cup {None}]
  BY DEF ComputeTypeOK

LEMMA StoreType ==
  ASSUME ComputeTypeOK, NEW j \in Jobs, store[j] # None
  PROVE  \/ store[j].status \in {"pending", "timeout"} /\ store[j].result = None
         \/ store[j].status = "failed" /\ store[j].result = "error"
         \/ store[j].status = "completed" /\ store[j].result \in {"good", "raw"}
<1>1. \/ store[j] \in {[status |-> s, result |-> None] : s \in {"pending", "timeout"}}
      \/ store[j] = [status |-> "failed", result |-> "error"]
      \/ store[j] \in [status: {"completed"}, result: {"good", "raw"}]
  BY DEF ComputeTypeOK
<1> QED
  BY <1>1

(* The Job controller.                                                       *)
LEMMA RunStartsKeepsInv ==
  ASSUME ComputeInv, NEW j \in Jobs, RunStarts(j)
  PROVE  ComputeInv'
<1>1. /\ job[j] # None /\ job[j] \in JobStates /\ job[j].failed # 2 /\ job[j].succeeded # 1
      /\ job' = [job EXCEPT ![j] = [job[j] EXCEPT !.active = 1]]
      /\ UNCHANGED <<pods, lost, store, polls, client, restarts>>
  BY JobType DEF ComputeInv, ComputeTypeOK, RunStarts, InCluster, Finished
<1> DEFINE new == [job[j] EXCEPT !.active = 1]
<1>2. /\ new \in JobStates /\ new # None /\ new.active = 1 /\ new.failed = job[j].failed
      /\ new.succeeded = job[j].succeeded /\ new.gone = job[j].gone
      /\ new.failed < 2 /\ new.succeeded = 0
  BY <1>1, NoJobAssumption DEF JobStates
<1> HIDE DEF new
<1>3. job'[j] = new /\ \A k \in Jobs \ {j} : SameJob(k)
  BY <1>1 DEF new, ComputeInv, ComputeTypeOK, SameJob
<1>4. ComputeTypeOK'
  BY <1>1, <1>2 DEF new, ComputeInv, ComputeTypeOK
<1>5. JobOK(j)'
  BY <1>1, <1>2, <1>3 DEF ComputeInv, JobOK, ClusterOK, StoreOK, DemoOK
<1> QED
  BY <1>3, <1>4, <1>5, OthersStay

LEMMA RunRecords ==
  ASSUME NEW old \in JobStates, NEW a \in 0..1, NEW s \in 0..1, NEW f \in 0..2
  PROVE  /\ [old EXCEPT !.active = a, !.failed = f] \in JobStates
         /\ [old EXCEPT !.active = a, !.succeeded = s] \in JobStates
  BY DEF JobStates

LEMMA RunEndsKeepsInv ==
  ASSUME ComputeInv, NEW j \in Jobs, RunEnds(j)
  PROVE  ComputeInv'
<1>1. /\ job[j] # None /\ job[j] \in JobStates /\ job[j].failed < 2 /\ job[j].succeeded = 0
      /\ UNCHANGED <<lost, store, polls, client, restarts>>
  BY JobType DEF ComputeInv, JobOK, ClusterOK, RunEnds, InCluster
<1> DEFINE old == job[j]
<1>5. old.active \in 0..1 /\ old.failed \in 0..1 /\ old.succeeded = 0 /\ old.gone \in BOOLEAN
  BY <1>1 DEF JobStates
<1>2. ASSUME NEW run \in JobRuns, NEW new \in JobStates,
             job' = [job EXCEPT ![j] = new], pods' = [pods EXCEPT ![j] = pods[j] \cup {run}],
             new.active = 0, new.failed >= job[j].failed, new.succeeded \in {0, 1},
             run = "failed" => new.failed > 0 /\ new.succeeded = 0, new.gone = job[j].gone,
             run = "good" => new.failed = job[j].failed
      PROVE  ComputeInv'
  <2>1. job'[j] = new /\ new # None /\ pods'[j] = pods[j] \cup {run}
    BY <1>2, NoJobAssumption DEF ComputeInv, ComputeTypeOK
  <2>2. \A k \in Jobs \ {j} : SameJob(k)
    BY <1>1, <1>2 DEF ComputeInv, ComputeTypeOK, SameJob
  <2>3. ComputeTypeOK'
    BY <1>1, <1>2 DEF ComputeInv, ComputeTypeOK
  <2>4. new.failed \in Nat /\ job[j].failed \in Nat
    BY <1>1 DEF JobStates
  <2>5. JobOK(j)'
    <3>1. ClusterOK(j)'
      BY <1>2, <2>1, <2>4 DEF ComputeInv, JobOK, ClusterOK, JobRuns
    <3>2. StoreOK(j)'
      BY <1>1, <1>2, <2>1, <2>4 DEF ComputeInv, JobOK, StoreOK
    <3>3. DemoOK(j)'
      BY <1>1, <1>2, <2>1, <2>4 DEF ComputeInv, JobOK, DemoOK
    <3> QED
      BY <3>1, <3>2, <3>3 DEF JobOK
  <2> QED
    BY <2>2, <2>3, <2>5, OthersStay
<1>3. CASE /\ job' = [job EXCEPT ![j].active = 0, ![j].failed = @ + 1]
           /\ pods' = [pods EXCEPT ![j] = @ \cup {"failed"}]
  <2> DEFINE new == [job[j] EXCEPT !.active = 0, !.failed = job[j].failed + 1]
  <2>1. job' = [job EXCEPT ![j] = new] /\ pods' = [pods EXCEPT ![j] = pods[j] \cup {"failed"}]
    BY <1>3 DEF ComputeInv, ComputeTypeOK
  <2>2. /\ new \in JobStates /\ new.active = 0 /\ new.failed > 0 /\ new.failed >= job[j].failed
        /\ new.succeeded = 0 /\ new.gone = job[j].gone
    <3>1. /\ new.active = 0 /\ new.failed = job[j].failed + 1
          /\ new.succeeded = job[j].succeeded /\ new.gone = job[j].gone
      BY <1>1 DEF JobStates
    <3>2. new \in JobStates
      <4>1. 0 \in 0..1 /\ job[j].failed + 1 \in 0..2
        BY <1>5
      <4> QED
        BY <4>1, <1>1, RunRecords
    <3> QED
      BY <3>1, <3>2, <1>5
  <2> HIDE DEF new
  <2> QED
    BY <2>1, <2>2, <1>2 DEF JobRuns
<1>4. CASE /\ job' = [job EXCEPT ![j].active = 0, ![j].succeeded = 1]
           /\ pods' = [pods EXCEPT ![j] = @ \cup {"good"}]
  <2> DEFINE new == [job[j] EXCEPT !.active = 0, !.succeeded = 1]
  <2>1. job' = [job EXCEPT ![j] = new] /\ pods' = [pods EXCEPT ![j] = pods[j] \cup {"good"}]
    BY <1>4 DEF ComputeInv, ComputeTypeOK
  <2>2. /\ new \in JobStates /\ new.active = 0 /\ new.failed = job[j].failed
        /\ new.failed >= job[j].failed /\ new.succeeded = 1 /\ new.gone = job[j].gone
    <3>1. /\ new.active = 0 /\ new.failed = job[j].failed
          /\ new.succeeded = 1 /\ new.gone = job[j].gone
      BY <1>1 DEF JobStates
    <3>2. new \in JobStates
      <4>1. 0 \in 0..1 /\ 1 \in 0..1 /\ 0 \in 0..2
        OBVIOUS
      <4> QED
        BY <4>1, <1>1, RunRecords
    <3> QED
      BY <3>1, <3>2, <1>5
  <2> HIDE DEF new
  <2> QED
    BY <2>1, <2>2, <1>2 DEF JobRuns
<1> QED
  BY <1>3, <1>4 DEF RunEnds

LEMMA PodsGoKeepsInv ==
  ASSUME ComputeInv, NEW j \in Jobs, PodsGo(j)
  PROVE  ComputeInv'
<1>1. job[j] # None /\ job[j] \in JobStates /\ UNCHANGED <<store, polls, client, restarts>>
  BY JobType DEF ComputeInv, JobOK, ClusterOK, PodsGo
<1>2. ASSUME NEW p \in pods[j], pods' = [pods EXCEPT ![j] = @ \ {p}],
             lost' = [lost EXCEPT ![j] = TRUE], UNCHANGED job
      PROVE  ComputeInv'
  <2>1. pods'[j] = pods[j] \ {p} /\ lost'[j] = TRUE /\ \A k \in Jobs \ {j} : SameJob(k)
    BY <1>1, <1>2 DEF ComputeInv, ComputeTypeOK, SameJob
  <2>2. ComputeTypeOK'
    BY <1>1, <1>2 DEF ComputeInv, ComputeTypeOK
  <2>3. JobOK(j)'
    BY <1>1, <1>2, <2>1 DEF ComputeInv, JobOK, ClusterOK, StoreOK, DemoOK
  <2> QED
    BY <2>1, <2>2, <2>3, OthersStay
<1>3. ASSUME job' = [job EXCEPT ![j].gone = TRUE], pods' = [pods EXCEPT ![j] = {}],
             UNCHANGED lost
      PROVE  ComputeInv'
  <2> DEFINE new == [job[j] EXCEPT !.gone = TRUE]
  <2>1. job' = [job EXCEPT ![j] = new]
    BY <1>3 DEF ComputeInv, ComputeTypeOK
  <2>2. /\ new \in JobStates /\ new # None /\ new.active = job[j].active
        /\ new.failed = job[j].failed /\ new.succeeded = job[j].succeeded /\ new.gone = TRUE
    BY <1>1, NoJobAssumption DEF JobStates
  <2> HIDE DEF new
  <2>3. job'[j] = new /\ pods'[j] = {} /\ \A k \in Jobs \ {j} : SameJob(k)
    BY <1>1, <1>3, <2>1 DEF ComputeInv, ComputeTypeOK, SameJob
  <2>4. ComputeTypeOK'
    BY <1>1, <1>3, <2>1, <2>2 DEF ComputeInv, ComputeTypeOK
  <2>5. JobOK(j)'
    BY <1>1, <1>3, <2>2, <2>3 DEF ComputeInv, JobOK, ClusterOK, StoreOK, DemoOK
  <2> QED
    BY <2>3, <2>4, <2>5, OthersStay
<1> QED
  BY <1>2, <1>3 DEF PodsGo

(* The API.                                                                  *)
LEMMA PollJobKeepsInv ==
  ASSUME ComputeInv, NEW j \in Jobs, PollJob(j)
  PROVE  ComputeInv'
<1>1. /\ polls[j] \in 0 .. MaxJobPolls /\ polls[j] # None /\ polls[j] < MaxJobPolls
      /\ store[j] # None /\ store[j].status = "pending" /\ job[j] # None
      /\ job[j] \in JobStates
      /\ UNCHANGED <<job, pods, lost, client, restarts>>
  BY JobType DEF ComputeInv, JobOK, StoreOK, PollJob, Polling
<1>2. CASE polls' = [polls EXCEPT ![j] = @ + 1] /\ UNCHANGED store
  <2>1. polls[j] + 1 \in 0 .. MaxJobPolls
    BY <1>1, BoundsAssumption
  <2>2. ComputeTypeOK' /\ \A k \in Jobs \ {j} : SameJob(k)
    BY <1>1, <1>2, <2>1 DEF ComputeInv, ComputeTypeOK, SameJob
  <2>3. JobOK(j)'
    BY <1>1, <1>2 DEF ComputeInv, JobOK, ClusterOK, StoreOK, DemoOK
  <2> QED
    BY <2>2, <2>3, OthersStay
<1>3. ASSUME job[j].succeeded = 1, NEW p \in pods[j], EndsPolling(j),
             store' = [store EXCEPT ![j] = [status |-> "completed", result |-> ReadLog(p)]]
      PROVE  ComputeInv'
  <2> DEFINE new == [status |-> "completed", result |-> ReadLog(p)]
  <2>1. /\ new \in [status: {"completed"}, result: {"good", "raw"}]
        /\ new.result = "raw" => job[j].failed > 0
    BY <1>1 DEF ReadLog, ComputeInv, ComputeTypeOK, JobOK, ClusterOK, JobRuns
  <2>2. store'[j] = new /\ polls'[j] = None /\ \A k \in Jobs \ {j} : SameJob(k)
    BY <1>1, <1>3 DEF ComputeInv, ComputeTypeOK, SameJob, EndsPolling
  <2>3. new.status = "completed"
    OBVIOUS
  <2> HIDE DEF new
  <2>4. ComputeTypeOK'
    BY <1>1, <1>3, <2>1 DEF new, ComputeInv, ComputeTypeOK, EndsPolling
  <2>5. JobOK(j)'
    BY <1>1, <1>3, <2>1, <2>2, <2>3 DEF ComputeInv, JobOK, ClusterOK, StoreOK, DemoOK
  <2> QED
    BY <2>2, <2>4, <2>5, OthersStay
<1>4. ASSUME UNCHANGED store, EndsPolling(j) PROVE ComputeInv'
  <2>1. ComputeTypeOK' /\ polls'[j] = None /\ \A k \in Jobs \ {j} : SameJob(k)
    BY <1>1, <1>4 DEF ComputeInv, ComputeTypeOK, SameJob, EndsPolling
  <2>2. JobOK(j)'
    BY <1>1, <1>4, <2>1 DEF ComputeInv, JobOK, ClusterOK, StoreOK, DemoOK
  <2> QED
    BY <2>1, <2>2, OthersStay
<1>5. ASSUME job[j].failed > 0, EndsPolling(j),
             store' = [store EXCEPT ![j] = [status |-> "failed", result |-> "error"]]
      PROVE  ComputeInv'
  <2>1. /\ ComputeTypeOK' /\ polls'[j] = None /\ \A k \in Jobs \ {j} : SameJob(k)
        /\ store'[j] = [status |-> "failed", result |-> "error"]
    BY <1>1, <1>5 DEF ComputeInv, ComputeTypeOK, SameJob, EndsPolling
  <2>2. JobOK(j)'
    BY <1>1, <1>5, <2>1 DEF ComputeInv, JobOK, ClusterOK, StoreOK, DemoOK
  <2> QED
    BY <2>1, <2>2, OthersStay
<1> QED
  BY <1>2, <1>3, <1>4, <1>5 DEF PollJob, SavesLog

LEMMA JobTimeoutKeepsInv ==
  ASSUME ComputeInv, NEW j \in Jobs, JobTimeout(j)
  PROVE  ComputeInv'
<1>1. /\ store[j] # None /\ store[j].status = "pending" /\ job[j] # None
      /\ UNCHANGED <<job, pods, lost, client, restarts>>
  BY NoJobAssumption, BoundsAssumption DEF ComputeInv, JobOK, StoreOK, JobTimeout
<1> DEFINE new == [status |-> "timeout", result |-> None]
<1>2. store[j] = [status |-> "pending", result |-> None]
  BY <1>1 DEF ComputeInv, ComputeTypeOK
<1>3. store' = [store EXCEPT ![j] = new]
  <2>1. [store[j] EXCEPT !.status = "timeout"] = new
    BY <1>2
  <2>2. store' = [store EXCEPT ![j] = [store[j] EXCEPT !.status = "timeout"]]
    BY DEF JobTimeout, SetsTimeout, ComputeInv, ComputeTypeOK
  <2> QED
    BY <2>1, <2>2
<1>4. /\ ComputeTypeOK' /\ polls'[j] = None /\ \A k \in Jobs \ {j} : SameJob(k)
      /\ store'[j] = new
  BY <1>1, <1>3 DEF ComputeInv, ComputeTypeOK, SameJob, EndsPolling, JobTimeout
<1>5. JobOK(j)'
  BY <1>1, <1>4 DEF ComputeInv, JobOK, ClusterOK, StoreOK, DemoOK
<1> QED
  BY <1>4, <1>5, OthersStay

LEMMA ApiRestartKeepsInv ==
  ASSUME ComputeInv, ApiRestart
  PROVE  ComputeInv'
<1>1. ComputeTypeOK'
  BY BoundsAssumption DEF ComputeInv, ComputeTypeOK, ApiRestart
<1>2. ASSUME NEW j \in Jobs PROVE JobOK(j)'
  BY DEF ApiRestart, ComputeInv, JobOK, ClusterOK, StoreOK, DemoOK
<1> QED
  BY <1>1, <1>2 DEF ComputeInv

(* The demo: only its own step, tries and result change.                     *)
LEMMA ClientMovesKeepInv ==
  ASSUME ComputeInv, NEW j \in Jobs, NEW step \in DemoSteps, NEW tries \in 0 .. MaxTries,
         NEW result \in Results \cup {None},
         UNCHANGED <<job, pods, lost, store, polls, restarts>>,
         client' = [client EXCEPT ![j] = [step |-> step, tries |-> tries, result |-> result]],
         step \in {"discover", "submit"} => job[j] = None,
         step \in {"poll", "read", "compared", "aborted"} => job[j] # None,
         step \in {"read", "compared"} =>
           /\ result \in {"good", "raw", None}
           /\ result = "raw" => job[j].failed > 0
           /\ result = None => step = "read" /\ lost[j],
         step = "aborted" => tries = MaxTries \/ job[j].failed > 0 \/ lost[j]
  PROVE  ComputeInv'
<1> DEFINE new == [step |-> step, tries |-> tries, result |-> result]
<1>1. /\ ComputeTypeOK' /\ \A k \in Jobs \ {j} : SameJob(k)
      /\ client'[j] = new
  BY DEF ComputeInv, ComputeTypeOK, SameJob
<1>2. DemoOK(j)'
  BY <1>1 DEF DemoOK
<1>3. ClusterOK(j)' /\ StoreOK(j)'
  BY DEF ComputeInv, JobOK, ClusterOK, StoreOK
<1> QED
  BY <1>1, <1>2, <1>3, OthersStay DEF JobOK

(* A step that changes one field of the demo, with the others as they were.  *)
LEMMA ClientRecord ==
  ASSUME ComputeTypeOK, NEW j \in Jobs
  PROVE  /\ client[j].step \in DemoSteps /\ client[j].tries \in 0 .. MaxTries
         /\ client[j].result \in Results \cup {None}
         /\ \A step : ClientGoes(j, step) =>
              client' = [client EXCEPT ![j] = [step |-> step, tries |-> client[j].tries,
                                               result |-> client[j].result]]
<1>1. client[j] \in [step: DemoSteps, tries: 0 .. MaxTries, result: Results \cup {None}]
  BY DEF ComputeTypeOK
<1>2. ASSUME NEW step
      PROVE  [client[j] EXCEPT !.step = step] = [step |-> step, tries |-> client[j].tries,
                                                 result |-> client[j].result]
  BY <1>1
<1> QED
  BY <1>1, <1>2 DEF ClientGoes, ComputeTypeOK

(* What the API answers of a job that exists: a completed one with its       *)
(* result, unless its pods were lost, a failed one only if a run failed.     *)
LEMMA AnswersAreTrue ==
  ASSUME ComputeInv, NEW j \in Jobs, job[j] # None, NEW a \in GetJob(j)
  PROVE  /\ a.status = "completed" =>
              /\ a.result \in {"good", "raw", None}
              /\ a.result = "raw" => job[j].failed > 0
              /\ a.result = None => lost[j]
         /\ a.status = "failed" => job[j].failed > 0
<1>1. CASE store[j] # None
  <2>1. a = store[j]
    BY <1>1 DEF GetJob
  <2> QED
    BY <1>1, <2>1, StoreType, NoJobAssumption DEF ComputeInv, JobOK, StoreOK, Results
<1>2. CASE store[j] = None
  <2>1. a.status = JobStatus(j) /\ a.result \in Logs(j)
    BY <1>2 DEF GetJob
  <2>2. job[j] \in JobStates
    BY JobType DEF ComputeInv
  <2>3. CASE a.status = "completed"
    <3>1. InCluster(j) /\ job[j].succeeded = 1
      BY <1>2, <2>1, <2>3 DEF JobStatus, KubernetesStatus
    <3>2. CASE pods[j] = {}
      <4>1. a.result = None
        BY <2>1, <3>2 DEF Logs
      <4>2. lost[j]
        BY <3>1, <3>2 DEF InCluster, ComputeInv, JobOK, ClusterOK
      <4> QED
        BY <2>3, <4>1, <4>2, NoJobAssumption DEF Results
    <3>3. CASE pods[j] # {}
      <4>1. PICK p \in pods[j] : a.result = ReadLog(p)
        BY <2>1, <2>3, <3>3 DEF Logs
      <4> QED
        BY <2>3, <3>3, <4>1, NoJobAssumption
        DEF ReadLog, ComputeInv, ComputeTypeOK, JobOK, ClusterOK, JobRuns, Results
    <3> QED
      BY <3>2, <3>3
  <2>4. CASE a.status = "failed"
    BY <1>2, <2>1, <2>2, <2>4 DEF JobStatus, KubernetesStatus, JobStates
  <2> QED
    BY <2>3, <2>4
<1> QED
  BY <1>1, <1>2

LEMMA SubmitKeepsInv ==
  ASSUME ComputeInv, NEW j \in Jobs, Submit(j)
  PROVE  ComputeInv'
<1>1. client[j].step = "submit" /\ UNCHANGED <<pods, lost, restarts>>
  BY DEF Submit, DemoAt
<1>2. job[j] = None /\ store[j] = None /\ pods[j] = {} /\ polls[j] = None
  BY <1>1 DEF ComputeInv, JobOK, ClusterOK, StoreOK, DemoOK
<1>3. ASSUME ClientGoes(j, "refused"), UNCHANGED <<job, store, polls>>
      PROVE  ComputeInv'
  BY <1>1, <1>2, <1>3, ClientRecord, ClientMovesKeepInv DEF ComputeInv, DemoSteps
<1> DEFINE newStore == [status |-> "pending", result |-> None]
<1>4. ASSUME job' = [job EXCEPT ![j] = NewJob], store' = [store EXCEPT ![j] = newStore],
             polls' = [polls EXCEPT ![j] = 0],
             ClientGoes(j, "poll") \/ ClientGoes(j, "refused")
      PROVE  ComputeInv'
  <2> DEFINE newClient(step) == [step |-> step, tries |-> client[j].tries,
                                 result |-> client[j].result]
  <2>1. PICK step \in {"poll", "refused"} : client' = [client EXCEPT ![j] = newClient(step)]
    BY <1>4, ClientRecord DEF ComputeInv
  <2>2. newClient(step) \in [step: DemoSteps, tries: 0 .. MaxTries, result: Results \cup {None}]
    BY ClientRecord DEF ComputeInv, DemoSteps
  <2>3. NewJob \in JobStates /\ NewJob # None /\ 0 \in 0 .. MaxJobPolls /\ newStore # None
    <3>1. NewJob \in JobStates
      BY DEF NewJob, JobStates
    <3>2. newStore \in JobAnswers
      BY DEF JobAnswers, JobStatuses
    <3> HIDE DEF newStore
    <3> QED
      BY <3>1, <3>2, NoJobAssumption, BoundsAssumption
  <2>4. ComputeTypeOK' /\ \A k \in Jobs \ {j} : SameJob(k)
    BY <1>1, <1>4, <2>1, <2>2, <2>3 DEF ComputeInv, ComputeTypeOK, SameJob
  <2>5. /\ job'[j] = NewJob /\ store'[j] = newStore /\ polls'[j] = 0
        /\ client'[j] = newClient(step) /\ pods'[j] = {}
    BY <1>1, <1>2, <1>4, <2>1 DEF ComputeInv, ComputeTypeOK
  <2>6. ClusterOK(j)' /\ StoreOK(j)'
    <3>1. NewJob.active = 0 /\ NewJob.succeeded = 0 /\ newStore.status = "pending"
      BY DEF NewJob
    <3> HIDE DEF newStore
    <3> QED
      BY <2>3, <2>5, <3>1 DEF ClusterOK, StoreOK
  <2>7. DemoOK(j)'
    BY <2>3, <2>5 DEF DemoOK
  <2> QED
    BY <2>4, <2>6, <2>7, OthersStay DEF JobOK
<1>5. ASSUME job' = [job EXCEPT ![j] = NewJob], ClientGoes(j, "refused"),
             UNCHANGED <<store, polls>>
      PROVE  ComputeInv'
  <2> DEFINE newClient == [step |-> "refused", tries |-> client[j].tries,
                           result |-> client[j].result]
  <2>1. client' = [client EXCEPT ![j] = newClient]
    BY <1>5, ClientRecord DEF ComputeInv
  <2>2. newClient \in [step: DemoSteps, tries: 0 .. MaxTries, result: Results \cup {None}]
    BY ClientRecord DEF ComputeInv, DemoSteps
  <2>3. NewJob \in JobStates /\ NewJob # None
    <3>1. NewJob \in JobStates
      BY DEF NewJob, JobStates
    <3> QED
      BY <3>1, NoJobAssumption
  <2>4. ComputeTypeOK' /\ \A k \in Jobs \ {j} : SameJob(k)
    BY <1>1, <1>5, <2>1, <2>2, <2>3 DEF ComputeInv, ComputeTypeOK, SameJob
  <2>5. /\ job'[j] = NewJob /\ store'[j] = None /\ polls'[j] = None
        /\ client'[j].step = "refused" /\ pods'[j] = {}
    BY <1>1, <1>2, <1>5, <2>1 DEF ComputeInv, ComputeTypeOK
  <2>6. ClusterOK(j)'
    <3>1. NewJob.active = 0 /\ NewJob.succeeded = 0
      BY DEF NewJob
    <3> QED
      BY <2>3, <2>5, <3>1 DEF ClusterOK
  <2>7. StoreOK(j)' /\ DemoOK(j)'
    BY <2>3, <2>5 DEF StoreOK, DemoOK
  <2> QED
    BY <2>4, <2>6, <2>7, OthersStay DEF JobOK
<1> QED
  BY <1>3, <1>4, <1>5 DEF Submit

LEMMA AskKeepsInv ==
  ASSUME ComputeInv, NEW j \in Jobs, Ask(j)
  PROVE  ComputeInv'
<1>1. /\ client[j].step = "poll" /\ client[j].tries < MaxTries /\ job[j] # None
      /\ UNCHANGED <<job, pods, lost, store, polls, restarts>>
      /\ client[j] \in [step: DemoSteps, tries: 0 .. MaxTries, result: Results \cup {None}]
  BY JobType DEF Ask, DemoAt, ComputeInv, JobOK, DemoOK
<1>2. ASSUME client' = [client EXCEPT ![j].tries = @ + 1] PROVE ComputeInv'
  <2> DEFINE tries == client[j].tries + 1
             result == client[j].result
  <2>1. [client[j] EXCEPT !.tries = tries] = [step |-> "poll", tries |-> tries, result |-> result]
    BY <1>1
  <2>2. client' = [client EXCEPT ![j] = [client[j] EXCEPT !.tries = tries]]
    BY <1>2 DEF ComputeInv, ComputeTypeOK
  <2>3. client' = [client EXCEPT ![j] = [step |-> "poll", tries |-> tries, result |-> result]]
    BY <2>1, <2>2
  <2>4. tries \in 0 .. MaxTries /\ result \in Results \cup {None} /\ "poll" \in DemoSteps
    BY <1>1, BoundsAssumption DEF DemoSteps
  <2> HIDE DEF tries, result
  <2> QED
    BY <1>1, <2>3, <2>4, ClientMovesKeepInv
<1>3. ASSUME NEW a \in GetJob(j), a.status = "completed",
             client' = [client EXCEPT ![j] = [step |-> "read", tries |-> @.tries,
                                              result |-> a.result]]
      PROVE  ComputeInv'
  <2> DEFINE tries == client[j].tries
             result == a.result
  <2>1. client' = [client EXCEPT ![j] = [step |-> "read", tries |-> tries, result |-> result]]
    BY <1>3 DEF ComputeInv, ComputeTypeOK
  <2>3. /\ result \in {"good", "raw", None}
        /\ result = "raw" => job[j].failed > 0
        /\ result = None => lost[j]
    BY <1>1, <1>3, AnswersAreTrue
  <2>4. tries \in 0 .. MaxTries /\ result \in Results \cup {None} /\ "read" \in DemoSteps
    BY <1>1, <2>3 DEF Results, DemoSteps
  <2> HIDE DEF tries, result
  <2> QED
    BY <1>1, <2>1, <2>3, <2>4, ClientMovesKeepInv
<1>4. ASSUME NEW a \in GetJob(j), a.status # "completed", ~AsksAgain(a.status),
             ClientGoes(j, "aborted")
      PROVE  ComputeInv'
  <2>1. job[j].failed > 0
    BY <1>1, <1>4, AnswersAreTrue DEF AsksAgain
  <2> QED
    BY <1>1, <1>4, <2>1, ClientRecord, ClientMovesKeepInv DEF ComputeInv, DemoSteps
<1> QED
  BY <1>2, <1>3, <1>4 DEF Ask

LEMMA OtherClientStepsKeepInv ==
  ASSUME ComputeInv, NEW j \in Jobs, Discover(j) \/ GiveUp(j) \/ ReadResult(j)
  PROVE  ComputeInv'
<1>1. CASE Discover(j)
  <2>1. job[j] = None
    BY <1>1 DEF Discover, DemoAt, ComputeInv, JobOK, DemoOK
  <2> QED
    <3>1. ASSUME NEW step \in {"submit", "refused"}, ClientGoes(j, step) PROVE ComputeInv'
      <4>1. /\ client[j].tries \in 0 .. MaxTries /\ client[j].result \in Results \cup {None}
            /\ client' = [client EXCEPT ![j] = [step |-> step, tries |-> client[j].tries,
                                                result |-> client[j].result]]
        BY <3>1, ClientRecord DEF ComputeInv
      <4>2. step \in DemoSteps /\ UNCHANGED <<job, pods, lost, store, polls, restarts>>
        BY <1>1 DEF Discover, DemoSteps
      <4> QED
        BY <2>1, <4>1, <4>2, ClientMovesKeepInv
    <3> QED
      BY <1>1, <3>1 DEF Discover
<1>2. CASE GiveUp(j)
  <2>1. job[j] # None /\ client[j].tries = MaxTries
    BY <1>2 DEF GiveUp, DemoAt, ComputeInv, JobOK, DemoOK
  <2> QED
    BY <1>2, <2>1, ClientRecord, ClientMovesKeepInv DEF GiveUp, ComputeInv, DemoSteps
<1>3. CASE ReadResult(j)
  <2>1. /\ job[j] # None /\ client[j].result \in {"good", "raw", None}
        /\ client[j].result = "raw" => job[j].failed > 0
        /\ client[j].result = None => lost[j]
    BY <1>3 DEF ReadResult, DemoAt, ComputeInv, JobOK, DemoOK
  <2>2. CASE client[j].result = None
    <3> DEFINE tries == client[j].tries
               result == client[j].result
    <3>1. client' = [client EXCEPT ![j] = [step |-> "aborted", tries |-> tries,
                                           result |-> result]]
      BY <1>3, <2>2, ClientRecord DEF ReadResult, ComputeInv
    <3>2. /\ tries \in 0 .. MaxTries /\ result \in Results \cup {None} /\ lost[j]
          /\ "aborted" \in DemoSteps /\ UNCHANGED <<job, pods, lost, store, polls, restarts>>
      BY <1>3, <2>1, <2>2, ClientRecord DEF ReadResult, ComputeInv, DemoSteps
    <3> HIDE DEF tries, result
    <3> QED
      BY <2>1, <3>1, <3>2, ClientMovesKeepInv
  <2>3. CASE client[j].result # None
    BY <1>3, <2>1, <2>3, ClientRecord, ClientMovesKeepInv DEF ReadResult, ComputeInv, DemoSteps
  <2> QED
    BY <2>2, <2>3
<1> QED
  BY <1>1, <1>2, <1>3

LEMMA ComputeInvNext == ComputeInv /\ [ComputeNext]_jobVars => ComputeInv'
<1> SUFFICES ASSUME ComputeInv, [ComputeNext]_jobVars PROVE ComputeInv'
  OBVIOUS
<1>1. CASE UNCHANGED jobVars
  BY <1>1 DEF jobVars, ComputeInv, ComputeTypeOK, JobOK, ClusterOK, StoreOK, DemoOK
<1> QED
  BY <1>1, RunStartsKeepsInv, RunEndsKeepsInv, PodsGoKeepsInv, PollJobKeepsInv,
     JobTimeoutKeepsInv, ApiRestartKeepsInv, SubmitKeepsInv, AskKeepsInv, OtherClientStepsKeepInv
  DEF ComputeNext, ClusterStep, JobPollerStep, ClientStep

(* The records of jobs, polls and demos are well formed, and no job fails    *)
(* more often than its backoff limit allows.                                 *)
THEOREM ComputeTypes == ComputeSpec => []ComputeTypeOK
<1>1. ComputeInv => ComputeTypeOK
  BY DEF ComputeInv
<1> QED
  BY ComputeInvInit, ComputeInvNext, <1>1, PTL DEF ComputeSpec

(* The demo compares with the result of the run that succeeded, unless       *)
(* another run of the job failed before (camara-deploy.yaml:291-314,         *)
(* 354-371, camara-demo.py:322-341).                                         *)
THEOREM ComparesResult == ComputeSpec => []ComparesTheResult
<1>1. ComputeInv => ComparesTheResult
  BY DEF ComputeInv, JobOK, DemoOK, ComparesTheResult, DemoAt
<1> QED
  BY ComputeInvInit, ComputeInvNext, <1>1, PTL DEF ComputeSpec

(* However often the API restarts and whatever it answers meanwhile, the     *)
(* demo aborts an accepted job only after a failed run, lost pods or all its *)
(* questions (camara-deploy.yaml:341-381, camara-demo.py:296-326).           *)
THEOREM AbortsWithReason == ComputeSpec => []AbortsForAReason
<1>1. ComputeInv => AbortsForAReason
  BY DEF ComputeInv, JobOK, DemoOK, AbortsForAReason, DemoAt
<1> QED
  BY ComputeInvInit, ComputeInvNext, <1>1, PTL DEF ComputeSpec

(* A run that succeeded stays so, and a store entry is replaced only while   *)
(* it is polled, or dropped.                                                 *)
LEMMA SucceededStays ==
  ASSUME ComputeInv, ComputeNext, NEW j \in Jobs
  PROVE  /\ job[j] # None /\ job[j].succeeded = 1 => job'[j] # None /\ job'[j].succeeded = 1
         /\ store'[j] \in {store[j], None} \/ polls[j] # None \/ job[j] = None
<1> USE DEF ComputeInv
<1>1. ASSUME NEW k \in Jobs, ClusterStep(k)
      PROVE  /\ job[j] # None /\ job[j].succeeded = 1 => job'[j] # None /\ job'[j].succeeded = 1
             /\ store' = store
  <2>1. store' = store
    BY <1>1 DEF ClusterStep, RunStarts, RunEnds, PodsGo
  <2>2. ASSUME job[k] # None, job[k].succeeded = 1
        PROVE  job'[k] # None /\ job'[k].succeeded = 1
    <3>1. job[k] \in JobStates
      BY <2>2, JobType
    <3>2. UNCHANGED job \/ job' = [job EXCEPT ![k].gone = TRUE]
      BY <1>1, <2>2 DEF ClusterStep, RunStarts, RunEnds, PodsGo, Finished, JobOK, ClusterOK
    <3>3. [job[k] EXCEPT !.gone = TRUE] \in JobStates
      BY <3>1 DEF JobStates
    <3>4. job'[k] \in {job[k], [job[k] EXCEPT !.gone = TRUE]}
      BY <3>2 DEF ComputeTypeOK
    <3> QED
      BY <2>2, <3>1, <3>3, <3>4, NoJobAssumption DEF JobStates
  <2>3. k # j => job'[j] = job[j]
    BY <1>1 DEF ClusterStep, RunStarts, RunEnds, PodsGo, ComputeTypeOK
  <2> QED
    BY <2>1, <2>2, <2>3
<1>2. ASSUME NEW k \in Jobs, JobPollerStep(k)
      PROVE  job' = job /\ (store'[j] = store[j] \/ polls[j] # None)
  <2>1. polls[k] # None
    BY <1>2, NoJobAssumption, BoundsAssumption DEF JobPollerStep, PollJob, Polling, JobTimeout
  <2> QED
    BY <1>2, <2>1 DEF JobPollerStep, PollJob, JobTimeout, SavesLog, SetsTimeout, ComputeTypeOK
<1>3. ASSUME NEW k \in Jobs, ClientStep(k)
      PROVE  (job'[j] = job[j] /\ store'[j] = store[j]) \/ job[j] = None
  <2>1. CASE Submit(k)
    <3>1. job[k] = None
      BY <2>1 DEF Submit, DemoAt, JobOK, DemoOK
    <3> QED
      BY <2>1, <3>1 DEF Submit, ComputeTypeOK
  <2> QED
    BY <1>3, <2>1 DEF ClientStep, Discover, Ask, GiveUp, ReadResult
<1>4. CASE ApiRestart
  BY <1>4 DEF ApiRestart
<1> QED
  BY <1>1, <1>2, <1>3, <1>4 DEF ComputeNext

(* A job reported completed is never reported otherwise again, also when a   *)
(* restart moves the question from the store to Kubernetes; it may only be   *)
(* forgotten (camara-deploy.yaml:289-334, 344-376).                          *)
THEOREM CompletedStaysSo == ComputeSpec => CompletedStays
<1>1. ASSUME ComputeInv, [ComputeNext]_jobVars
      PROVE  [\A j \in Jobs : JobStatus(j) = "completed" =>
                JobStatus(j)' \in {"completed", "not found"}]_jobVars
  <2> SUFFICES ASSUME ComputeNext, NEW j \in Jobs, JobStatus(j) = "completed"
               PROVE  JobStatus(j)' \in {"completed", "not found"}
    BY <1>1
  <2>1. job[j] # None /\ job[j].succeeded = 1 /\ polls[j] = None
        /\ (store[j] # None => store[j].status = "completed")
    BY <1>1 DEF JobStatus, InCluster, KubernetesStatus, ComputeInv, JobOK, StoreOK
  <2>2. job'[j] # None /\ job'[j].succeeded = 1 /\ store'[j] \in {store[j], None}
    BY <1>1, <2>1, SucceededStays
  <2> QED
    BY <2>1, <2>2 DEF JobStatus, InCluster, KubernetesStatus
<1> QED
  BY ComputeInvInit, ComputeInvNext, <1>1, PTL DEF ComputeSpec, CompletedStays

-------------------------------------------------------------------------------
(* The benchmark's stream.                                                   *)

Byte(seq, b, i) == [seq |-> seq, part |-> IF i <= HeaderSize THEN "header" ELSE "body",
                    body |-> b]
AllBytes == [seq: Nat, part: {"header", "body"}, body: 0 .. MaxBody]
Readers == [part: {"none", "header", "body"}, missing: Nat, got: Seq(AllBytes), seq: Nat]

StreamTypeOK ==
  /\ requests \in Seq(AllBytes) /\ responses \in Seq(AllBytes)
  /\ peer \in [client: Readers, server: Readers]

(* A reader is within a message with a body of b bytes: what it has and what *)
(* is still on its way are the bytes of that message in their order.         *)
WithinMessage(r, stream, b) ==
  /\ Len(r.got) + Len(stream) = HeaderSize + b
  /\ \A i \in 1 .. Len(r.got) : r.got[i] = Byte(r.seq, b, i)
  /\ \A i \in 1 .. Len(stream) : stream[i] = Byte(r.seq, b, Len(r.got) + i)
  /\ \/ r.part = "header" /\ Len(r.got) + r.missing = HeaderSize
     \/ r.part = "body" /\ Len(r.got) + r.missing = HeaderSize + b

AtStart(r, seq) == r.part = "header" /\ r.missing = HeaderSize /\ r.got = <<>> /\ r.seq = seq

(* Nothing is on its way; or a request is; or its response is.               *)
NoMessage ==
  /\ requests = <<>> /\ responses = <<>>
  /\ peer.client.part = "none" /\ AtStart(peer.server, peer.client.seq)
RequestOnItsWay ==
  /\ responses = <<>> /\ AtStart(peer.client, peer.client.seq)
  /\ peer.server.seq = peer.client.seq
  /\ \E b \in 0 .. MaxBody : WithinMessage(peer.server, requests, b)
ResponseOnItsWay ==
  /\ requests = <<>> /\ AtStart(peer.server, peer.client.seq + 1)
  /\ \E b \in 0 .. MaxBody : WithinMessage(peer.client, responses, b)

StreamInv == StreamTypeOK /\ (NoMessage \/ RequestOnItsWay \/ ResponseOnItsWay)

LEMMA StreamConstants == HeaderSize \in Nat \ {0} /\ MaxSeq \in Nat /\ MaxBody \in Nat
  BY StreamAssumption

LEMMA MessageBytes ==
  ASSUME NEW seq \in Nat, NEW b \in 0 .. MaxBody
  PROVE  /\ Message(seq, b) \in Seq(AllBytes) /\ Len(Message(seq, b)) = HeaderSize + b
         /\ \A i \in 1 .. HeaderSize + b : Message(seq, b)[i] = Byte(seq, b, i)
<1> DEFINE header == Bytes(seq, "header", HeaderSize, b)
           body   == Bytes(seq, "body", b, b)
<1>1. b \in Nat /\ HeaderSize \in Nat
  BY StreamConstants
<1>2. /\ header \in Seq(AllBytes) /\ Len(header) = HeaderSize
      /\ \A i \in 1 .. HeaderSize : header[i] = [seq |-> seq, part |-> "header", body |-> b]
  <2>1. [seq |-> seq, part |-> "header", body |-> b] \in AllBytes
    BY DEF AllBytes
  <2>2. header \in [1 .. HeaderSize -> AllBytes]
    BY <2>1 DEF Bytes
  <2> QED
    BY <1>1, <2>2, LenProperties, IsASeq DEF Bytes
<1>3. /\ body \in Seq(AllBytes) /\ Len(body) = b
      /\ \A i \in 1 .. b : body[i] = [seq |-> seq, part |-> "body", body |-> b]
  <2>1. [seq |-> seq, part |-> "body", body |-> b] \in AllBytes
    BY DEF AllBytes
  <2>2. body \in [1 .. b -> AllBytes]
    BY <2>1 DEF Bytes
  <2> QED
    BY <1>1, <2>2, LenProperties, IsASeq DEF Bytes
<1>4. Message(seq, b) = header \o body
  BY DEF Message
<1> HIDE DEF header, body
<1>5. /\ Message(seq, b) \in Seq(AllBytes) /\ Len(Message(seq, b)) = HeaderSize + b
      /\ \A i \in 1 .. HeaderSize + b :
           Message(seq, b)[i] = IF i <= HeaderSize THEN header[i] ELSE body[i - HeaderSize]
  <2>1. /\ header \o body \in Seq(AllBytes)
        /\ Len(header \o body) = Len(header) + Len(body)
        /\ \A i \in 1 .. Len(header) + Len(body) :
             (header \o body)[i] = IF i <= Len(header) THEN header[i] ELSE body[i - Len(header)]
    <3>1. header \in Seq(AllBytes) /\ body \in Seq(AllBytes)
      BY <1>2, <1>3
    <3> QED
      BY ONLY <3>1, ConcatProperties
  <2>2. Len(header) = HeaderSize /\ Len(body) = b
    BY <1>2, <1>3
  <2> QED
    BY <2>1, <2>2, <1>4
<1>6. ASSUME NEW i \in 1 .. HeaderSize + b PROVE Message(seq, b)[i] = Byte(seq, b, i)
  <2>1. CASE i <= HeaderSize
    <3>1. i \in 1 .. HeaderSize /\ Message(seq, b)[i] = header[i]
      BY <1>1, <1>5, <2>1
    <3>2. header[i] = [seq |-> seq, part |-> "header", body |-> b]
      BY <1>2, <3>1
    <3> QED
      BY <2>1, <3>1, <3>2 DEF Byte
  <2>2. CASE ~(i <= HeaderSize)
    <3>1. i - HeaderSize \in 1 .. b /\ Message(seq, b)[i] = body[i - HeaderSize]
      BY <1>1, <1>5, <2>2
    <3>2. body[i - HeaderSize] = [seq |-> seq, part |-> "body", body |-> b]
      BY <1>3, <3>1
    <3> QED
      BY <2>2, <3>1, <3>2 DEF Byte
  <2> QED
    BY <2>1, <2>2
<1> QED
  BY <1>5, <1>6

(* A whole message before a reader that starts.                              *)
LEMMA StartsMessage ==
  ASSUME NEW r \in Readers, NEW seq \in Nat, NEW b \in 0 .. MaxBody, AtStart(r, seq)
  PROVE  WithinMessage(r, Message(seq, b), b)
  BY MessageBytes, StreamConstants DEF AtStart, WithinMessage

(* The bytes that recv moves stay where they are in the message.             *)
LEMMA MovesBytes ==
  ASSUME NEW r \in Readers, NEW stream \in Seq(AllBytes), NEW b \in 0 .. MaxBody,
         WithinMessage(r, stream, b), NEW n \in 1 .. Len(stream), n <= r.missing,
         NEW new, new = Reads(r.part, r.missing - n, r.got \o SubSeq(stream, 1, n), r.seq)
  PROVE  /\ new \in Readers /\ Rest(stream, n) \in Seq(AllBytes)
         /\ WithinMessage(new, Rest(stream, n), b)
<1> DEFINE piece == SubSeq(stream, 1, n)
           rest  == SubSeq(stream, n + 1, Len(stream))
           got   == r.got \o piece
<1>1. /\ r.got \in Seq(AllBytes) /\ r.missing \in Nat /\ r.seq \in Nat
      /\ r.part \in {"none", "header", "body"}
      /\ Len(r.got) \in Nat /\ Len(stream) \in Nat /\ n \in Nat /\ n <= Len(stream)
      /\ b \in Nat /\ HeaderSize \in Nat
  BY StreamConstants DEF Readers
<1>2. /\ piece \in Seq(AllBytes) /\ Len(piece) = n
      /\ \A i \in 1 .. n : piece[i] = stream[i]
  <2>1. \A i \in 1 .. n : stream[i] \in AllBytes
    BY <1>1
  <2> QED
    BY <1>1, <2>1, SubSeqProperties
<1>3. /\ rest \in Seq(AllBytes) /\ Len(rest) = Len(stream) - n
      /\ \A i \in 1 .. Len(rest) : rest[i] = stream[n + i]
  <2>1. \A i \in n + 1 .. Len(stream) : stream[i] \in AllBytes
    BY <1>1
  <2>2. /\ rest \in Seq(AllBytes)
        /\ Len(rest) = IF n + 1 <= Len(stream) THEN Len(stream) - (n + 1) + 1 ELSE 0
        /\ \A i \in 1 .. Len(stream) - (n + 1) + 1 : rest[i] = stream[(n + 1) + i - 1]
    BY <1>1, <2>1, SubSeqProperties
  <2>3. /\ Len(rest) = Len(stream) - n /\ Len(stream) - (n + 1) + 1 = Len(rest)
        /\ Len(rest) \in Nat
    BY <1>1, <2>2
  <2>4. ASSUME NEW i \in 1 .. Len(rest) PROVE rest[i] = stream[n + i]
    <3>1. i \in Nat
      BY <2>3
    <3>2. rest[i] = stream[(n + 1) + i - 1]
      BY <2>2, <2>3
    <3>3. (n + 1) + i - 1 = n + i
      BY <1>1, <3>1
    <3> QED
      BY <3>2, <3>3
  <2> QED
    BY <2>2, <2>3, <2>4
<1> HIDE DEF piece, rest
<1>4. /\ got \in Seq(AllBytes) /\ Len(got) = Len(r.got) + n
      /\ \A i \in 1 .. Len(r.got) + n :
           got[i] = IF i <= Len(r.got) THEN r.got[i] ELSE piece[i - Len(r.got)]
  <2>1. r.got \in Seq(AllBytes) /\ piece \in Seq(AllBytes) /\ Len(piece) = n
    BY <1>1, <1>2
  <2> QED
    BY ONLY <2>1, ConcatProperties
<1>5. /\ new.part = r.part /\ new.missing = r.missing - n /\ new.got = got /\ new.seq = r.seq
      /\ r.missing - n \in Nat
  <2>1. r.missing - n \in Nat
    BY <1>1
  <2>2. new = [part |-> r.part, missing |-> r.missing - n, got |-> got, seq |-> r.seq]
    BY Zenon DEF Reads, piece
  <2> QED
    BY <2>1, <2>2
<1>6. new \in Readers
  BY <1>1, <1>4, <1>5 DEF Readers, Reads, piece
<1> DEFINE k == Len(r.got)
           l == Len(stream)
<1>7. /\ k \in Nat /\ l \in Nat /\ n \in Nat /\ n <= l /\ n >= 1
      /\ Len(got) = k + n /\ Len(rest) = l - n /\ k + l = HeaderSize + b
      /\ b \in Nat /\ HeaderSize \in Nat
      /\ \A i \in 1 .. k : r.got[i] = Byte(r.seq, b, i)
      /\ \A i \in 1 .. l : stream[i] = Byte(r.seq, b, k + i)
      /\ \/ r.part = "header" /\ k + r.missing = HeaderSize
         \/ r.part = "body" /\ k + r.missing = HeaderSize + b
      /\ r.missing \in Nat
      /\ \A i \in 1 .. k + n : got[i] = IF i <= k THEN r.got[i] ELSE piece[i - k]
      /\ \A i \in 1 .. Len(rest) : rest[i] = stream[n + i]
  BY <1>1, <1>3, <1>4 DEF WithinMessage
<1> HIDE DEF got, k, l
<1>8. ASSUME NEW i \in 1 .. Len(got) PROVE got[i] = Byte(r.seq, b, i)
  <2>1. i \in Nat /\ i >= 1 /\ i <= k + n
    BY <1>7
  <2>2. CASE i <= k
    <3>1. i \in 1 .. k /\ i \in 1 .. k + n
      BY <1>7, <2>1, <2>2
    <3>2. got[i] = r.got[i] /\ r.got[i] = Byte(r.seq, b, i)
      BY <1>7, <2>2, <3>1
    <3> QED
      BY <3>2
  <2>3. CASE ~(i <= k)
    <3>1. i - k \in 1 .. n /\ i - k \in 1 .. l /\ k + (i - k) = i
      BY <1>7, <2>1, <2>3
    <3>2. got[i] = piece[i - k]
      BY <1>7, <2>1, <2>3
    <3>3. piece[i - k] = stream[i - k]
      BY <1>2, <3>1
    <3>4. stream[i - k] = Byte(r.seq, b, k + (i - k))
      BY <1>7, <3>1
    <3> QED
      BY <3>1, <3>2, <3>3, <3>4
  <2> QED
    BY <2>2, <2>3
<1>9. ASSUME NEW i \in 1 .. Len(rest) PROVE rest[i] = Byte(r.seq, b, Len(got) + i)
  <2>1. n + i \in 1 .. l /\ k + (n + i) = Len(got) + i
    BY <1>7
  <2>2. rest[i] = stream[n + i] /\ stream[n + i] = Byte(r.seq, b, k + (n + i))
    BY <1>7, <2>1
  <2> QED
    BY <2>1, <2>2
<1>10. /\ Len(got) + Len(rest) = HeaderSize + b
       /\ \/ r.part = "header" /\ Len(got) + (r.missing - n) = HeaderSize
          \/ r.part = "body" /\ Len(got) + (r.missing - n) = HeaderSize + b
  <2>1. Len(got) + Len(rest) = k + l /\ Len(got) + (r.missing - n) = k + r.missing
    BY <1>7
  <2> QED
    BY <1>7, <2>1
<1>11. WithinMessage(new, rest, b)
  BY <1>5, <1>8, <1>9, <1>10 DEF WithinMessage
<1> QED
  BY <1>3, <1>6, <1>11 DEF Rest, rest

(* A header that is complete announces the body of its own message.          *)
LEMMA ReadsHeader ==
  ASSUME NEW r \in Readers, NEW stream \in Seq(AllBytes), NEW b \in 0 .. MaxBody,
         WithinMessage(r, stream, b), r.missing = 0
  PROVE  /\ r.got # <<>> /\ r.got[1].body = b /\ Len(r.got) >= HeaderSize
         /\ \A new : new = Reads("body", b, r.got, r.seq) /\ r.part = "header" =>
              new \in Readers /\ WithinMessage(new, stream, b)
<1>1. /\ r.got \in Seq(AllBytes) /\ r.seq \in Nat /\ Len(r.got) \in Nat
      /\ b \in Nat /\ HeaderSize \in Nat \ {0}
  BY StreamConstants DEF Readers
<1>2. Len(r.got) >= HeaderSize /\ r.got # <<>>
  BY <1>1 DEF WithinMessage
<1>3. r.got[1].body = b
  <2>1. 1 \in 1 .. Len(r.got)
    BY <1>1, <1>2
  <2>2. r.got[1] = Byte(r.seq, b, 1)
    BY <2>1 DEF WithinMessage
  <2> QED
    BY <2>2 DEF Byte
<1>4. ASSUME NEW new, new = Reads("body", b, r.got, r.seq), r.part = "header"
      PROVE  new \in Readers /\ WithinMessage(new, stream, b)
  <2>1. new.part = "body" /\ new.missing = b /\ new.got = r.got /\ new.seq = r.seq
    BY <1>4 DEF Reads
  <2>2. new \in Readers
    BY <1>1, <1>4 DEF Reads, Readers
  <2>3. Len(r.got) + b = HeaderSize + b
    BY <1>1, <1>4 DEF WithinMessage
  <2> QED
    BY <2>1, <2>2, <2>3 DEF WithinMessage
<1> QED
  BY <1>2, <1>3, <1>4

LEMMA StreamInvInit == StreamInit => StreamInv
<1> SUFFICES ASSUME StreamInit PROVE StreamInv
  OBVIOUS
<1>1. peer.client = Resting(0) /\ peer.server = Reads("header", HeaderSize, <<>>, 0)
  BY DEF StreamInit
<1>2. peer.client \in Readers /\ peer.server \in Readers
  BY <1>1, StreamConstants DEF Resting, Reads, Readers
<1>3. StreamTypeOK
  BY <1>2 DEF StreamInit, StreamTypeOK
<1>4. NoMessage
  BY <1>1 DEF StreamInit, NoMessage, AtStart, Resting, Reads
<1> QED
  BY <1>3, <1>4 DEF StreamInv

LEMMA StreamInvNext == StreamInv /\ [StreamNext]_streamVars => StreamInv'
<1> SUFFICES ASSUME StreamInv, [StreamNext]_streamVars PROVE StreamInv'
  OBVIOUS
<1> DEFINE c == peer.client
           s == peer.server
<1>0. /\ c \in Readers /\ s \in Readers /\ peer \in [client: Readers, server: Readers]
      /\ requests \in Seq(AllBytes) /\ responses \in Seq(AllBytes)
      /\ c.seq \in Nat /\ s.seq \in Nat /\ c.missing \in Nat /\ s.missing \in Nat
      /\ HeaderSize \in Nat \ {0}
  BY StreamConstants DEF StreamInv, StreamTypeOK, Readers
<1>1. ASSUME SendRequest PROVE StreamInv'
  <2>1. NoMessage
    BY <1>0, <1>1 DEF SendRequest, StreamInv, RequestOnItsWay, ResponseOnItsWay, AtStart,
                      WithinMessage
  <2>2. PICK b \in 0 .. MaxBody : requests' = requests \o Message(c.seq, b)
    BY <1>1 DEF SendRequest
  <2>3. requests' = Message(c.seq, b) /\ Message(c.seq, b) \in Seq(AllBytes)
    BY <1>0, <2>1, <2>2, MessageBytes, ConcatEmptySeq DEF NoMessage
  <2>4. /\ peer' = [peer EXCEPT !.client = Reads("header", HeaderSize, <<>>, c.seq)]
        /\ responses' = <<>>
    BY <1>1, <2>1 DEF SendRequest, NoMessage
  <2>5. Reads("header", HeaderSize, <<>>, c.seq) \in Readers
    BY <1>0 DEF Reads, Readers
  <2>6. c' = Reads("header", HeaderSize, <<>>, c.seq) /\ s' = s
    BY <1>0, <2>4
  <2>7. StreamTypeOK'
    BY <1>0, <2>3, <2>4, <2>5 DEF StreamTypeOK
  <2>8. AtStart(c, c.seq)' /\ c'.seq = c.seq
    BY <2>6 DEF AtStart, Reads
  <2>9. WithinMessage(s, requests, b)'
    BY <1>0, <2>1, <2>3, <2>6, StartsMessage DEF NoMessage, AtStart
  <2> QED
    BY <2>1, <2>4, <2>6, <2>7, <2>8, <2>9 DEF StreamInv, RequestOnItsWay, NoMessage, AtStart
<1>2. ASSUME ServerRecv PROVE StreamInv'
  <2>1. PICK n \in 1 .. Len(requests) : /\ Recv("server", requests, n)
                                        /\ requests' = Rest(requests, n)
                                        /\ UNCHANGED responses
    BY <1>2 DEF ServerRecv
  <2>2. requests # <<>>
    BY <1>0, <2>1
  <2>3. RequestOnItsWay
    BY <2>2 DEF StreamInv, NoMessage, ResponseOnItsWay
  <2>4. PICK b \in 0 .. MaxBody : WithinMessage(s, requests, b)
    BY <2>3 DEF RequestOnItsWay
  <2> DEFINE new == Reads(s.part, s.missing - n, s.got \o SubSeq(requests, 1, n), s.seq)
  <2>5. /\ peer' = [peer EXCEPT !.server = new] /\ n <= s.missing
    <3>1. n \in 1 .. s.missing
      BY <2>1 DEF Recv
    <3>2. peer' = [peer EXCEPT !.server = new]
      BY <2>1 DEF Recv, Loops
    <3> QED
      BY <1>0, <3>1, <3>2
  <2>6. /\ new \in Readers /\ Rest(requests, n) \in Seq(AllBytes)
        /\ WithinMessage(new, Rest(requests, n), b) /\ new.seq = s.seq
    BY <1>0, <2>1, <2>4, <2>5, MovesBytes DEF Reads
  <2> HIDE DEF new
  <2>7. s' = new /\ c' = c
    BY <1>0, <2>5
  <2>8. StreamTypeOK'
    BY <1>0, <2>1, <2>5, <2>6 DEF StreamTypeOK
  <2> QED
    BY <2>1, <2>3, <2>6, <2>7, <2>8 DEF StreamInv, RequestOnItsWay, AtStart
<1>3. ASSUME ClientRecv PROVE StreamInv'
  <2>1. PICK n \in 1 .. Len(responses) : /\ Recv("client", responses, n)
                                         /\ responses' = Rest(responses, n)
                                         /\ UNCHANGED requests
    BY <1>3 DEF ClientRecv
  <2>2. responses # <<>>
    BY <1>0, <2>1
  <2>3. ResponseOnItsWay
    BY <2>2 DEF StreamInv, NoMessage, RequestOnItsWay
  <2>4. PICK b \in 0 .. MaxBody : WithinMessage(c, responses, b)
    BY <2>3 DEF ResponseOnItsWay
  <2> DEFINE new == Reads(c.part, c.missing - n, c.got \o SubSeq(responses, 1, n), c.seq)
  <2>5. /\ peer' = [peer EXCEPT !.client = new] /\ n <= c.missing
    <3>1. n \in 1 .. c.missing
      BY <2>1 DEF Recv
    <3>2. peer' = [peer EXCEPT !.client = new]
      BY <2>1 DEF Recv, Loops
    <3> QED
      BY <1>0, <3>1, <3>2
  <2>6. /\ new \in Readers /\ Rest(responses, n) \in Seq(AllBytes)
        /\ WithinMessage(new, Rest(responses, n), b) /\ new.seq = c.seq
    BY <1>0, <2>1, <2>4, <2>5, MovesBytes DEF Reads
  <2> HIDE DEF new
  <2>7. c' = new /\ s' = s
    BY <1>0, <2>5
  <2>8. StreamTypeOK'
    BY <1>0, <2>1, <2>5, <2>6 DEF StreamTypeOK
  <2> QED
    BY <2>1, <2>3, <2>6, <2>7, <2>8 DEF StreamInv, ResponseOnItsWay, AtStart
<1>4. ASSUME HeaderRead("client") PROVE StreamInv'
  <2>1. c.part = "header" /\ c.missing = 0 /\ UNCHANGED <<requests, responses>>
        /\ peer' = [peer EXCEPT !.client = Reads("body", c.got[1].body, c.got, c.seq)]
    BY <1>0, <1>4 DEF HeaderRead, Complete, BodyOf
  <2>2. ResponseOnItsWay
    BY <1>0, <2>1 DEF StreamInv, NoMessage, RequestOnItsWay, AtStart
  <2>3. PICK b \in 0 .. MaxBody : WithinMessage(c, responses, b)
    BY <2>2 DEF ResponseOnItsWay
  <2> DEFINE new == Reads("body", b, c.got, c.seq)
  <2>4. /\ new \in Readers /\ WithinMessage(new, responses, b) /\ new.seq = c.seq
        /\ c.got[1].body = b
    BY <1>0, <2>1, <2>3, ReadsHeader DEF Reads
  <2>5. peer' = [peer EXCEPT !.client = new]
    BY <2>1, <2>4
  <2> HIDE DEF new
  <2>6. c' = new /\ s' = s
    BY <1>0, <2>5
  <2>7. StreamTypeOK'
    BY <1>0, <2>1, <2>4, <2>5 DEF StreamTypeOK
  <2> QED
    BY <2>1, <2>2, <2>4, <2>6, <2>7 DEF StreamInv, ResponseOnItsWay, AtStart
<1>5. ASSUME HeaderRead("server") PROVE StreamInv'
  <2>1. s.part = "header" /\ s.missing = 0 /\ UNCHANGED <<requests, responses>>
        /\ peer' = [peer EXCEPT !.server = Reads("body", s.got[1].body, s.got, s.seq)]
    BY <1>0, <1>5 DEF HeaderRead, Complete, BodyOf
  <2>2. RequestOnItsWay
    BY <1>0, <2>1 DEF StreamInv, NoMessage, ResponseOnItsWay, AtStart
  <2>3. PICK b \in 0 .. MaxBody : WithinMessage(s, requests, b)
    BY <2>2 DEF RequestOnItsWay
  <2> DEFINE new == Reads("body", b, s.got, s.seq)
  <2>4. /\ new \in Readers /\ WithinMessage(new, requests, b) /\ new.seq = s.seq
        /\ s.got[1].body = b
    BY <1>0, <2>1, <2>3, ReadsHeader DEF Reads
  <2>5. peer' = [peer EXCEPT !.server = new]
    BY <2>1, <2>4
  <2> HIDE DEF new
  <2>6. s' = new /\ c' = c
    BY <1>0, <2>5
  <2>7. StreamTypeOK'
    BY <1>0, <2>1, <2>4, <2>5 DEF StreamTypeOK
  <2> QED
    BY <2>1, <2>2, <2>4, <2>6, <2>7 DEF StreamInv, RequestOnItsWay, AtStart
<1>6. ASSUME Respond PROVE StreamInv'
  <2>1. s.part = "body" /\ s.missing = 0 /\ UNCHANGED requests
        /\ peer' = [peer EXCEPT !.server = Reads("header", HeaderSize, <<>>, s.seq + 1)]
    BY <1>6 DEF Respond, Complete
  <2>2. RequestOnItsWay
    BY <1>0, <2>1 DEF StreamInv, NoMessage, ResponseOnItsWay, AtStart
  <2>3. PICK b \in 0 .. MaxBody : WithinMessage(s, requests, b)
    BY <2>2 DEF RequestOnItsWay
  <2>4. s.got[1].body = b /\ requests = <<>>
    <3>1. s.got[1].body = b
      BY <1>0, <2>1, <2>3, ReadsHeader
    <3>2. s.got \in Seq(AllBytes) /\ b \in Nat
      BY <1>0, StreamConstants DEF Readers
    <3>3. Len(requests) = 0
      BY <1>0, <2>1, <2>3, <3>2 DEF WithinMessage
    <3> QED
      BY <1>0, <3>1, <3>3
  <2>5. PICK d \in 0 .. MaxBody : responses' = responses \o Message(s.seq, d)
    <3>1. PICK kind \in Kinds, chunk \in 0 .. MaxBody :
            responses' = responses \o
              Message(s.seq, IF kind = "ping" THEN s.got[1].body
                             ELSE IF kind = "upload" THEN 0 ELSE chunk)
      BY <1>6 DEF Respond, BodyOf
    <3>2. 0 \in 0 .. MaxBody
      BY StreamConstants
    <3>3. CASE kind = "ping"
      BY <2>4, <3>1, <3>3
    <3>4. CASE kind = "upload"
      BY <3>1, <3>2, <3>4
    <3>5. CASE kind # "ping" /\ kind # "upload"
      BY <3>1, <3>5
    <3> QED
      BY <3>3, <3>4, <3>5
  <2>6. responses' = Message(c.seq, d) /\ Message(c.seq, d) \in Seq(AllBytes)
    BY <1>0, <2>2, <2>5, MessageBytes, ConcatEmptySeq DEF RequestOnItsWay
  <2>7. /\ s' = Reads("header", HeaderSize, <<>>, c.seq + 1) /\ c' = c
        /\ Reads("header", HeaderSize, <<>>, c.seq + 1) \in Readers
    BY <1>0, <2>1, <2>2 DEF RequestOnItsWay, Reads, Readers
  <2>8. StreamTypeOK'
    BY <1>0, <2>1, <2>2, <2>4, <2>6, <2>7 DEF StreamTypeOK, RequestOnItsWay
  <2>9. WithinMessage(c, responses, d)'
    BY <1>0, <2>2, <2>6, <2>7, StartsMessage DEF RequestOnItsWay
  <2>10. AtStart(s, c.seq + 1)'
    BY <2>7 DEF AtStart, Reads
  <2> QED
    BY <2>1, <2>4, <2>8, <2>9, <2>10 DEF StreamInv, ResponseOnItsWay
<1>7. ASSUME ResponseRead PROVE StreamInv'
  <2>1. c.part = "body" /\ c.missing = 0 /\ UNCHANGED <<requests, responses>>
        /\ peer' = [peer EXCEPT !.client = Resting(c.seq + 1)]
    BY <1>7 DEF ResponseRead, Complete
  <2>2. ResponseOnItsWay
    BY <1>0, <2>1 DEF StreamInv, NoMessage, RequestOnItsWay, AtStart
  <2>3. PICK b \in 0 .. MaxBody : WithinMessage(c, responses, b)
    BY <2>2 DEF ResponseOnItsWay
  <2>4. responses = <<>>
    <3>1. c.got \in Seq(AllBytes) /\ b \in Nat
      BY <1>0, StreamConstants DEF Readers
    <3>2. Len(responses) = 0
      BY <1>0, <2>1, <2>3, <3>1 DEF WithinMessage
    <3> QED
      BY <1>0, <3>2
  <2>5. /\ c' = Resting(c.seq + 1) /\ s' = s /\ Resting(c.seq + 1) \in Readers
        /\ c'.part = "none" /\ c'.seq = c.seq + 1
    BY <1>0, <2>1 DEF Resting, Reads, Readers
  <2>6. StreamTypeOK'
    BY <1>0, <2>1, <2>5 DEF StreamTypeOK
  <2> QED
    BY <2>1, <2>2, <2>4, <2>5, <2>6 DEF StreamInv, NoMessage, ResponseOnItsWay, AtStart
<1>8. CASE UNCHANGED streamVars
  BY <1>8 DEF streamVars, StreamInv, StreamTypeOK, NoMessage, RequestOnItsWay, ResponseOnItsWay,
              AtStart, WithinMessage
<1> QED
  BY <1>1, <1>2, <1>3, <1>4, <1>5, <1>6, <1>7, <1>8 DEF StreamNext

(* What a side has of a message is a prefix of it.                           *)
LEMMA WithinReadsPrefix ==
  ASSUME NEW r \in Readers, NEW stream \in Seq(AllBytes), NEW b \in 0 .. MaxBody,
         WithinMessage(r, stream, b)
  PROVE  IsPrefix(r.got, Message(r.seq, b))
<1> DEFINE m == Message(r.seq, b)
           k == Len(r.got)
<1>1. /\ r.got \in Seq(AllBytes) /\ r.seq \in Nat /\ k \in Nat /\ Len(stream) \in Nat
      /\ b \in Nat /\ HeaderSize \in Nat
  BY StreamConstants DEF Readers
<1>2. /\ m \in Seq(AllBytes) /\ Len(m) = HeaderSize + b
      /\ \A i \in 1 .. HeaderSize + b : m[i] = Byte(r.seq, b, i)
  BY <1>1, MessageBytes
<1>3. k + Len(stream) = HeaderSize + b /\ \A i \in 1 .. k : r.got[i] = Byte(r.seq, b, i)
  BY DEF WithinMessage
<1> HIDE DEF m
<1>4. k <= Len(m)
  BY <1>1, <1>2, <1>3
<1>5. \A i \in 1 .. k : m[i] = r.got[i]
  BY <1>1, <1>2, <1>3
<1>6. /\ SubSeq(m, 1, k) \in Seq(AllBytes) /\ Len(SubSeq(m, 1, k)) = k
      /\ \A i \in 1 .. k : SubSeq(m, 1, k)[i] = m[i]
  <2>1. \A i \in 1 .. k : m[i] \in AllBytes
    BY <1>1, <1>2, <1>4
  <2> QED
    BY <1>1, <1>2, <1>4, <2>1, SubSeqProperties
<1>7. SubSeq(m, 1, k) = r.got
  <2>1. SubSeq(r.got, 1, k) = r.got
    BY <1>1
  <2>2. \A i \in 1 .. k : SubSeq(m, 1, k)[i] = r.got[i]
    BY <1>5, <1>6
  <2> QED
    BY <1>1, <1>6, <2>2, SeqEqual
<1>8. SubSeq(r.got, 1, k) = r.got
  BY <1>1
<1> QED
  BY <1>4, <1>7, <1>8 DEF m, IsPrefix

(* Whenever a side has read the header or the body that it waited for, what  *)
(* it has is the beginning of the message of the request that it is at, and  *)
(* at least a header: recv_exact loops until the bytes that are missing have *)
(* come, however TCP cuts them, and neither side reads past its own message  *)
(* (benchmark-client.py:46-90, benchmark-deploy.yaml:30-75).                 *)
THEOREM ReadsInFrame == StreamSpec => []InFrame
<1>1. ASSUME StreamInv PROVE InFrame
  <2>1. peer["client"] = peer.client /\ peer["server"] = peer.server
    OBVIOUS
  <2>2. /\ peer.client \in Readers /\ peer.server \in Readers
        /\ requests \in Seq(AllBytes) /\ responses \in Seq(AllBytes)
    BY <1>1 DEF StreamInv, StreamTypeOK
  <2>3. ASSUME NEW who \in {"client", "server"}, peer[who].part # "none",
               peer[who].missing = 0
        PROVE  \E stream \in Seq(AllBytes), b \in 0 .. MaxBody :
                 WithinMessage(peer[who], stream, b)
    <3>1. ~AtStart(peer[who], peer[who].seq)
      BY <2>3, StreamConstants DEF AtStart
    <3> QED
      BY <1>1, <2>1, <2>2, <2>3, <3>1
      DEF StreamInv, NoMessage, RequestOnItsWay, ResponseOnItsWay, AtStart
  <2>4. ASSUME NEW who \in {"client", "server"}, peer[who].part # "none",
               peer[who].missing = 0
        PROVE  /\ peer[who].got # <<>> /\ Len(peer[who].got) >= HeaderSize
               /\ IsPrefix(peer[who].got, Message(peer[who].seq, BodyOf(who)))
    <3>1. PICK stream \in Seq(AllBytes), b \in 0 .. MaxBody :
            WithinMessage(peer[who], stream, b)
      BY <2>3, <2>4
    <3>2. peer[who] \in Readers
      BY <2>2
    <3>3. /\ peer[who].got # <<>> /\ Len(peer[who].got) >= HeaderSize
          /\ peer[who].got[1].body = b
      BY <2>4, <3>1, <3>2, ReadsHeader
    <3> QED
      BY <3>1, <3>2, <3>3, WithinReadsPrefix DEF BodyOf
  <2> QED
    BY <2>4 DEF InFrame
<1> QED
  BY StreamInvInit, StreamInvNext, <1>1, PTL DEF StreamSpec

===============================================================================
