------------------------------ MODULE ComputeJobs ------------------------------
(***************************************************************************)
(* The Compute API (camara/camara-deploy.yaml) and the demo that uses it   *)
(* (camara/camara-demo.py).  The API creates a Kubernetes Job, remembers   *)
(* it in memory and polls it in a task; a job that it does not remember is *)
(* looked up in Kubernetes.  Its handlers and polls block the one event    *)
(* loop, so each is a step.                                                *)
(***************************************************************************)
EXTENDS Naturals, Absent

CONSTANTS
  Jobs,         \* one job for each run of the demo
  MaxJobPolls,    \* polls of a job before it times out: 300 s, one in 3 s
  MaxTries,     \* questions of the demo before it gives up: 90
  MaxRestarts   \* bound: restarts of the API

ASSUME BoundsAssumption == MaxJobPolls \in Nat /\ MaxTries \in Nat /\ MaxRestarts \in Nat

VARIABLES
  job,       \* external: the Job in Kubernetes, or None before it is created
  pods,      \* external: its ended pods that still exist
  lost,      \* history: its pods were removed before the Job was
  store,     \* jobs_store
  polls,     \* how often the task of a job has polled, None when it has ended
  client,    \* each run of the demo
  restarts   \* how often the API has been started again

jobVars == <<job, pods, lost, store, polls, client, restarts>>

JobRuns     == {"failed", "good"}
Results     == {"good", "raw", "error"}
JobStatuses == {"pending", "running", "completed", "failed", "timeout", "not found"}
JobAnswers  == [status: JobStatuses, result: Results \cup {None}]
DemoSteps   == {"discover", "submit", "poll", "read", "compared", "refused", "aborted"}

(* A Job has at most one active pod, and no more than backoff_limit = 1      *)
(* retries; "gone" once it has been removed.                                 *)
JobStates == [active: 0..1, failed: 0..2, succeeded: 0..1, gone: BOOLEAN]

ASSUME NoJobAssumption == None \notin Nat \cup Results \cup JobStates \cup JobAnswers

(* Type correctness; a completed job in the store has a result.              *)
ComputeTypeOK ==
  /\ job \in [Jobs -> JobStates \cup {None}]
  /\ pods \in [Jobs -> SUBSET JobRuns]
  /\ lost \in [Jobs -> BOOLEAN]
  /\ store \in [Jobs -> {[status |-> s, result |-> None] : s \in {"pending", "timeout"}}
                        \cup {[status |-> "failed", result |-> "error"], None}
                        \cup [status: {"completed"}, result: {"good", "raw"}]]
  /\ polls \in [Jobs -> 0 .. MaxJobPolls \cup {None}]
  /\ client \in [Jobs -> [step: DemoSteps, tries: 0 .. MaxTries, result: Results \cup {None}]]
  /\ restarts \in 0 .. MaxRestarts

JobsInit ==
  /\ job = [j \in Jobs |-> None]
  /\ pods = [j \in Jobs |-> {}]
  /\ lost = [j \in Jobs |-> FALSE]
  /\ store = [j \in Jobs |-> None]
  /\ polls = [j \in Jobs |-> None]
  /\ client = [j \in Jobs |-> [step |-> "discover", tries |-> 0, result |-> None]]
  /\ restarts = 0

-------------------------------------------------------------------------------
(* External: the Job controller.                                             *)

InCluster(j) == job[j] # None /\ ~job[j].gone
Finished(j)  == job[j].succeeded = 1 \/ job[j].failed = 2

RunStarts(j) ==
  /\ InCluster(j) /\ ~Finished(j) /\ job[j].active = 0
  /\ job' = [job EXCEPT ![j].active = 1]
  /\ UNCHANGED <<pods, lost, store, polls, client, restarts>>

RunEnds(j) ==
  /\ InCluster(j) /\ job[j].active = 1
  /\ \/ /\ job' = [job EXCEPT ![j].active = 0, ![j].failed = @ + 1]
        /\ pods' = [pods EXCEPT ![j] = @ \cup {"failed"}]
     \/ /\ job' = [job EXCEPT ![j].active = 0, ![j].succeeded = 1]
        /\ pods' = [pods EXCEPT ![j] = @ \cup {"good"}]
  /\ UNCHANGED <<lost, store, polls, client, restarts>>

(* An evicted or collected pod goes alone; ttl_seconds_after_finished takes  *)
(* the Job with all of them.                                                 *)
PodsGo(j) ==
  /\ pods[j] # {}
  /\ \/ \E p \in pods[j] : pods' = [pods EXCEPT ![j] = @ \ {p}]
        /\ lost' = [lost EXCEPT ![j] = TRUE] /\ UNCHANGED job
     \/ Finished(j) /\ job' = [job EXCEPT ![j].gone = TRUE]
        /\ pods' = [pods EXCEPT ![j] = {}] /\ UNCHANGED lost
  /\ UNCHANGED <<store, polls, client, restarts>>

-------------------------------------------------------------------------------
(* The API.                                                                  *)

(* What a log's last line is read as: JSON, or "raw_output".  Where a         *)
(* definition has another form before it, that is the form a plausible bug   *)
(* would give it; no action uses it.                                         *)
FirstLine(p) == "raw"
ReadLog(p) == IF p = "good" THEN "good" ELSE "raw"

(* A poll that raises is one of the polls; for a job that succeeded and has  *)
(* no pod left nothing is stored.                                            *)
Polling(j) == polls[j] # None /\ polls[j] < MaxJobPolls
EndsPolling(j) == polls' = [polls EXCEPT ![j] = None]
SavesNone(j) == store' = [store EXCEPT ![j] = [status |-> "completed", result |-> None]]
SavesLog(j)  == \E p \in pods[j] :
                  store' = [store EXCEPT ![j] = [status |-> "completed", result |-> ReadLog(p)]]
PollJob(j) ==
  /\ Polling(j)
  /\ \/ polls' = [polls EXCEPT ![j] = @ + 1] /\ UNCHANGED store
     \/ /\ InCluster(j) /\ job[j].succeeded = 1 /\ EndsPolling(j)
        /\ IF pods[j] = {} THEN UNCHANGED store ELSE SavesLog(j)
     \/ /\ InCluster(j) /\ job[j].succeeded = 0 /\ job[j].failed > 0 /\ EndsPolling(j)
        /\ store' = [store EXCEPT ![j] = [status |-> "failed", result |-> "error"]]
  /\ UNCHANGED <<job, pods, lost, client, restarts>>

LeavesPending(j) == UNCHANGED store
SetsTimeout(j)   == store' = [store EXCEPT ![j].status = "timeout"]
JobTimeout(j) ==
  /\ polls[j] = MaxJobPolls
  /\ SetsTimeout(j)
  /\ EndsPolling(j)
  /\ UNCHANGED <<job, pods, lost, client, restarts>>

(* get_compute_job: from the store, or from Kubernetes.                      *)
FailedFirst(j) == IF job[j].failed > 0 THEN "failed"
                  ELSE IF job[j].succeeded = 1 THEN "completed"
                  ELSE IF job[j].active = 1 THEN "running" ELSE "pending"
KubernetesStatus(j) == IF job[j].succeeded = 1 THEN "completed"
                       ELSE IF job[j].failed > 0 THEN "failed"
                       ELSE IF job[j].active = 1 THEN "running" ELSE "pending"
JobStatus(j) == IF store[j] # None THEN store[j].status
             ELSE IF InCluster(j) THEN KubernetesStatus(j) ELSE "not found"
Logs(j) == IF JobStatus(j) = "completed" /\ pods[j] # {} THEN {ReadLog(p) : p \in pods[j]}
           ELSE {None}
GetJob(j) == IF store[j] # None THEN {store[j]}
             ELSE [status: {JobStatus(j)}, result: Logs(j)]

ApiRestart ==
  /\ restarts < MaxRestarts /\ restarts' = restarts + 1
  /\ store' = [j \in Jobs |-> None]
  /\ polls' = [j \in Jobs |-> None]
  /\ UNCHANGED <<job, pods, lost, client>>

-------------------------------------------------------------------------------
(* The demo.                                                                 *)

DemoAt(j, step) == client[j].step = step
ClientGoes(j, step) == client' = [client EXCEPT ![j].step = step]

(* No answer, an error or an empty list of zones ends it.                    *)
Discover(j) ==
  /\ DemoAt(j, "discover")
  /\ ClientGoes(j, "submit") \/ ClientGoes(j, "refused")
  /\ UNCHANGED <<job, pods, lost, store, polls, restarts>>

(* create_compute_job: it may fail before the Job is there, or when the      *)
(* answer to the API was lost; and its own answer may be.                    *)
NewJob == [active |-> 0, failed |-> 0, succeeded |-> 0, gone |-> FALSE]
Submit(j) ==
  /\ DemoAt(j, "submit")
  /\ \/ /\ job' = [job EXCEPT ![j] = NewJob]
        /\ store' = [store EXCEPT ![j] = [status |-> "pending", result |-> None]]
        /\ polls' = [polls EXCEPT ![j] = 0]
        /\ ClientGoes(j, "poll") \/ ClientGoes(j, "refused")
     \/ /\ job' \in {job, [job EXCEPT ![j] = NewJob]}
        /\ ClientGoes(j, "refused") /\ UNCHANGED <<store, polls>>
  /\ UNCHANGED <<pods, lost, restarts>>

(* One question: an exception, and every status but the two that it knows,   *)
(* make it ask again.                                                        *)
OnlyPending(s) == s = "pending"
AsksAgain(s) == s \notin {"completed", "failed"}
Ask(j) ==
  /\ DemoAt(j, "poll") /\ client[j].tries < MaxTries
  /\ \/ \E a \in GetJob(j) :
          \/ /\ a.status = "completed"
             /\ client' = [client EXCEPT ![j] = [step |-> "read", tries |-> @.tries,
                                                 result |-> a.result]]
          \/ a.status # "completed" /\ ~AsksAgain(a.status) /\ ClientGoes(j, "aborted")
          \/ AsksAgain(a.status) /\ client' = [client EXCEPT ![j].tries = @ + 1]
     \/ client' = [client EXCEPT ![j].tries = @ + 1]
  /\ UNCHANGED <<job, pods, lost, store, polls, restarts>>

GiveUp(j) ==
  /\ DemoAt(j, "poll") /\ client[j].tries = MaxTries
  /\ ClientGoes(j, "aborted")
  /\ UNCHANGED <<job, pods, lost, store, polls, restarts>>

(* "No result data returned from edge", or the comparison.                   *)
ReadResult(j) ==
  /\ DemoAt(j, "read")
  /\ ClientGoes(j, IF client[j].result = None THEN "aborted" ELSE "compared")
  /\ UNCHANGED <<job, pods, lost, store, polls, restarts>>

ClusterStep(j) == RunStarts(j) \/ RunEnds(j) \/ PodsGo(j)
JobPollerStep(j)  == PollJob(j) \/ JobTimeout(j)
ClientStep(j)  == Discover(j) \/ Submit(j) \/ Ask(j) \/ GiveUp(j) \/ ReadResult(j)

ComputeNext == (\E j \in Jobs : ClusterStep(j) \/ JobPollerStep(j) \/ ClientStep(j)) \/ ApiRestart

(* The event loop wakes the task of each job.                                *)
ComputeSpec ==
  JobsInit /\ [][ComputeNext]_jobVars /\ \A j \in Jobs : WF_jobVars(JobPollerStep(j))

-------------------------------------------------------------------------------
(* Properties.                                                               *)

(* The demo compares with the result of the run that succeeded, unless       *)
(* another run of the job failed before: then pods.items[0] may be the pod   *)
(* of either (camara-deploy.yaml:291-314, 354-371, camara-demo.py:322-341).  *)
ComparesTheResult ==
  \A j \in Jobs : DemoAt(j, "compared") =>
    client[j].result = "good" \/ (client[j].result = "raw" /\ job[j].failed > 0)

(* A demo that got its job accepted and then aborts had a run that failed or *)
(* pods that were lost, or asked for all its three minutes: no restart of    *)
(* the API and no status of a job in progress makes it abort                 *)
(* (camara-deploy.yaml:341-381, camara-demo.py:296-326).                     *)
AbortsForAReason ==
  \A j \in Jobs : DemoAt(j, "aborted") =>
    client[j].tries = MaxTries \/ job[j].failed > 0 \/ lost[j]

(* A job that was once reported completed never again has another status,    *)
(* also when a restart moves the question from the store to Kubernetes; it   *)
(* may only be forgotten (camara-deploy.yaml:289-334, 344-376).              *)
CompletedStays ==
  [][\A j \in Jobs : JobStatus(j) = "completed" => JobStatus(j)' \in {"completed", "not found"}]_jobVars

(* Each job accepted gets a status that ends it, unless a restart ends the   *)
(* task or the pods of the job are removed under it: such a job is pending   *)
(* for ever (camara-deploy.yaml:270, 282-338).                               *)
Pending(j) == store[j] # None /\ store[j].status = "pending"
JobsEnd == \A j \in Jobs : Pending(j) ~> ~Pending(j) \/ lost[j]

===============================================================================
