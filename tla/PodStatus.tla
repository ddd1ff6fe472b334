-------------------------------- MODULE PodStatus --------------------------------
(***************************************************************************)
(* The startup status that the nef-shim reports of an instance             *)
(* (nef-shim/k8s_manager.py, get_instance_status_detail): the phase and    *)
(* since when it lasts, from the first pod of the tenant's list, while     *)
(* Kubernetes schedules, pulls, starts, probes, crashes and replaces it.   *)
(***************************************************************************)
EXTENDS SequencesExt, Absent

CONSTANT MaxEvents  \* bound: events in the cluster, which also are its clock

ASSUME MaxEventsAssumption == MaxEvents \in Nat
ASSUME NoTimeAssumption == None \notin Nat

VARIABLES
  podList,  \* external: the pods with the tenant's label, in the list's order
  now,      \* external: the time
  smooth    \* history: nothing was pulled in vain, crashed, became unready or
            \* was replaced

podVars == <<podList, now, smooth>>

PHASE_ORDER == <<"scheduling", "pulling", "starting", "running", "ready">>

(* container is "none" until the kubelet reports the container's status;     *)
(* None stands for a time that is not set.                                   *)
Containers == {"none", "creating", "pull error", "running", "terminated", "crash loop"}
NewPod == [phase |-> "Pending", createdAt |-> now', scheduledAt |-> None,
           container |-> "none", startedAt |-> None, ready |-> FALSE, readyAt |-> None]

PodInit == podList = <<>> /\ now = 0 /\ smooth = TRUE

-------------------------------------------------------------------------------
(* External: the Deployment's pod, and what becomes of it.                   *)

Tick == now < MaxEvents /\ now' = now + 1

(* A replacement is listed before or after a pod that still is there.        *)
PodCreated ==
  /\ Tick
  /\ \/ podList = <<>> /\ podList' = <<NewPod>> /\ UNCHANGED smooth
     \/ /\ Len(podList) = 1 /\ podList[1].phase = "Failed"
        /\ podList' \in {<<NewPod>> \o podList, Append(podList, NewPod)}
        /\ smooth' = FALSE

PodRemoved ==
  /\ Tick
  /\ \E i \in DOMAIN podList : podList' = RemoveAt(podList, i)
  /\ smooth' = FALSE

(* A change of the i-th pod, whose container ran or pulled without trouble   *)
(* if fine.                                                                  *)
Changes(i, pod, fine) ==
  /\ Tick
  /\ podList' = [podList EXCEPT ![i] = pod]
  /\ smooth' = (smooth /\ fine)

Scheduled(i) ==
  /\ podList[i].phase = "Pending" /\ podList[i].scheduledAt = None
  /\ Changes(i, [podList[i] EXCEPT !.scheduledAt = now'], TRUE)

Pulls(i) ==
  /\ podList[i].phase = "Pending" /\ podList[i].scheduledAt # None
  /\ \/ /\ podList[i].container \in {"none", "pull error"}
        /\ Changes(i, [podList[i] EXCEPT !.container = "creating"], TRUE)
     \/ /\ podList[i].container \in {"none", "creating"}
        /\ Changes(i, [podList[i] EXCEPT !.container = "pull error"], FALSE)

Starts(i) ==
  /\ podList[i].container \in {"creating", "terminated", "crash loop"}
  /\ podList[i].phase # "Failed"
  /\ Changes(i, [podList[i] EXCEPT !.container = "running", !.startedAt = now',
                                   !.phase = "Running"], TRUE)

(* The kubelet sets the container's readiness and the pod's condition at once.*)
Probed(i) ==
  /\ podList[i].container = "running"
  /\ \/ /\ ~podList[i].ready
        /\ Changes(i, [podList[i] EXCEPT !.ready = TRUE, !.readyAt = now'], TRUE)
     \/ /\ podList[i].ready
        /\ Changes(i, [podList[i] EXCEPT !.ready = FALSE, !.readyAt = now'], FALSE)

Crashes(i) ==
  \/ /\ podList[i].container = "running"
     /\ Changes(i, [podList[i] EXCEPT !.container = "terminated", !.startedAt = None,
                                      !.ready = FALSE, !.readyAt = now'], FALSE)
  \/ /\ podList[i].container = "terminated" /\ podList[i].phase # "Failed"
     /\ Changes(i, [podList[i] EXCEPT !.container = "crash loop"], FALSE)

Evicted(i) ==
  /\ podList[i].phase # "Failed"
  /\ Changes(i, [podList[i] EXCEPT !.phase = "Failed", !.startedAt = None, !.ready = FALSE,
                   !.container = IF @ = "running" THEN "terminated" ELSE "none"], FALSE)

PodMoves(i) == Scheduled(i) \/ Pulls(i) \/ Starts(i) \/ Probed(i) \/ Crashes(i) \/ Evicted(i)
PodNext == PodCreated \/ PodRemoved \/ \E i \in DOMAIN podList : PodMoves(i)
PodSpec == PodInit /\ [][PodNext]_podVars

-------------------------------------------------------------------------------
(* get_instance_status_detail, of the list's first pod.                      *)

HasPod == podList # <<>>
Pod == podList[1]

(* The phase while the container is waiting.  Where a definition has another *)
(* form before it, that is the form a plausible bug would give it; no action *)
(* uses it.                                                                  *)
DefaultPhase == IF Pod.container = "crash loop" THEN "failed" ELSE "scheduling"
WaitingPhase == IF Pod.container = "pull error" THEN "pulling"
                ELSE IF Pod.container = "crash loop" THEN "failed" ELSE "starting"

(* Without a container, and with one that has terminated, from the pod.      *)
PodPhase == IF Pod.phase = "Failed" THEN "failed"
            ELSE IF Pod.phase = "Running" THEN "running"
            ELSE IF Pod.scheduledAt # None THEN "pulling" ELSE "scheduling"

Phase ==
  IF ~HasPod THEN "scheduling"
  ELSE IF Pod.ready THEN "ready"
  ELSE IF Pod.container \in {"creating", "pull error", "crash loop"} THEN WaitingPhase
  ELSE IF Pod.container = "running" THEN "running"
  ELSE PodPhase

(* phaseStartedAt is createdAt where the phase's own time is not set.        *)
WithoutReady(p) == IF p = "running" THEN Pod.startedAt
                   ELSE IF p \in {"pulling", "starting"} THEN Pod.scheduledAt ELSE None
TimeOf(p) == IF p = "ready" THEN Pod.readyAt
             ELSE IF p = "running" THEN Pod.startedAt
             ELSE IF p \in {"pulling", "starting"} THEN Pod.scheduledAt ELSE None
PhaseStartedAt == IF ~HasPod THEN None
                  ELSE IF TimeOf(Phase) = None THEN Pod.createdAt ELSE TimeOf(Phase)

-------------------------------------------------------------------------------
(* Properties.                                                               *)

Rank == [p \in ToSet(PHASE_ORDER) |-> CHOOSE r \in DOMAIN PHASE_ORDER : PHASE_ORDER[r] = p]

(* The phases that a client sees never go back in PHASE_ORDER, and it never  *)
(* sees "failed", while no pull failed, nothing crashed, no probe failed and *)
(* no pod went: a progress bar advances (k8s_manager.py:324, 411-468,        *)
(* gui.py:484-508).                                                          *)
PhasesAdvance ==
  [][smooth' => Phase' \in DOMAIN Rank /\ (HasPod => Rank[Phase'] >= Rank[Phase])]_podVars

(* Nor does the time since when the phase lasts: it is a time of the pod's   *)
(* past, never earlier than it was for the phase before                      *)
(* (k8s_manager.py:399-462).                                                 *)
ClockAdvances ==
  [][smooth' /\ HasPod => PhaseStartedAt' \in PhaseStartedAt .. now']_podVars

===============================================================================
