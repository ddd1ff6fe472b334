----------------------------- MODULE InferContainer -----------------------------
(***************************************************************************)
(* The EdgeVision container from its start to its first answer, in the     *)
(* order of triton-infer/entrypoint.sh: the engine of each model is built  *)
(* unless its file is there, Triton is started and waited for, then the    *)
(* sidecar registers its memory regions with it.  The kubelet starts the   *)
(* container again whenever it has ended.                                  *)
(***************************************************************************)
EXTENDS Naturals

CONSTANT MaxKills  \* bound: the container or Triton is killed so often

ASSUME MaxKillsAssumption == MaxKills \in Nat

VARIABLES
  keepsModels,  \* whether MODEL_DIR outlives the container
  container,    \* what the start-up script does next
  plan,         \* model.plan of each model
  triton,       \* the Triton server
  kills         \* how often something was killed

bootVars == <<container, plan, triton, kills>>
containerVars == <<keepsModels, bootVars>>

EngineModels == {"detect", "seg"}
(* "dir" is the directory without the file, "partial" a file that trtexec    *)
(* has begun to write.                                                       *)
Plans == {"none", "dir", "partial", "complete"}
Build == [detect |-> "build detect", seg |-> "build seg"]
Write == [detect |-> "write detect", seg |-> "write seg"]
After == [detect |-> "build seg", seg |-> "start triton"]

InImage == [m \in EngineModels |-> "none"]
ContainerInit ==
  /\ keepsModels \in BOOLEAN
  /\ container = "build detect" /\ plan = InImage
  /\ triton = "down" /\ kills = 0

(* entrypoint.sh and export_model.py both skip a model whose file exists.    *)
(* Where a definition has another form before it, that is the form a         *)
(* plausible bug would give it; no action uses it.                           *)
DirExists(m)  == plan[m] # "none"
PlanExists(m) == plan[m] \in {"partial", "complete"}

(* set -e: a script that ends ends the container.                            *)
Exits == container' = "exited" /\ triton' = "down" /\ UNCHANGED plan

(* The engine's directory and the ONNX file, or an exception on the way.     *)
ExportModel(m) ==
  /\ container = Build[m]
  /\ UNCHANGED <<triton, kills>>
  /\ \/ PlanExists(m) /\ container' = After[m] /\ UNCHANGED plan
     \/ /\ ~PlanExists(m) /\ plan' = [plan EXCEPT ![m] = "dir"]
        /\ container' \in {Write[m], "exited"}

(* trtexec writes the engine, or fails with or without a part of it written. *)
BeginEngine(m) ==
  /\ container = Write[m] /\ plan[m] = "dir"
  /\ plan' = [plan EXCEPT ![m] = "partial"]
  /\ UNCHANGED <<container, triton, kills>>

EndEngine(m) ==
  /\ container = Write[m] /\ plan[m] = "partial"
  /\ plan' = [plan EXCEPT ![m] = "complete"]
  /\ container' = After[m]
  /\ UNCHANGED <<triton, kills>>

(* What can fail comes before, within or after the writing.                  *)
BuildFails(m) ==
  /\ container = Write[m]
  /\ container' = "exited" /\ triton' = "down" /\ UNCHANGED kills
  /\ \/ UNCHANGED plan
     \/ plan[m] = "partial" /\ plan' = [plan EXCEPT ![m] = "complete"]

StartTriton ==
  /\ container = "start triton"
  /\ triton' = "loading" /\ container' = "wait"
  /\ UNCHANGED <<plan, kills>>

(* Triton opens its ports when it has loaded both engines, and ends when it  *)
(* cannot.                                                                   *)
Loadable == \A m \in EngineModels : plan[m] = "complete"
TritonLoads ==
  /\ triton = "loading"
  /\ triton' = IF Loadable THEN "serving" ELSE "dead"
  /\ UNCHANGED <<container, plan, kills>>

(* The wait ends when Triton is ready, and after a minute all the same.      *)
WaitEnds ==
  /\ container = "wait"
  /\ container' = "start sidecar"
  /\ UNCHANGED <<plan, triton, kills>>

(* _init_triton raises when no Triton answers, and uvicorn exits.            *)
StartsAnyway == container' = "up" /\ UNCHANGED triton
Registers == IF triton = "serving" THEN container' = "up" /\ UNCHANGED triton
             ELSE container' = "exited" /\ triton' = "down"
StartSidecar ==
  /\ container = "start sidecar"
  /\ Registers
  /\ UNCHANGED <<plan, kills>>

Kill ==
  /\ kills < MaxKills /\ kills' = kills + 1
  /\ \/ container # "exited" /\ Exits
     \/ triton \in {"loading", "serving"} /\ triton' = "dead" /\ UNCHANGED <<container, plan>>

(* The kubelet: a new container has the image's files, and MODEL_DIR.        *)
RestartContainer ==
  /\ container = "exited" /\ container' = "build detect"
  /\ plan' = IF keepsModels THEN plan ELSE InImage
  /\ UNCHANGED <<triton, kills>>

Builds(m) == ExportModel(m) \/ BeginEngine(m) \/ EndEngine(m) \/ BuildFails(m)
Exports(m) == ExportModel(m) /\ container' # "exited"
ContainerStep == StartTriton \/ WaitEnds \/ StartSidecar \/ RestartContainer
ContainerNext ==
  /\ (\E m \in EngineModels : Builds(m)) \/ ContainerStep \/ TritonLoads \/ Kill
  /\ UNCHANGED keepsModels

(* Each build, tried again and again, succeeds at last, and Triton loads its *)
(* engines within the minute.                                                *)
ContainerFairness ==
  /\ \A m \in EngineModels : /\ SF_bootVars(Exports(m)) /\ SF_bootVars(BeginEngine(m))
                              /\ SF_bootVars(EndEngine(m))
  /\ SF_bootVars(TritonLoads) /\ WF_bootVars(ContainerStep)

ContainerSpec == ContainerInit /\ [][ContainerNext]_containerVars /\ ContainerFairness

-------------------------------------------------------------------------------
(* Properties.                                                               *)

(* /health answers 200 whatever Triton does, but the sidecar that answers it *)
(* only comes up behind a Triton that has loaded complete engines            *)
(* (sidecar/main.py:73-100, 245-257, entrypoint.sh:31-41).                   *)
UpWhenLoaded == container = "up" => Loadable /\ triton \in {"serving", "dead"}

(* The container comes up, whatever was killed or failed before, unless a    *)
(* directory that outlives it kept an engine that trtexec had not finished:  *)
(* no later start builds that one again (entrypoint.sh:9-18,                 *)
(* export_model.py:37-42).                                                   *)
Trapped == keepsModels /\ \E m \in EngineModels : plan[m] = "partial"
ComesUp == []<>(container = "up" \/ Trapped)

===============================================================================
