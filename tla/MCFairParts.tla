------------------------------ MODULE MCFairParts ------------------------------
(* The parts that must get somewhere, side by side: the GUI under a patient  *)
(* user with its latency collector and radio poller, the programs without a  *)
(* window, the Compute API with its demo, the camera, the inference container*)
(* and the benchmark's stream.  They share no state, so each behaviour runs  *)
(* one of them and leaves the others as they start.                          *)
EXTENDS GuiEdge, LatencyCollector, ModemPoller, EdgeLifecycle, ComputeJobs,
        CameraApi, InferContainer, BenchmarkStream, TLC

VARIABLE part

Parts == {"gui", "latency", "modem", "program", "jobs", "camera", "container",
          "stream"}

Runs(p) == part = p
Rests(p) ==
  CASE p = "gui" -> UNCHANGED vars
    [] p = "latency" -> UNCHANGED latencyVars [] p = "modem" -> UNCHANGED modemVars
    [] p = "program" -> UNCHANGED lifeVars [] p = "jobs" -> UNCHANGED jobVars
    [] p = "camera" -> UNCHANGED cameraVars [] p = "container" -> UNCHANGED containerVars
    [] p = "stream" -> UNCHANGED streamVars

FairInit ==
  /\ part \in Parts
  /\ Init /\ LatencyInit /\ ModemInit /\ LifeInit /\ JobsInit
  /\ CameraInit /\ ContainerInit /\ StreamInit
  /\ Runs("program") \/ program = "main"
  /\ Runs("camera") \/ directory = {}
  /\ Runs("container") \/ keepsModels

PatientNext == Next /\ ~hasty'

FairNext ==
  /\ UNCHANGED part
  /\ \A p \in Parts \ {part} : Rests(p)
  /\ \/ Runs("gui") /\ PatientNext
     \/ Runs("latency") /\ LatencyNext
     \/ Runs("modem") /\ ModemNext
     \/ Runs("program") /\ LifeNext
     \/ Runs("jobs") /\ ComputeNext
     \/ Runs("camera") /\ CameraNext
     \/ Runs("container") /\ ContainerNext
     \/ Runs("stream") /\ StreamNext

(* The fairness of each part's own specification, where it runs.             *)
FairFairness ==
  /\ WF_vars(Runs("gui") /\ UserContinues)
  /\ \A s \in Setups : WF_vars(Runs("gui") /\ SetupContinues(s))
  /\ WF_modemVars(Runs("modem") /\ PollerStep)
  /\ WF_lifeVars(Runs("program") /\ ProgramStep)
  /\ \A j \in Jobs : WF_jobVars(Runs("jobs") /\ JobPollerStep(j))
  /\ WF_cameraVars(Runs("camera") /\ GetFrame)
  /\ \A m \in EngineModels : /\ SF_bootVars(Runs("container") /\ Exports(m))
                              /\ SF_bootVars(Runs("container") /\ BeginEngine(m))
                              /\ SF_bootVars(Runs("container") /\ EndEngine(m))
  /\ SF_bootVars(Runs("container") /\ TritonLoads)
  /\ WF_bootVars(Runs("container") /\ ContainerStep)

FairSpec ==
  /\ FairInit
  /\ [][FairNext]_<<part, vars, latencyVars, modemVars, lifeVars, jobVars,
                    cameraVars, containerVars, streamVars>>
  /\ FairFairness

RadioRefreshes   == Runs("modem") => Refreshes
CameraShowsAll   == Runs("camera") => AllImagesReturn
ContainerComesUp == Runs("container") => ComesUp

===============================================================================
